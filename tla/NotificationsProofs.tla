------------------------- MODULE NotificationsProofs ------------------------
(***************************************************************************)
(* Theorems about module Notifications, for every number of users, posts,  *)
(* failed reads and writes, resets and restarts.                           *)
(***************************************************************************)
EXTENDS Notifications, FiniteSetTheorems, SequenceTheorems, TLAPS

-----------------------------------------------------------------------------
(* The inductive invariant *)

Lists == Seq(Notification)

TypeInv ==
    /\ file \in [Users -> Lists] /\ unreadCache \in [Users -> Int]
    /\ removing \subseteq Users /\ (~resetting => removing = {})
    /\ resetting \in BOOLEAN /\ overtaken \in BOOLEAN /\ faults \in Nat

\* In a reset the files that are not to be removed are empty already, and the counts
\* of the others are still right; at its end all are empty.
Counted ==
    ~overtaken =>
       \A u \in Users :
          IF resetting /\ u \notin removing THEN file[u] = <<>>
          ELSE unreadCache[u] = Unread(file[u])

Inv == TypeInv /\ Counted

-----------------------------------------------------------------------------
(* Lists of notifications *)

LEMMA UnreadType ==
    ASSUME NEW list \in Lists
    PROVE  Unread(list) \in Nat
  <1> DEFINE S == {i \in DOMAIN list : ~list[i].read}
  <1>1. DOMAIN list = 1 .. Len(list) /\ Len(list) \in Nat
    BY DEF Lists
  <1>2. IsFiniteSet(1 .. Len(list))
    BY <1>1, FS_Interval
  <1>3. S \in SUBSET (1 .. Len(list))
    BY <1>1
  <1> HIDE DEF S
  <1>4. Cardinality(S) \in Nat
    BY <1>2, <1>3, FS_Subset, FS_CardinalityType
  <1> QED  BY <1>4 DEF Unread, S

LEMMA UnreadEmpty == Unread(<<>>) = 0
  <1>1. {i \in DOMAIN <<>> : ~<<>>[i].read} = {}
    OBVIOUS
  <1> QED  BY <1>1, FS_EmptySet DEF Unread

LEMMA UnreadAppend ==
    ASSUME NEW list \in Lists, NEW n \in Posts
    PROVE  /\ Append(list, [id |-> n, read |-> FALSE]) \in Lists
           /\ Unread(Append(list, [id |-> n, read |-> FALSE])) = Unread(list) + 1
  <1> DEFINE new == [id |-> n, read |-> FALSE]
             more == Append(list, new)
             S == {i \in DOMAIN list : ~list[i].read}
             T == {i \in DOMAIN more : ~more[i].read}
             last == Len(list) + 1
  <1>1. new \in Notification /\ ~new.read
    BY DEF Notification
  <1> HIDE DEF new
  <1>2. /\ more \in Lists /\ Len(more) = last /\ more[last] = new
        /\ \A i \in 1 .. Len(list) : more[i] = list[i]
    BY <1>1, AppendProperties DEF Lists
  <1>3. Len(list) \in Nat /\ DOMAIN list = 1 .. Len(list) /\ DOMAIN more = 1 .. last
    BY <1>2 DEF Lists
  <1> HIDE DEF more
  <1>4. T = S \cup {last} /\ last \notin S
    BY <1>1, <1>2, <1>3
  <1>5. IsFiniteSet(S)
    <2>1. IsFiniteSet(1 .. Len(list)) /\ S \in SUBSET (1 .. Len(list))
      BY <1>3, FS_Interval
    <2> HIDE DEF S
    <2> QED  BY <2>1, FS_Subset
  <1> HIDE DEF S, T, last
  <1>6. Cardinality(T) = Cardinality(S) + 1
    BY <1>4, <1>5, FS_AddElement
  <1>7. Unread(list) = Cardinality(S) /\ Unread(more) = Cardinality(T)
    BY DEF Unread, S, T
  <1> QED  BY <1>2, <1>6, <1>7 DEF more, new

\* The ids of list come first in more, in their order.
Continues(more, list) ==
    /\ Len(list) <= Len(more)
    /\ \A i \in 1 .. Len(list) : more[i].id = list[i].id

IdList(list) == [i \in DOMAIN list |-> list[i].id]

LEMMA ContinuesIds ==
    ASSUME NEW list \in Lists, NEW more \in Lists, Continues(more, list)
    PROVE  IdList(list) = SubSeq(IdList(more), 1, Len(list))
  <1> DEFINE s == IdList(list)
             t == IdList(more)
             n == Len(list)
             part == SubSeq(t, 1, n)
  <1>1. n \in Nat /\ DOMAIN list = 1 .. n /\ DOMAIN more = 1 .. Len(more)
        /\ Len(more) \in Nat /\ n <= Len(more)
    BY DEF Lists, Continues
  <1>2. s = [i \in 1 .. n |-> list[i].id]
    BY <1>1 DEF IdList
  <1>3. \A i \in 1 .. n : t[i] = more[i].id
    BY <1>1 DEF IdList
  <1>4. \A i \in 1 .. n : more[i] \in Notification
    BY <1>1 DEF Lists
  <1>5. \A i \in 1 .. n : t[i] \in Posts
    BY <1>3, <1>4 DEF Notification
  <1> HIDE DEF s, t, n
  <1>6. part \in Seq(Posts) /\ Len(part) = n /\ \A i \in 1 .. n : part[i] = t[i]
    BY <1>1, <1>5, SubSeqProperties
  <1> HIDE DEF part
  <1>7. DOMAIN part = 1 .. n /\ part = [i \in 1 .. n |-> part[i]]
    BY <1>6
  <1>8. \A i \in 1 .. n : part[i] = list[i].id
    BY <1>3, <1>6 DEF Continues, n
  <1>9. s = part
    BY <1>2, <1>7, <1>8
  <1> QED  BY <1>9 DEF s, part, t, n

LEMMA ContinuesItself ==
    ASSUME NEW list \in Lists
    PROVE  Continues(list, list)
  BY DEF Continues, Lists

LEMMA AppendContinues ==
    ASSUME NEW list \in Lists, NEW n \in Posts
    PROVE  Continues(Append(list, [id |-> n, read |-> FALSE]), list)
  BY DEF Continues, Lists, Notification

\* Turning a notification, or all, keeps every id where it is.
LEMMA TurnedContinues ==
    ASSUME NEW list \in Lists, NEW id \in Posts, NEW read \in BOOLEAN
    PROVE  Turned(list, id, read) \in Lists /\ Continues(Turned(list, id, read), list)
  <1> DEFINE t == Turned(list, id, read)
             n == Len(list)
  <1>1. n \in Nat /\ DOMAIN list = 1 .. n /\ \A i \in 1 .. n : list[i] \in Notification
    BY DEF Lists
  <1>2. DOMAIN t = 1 .. n
    BY <1>1 DEF Turned
  <1>3. \A i \in 1 .. n : t[i] = list[i] \/ t[i] = [list[i] EXCEPT !.read = read]
    BY <1>1 DEF Turned
  <1>4. t = [i \in 1 .. n |-> t[i]]
    BY <1>1 DEF Turned
  <1> HIDE DEF t
  <1>5. \A i \in 1 .. n : t[i] \in Notification /\ t[i].id = list[i].id
    BY <1>1, <1>3 DEF Notification
  <1>6. t \in Lists /\ Len(t) = n
    BY <1>1, <1>2, <1>4, <1>5 DEF Lists
  <1> QED  BY <1>1, <1>5, <1>6 DEF Continues, t

AllRead(list) == [i \in DOMAIN list |-> [list[i] EXCEPT !.read = TRUE]]

LEMMA AllReadContinues ==
    ASSUME NEW list \in Lists
    PROVE  AllRead(list) \in Lists /\ Continues(AllRead(list), list) /\ Unread(AllRead(list)) = 0
  <1> DEFINE t == AllRead(list)
             n == Len(list)
  <1>1. n \in Nat /\ DOMAIN list = 1 .. n /\ \A i \in 1 .. n : list[i] \in Notification
    BY DEF Lists
  <1>2. DOMAIN t = 1 .. n /\ t = [i \in 1 .. n |-> t[i]]
    BY <1>1 DEF AllRead
  <1>3. \A i \in 1 .. n : t[i] = [list[i] EXCEPT !.read = TRUE]
    BY <1>1 DEF AllRead
  <1> HIDE DEF t
  <1>4. \A i \in 1 .. n : t[i] \in Notification /\ t[i].id = list[i].id /\ t[i].read
    BY <1>1, <1>3 DEF Notification
  <1>5. t \in Lists /\ Len(t) = n
    BY <1>1, <1>2, <1>4 DEF Lists
  <1>6. {i \in DOMAIN t : ~t[i].read} = {}
    BY <1>2, <1>4
  <1>7. Unread(t) = 0
    BY <1>6, FS_EmptySet DEF Unread
  <1> QED  BY <1>1, <1>4, <1>5, <1>7 DEF Continues, t

-----------------------------------------------------------------------------
(* Steps *)

\* What a step leaves of the lists: they are continued, but for a removal or a fault.
Keeps ==
    \A u \in Users :
       \/ faults' # faults
       \/ u \in removing /\ u \notin removing'
       \/ Continues(file'[u], file[u])

LEMMA LoadsType ==
    ASSUME TypeInv, NEW u \in Users, NEW load \in Loads(u)
    PROVE  /\ load[1] \in Lists /\ load[2] \in Nat
           /\ load[2] = 0 => load[1] = file[u]
  <1>1. file[u] \in Lists /\ <<>> \in Lists
    BY DEF TypeInv, Lists
  <1>2. load = <<file[u], 0>> \/ load = <<<<>>, 1>>
    BY DEF Loads
  <1> QED  BY <1>1, <1>2

\* A call that reads and saves the list of u, whatever fails.
LEMMA SaveKeeps ==
    ASSUME TypeInv, NEW u \in Users, NEW load \in Loads(u), NEW list \in Lists,
           NEW ok \in BOOLEAN, Save(u, list, load[2], ok), Continues(list, load[1]),
           removing' = removing
    PROVE  /\ file' \in [Users -> Lists] /\ faults' \in Nat /\ ~(faults' < faults)
           /\ faults' = faults => ok /\ load[1] = file[u] /\ file' = [file EXCEPT ![u] = list]
           /\ Keeps
  <1>1. load[1] \in Lists /\ load[2] \in Nat /\ (load[2] = 0 => load[1] = file[u])
    BY LoadsType
  <1>2. file \in [Users -> Lists] /\ faults \in Nat
    BY DEF TypeInv
  <1>3. CASE ok
    <2>1. file' = [file EXCEPT ![u] = list] /\ faults' = faults + load[2]
      BY <1>1, <1>2, <1>3 DEF Save
    <2>2. faults' \in Nat /\ ~(faults' < faults) /\ (faults' = faults => load[2] = 0)
      BY <1>1, <1>2, <2>1
    <2>3. file' \in [Users -> Lists]
      BY <1>2, <2>1
    <2>4. Keeps
      <3> SUFFICES ASSUME NEW v \in Users, faults' = faults
                   PROVE  Continues(file'[v], file[v])
        BY DEF Keeps
      <3>1. CASE v = u
        BY <1>1, <1>2, <2>1, <2>2, <3>1
      <3>2. CASE v # u
        <4>1. file'[v] = file[v] /\ file[v] \in Lists
          BY <1>2, <2>1, <3>2
        <4> QED  BY <4>1, ContinuesItself
      <3> QED  BY <3>1, <3>2
    <2> QED  BY <1>1, <1>3, <2>1, <2>2, <2>3, <2>4
  <1>4. CASE ~ok
    <2>1. file' = file /\ faults' = faults + load[2] + 1
      BY <1>1, <1>2, <1>4 DEF Save
    <2>2. faults' \in Nat /\ ~(faults' < faults) /\ faults' # faults
      BY <1>1, <1>2, <2>1
    <2> QED  BY <1>2, <2>1, <2>2 DEF Keeps
  <1> QED  BY <1>3, <1>4

LEMMA Observed ==
    ASSUME TypeInv, NEW u, NEW adds \in BOOLEAN, Observe(u, adds), faults' \in Nat,
           ~(faults' < faults)
    PROVE  /\ overtaken' \in BOOLEAN
           /\ ~overtaken' => ~overtaken /\ faults' = faults
                             /\ ~(adds /\ resetting /\ u \notin removing)
  <1>1. overtaken' = (overtaken \/ faults' > faults
                        \/ (adds /\ resetting /\ u \notin removing))
    BY DEF Observe
  <1>2. faults \in Nat
    BY DEF TypeInv
  <1>3. overtaken' \in BOOLEAN
    BY <1>1, Zenon
  <1>4. ~overtaken' => ~overtaken /\ ~(faults' > faults)
                       /\ ~(adds /\ resetting /\ u \notin removing)
    BY <1>1, Zenon
  <1>5. ~(faults' > faults) => faults' = faults
    BY <1>2
  <1> QED  BY <1>3, <1>4, <1>5

LEMMA AddStep ==
    ASSUME Inv, NEW n \in Posts, NEW u \in Users, Add(n, u)
    PROVE  Inv' /\ Keeps
  <1> DEFINE new == [id |-> n, read |-> FALSE]
  <1>1. PICK load \in Loads(u), ok \in BOOLEAN :
           /\ Save(u, Append(load[1], new), load[2], ok)
           /\ unreadCache' = [unreadCache EXCEPT ![u] = @ + (IF ok THEN 1 ELSE 0)]
    BY DEF Add
  <1> DEFINE list == Append(load[1], new)
  <1>2. TypeInv /\ load[1] \in Lists /\ removing' = removing /\ resetting' = resetting
        /\ Observe(u, TRUE)
    BY LoadsType DEF Inv, Add
  <1>3. list \in Lists /\ Unread(list) = Unread(load[1]) + 1 /\ Continues(list, load[1])
    BY <1>2, UnreadAppend, AppendContinues
  <1>4. Save(u, list, load[2], ok)
    BY <1>1
  <1> HIDE DEF list, new
  <1>5. /\ file' \in [Users -> Lists] /\ faults' \in Nat /\ ~(faults' < faults)
        /\ faults' = faults => ok /\ load[1] = file[u] /\ file' = [file EXCEPT ![u] = list]
        /\ Keeps
    BY <1>2, <1>3, <1>4, SaveKeeps
  <1>6. /\ overtaken' \in BOOLEAN
        /\ ~overtaken' => ~overtaken /\ faults' = faults /\ ~(resetting /\ u \notin removing)
    BY <1>2, <1>5, Observed
  <1>7. unreadCache' \in [Users -> Int]
    BY <1>1, <1>2 DEF TypeInv
  <1>8. TypeInv'
    BY <1>2, <1>5, <1>6, <1>7 DEF TypeInv
  <1>9. Counted'
    <2> SUFFICES ASSUME ~overtaken', NEW v \in Users
                 PROVE  IF resetting /\ v \notin removing THEN file'[v] = <<>>
                        ELSE unreadCache'[v] = Unread(file'[v])
      BY <1>2 DEF Counted
    <2>1. /\ ~overtaken /\ ok /\ load[1] = file[u] /\ file' = [file EXCEPT ![u] = list]
          /\ ~(resetting /\ u \notin removing)
      BY <1>5, <1>6
    <2>2. CASE v = u
      <3>1. unreadCache[u] = Unread(file[u])
        BY <2>1 DEF Inv, Counted
      <3>2. file'[u] = list /\ unreadCache'[u] = unreadCache[u] + 1
        BY <1>1, <1>2, <2>1 DEF TypeInv
      <3> QED  BY <1>3, <2>1, <2>2, <3>1, <3>2
    <2>3. CASE v # u
      <3>1. file'[v] = file[v] /\ unreadCache'[v] = unreadCache[v]
        BY <1>1, <1>2, <2>1, <2>3 DEF TypeInv
      <3> QED  BY <2>1, <3>1 DEF Inv, Counted
    <2> QED  BY <2>2, <2>3
  <1> QED  BY <1>5, <1>8, <1>9 DEF Inv

LEMMA MarkStep ==
    ASSUME Inv, NEW u \in Users, NEW id \in Posts, NEW read \in BOOLEAN, Mark(u, id, read)
    PROVE  Inv' /\ Keeps
  <1>1. PICK load \in Loads(u), ok \in BOOLEAN :
           /\ Save(u, Turned(load[1], id, read), load[2], ok)
           /\ unreadCache' = [unreadCache EXCEPT
                ![u] = @ + Unread(Turned(load[1], id, read)) - Unread(load[1])]
    BY DEF Mark
  <1> DEFINE list == Turned(load[1], id, read)
  <1>2. TypeInv /\ load[1] \in Lists /\ removing' = removing /\ resetting' = resetting
        /\ Observe(u, FALSE)
    BY LoadsType DEF Inv, Mark
  <1>3. list \in Lists /\ Continues(list, load[1])
    BY <1>2, TurnedContinues
  <1>4. Save(u, list, load[2], ok)
    BY <1>1
  <1>5. load[1] = <<>> => list = <<>>
    BY DEF Turned
  <1>6. unreadCache' = [unreadCache EXCEPT ![u] = @ + Unread(list) - Unread(load[1])]
    BY <1>1
  <1> HIDE DEF list
  <1>7. /\ file' \in [Users -> Lists] /\ faults' \in Nat /\ ~(faults' < faults)
        /\ faults' = faults => ok /\ load[1] = file[u] /\ file' = [file EXCEPT ![u] = list]
        /\ Keeps
    BY <1>2, <1>3, <1>4, SaveKeeps
  <1>8. /\ overtaken' \in BOOLEAN
        /\ ~overtaken' => ~overtaken /\ faults' = faults
    BY <1>2, <1>7, Observed
  <1>9. Unread(list) \in Nat /\ Unread(load[1]) \in Nat
    BY <1>2, <1>3, UnreadType
  <1>10. unreadCache' \in [Users -> Int]
    BY <1>6, <1>9, <1>2 DEF TypeInv
  <1>11. TypeInv'
    BY <1>2, <1>7, <1>8, <1>10 DEF TypeInv
  <1>12. Counted'
    <2> SUFFICES ASSUME ~overtaken', NEW v \in Users
                 PROVE  IF resetting /\ v \notin removing THEN file'[v] = <<>>
                        ELSE unreadCache'[v] = Unread(file'[v])
      BY <1>2 DEF Counted
    <2>1. ~overtaken /\ load[1] = file[u] /\ file' = [file EXCEPT ![u] = list]
      BY <1>7, <1>8
    <2>2. CASE v = u
      <3>1. IF resetting /\ u \notin removing THEN file[u] = <<>>
            ELSE unreadCache[u] = Unread(file[u])
        BY <2>1 DEF Inv, Counted
      <3>2. file'[u] = list
            /\ unreadCache'[u] = unreadCache[u] + Unread(list) - Unread(load[1])
        BY <1>6, <1>2, <2>1 DEF TypeInv
      <3>3. CASE resetting /\ u \notin removing
        BY <1>5, <2>1, <2>2, <3>1, <3>2, <3>3
      <3>4. CASE ~(resetting /\ u \notin removing)
        <4>1. unreadCache[u] = Unread(load[1])
          BY <2>1, <3>1, <3>4
        <4>2. unreadCache'[u] = Unread(file'[u])
          BY <1>9, <3>2, <4>1
        <4> QED  BY <2>2, <3>4, <4>2
      <3> QED  BY <3>3, <3>4
    <2>3. CASE v # u
      <3>1. file'[v] = file[v] /\ unreadCache'[v] = unreadCache[v]
        BY <1>6, <1>2, <2>1, <2>3 DEF TypeInv
      <3> QED  BY <2>1, <3>1 DEF Inv, Counted
    <2> QED  BY <2>2, <2>3
  <1> QED  BY <1>7, <1>11, <1>12 DEF Inv

LEMMA MarkAllReadStep ==
    ASSUME Inv, NEW u \in Users, MarkAllRead(u)
    PROVE  Inv' /\ Keeps
  <1>1. PICK load \in Loads(u), ok \in BOOLEAN : Save(u, AllRead(load[1]), load[2], ok)
    BY DEF MarkAllRead, AllRead
  <1> DEFINE list == AllRead(load[1])
  <1>2. TypeInv /\ load[1] \in Lists /\ removing' = removing /\ resetting' = resetting
        /\ unreadCache' = [unreadCache EXCEPT ![u] = 0] /\ Observe(u, FALSE)
    BY LoadsType DEF Inv, MarkAllRead
  <1>3. list \in Lists /\ Continues(list, load[1]) /\ Unread(list) = 0
    BY <1>2, AllReadContinues
  <1>4. load[1] = <<>> => list = <<>>
    BY DEF AllRead
  <1>5. Save(u, list, load[2], ok)
    BY <1>1
  <1> HIDE DEF list
  <1>6. /\ file' \in [Users -> Lists] /\ faults' \in Nat /\ ~(faults' < faults)
        /\ faults' = faults => ok /\ load[1] = file[u] /\ file' = [file EXCEPT ![u] = list]
        /\ Keeps
    BY <1>2, <1>3, <1>5, SaveKeeps
  <1>7. /\ overtaken' \in BOOLEAN
        /\ ~overtaken' => ~overtaken /\ faults' = faults
    BY <1>2, <1>6, Observed
  <1>8. TypeInv'
    <2>1. unreadCache' \in [Users -> Int]
      BY <1>2 DEF TypeInv
    <2> QED  BY <1>2, <1>6, <1>7, <2>1 DEF TypeInv
  <1>9. Counted'
    <2> SUFFICES ASSUME ~overtaken', NEW v \in Users
                 PROVE  IF resetting /\ v \notin removing THEN file'[v] = <<>>
                        ELSE unreadCache'[v] = Unread(file'[v])
      BY <1>2 DEF Counted
    <2>1. ~overtaken /\ load[1] = file[u] /\ file' = [file EXCEPT ![u] = list]
      BY <1>6, <1>7
    <2>2. CASE v = u
      <3>1. resetting /\ u \notin removing => file[u] = <<>>
        BY <2>1 DEF Inv, Counted
      <3>2. file'[u] = list /\ unreadCache'[u] = 0
        BY <1>2, <2>1 DEF TypeInv
      <3> QED  BY <1>3, <1>4, <2>1, <2>2, <3>1, <3>2
    <2>3. CASE v # u
      <3>1. file'[v] = file[v] /\ unreadCache'[v] = unreadCache[v]
        BY <1>2, <2>1, <2>3 DEF TypeInv
      <3> QED  BY <2>1, <3>1 DEF Inv, Counted
    <2> QED  BY <2>2, <2>3
  <1> QED  BY <1>6, <1>8, <1>9 DEF Inv

\* The steps that leave the files alone, or remove one.
LEMMA FilesAlone ==
    ASSUME TypeInv, file' = file
    PROVE  Keeps
  BY ContinuesItself DEF TypeInv, Keeps

LEMMA ResetBeginsStep ==
    ASSUME Inv, ResetBegins
    PROVE  Inv' /\ Keeps
  <1>1. /\ ~resetting /\ resetting' = TRUE /\ removing' = {u \in Users : file[u] # <<>>}
        /\ UNCHANGED <<file, unreadCache, faults, overtaken>>
    BY DEF ResetBegins
  <1>2. TypeInv'
    BY <1>1 DEF Inv, TypeInv
  <1>3. Counted'
    BY <1>1 DEF Inv, Counted
  <1> QED  BY <1>1, <1>2, <1>3, FilesAlone DEF Inv

LEMMA ResetRemovesStep ==
    ASSUME Inv, NEW u \in Users, ResetRemoves(u)
    PROVE  Inv' /\ Keeps
  <1>1. /\ u \in removing /\ removing' = removing \ {u} /\ file' = [file EXCEPT ![u] = <<>>]
        /\ UNCHANGED <<unreadCache, resetting, faults, overtaken>>
    BY DEF ResetRemoves
  <1>2. TypeInv
    BY DEF Inv
  <1>3. <<>> \in Lists
    BY DEF Lists
  <1>4. TypeInv'
    BY <1>1, <1>2, <1>3 DEF TypeInv
  <1>5. resetting
    BY <1>1, <1>2 DEF TypeInv
  <1>6. file'[u] = <<>> /\ \A v \in Users \ {u} : file'[v] = file[v]
    BY <1>1, <1>2 DEF TypeInv
  <1>7. Counted'
    BY <1>1, <1>5, <1>6 DEF Inv, Counted
  <1>8. Keeps
    BY <1>1, <1>2, <1>6, ContinuesItself DEF TypeInv, Keeps
  <1> QED  BY <1>4, <1>7, <1>8 DEF Inv

LEMMA ResetClearsCacheStep ==
    ASSUME Inv, ResetClearsCache
    PROVE  Inv' /\ Keeps
  <1>1. /\ resetting /\ removing = {} /\ resetting' = FALSE
        /\ unreadCache' = [u \in Users |-> 0]
        /\ UNCHANGED <<file, removing, faults, overtaken>>
    BY DEF ResetClearsCache
  <1>2. unreadCache' \in [Users -> Int]
    BY <1>1
  <1>3. TypeInv'
    BY <1>1, <1>2 DEF Inv, TypeInv
  <1>4. Counted'
    BY <1>1, UnreadEmpty DEF Inv, Counted
  <1> QED  BY <1>1, <1>3, <1>4, FilesAlone DEF Inv

LEMMA CrashStep ==
    ASSUME Inv, CrashAndRestart
    PROVE  Inv' /\ Keeps
  <1>1. PICK bad \in SUBSET Users :
          /\ faults' = faults \/ faults' = faults + 1
          /\ unreadCache' = [u \in Users |-> IF u \in bad THEN 0 ELSE Unread(file[u])]
          /\ overtaken' = (bad # {})
    BY DEF CrashAndRestart
  <1>2. removing' = {} /\ resetting' = FALSE /\ file' = file
    BY DEF CrashAndRestart
  <1>3. unreadCache' \in [Users -> Int]
    BY <1>1, UnreadType DEF Inv, TypeInv
  <1>4. faults' \in Nat
    BY <1>1 DEF Inv, TypeInv
  <1>5. overtaken' \in BOOLEAN
    BY <1>1, Zenon
  <1>6. TypeInv'
    BY <1>2, <1>3, <1>4, <1>5 DEF Inv, TypeInv
  <1>7. Counted'
    BY <1>1, <1>2 DEF Counted
  <1> QED  BY <1>2, <1>6, <1>7, FilesAlone DEF Inv

LEMMA OtherStep ==
    ASSUME Inv, UNCHANGED <<file, unreadCache, removing, resetting, overtaken, faults>>
    PROVE  Inv' /\ Keeps
  <1>1. TypeInv' /\ Counted'
    BY DEF Inv, TypeInv, Counted
  <1> QED  BY <1>1, FilesAlone DEF Inv

LEMMA InitInv == Init => Inv
  <1> SUFFICES ASSUME Init PROVE Inv
    OBVIOUS
  <1>1. /\ file = [u \in Users |-> <<>>] /\ unreadCache = [u \in Users |-> 0]
        /\ removing = {} /\ resetting = FALSE /\ faults = 0 /\ overtaken = FALSE
    BY DEF Init
  <1>2. <<>> \in Lists
    BY DEF Lists
  <1>3. unreadCache \in [Users -> Int] /\ file \in [Users -> Lists]
    BY <1>1, <1>2
  <1>4. TypeInv
    BY <1>1, <1>3 DEF TypeInv
  <1>5. Counted
    BY <1>1, UnreadEmpty DEF Counted
  <1> QED  BY <1>4, <1>5 DEF Inv

LEMMA NextStep ==
    ASSUME Inv, [Next]_vars
    PROVE  Inv' /\ Keeps
  <1>1. CASE Post \/ \E n \in Posts, to \in SUBSET Users : Notify(n, to)
    BY <1>1, OtherStep DEF Post, Notify
  <1>2. ASSUME NEW u \in Users, NEW n \in Posts, MarkRead(u, n) \/ MarkUnread(u, n)
        PROVE  Inv' /\ Keeps
    BY <1>2, MarkStep DEF MarkRead, MarkUnread
  <1>3. CASE UNCHANGED vars
    BY <1>3, OtherStep DEF vars
  <1> QED  BY <1>1, <1>2, <1>3, AddStep, MarkAllReadStep, ResetBeginsStep,
           ResetRemovesStep, ResetClearsCacheStep, CrashStep DEF Next

LEMMA AlwaysInv == Spec => []Inv
  <1>1. Inv /\ [Next]_vars => Inv'
    BY NextStep
  <1> QED  BY <1>1, InitInv, PTL DEF Spec

-----------------------------------------------------------------------------
(* What follows from it *)

\* CountIsExact: the count on the pages is the number of unread notifications in the
\* file, but for a fault or an add in the gap of a reset.
THEOREM CountsAreExact == Spec => []CountIsExact
  <1>1. Inv => CountIsExact
    BY DEF Inv, Counted, CountIsExact
  <1> QED  BY <1>1, AlwaysInv, PTL

Kept ==
    \A u \in Users :
       \/ faults' # faults
       \/ u \in removing /\ u \notin removing'
       \/ [i \in DOMAIN file[u] |-> file[u][i].id]
             = SubSeq([i \in DOMAIN file'[u] |-> file'[u][i].id], 1, Len(file[u]))

\* KeptInOrder: no step takes a notification away or moves it, but the removal of the
\* file in a reset and an error of reading it.
THEOREM NotificationsStay == Spec => KeptInOrder
  <1>1. Inv /\ Inv' /\ Keeps => Kept
    <2> SUFFICES ASSUME Inv, Inv', NEW u \in Users, Continues(file'[u], file[u])
                 PROVE  [i \in DOMAIN file[u] |-> file[u][i].id]
                          = SubSeq([i \in DOMAIN file'[u] |-> file'[u][i].id],
                                   1, Len(file[u]))
      BY DEF Keeps, Kept
    <2>1. file[u] \in Lists /\ file'[u] \in Lists
      BY DEF Inv, TypeInv
    <2> QED  BY <2>1, ContinuesIds DEF IdList
  <1>2. Inv /\ [Next]_vars => [Kept]_vars
    BY <1>1, NextStep
  <1>3. KeptInOrder <=> [][Kept]_vars
    BY DEF KeptInOrder, Kept
  <1> QED  BY <1>2, <1>3, AlwaysInv, PTL DEF Spec
=============================================================================
