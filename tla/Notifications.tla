---------------------------- MODULE Notifications ---------------------------
(***************************************************************************)
(* The in-app notifications (internal/notifications): a file per user, a   *)
(* cache of unread counts in memory, and the two callers that reach them   *)
(* without the store's lock around both: the goroutines that deliver what  *)
(* the engine fires (Store.Notify) and Store.FullReset, which removes the  *)
(* files one by one without taking the notification lock and then has the  *)
(* cache cleared under it.                                                 *)
(*                                                                         *)
(* A call under the notification lock is one action.  A user without a     *)
(* file has the same notifications as one with an empty file: none.        *)
(***************************************************************************)
EXTENDS Integers, Sequences, FiniteSets, SequencesExt

CONSTANTS
    Users,      \* the users a notification may go to
    MaxPosts,   \* bound: notifications the engine fires
    MaxFaults,  \* bound: reads and writes of a file that fail
    MaxResets,  \* bound: full resets
    MaxCrashes  \* bound: deaths of the process

ASSUME NotificationsAssumption ==
    /\ MaxPosts \in Nat /\ MaxFaults \in Nat
    /\ MaxResets \in Nat /\ MaxCrashes \in Nat

VARIABLES
    file,       \* file[u]: the saved notifications of u, oldest first
    unreadCache,\* unreadCache[u]: the count the pages show
    fired,      \* notifications whose goroutine has not reached the store yet
    pending,    \* <<n, u>>: a goroutine past the store's lock is to add n for u
    posted,     \* notifications fired so far; n is the n-th of them
    removing,   \* the users whose file a running reset has yet to remove
    resetting,  \* a reset is running
    faults, resets, crashes,
    \* Observer:
    overtaken   \* a fault, or an Add after the removal in a running reset

vars == <<file, unreadCache, fired, pending, posted, removing, resetting, faults,
          resets, crashes, overtaken>>

Posts == 1 .. MaxPosts
Notification == [id : Posts, read : BOOLEAN]

Unread(list) == Cardinality({i \in DOMAIN list : ~list[i].read})
IdsIn(list) == {list[i].id : i \in DOMAIN list}

Init ==
    /\ file = [u \in Users |-> <<>>]
    /\ unreadCache = [u \in Users |-> 0]
    /\ fired = {} /\ pending = {} /\ posted = 0
    /\ removing = {} /\ resetting = FALSE
    /\ faults = 0 /\ resets = 0 /\ crashes = 0
    /\ overtaken = FALSE

-----------------------------------------------------------------------------
(* Files *)

\* What load makes of the file, and how many faults that took: any error of
\* reading or parsing it gives no notification at all.
Loads(u) == {<<file[u], 0>>} \cup (IF faults < MaxFaults THEN {<<<<>>, 1>>} ELSE {})

\* The list is saved, or the save fails; ok tells which.
Save(u, list, loadFaults, ok) ==
    /\ file' = IF ok THEN [file EXCEPT ![u] = list] ELSE file
    /\ faults' = faults + loadFaults + (IF ok THEN 0 ELSE 1)
    /\ faults' <= MaxFaults

\* A fault, or an add that comes between the removal of the file and the end of
\* the reset, leaves the observers' flag up.
Observe(u, adds) ==
    overtaken' = (overtaken \/ faults' > faults
                    \/ (adds /\ resetting /\ u \notin removing))

-----------------------------------------------------------------------------
(* The notification store *)

\* A call under the store's lock, which a reset holds too, fires a notification.
Post ==
    /\ posted < MaxPosts /\ ~resetting
    /\ posted' = posted + 1
    /\ fired' = fired \cup {posted + 1}
    /\ UNCHANGED <<file, unreadCache, pending, removing, resetting, faults,
                   resets, crashes, overtaken>>

\* The goroutine takes the store's lock for reading, gives it back, and then
\* adds the notification for the users of to, in any order.
Notify(n, to) ==
    /\ n \in fired /\ ~resetting
    /\ fired' = fired \ {n}
    /\ pending' = pending \cup {<<n, u>> : u \in to}
    /\ UNCHANGED <<file, unreadCache, posted, removing, resetting, faults,
                   resets, crashes, overtaken>>

\* Mutant: the new notification goes in front.
AddInFront(n, u) ==
    /\ <<n, u>> \in pending
    /\ pending' = pending \ {<<n, u>>}
    /\ \E load \in Loads(u) : \E ok \in BOOLEAN :
          /\ Save(u, <<[id |-> n, read |-> FALSE]>> \o load[1], load[2], ok)
          /\ unreadCache' = [unreadCache EXCEPT ![u] = @ + (IF ok THEN 1 ELSE 0)]
    /\ Observe(u, TRUE)
    /\ UNCHANGED <<fired, posted, removing, resetting, resets, crashes>>

\* Add counts the notification only once it is saved.
Add(n, u) ==
    /\ <<n, u>> \in pending
    /\ pending' = pending \ {<<n, u>>}
    /\ \E load \in Loads(u) : \E ok \in BOOLEAN :
          /\ Save(u, Append(load[1], [id |-> n, read |-> FALSE]), load[2], ok)
          /\ unreadCache' = [unreadCache EXCEPT ![u] = @ + (IF ok THEN 1 ELSE 0)]
    /\ Observe(u, TRUE)
    /\ UNCHANGED <<fired, posted, removing, resetting, resets, crashes>>

\* list with the first notification id that is not read yet (or that is, for
\* MarkUnread) turned; the others as they are.
Turned(list, id, read) ==
    LET hits == {i \in DOMAIN list : list[i].id = id /\ list[i].read # read}
    IN  [i \in DOMAIN list |->
           IF i \in hits /\ \A j \in hits : i <= j
           THEN [list[i] EXCEPT !.read = read] ELSE list[i]]

\* Mutant: a notification that is read already is counted off again.
MarkAgain(u, id, read) ==
    /\ \E load \in Loads(u) : \E ok \in BOOLEAN :
          /\ Save(u, Turned(load[1], id, read), load[2], ok)
          /\ unreadCache' = [unreadCache EXCEPT ![u] =
               @ + (IF id \notin IdsIn(load[1]) THEN 0 ELSE IF read THEN -1 ELSE 1)]
    /\ Observe(u, FALSE)
    /\ UNCHANGED <<fired, pending, posted, removing, resetting, resets, crashes>>

\* MarkRead and MarkUnread count before they save, and keep the count if the
\* save fails.
Mark(u, id, read) ==
    /\ \E load \in Loads(u) : \E ok \in BOOLEAN :
          LET list == Turned(load[1], id, read)
          IN  /\ Save(u, list, load[2], ok)
              /\ unreadCache' =
                   [unreadCache EXCEPT ![u] = @ + Unread(list) - Unread(load[1])]
    /\ Observe(u, FALSE)
    /\ UNCHANGED <<fired, pending, posted, removing, resetting, resets, crashes>>

MarkRead(u, id) == Mark(u, id, TRUE)
MarkUnread(u, id) == Mark(u, id, FALSE)

MarkAllRead(u) ==
    /\ \E load \in Loads(u) : \E ok \in BOOLEAN :
          Save(u, [i \in DOMAIN load[1] |-> [load[1][i] EXCEPT !.read = TRUE]],
               load[2], ok)
    /\ unreadCache' = [unreadCache EXCEPT ![u] = 0]
    /\ Observe(u, FALSE)
    /\ UNCHANGED <<fired, pending, posted, removing, resetting, resets, crashes>>

-----------------------------------------------------------------------------
(* Store.FullReset and the process *)

\* The directory is listed: these files will be removed.
ResetBegins ==
    /\ ~resetting /\ resets < MaxResets
    /\ resetting' = TRUE
    /\ resets' = resets + 1
    /\ removing' = {u \in Users : file[u] # <<>>}
    /\ UNCHANGED <<file, unreadCache, fired, pending, posted, faults, crashes,
                   overtaken>>

ResetRemoves(u) ==
    /\ u \in removing
    /\ removing' = removing \ {u}
    /\ file' = [file EXCEPT ![u] = <<>>]
    /\ UNCHANGED <<unreadCache, fired, pending, posted, resetting, faults, resets,
                   crashes, overtaken>>

ResetClearsCache ==
    /\ resetting /\ removing = {}
    /\ resetting' = FALSE
    /\ unreadCache' = [u \in Users |-> 0]
    /\ UNCHANGED <<file, fired, pending, posted, removing, faults, resets, crashes,
                   overtaken>>

\* The process dies with its goroutines; the next one counts from the files, and
\* shows nothing for those that it cannot read.
CrashAndRestart ==
    /\ crashes < MaxCrashes
    /\ crashes' = crashes + 1
    /\ fired' = {} /\ pending' = {}
    /\ removing' = {} /\ resetting' = FALSE
    /\ \E bad \in SUBSET {u \in Users : file[u] # <<>>} :
          /\ \/ bad = {} /\ UNCHANGED faults
             \/ bad # {} /\ faults < MaxFaults /\ faults' = faults + 1
          /\ unreadCache' = [u \in Users |-> IF u \in bad THEN 0 ELSE Unread(file[u])]
          /\ overtaken' = (bad # {})
    /\ UNCHANGED <<file, posted, resets>>

Next ==
    \/ Post
    \/ \E n \in Posts, to \in SUBSET Users : Notify(n, to)
    \/ \E u \in Users :
          \/ \E n \in Posts : Add(n, u) \/ MarkRead(u, n) \/ MarkUnread(u, n)
          \/ MarkAllRead(u) \/ ResetRemoves(u)
    \/ ResetBegins \/ ResetClearsCache \/ CrashAndRestart

Spec == Init /\ [][Next]_vars

-----------------------------------------------------------------------------
(* Properties *)

\* The count on the pages is the number of unread notifications, in every
\* interleaving of adds, marks and resets and after every restart, unless a file
\* could not be read or written, or an add fell into the gap of a reset.
CountIsExact ==
    ~overtaken /\ ~resetting =>
       \A u \in Users : unreadCache[u] = Unread(file[u])

\* What was added stays, in its place and order, through everything but a reset
\* that removes the file and an error of reading it.
KeptInOrder ==
    [][\A u \in Users :
         \/ faults' # faults
         \/ u \in removing /\ u \notin removing'
         \/ [i \in DOMAIN file[u] |-> file[u][i].id]
               = SubSeq([i \in DOMAIN file'[u] |-> file'[u][i].id], 1, Len(file[u]))]_vars

=============================================================================
