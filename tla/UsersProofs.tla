----------------------------- MODULE UsersProofs ----------------------------
(***************************************************************************)
(* Theorems about module Users, for every number of accounts, addresses,   *)
(* requests, failed saves and deaths of the process.                       *)
(***************************************************************************)
EXTENDS Users, FiniteSetTheorems, TLAPS

-----------------------------------------------------------------------------
(* The inductive invariant *)

Accounts == [Ids -> Account \cup {Absent}]

RequestType ==
    {Idle} \cup [at : {"setup"}] \cup [at : {"admin"}, by : Ids]
    \cup [at : {"profile"}, by : Ids, as : Account]

RefresherType == {Idle} \cup [at : {"begun"}] \cup [at : {"read"}, ids : SUBSET Ids]

TypeInv ==
    /\ users \in Accounts /\ file \in Accounts
    /\ born \subseteq Ids /\ gone \subseteq Ids /\ adminIDs \subseteq Ids
    /\ request \in [Requests -> RequestType]
    /\ refresher \in [Refreshers -> RefresherType]
    /\ faults \in Nat /\ overlapped \in BOOLEAN

\* No address has two owners, and only ids that were given have an account.
OneOwner(accounts) ==
    \A x, y \in Known(accounts) : accounts[x].email = accounts[y].email => x = y

Stored ==
    /\ byEmail = Index(users)
    /\ OneOwner(users) /\ OneOwner(file)
    /\ Known(users) \subseteq born /\ Known(file) \subseteq born

\* An id that is gone was given before, so no creation gives it again.
Departed ==
    /\ gone \subseteq born
    /\ \A id \in gone : users[id] = Absent /\ file[id] = Absent

Rules(accounts, id) ==
    id \in Known(accounts) /\ accounts[id].active /\ accounts[id].role = "admin"

Administered(accounts) ==
    Known(accounts) # {} => \E id \in Ids : Rules(accounts, id)

\* What a request that is alone has seen is still so.
StillSo(r) ==
    /\ request[r].at = "setup" => Known(users) = {}
    /\ request[r].at = "admin" => Rules(users, request[r].by)
    /\ request[r].at = "profile" => users[request[r].by] = request[r].as

OneByOne ==
    ~overlapped =>
       /\ \A r, q \in Requests : request[r] # Idle /\ request[q] # Idle => r = q
       /\ \A r \in Requests : StillSo(r)
       /\ Administered(users) /\ Administered(file)

Inv == TypeInv /\ Stored /\ Departed /\ OneByOne

\* While no refresh is outrun, what it has read is still so, and a copy that is not the
\* administrators' has a refresh on its way.
CopyKept ==
    faults = 0 /\ ~outrun =>
       /\ \A g \in Refreshers : refresher[g].at = "read" => refresher[g].ids = AdminIDs
       /\ adminIDs = AdminIDs \/ \E g \in Refreshers : refresher[g] # Idle

-----------------------------------------------------------------------------
(* Accounts and the index of their addresses *)

LEMMA AbsentIsNone == Absent \notin Account
  BY DEF Absent, Account

LEMMA KnownAccount ==
    ASSUME NEW a \in Accounts, NEW id \in Ids
    PROVE  /\ a[id] \in Account \cup {Absent}
           /\ id \in Known(a) <=> a[id] # Absent
           /\ id \in Known(a) => a[id] \in Account /\ a[id].email \in Emails
  BY AbsentIsNone DEF Accounts, Known, Account

LEMMA NobodyIsFit ==
    /\ Nobody \in Accounts /\ Known(Nobody) = {} /\ OneOwner(Nobody)
    /\ \A id \in Ids : Nobody[id] = Absent
  BY DEF Nobody, Accounts, Known, OneOwner

LEMMA IndexOf ==
    ASSUME NEW a, NEW e \in Emails, NEW id
    PROVE  id \in Index(a)[e] <=> id \in Known(a) /\ a[id].email = e
  BY DEF Index, Known

LEMMA IndexType ==
    ASSUME NEW a
    PROVE  Index(a) \in [Emails -> SUBSET Ids]
  BY DEF Index, Known

\* Two indexes are the same if every address has the same owners in both.
Indexes(f, a) ==
    \A e \in Emails : \A id \in Ids : id \in f[e] <=> id \in Known(a) /\ a[id].email = e

LEMMA SameIndex ==
    ASSUME NEW a, NEW f \in [Emails -> SUBSET Ids], Indexes(f, a)
    PROVE  f = Index(a)
  <1>1. \A e \in Emails : f[e] = Index(a)[e]
    <2> SUFFICES ASSUME NEW e \in Emails PROVE f[e] = Index(a)[e]
      OBVIOUS
    <2>1. f[e] \subseteq Ids /\ Index(a)[e] \subseteq Ids
      BY IndexType
    <2>2. \A id \in Ids : id \in f[e] <=> id \in Index(a)[e]
      BY IndexOf DEF Indexes
    <2> QED  BY <2>1, <2>2
  <1> QED  BY <1>1, IndexType

Put(a, id, x) == [a EXCEPT ![id] = x]

Free(a, id, email) == \A other \in Known(a) \ {id} : a[other].email # email

\* One account written, under an address that nobody else has.
LEMMA OneWritten ==
    ASSUME NEW a \in Accounts, NEW id \in Ids, NEW account \in Account,
           OneOwner(a), Free(a, id, account.email)
    PROVE  /\ Put(a, id, account) \in Accounts /\ OneOwner(Put(a, id, account))
           /\ Known(Put(a, id, account)) = Known(a) \cup {id}
           /\ \A other \in Ids : other # id => Put(a, id, account)[other] = a[other]
  <1> DEFINE b == Put(a, id, account)
  <1>1. b \in Accounts
    BY DEF Accounts, Put
  <1>2. b[id] = account /\ \A other \in Ids : other # id => b[other] = a[other]
    BY DEF Accounts, Put
  <1> HIDE DEF b
  <1>3. Known(b) = Known(a) \cup {id}
    BY <1>2, AbsentIsNone DEF Known
  <1>4. OneOwner(b)
    <2> SUFFICES ASSUME NEW x \in Known(b), NEW y \in Known(b), b[x].email = b[y].email
                 PROVE  x = y
      BY DEF OneOwner
    <2>1. x \in Ids /\ y \in Ids
      BY DEF Known
    <2> QED  BY <1>2, <1>3, <2>1 DEF OneOwner, Free
  <1> QED  BY <1>1, <1>2, <1>3, <1>4 DEF b

LEMMA OneRemoved ==
    ASSUME NEW a \in Accounts, NEW id \in Ids, OneOwner(a)
    PROVE  /\ Put(a, id, Absent) \in Accounts /\ OneOwner(Put(a, id, Absent))
           /\ Known(Put(a, id, Absent)) = Known(a) \ {id}
           /\ Put(a, id, Absent)[id] = Absent
           /\ \A other \in Ids : other # id => Put(a, id, Absent)[other] = a[other]
  <1> DEFINE b == Put(a, id, Absent)
  <1>1. b \in Accounts
    BY DEF Accounts, Put
  <1>2. b[id] = Absent /\ \A other \in Ids : other # id => b[other] = a[other]
    BY DEF Accounts, Put
  <1> HIDE DEF b
  <1>3. Known(b) = Known(a) \ {id}
    BY <1>2 DEF Known
  <1>4. OneOwner(b)
    BY <1>2, <1>3 DEF OneOwner, Known
  <1> QED  BY <1>1, <1>2, <1>3, <1>4 DEF b

\* The second map follows each of the calls.
LEMMA IndexAfterCreate ==
    ASSUME NEW a \in Accounts, NEW id \in Ids, NEW account \in Account,
           a[id] = Absent, Index(a)[account.email] = {},
           NEW b, b = [a EXCEPT ![id] = account]
    PROVE  [Index(a) EXCEPT ![account.email] = {id}] = Index(b)
  <1> DEFINE f == [Index(a) EXCEPT ![account.email] = {id}]
  <1>1. account.email \in Emails
    BY DEF Account
  <1>2. f \in [Emails -> SUBSET Ids]
    BY <1>1, IndexType
  <1>3. \A other \in Ids : b[other] = IF other = id THEN account ELSE a[other]
    BY DEF Accounts
  <1>4. Known(b) = Known(a) \cup {id} /\ id \notin Known(a)
    BY <1>3, AbsentIsNone DEF Known
  <1>5. ASSUME NEW e \in Emails, NEW o \in Ids
        PROVE  o \in f[e] <=> o \in Known(b) /\ b[o].email = e
    <2>1. CASE e = account.email
      <3>1. f[e] = {id}
        BY <1>1, <2>1, IndexType
      <3>2. \A x \in Known(a) : a[x].email # e
        BY <1>1, <2>1, IndexOf
      <3> QED  BY <1>3, <1>4, <2>1, <3>1, <3>2
    <2>2. CASE e # account.email
      <3>1. f[e] = Index(a)[e]
        BY <1>1, <2>2, IndexType
      <3>2. o \in f[e] <=> o \in Known(a) /\ a[o].email = e
        BY <3>1, IndexOf
      <3> QED  BY <1>3, <1>4, <2>2, <3>2
    <2> QED  BY <2>1, <2>2
  <1> HIDE DEF f
  <1>6. f = Index(b)
    <2>1. Indexes(f, b)
      BY <1>5, Zenon DEF Indexes
    <2> QED  BY <1>2, <2>1, SameIndex
  <1> QED  BY <1>6 DEF f

LEMMA IndexAfterDelete ==
    ASSUME NEW a \in Accounts, NEW id \in Known(a), OneOwner(a),
           NEW b, b = [a EXCEPT ![id] = Absent]
    PROVE  [Index(a) EXCEPT ![a[id].email] = {}] = Index(b)
  <1> DEFINE f == [Index(a) EXCEPT ![a[id].email] = {}]
  <1>1. id \in Ids /\ a[id].email \in Emails
    BY KnownAccount DEF Known
  <1>2. f \in [Emails -> SUBSET Ids]
    BY <1>1, IndexType
  <1>3. \A other \in Ids : b[other] = IF other = id THEN Absent ELSE a[other]
    BY DEF Accounts
  <1>4. Known(b) = Known(a) \ {id}
    BY <1>3 DEF Known
  <1>5. ASSUME NEW e \in Emails, NEW o \in Ids
        PROVE  o \in f[e] <=> o \in Known(b) /\ b[o].email = e
    <2>1. CASE e = a[id].email
      <3>1. f[e] = {}
        BY <1>1, <2>1, IndexType
      <3>2. \A x \in Known(b) : b[x].email # e
        BY <1>3, <1>4, <2>1 DEF OneOwner, Known
      <3> QED  BY <3>1, <3>2
    <2>2. CASE e # a[id].email
      <3>1. f[e] = Index(a)[e]
        BY <1>1, <2>2, IndexType
      <3>2. o \in f[e] <=> o \in Known(a) /\ a[o].email = e
        BY <3>1, IndexOf
      <3> QED  BY <1>3, <1>4, <2>2, <3>2
    <2> QED  BY <2>1, <2>2
  <1> HIDE DEF f
  <1>6. f = Index(b)
    <2>1. Indexes(f, b)
      BY <1>5, Zenon DEF Indexes
    <2> QED  BY <1>2, <2>1, SameIndex
  <1> QED  BY <1>6 DEF f

LEMMA IndexAfterUpdate ==
    ASSUME users \in Accounts, NEW id \in Known(users), NEW account \in Account,
           OneOwner(users), byEmail = Index(users),
           account.email # users[id].email => byEmail[account.email] = {},
           NEW b, b = [users EXCEPT ![id] = account]
    PROVE  Moved(id, account.email) = Index(b)
  <1> DEFINE f == Moved(id, account.email)
             old == users[id].email
             new == account.email
  <1>1. id \in Ids /\ old \in Emails /\ new \in Emails
    BY KnownAccount DEF Known, Account
  <1>2. \A other \in Ids : b[other] = IF other = id THEN account ELSE users[other]
    BY DEF Accounts
  <1>3. Known(b) = Known(users)
    BY <1>1, <1>2, AbsentIsNone DEF Known
  <1>4. CASE new = old
    <2>1. f = Index(users)
      BY <1>4 DEF Moved
    <2>2. \A o \in Ids : b[o].email = users[o].email
      BY <1>2, <1>4
    <2>3. Indexes(Index(users), b)
      BY <1>3, <2>2, IndexOf DEF Indexes
    <2>4. Index(users) = Index(b)
      BY <2>3, IndexType, SameIndex
    <2> QED  BY <2>1, <2>4
  <1>5. CASE new # old
    <2>1. f = [Index(users) EXCEPT ![old] = {}, ![new] = {id}]
      BY <1>5 DEF Moved
    <2>2. f \in [Emails -> SUBSET Ids]
      BY <1>1, <2>1, IndexType
    <2>3. f[new] = {id} /\ f[old] = {}
          /\ \A e \in Emails : e # new /\ e # old => f[e] = Index(users)[e]
      BY <1>1, <1>5, <2>1, IndexType
    <2>4. \A x \in Known(users) : users[x].email # new
      BY <1>1, <1>5, IndexOf
    <2>5. \A x \in Known(users) : users[x].email = old => x = id
      BY DEF OneOwner
    <2> HIDE DEF f
    <2>6. ASSUME NEW e \in Emails, NEW o \in Ids
          PROVE  o \in f[e] <=> o \in Known(b) /\ b[o].email = e
      <3>1. CASE e = new
        BY <1>1, <1>2, <1>3, <2>3, <2>4, <3>1
      <3>2. CASE e = old
        BY <1>2, <1>3, <1>5, <2>3, <2>5, <3>2
      <3>3. CASE e # new /\ e # old
        <4>1. o \in f[e] <=> o \in Known(users) /\ users[o].email = e
          BY <2>3, <3>3, IndexOf
        <4>2. o # id => b[o] = users[o]
          BY <1>2
        <4>3. o = id => b[o].email = new /\ users[o].email = old
          BY <1>2
        <4> QED  BY <1>3, <3>3, <4>1, <4>2, <4>3
      <3> QED  BY <3>1, <3>2, <3>3
    <2>7. f = Index(b)
      <3>1. Indexes(f, b)
        BY <2>6, Zenon DEF Indexes
      <3> QED  BY <2>2, <3>1, SameIndex
    <2> QED  BY <2>7 DEF f
  <1> QED  BY <1>4, <1>5

-----------------------------------------------------------------------------
(* The calls of the user store *)

StoreType ==
    /\ users \in Accounts /\ file \in Accounts
    /\ born \subseteq Ids /\ gone \subseteq Ids
    /\ refresher \in [Refreshers -> RefresherType]
    /\ faults \in Nat

StoreInv == StoreType /\ Stored /\ Departed

\* A call leaves the accounts after in memory, and saves them or not.
Saved(after) == users' = after /\ (file' = after \/ file' = file)

\* Accounts that may be written: of ids that were given and are not gone.
Fit(after, removed) ==
    /\ OneOwner(after)
    /\ born \subseteq born' /\ born' \subseteq Ids /\ Known(after) \subseteq born'
    /\ removed \subseteq born
    /\ \A id \in removed \cup gone : after[id] = Absent

LEMMA ChangeSaves ==
    ASSUME StoreInv, NEW after \in Accounts, NEW removed, NEW quiet \in BOOLEAN,
           Fit(after, removed), Change(after, Index(after), removed, quiet)
    PROVE  StoreInv' /\ Saved(after)
  <1>1. StoreType /\ Stored /\ Departed
    BY DEF StoreInv
  <1>2. users' = after /\ byEmail' = Index(after)
    BY DEF Change
  <1>3. refresher' \in [Refreshers -> RefresherType]
    <2>1. CASE NotifyChange
      <3>1. PICK g \in Refreshers : refresher' = [refresher EXCEPT ![g] = [at |-> "begun"]]
        BY <2>1 DEF NotifyChange
      <3>2. [at |-> "begun"] \in RefresherType
        BY DEF RefresherType
      <3> QED  BY <1>1, <3>1, <3>2 DEF StoreType
    <2>2. CASE UNCHANGED refresher
      BY <1>1, <2>2 DEF StoreType
    <2> QED  BY <2>1, <2>2 DEF Change
  <1>4. faults' \in Nat
    BY <1>1 DEF StoreType, Change
  <1>5. CASE file' = after /\ gone' = gone \cup removed
    <2>1. StoreType'
      BY <1>1, <1>2, <1>3, <1>4, <1>5 DEF StoreType, Fit
    <2>2. Stored'
      BY <1>2, <1>5 DEF Stored, Fit
    <2>3. Departed'
      BY <1>1, <1>2, <1>5 DEF Departed, Fit
    <2> QED  BY <1>2, <1>5, <2>1, <2>2, <2>3 DEF StoreInv, Saved
  <1>6. CASE file' = file /\ gone' = gone
    <2>1. StoreType'
      BY <1>1, <1>2, <1>3, <1>4, <1>6 DEF StoreType, Fit
    <2>2. Stored'
      BY <1>1, <1>2, <1>6 DEF Stored, Fit
    <2>3. Departed'
      BY <1>1, <1>2, <1>6 DEF Departed, Fit
    <2> QED  BY <1>2, <1>6, <2>1, <2>2, <2>3 DEF StoreInv, Saved
  <1> QED  BY <1>5, <1>6 DEF Change

LEMMA CreateSaves ==
    ASSUME StoreInv, NEW id \in Ids, NEW e \in Emails, NEW role \in Roles,
           Create(id, e, role)
    PROVE  /\ StoreInv' /\ users[id] = Absent
           /\ Saved([users EXCEPT ![id] = [email |-> e, role |-> role, active |-> TRUE]])
  <1> DEFINE account == [email |-> e, role |-> role, active |-> TRUE]
             after == Put(users, id, account)
  <1>1. users \in Accounts /\ byEmail = Index(users) /\ OneOwner(users)
        /\ Known(users) \subseteq born /\ born \subseteq Ids /\ Departed
    BY DEF StoreInv, StoreType, Stored
  <1>2. account \in Account /\ account.email = e
    BY DEF Account
  <1>3. id \notin born /\ byEmail[e] = {} /\ born' = born \cup {id}
        /\ Change(after, [byEmail EXCEPT ![e] = {id}], {}, FALSE)
    BY DEF Create, Put
  <1>4. users[id] = Absent
    BY <1>1, <1>3, KnownAccount
  <1>5. Free(users, id, e)
    BY <1>1, <1>3, IndexOf DEF Free
  <1> HIDE DEF account
  <1>6. after \in Accounts /\ OneOwner(after) /\ Known(after) = Known(users) \cup {id}
        /\ \A other \in Ids : other # id => after[other] = users[other]
    BY <1>1, <1>2, <1>5, OneWritten
  <1>7. [byEmail EXCEPT ![e] = {id}] = Index(after)
    BY <1>1, <1>2, <1>3, <1>4, IndexAfterCreate DEF Put
  <1> HIDE DEF after
  <1>8. Fit(after, {})
    BY <1>1, <1>3, <1>6 DEF Fit, Departed
  <1>9. StoreInv' /\ Saved(after)
    BY <1>3, <1>6, <1>7, <1>8, ChangeSaves
  <1> QED  BY <1>4, <1>9 DEF account, after, Put

LEMMA UpdateSaves ==
    ASSUME StoreInv, NEW id \in Ids, NEW account \in Account, Update(id, account)
    PROVE  StoreInv' /\ Saved([users EXCEPT ![id] = account])
  <1> DEFINE after == Put(users, id, account)
  <1>1. users \in Accounts /\ byEmail = Index(users) /\ OneOwner(users)
        /\ Known(users) \subseteq born /\ born \subseteq Ids /\ Departed
    BY DEF StoreInv, StoreType, Stored
  <1>2. /\ account.email # users[id].email => byEmail[account.email] = {}
        /\ born' = born /\ id \in Known(users)
        /\ Change(after, Moved(id, account.email), {}, FALSE)
    BY DEF Update, Known, Put
  <1>3. Free(users, id, account.email)
    <2>1. account.email \in Emails
      BY DEF Account
    <2> QED  BY <1>1, <1>2, <2>1, IndexOf DEF OneOwner, Free
  <1>4. after \in Accounts /\ OneOwner(after) /\ Known(after) = Known(users) \cup {id}
        /\ \A other \in Ids : other # id => after[other] = users[other]
    BY <1>1, <1>3, OneWritten
  <1>5. Moved(id, account.email) = Index(after)
    BY <1>1, <1>2, IndexAfterUpdate DEF Put
  <1> HIDE DEF after
  <1>6. Fit(after, {})
    <2>1. \A o \in gone : users[o] = Absent /\ o # id /\ o \in Ids
      BY <1>1, <1>2 DEF Departed, Known
    <2> QED  BY <1>1, <1>2, <1>4, <2>1 DEF Fit
  <1>7. StoreInv' /\ Saved(after)
    BY <1>2, <1>4, <1>5, <1>6, ChangeSaves
  <1> QED  BY <1>7 DEF after, Put

LEMMA ResetPasswordSaves ==
    ASSUME StoreInv, NEW id \in Ids, ResetPassword(id)
    PROVE  StoreInv' /\ Saved(users)
  <1>1. users \in Accounts /\ byEmail = Index(users) /\ OneOwner(users)
        /\ Known(users) \subseteq born /\ born \subseteq Ids /\ Departed
    BY DEF StoreInv, StoreType, Stored
  <1>2. born' = born /\ Change(users, Index(users), {}, TRUE)
    BY <1>1 DEF ResetPassword
  <1>3. Fit(users, {})
    BY <1>1, <1>2 DEF Fit, Departed
  <1> QED  BY <1>1, <1>2, <1>3, ChangeSaves

LEMMA DeleteSaves ==
    ASSUME StoreInv, NEW id \in Ids, Delete(id)
    PROVE  StoreInv' /\ Saved([users EXCEPT ![id] = Absent])
  <1> DEFINE after == Put(users, id, Absent)
  <1>1. users \in Accounts /\ byEmail = Index(users) /\ OneOwner(users)
        /\ Known(users) \subseteq born /\ born \subseteq Ids /\ Departed
    BY DEF StoreInv, StoreType, Stored
  <1>2. born' = born /\ id \in Known(users)
        /\ Change(after, [byEmail EXCEPT ![users[id].email] = {}], {id}, FALSE)
    BY DEF Delete, Known, Put
  <1>3. after \in Accounts /\ OneOwner(after) /\ Known(after) = Known(users) \ {id}
        /\ after[id] = Absent /\ \A other \in Ids : other # id => after[other] = users[other]
    BY <1>1, OneRemoved
  <1>4. [byEmail EXCEPT ![users[id].email] = {}] = Index(after)
    BY <1>1, <1>2, IndexAfterDelete DEF Put
  <1> HIDE DEF after
  <1>5. Fit(after, {id})
    <2>1. \A o \in gone : users[o] = Absent /\ o \in Ids
      BY <1>1 DEF Departed
    <2> QED  BY <1>1, <1>2, <1>3, <2>1 DEF Fit
  <1>6. StoreInv' /\ Saved(after)
    BY <1>2, <1>3, <1>4, <1>5, ChangeSaves
  <1> QED  BY <1>6 DEF after, Put

LEMMA FullResetSaves ==
    ASSUME StoreInv, FullReset
    PROVE  StoreInv' /\ Saved(Nobody)
  <1>1. Known(users) \subseteq born /\ Known(file) \subseteq born /\ born \subseteq Ids
        /\ gone \subseteq born
    BY DEF StoreInv, StoreType, Stored, Departed
  <1>2. born' = born /\ Change(Nobody, Index(Nobody), Known(users) \cup Known(file), FALSE)
    BY DEF FullReset
  <1>3. Fit(Nobody, Known(users) \cup Known(file))
    BY <1>1, <1>2, NobodyIsFit DEF Fit
  <1> QED  BY <1>2, <1>3, NobodyIsFit, ChangeSaves

-----------------------------------------------------------------------------
(* Requests, one at a time *)

LEMMA StoreOfInv == Inv => StoreInv
  BY DEF Inv, TypeInv, StoreInv, StoreType

\* A request that ends alone leaves no other, so what matters is what it saved.
LEMMA EndsInv ==
    ASSUME Inv, NEW r \in Requests, request[r] # Idle, Ends(r), StoreInv',
           NEW after, Saved(after), ~overlapped => Administered(after)
    PROVE  Inv'
  <1>1. TypeInv /\ OneByOne
    BY DEF Inv
  <1>2. request' = [request EXCEPT ![r] = Idle] /\ overlapped' = overlapped
        /\ adminIDs' = adminIDs
    BY DEF Ends
  <1>3. request' \in [Requests -> RequestType]
    BY <1>1, <1>2 DEF TypeInv, RequestType
  <1>4. TypeInv'
    BY <1>1, <1>2, <1>3 DEF TypeInv, StoreInv, StoreType
  <1>5. OneByOne'
    <2> SUFFICES ASSUME ~overlapped
                 PROVE  /\ \A p \in Requests : request'[p] = Idle
                        /\ Administered(users') /\ Administered(file')
      BY <1>2 DEF OneByOne, StillSo, Idle
    <2>1. \A p \in Requests : request'[p] = Idle
      BY <1>1, <1>2 DEF OneByOne, TypeInv
    <2>2. Administered(users') /\ Administered(file')
      BY <1>1 DEF OneByOne, Saved
    <2> QED  BY <2>1, <2>2
  <1> QED  BY <1>4, <1>5 DEF Inv, StoreInv

\* Whoever asks remains an administrator when another account is written or removed.
LEMMA OthersWritten ==
    ASSUME NEW a \in Accounts, NEW by \in Ids, Rules(a, by),
           NEW id \in Ids, id # by, NEW x
    PROVE  Administered([a EXCEPT ![id] = x])
  <1> DEFINE b == [a EXCEPT ![id] = x]
  <1>1. b[by] = a[by]
    BY DEF Accounts
  <1> HIDE DEF b
  <1>2. Rules(b, by)
    BY <1>1 DEF Rules, Known
  <1>3. Administered(b)
    BY <1>2 DEF Administered
  <1> QED  BY <1>3 DEF b

LEMMA AdminAsks ==
    ASSUME Inv, NEW r \in Requests, request[r].at = "admin"
    PROVE  /\ request[r].by \in Ids /\ request[r] # Idle /\ users \in Accounts
           /\ ~overlapped => Rules(users, request[r].by)
  <1>1. request[r] \in RequestType
    BY DEF Inv, TypeInv
  <1>2. request[r].by \in Ids /\ request[r] # Idle
    BY <1>1 DEF RequestType, Idle
  <1> QED  BY <1>2 DEF Inv, TypeInv, OneByOne, StillSo

LEMMA SetupCreatesInv ==
    ASSUME Inv, NEW r \in Requests, SetupCreates(r)
    PROVE  Inv'
  <1>1. request[r].at = "setup" /\ request[r] # Idle /\ Ends(r)
    BY DEF SetupCreates, Idle
  <1>2. PICK id \in Ids, e \in Emails : Create(id, e, "admin")
    BY DEF SetupCreates
  <1> DEFINE account == [email |-> e, role |-> "admin", active |-> TRUE]
             after == [users EXCEPT ![id] = account]
  <1>3. StoreInv' /\ Saved(after)
    BY <1>2, StoreOfInv, CreateSaves DEF Roles
  <1>4. users \in Accounts
    BY DEF Inv, TypeInv
  <1>5. Administered(after)
    <2>1. after[id] = account
      BY <1>4 DEF Accounts
    <2>2. account.active /\ account.role = "admin" /\ account # Absent
      BY Zenon DEF Absent
    <2> HIDE DEF account, after
    <2>3. Rules(after, id)
      BY <2>1, <2>2 DEF Rules, Known
    <2> QED  BY <2>3 DEF Administered
  <1> HIDE DEF after
  <1> QED  BY <1>1, <1>3, <1>5, EndsInv

LEMMA AdminCreatesInv ==
    ASSUME Inv, NEW r \in Requests, AdminCreates(r)
    PROVE  Inv'
  <1>1. request[r].at = "admin" /\ Ends(r)
    BY DEF AdminCreates
  <1>2. PICK id \in Ids, e \in Emails, role \in Roles : Create(id, e, role)
    BY DEF AdminCreates
  <1> DEFINE account == [email |-> e, role |-> role, active |-> TRUE]
             after == [users EXCEPT ![id] = account]
  <1>3. StoreInv' /\ Saved(after) /\ users[id] = Absent
    BY <1>2, StoreOfInv, CreateSaves
  <1>4. ~overlapped => Administered(after)
    <2>1. request[r].by # id \/ overlapped
      BY <1>1, <1>3, AdminAsks DEF Rules, Known
    <2> QED  BY <1>1, <2>1, AdminAsks, OthersWritten
  <1> HIDE DEF after
  <1> QED  BY <1>1, <1>3, <1>4, AdminAsks, EndsInv

LEMMA OthersAreOthers ==
    ASSUME NEW by \in Ids, NEW id \in Others(by), Rules(users, by)
    PROVE  id \in Ids /\ id # by
  BY DEF Others, Rules, Live, Known

LEMMA AdminEditsInv ==
    ASSUME Inv, NEW r \in Requests, AdminEdits(r)
    PROVE  Inv'
  <1>1. request[r].at = "admin" /\ Ends(r)
    BY DEF AdminEdits
  <1>2. PICK id \in Others(request[r].by), account \in Account : Update(id, account)
    BY DEF AdminEdits
  <1>3. id \in Ids
    BY <1>2 DEF Others
  <1> DEFINE after == [users EXCEPT ![id] = account]
  <1>4. StoreInv' /\ Saved(after)
    BY <1>2, <1>3, StoreOfInv, UpdateSaves
  <1>5. ~overlapped => Administered(after)
    <2>1. overlapped \/ id # request[r].by
      BY <1>1, <1>2, AdminAsks, OthersAreOthers
    <2> QED  BY <1>1, <1>3, <2>1, AdminAsks, OthersWritten
  <1> HIDE DEF after
  <1> QED  BY <1>1, <1>4, <1>5, AdminAsks, EndsInv

LEMMA AdminDeletesInv ==
    ASSUME Inv, NEW r \in Requests, AdminDeletes(r)
    PROVE  Inv'
  <1>1. request[r].at = "admin" /\ Ends(r)
    BY DEF AdminDeletes
  <1>2. PICK id \in Others(request[r].by) : Delete(id)
    BY DEF AdminDeletes
  <1>3. id \in Ids
    BY <1>2 DEF Others
  <1> DEFINE after == [users EXCEPT ![id] = Absent]
  <1>4. StoreInv' /\ Saved(after)
    BY <1>2, <1>3, StoreOfInv, DeleteSaves
  <1>5. ~overlapped => Administered(after)
    <2>1. overlapped \/ id # request[r].by
      BY <1>1, <1>2, AdminAsks, OthersAreOthers
    <2> QED  BY <1>1, <1>3, <2>1, AdminAsks, OthersWritten
  <1> HIDE DEF after
  <1> QED  BY <1>1, <1>4, <1>5, AdminAsks, EndsInv

LEMMA AdminResetsPasswordInv ==
    ASSUME Inv, NEW r \in Requests, AdminResetsPassword(r)
    PROVE  Inv'
  <1>1. request[r].at = "admin" /\ Ends(r)
    BY DEF AdminResetsPassword
  <1>2. StoreInv' /\ Saved(users)
    BY StoreOfInv, ResetPasswordSaves DEF AdminResetsPassword
  <1>3. ~overlapped => Administered(users)
    BY DEF Inv, OneByOne
  <1> QED  BY <1>1, <1>2, <1>3, AdminAsks, EndsInv

LEMMA AdminResetsAllInv ==
    ASSUME Inv, NEW r \in Requests, AdminResetsAll(r)
    PROVE  Inv'
  <1>1. request[r].at = "admin" /\ Ends(r)
    BY DEF AdminResetsAll
  <1>2. StoreInv' /\ Saved(Nobody)
    BY StoreOfInv, FullResetSaves DEF AdminResetsAll
  <1>3. Administered(Nobody)
    BY NobodyIsFit DEF Administered
  <1> QED  BY <1>1, <1>2, <1>3, AdminAsks, EndsInv

\* The profile form: what it writes back is what is there.
LEMMA ProfileSavesInv ==
    ASSUME Inv, NEW r \in Requests, ProfileSaves(r)
    PROVE  Inv'
  <1>1. request[r].at = "profile" /\ Ends(r) /\ Update(request[r].by, request[r].as)
    BY DEF ProfileSaves
  <1>2. request[r] \in RequestType /\ users \in Accounts
    BY DEF Inv, TypeInv
  <1>3. request[r].by \in Ids /\ request[r].as \in Account /\ request[r] # Idle
    BY <1>1, <1>2 DEF RequestType, Idle
  <1> DEFINE after == [users EXCEPT ![request[r].by] = request[r].as]
  <1>4. StoreInv' /\ Saved(after)
    BY <1>1, <1>3, StoreOfInv, UpdateSaves
  <1>5. ~overlapped => Administered(after)
    <2>1. ~overlapped => users[request[r].by] = request[r].as
      BY <1>1 DEF Inv, OneByOne, StillSo
    <2>2. ~overlapped => after = users
      BY <1>2, <2>1 DEF Accounts
    <2> HIDE DEF after
    <2> QED  BY <2>2 DEF Inv, OneByOne
  <1> HIDE DEF after
  <1> QED  BY <1>1, <1>3, <1>4, <1>5, EndsInv

LEMMA RefusedInv ==
    ASSUME Inv, NEW r \in Requests, Refused(r)
    PROVE  Inv'
  <1>1. StoreInv'
    BY StoreOfInv DEF Refused, StoreInv, StoreType, Stored, Departed
  <1>2. Saved(users) /\ request[r] # Idle /\ Ends(r)
    BY DEF Refused, Saved
  <1>3. ~overlapped => Administered(users)
    BY DEF Inv, OneByOne
  <1> QED  BY <1>1, <1>2, <1>3, EndsInv

\* A request that begins alone has seen what is there.
LEMMA LooksInv ==
    ASSUME Inv, NEW r \in Requests, NEW seen \in RequestType, seen # Idle, Looks(r, seen),
           seen.at = "setup" => Known(users) = {},
           seen.at = "admin" => Rules(users, seen.by),
           seen.at = "profile" => users[seen.by] = seen.as
    PROVE  Inv'
  <1>1. TypeInv /\ OneByOne
    BY DEF Inv
  <1>2. /\ request[r] = Idle /\ request' = [request EXCEPT ![r] = seen]
        /\ overlapped' = (overlapped \/ \E q \in Requests \ {r} : request[q] # Idle)
        /\ UNCHANGED <<users, byEmail, file, adminIDs, refresher, born, faults, gone>>
    BY DEF Looks
  <1>3. overlapped' \in BOOLEAN
    BY <1>2, Zenon
  <1>4. TypeInv'
    BY <1>1, <1>2, <1>3 DEF TypeInv
  <1>5. Stored' /\ Departed'
    BY <1>2 DEF Inv, Stored, Departed
  <1>6. OneByOne'
    <2> SUFFICES ASSUME ~overlapped'
                 PROVE  /\ \A p, q \in Requests : request'[p] # Idle /\ request'[q] # Idle => p = q
                        /\ \A p \in Requests : StillSo(p)'
                        /\ Administered(users') /\ Administered(file')
      BY DEF OneByOne
    <2>1. ~overlapped /\ \A q \in Requests \ {r} : request[q] = Idle
      BY <1>2, Zenon
    <2>2. request'[r] = seen /\ \A q \in Requests \ {r} : request'[q] = Idle
      BY <1>1, <1>2, <2>1 DEF TypeInv
    <2>3. StillSo(r)'
      BY <1>2, <2>2 DEF StillSo
    <2>4. \A p \in Requests \ {r} : StillSo(p)'
      BY <2>2 DEF StillSo, Idle
    <2>5. Administered(users') /\ Administered(file')
      BY <1>1, <1>2, <2>1 DEF OneByOne
    <2> QED  BY <2>2, <2>3, <2>4, <2>5
  <1> QED  BY <1>4, <1>5, <1>6 DEF Inv

LEMMA SetupLooksInv ==
    ASSUME Inv, NEW r \in Requests, SetupLooks(r)
    PROVE  Inv'
  <1> DEFINE seen == [at |-> "setup"]
  <1>1. seen \in RequestType /\ seen # Idle /\ seen.at = "setup"
    BY DEF RequestType, Idle
  <1>2. Looks(r, seen) /\ Known(users) = {}
    BY DEF SetupLooks
  <1> HIDE DEF seen
  <1> QED  BY <1>1, <1>2, LooksInv

LEMMA AdminLooksInv ==
    ASSUME Inv, NEW r \in Requests, NEW id \in Ids, AdminLooks(r, id)
    PROVE  Inv'
  <1> DEFINE seen == [at |-> "admin", by |-> id]
  <1>1. seen \in RequestType /\ seen # Idle /\ seen.at = "admin" /\ seen.by = id
    BY DEF RequestType, Idle
  <1>2. Looks(r, seen) /\ Rules(users, id)
    BY DEF AdminLooks, IsAdmin, Live, Rules, Known
  <1> HIDE DEF seen
  <1> QED  BY <1>1, <1>2, LooksInv

LEMMA ProfileLooksInv ==
    ASSUME Inv, NEW r \in Requests, NEW id \in Ids, ProfileLooks(r, id)
    PROVE  Inv'
  <1> DEFINE seen == [at |-> "profile", by |-> id, as |-> users[id]]
  <1>1. users[id] \in Account
    BY KnownAccount DEF Inv, TypeInv, ProfileLooks, Live
  <1>2. seen \in RequestType /\ seen # Idle /\ seen.at = "profile"
        /\ users[seen.by] = seen.as
    BY <1>1 DEF RequestType, Idle
  <1>3. Looks(r, seen)
    BY DEF ProfileLooks
  <1> HIDE DEF seen
  <1> QED  BY <1>2, <1>3, LooksInv

-----------------------------------------------------------------------------
(* The goroutines and the process *)

LEMMA AdminIDsAreIds == AdminIDs \subseteq Ids
  BY DEF AdminIDs

LEMMA RefresherInv ==
    ASSUME Inv, NEW g \in Refreshers, RefresherReads(g) \/ RefresherWrites(g)
    PROVE  Inv'
  <1>1. TypeInv
    BY DEF Inv
  <1>2. UNCHANGED <<users, byEmail, file, request, born, faults, gone, overlapped>>
    BY DEF RefresherReads, RefresherWrites
  <1>3. refresher' \in [Refreshers -> RefresherType] /\ adminIDs' \subseteq Ids
    <2>1. refresher[g] \in RefresherType
      BY <1>1 DEF TypeInv
    <2>2. CASE RefresherReads(g)
      <3>1. [at |-> "read", ids |-> AdminIDs] \in RefresherType
        BY AdminIDsAreIds DEF RefresherType
      <3> QED  BY <1>1, <2>2, <3>1 DEF TypeInv, RefresherReads
    <2>3. CASE RefresherWrites(g)
      <3>1. refresher[g].at = "read"
        BY <2>3 DEF RefresherWrites
      <3>2. refresher[g].ids \subseteq Ids
        BY <2>1, <3>1 DEF RefresherType, Idle
      <3>3. Idle \in RefresherType
        BY DEF RefresherType
      <3> QED  BY <1>1, <2>3, <3>2, <3>3 DEF TypeInv, RefresherWrites
    <2> QED  BY <2>2, <2>3
  <1>4. TypeInv'
    BY <1>1, <1>2, <1>3 DEF TypeInv
  <1> QED  BY <1>2, <1>4 DEF Inv, Stored, Departed, OneByOne, StillSo

\* The process comes back with the accounts that were saved, and no request.
LEMMA CrashInv ==
    ASSUME Inv, CrashAndRestart
    PROVE  Inv'
  <1>1. TypeInv /\ Stored /\ Departed /\ OneByOne
    BY DEF Inv
  <1>2. /\ users' = file /\ file' = file /\ byEmail' = Index(file) /\ adminIDs' = AdminIDs'
        /\ request' = [r \in Requests |-> Idle]
        /\ refresher' = [g \in Refreshers |-> Idle]
        /\ UNCHANGED <<born, faults, gone, overlapped>>
    BY DEF CrashAndRestart
  <1>3. adminIDs' \subseteq Ids
    BY <1>2 DEF AdminIDs
  <1>4. request' \in [Requests -> RequestType] /\ refresher' \in [Refreshers -> RefresherType]
    BY <1>2 DEF RequestType, RefresherType
  <1>5. TypeInv'
    BY <1>1, <1>2, <1>3, <1>4 DEF TypeInv
  <1>6. Stored' /\ Departed'
    BY <1>1, <1>2 DEF Stored, Departed
  <1>7. OneByOne'
    BY <1>1, <1>2 DEF OneByOne, StillSo, Idle
  <1> QED  BY <1>5, <1>6, <1>7 DEF Inv

LEMMA InitInv == Init => Inv
  <1> SUFFICES ASSUME Init PROVE Inv
    OBVIOUS
  <1>1. users = Nobody /\ file = Nobody /\ byEmail = Index(Nobody)
        /\ born = {} /\ gone = {} /\ adminIDs = {} /\ faults = 0 /\ ~overlapped
        /\ request = [r \in Requests |-> Idle]
        /\ refresher = [g \in Refreshers |-> Idle]
    BY DEF Init
  <1>2. overlapped \in BOOLEAN
    BY Zenon DEF Init
  <1>3. TypeInv
    BY <1>1, <1>2, NobodyIsFit DEF TypeInv, RequestType, RefresherType
  <1>4. Stored /\ Departed
    BY <1>1, NobodyIsFit DEF Stored, Departed
  <1>5. OneByOne
    BY <1>1, NobodyIsFit DEF OneByOne, StillSo, Idle, Administered
  <1> QED  BY <1>3, <1>4, <1>5 DEF Inv

LEMMA NextInv == Inv /\ [Next]_vars => Inv'
  <1> SUFFICES ASSUME Inv, [Next]_vars PROVE Inv'
    OBVIOUS
  <1>1. CASE UNCHANGED vars
    BY <1>1 DEF vars, Inv, TypeInv, Stored, Departed, OneByOne, StillSo
  <1>2. CASE Next
    BY <1>2, SetupLooksInv, AdminLooksInv, ProfileLooksInv, SetupCreatesInv,
       AdminCreatesInv, AdminEditsInv, AdminDeletesInv, AdminResetsPasswordInv,
       AdminResetsAllInv, ProfileSavesInv, RefusedInv, RefresherInv, CrashInv DEF Next
  <1> QED  BY <1>1, <1>2

LEMMA AlwaysInv == Spec => []Inv
  BY InitInv, NextInv, PTL DEF Spec

-----------------------------------------------------------------------------
(* The copy of the administrators' ids *)

LEMMA SameAdmins ==
    ASSUME users' = users
    PROVE  AdminIDs' = AdminIDs
  BY DEF AdminIDs, IsAdmin, Live

LEMMA AloneKeepsCopy ==
    ASSUME CopyKept, UNCHANGED <<users, adminIDs, refresher, outrun, faults>>
    PROVE  CopyKept'
  BY SameAdmins DEF CopyKept

\* A change of the accounts is announced, or fails, or changes no administrator.
LEMMA ChangeKeepsCopy ==
    ASSUME Inv, CopyKept, NEW after, NEW index, NEW removed, NEW quiet \in BOOLEAN,
           Change(after, index, removed, quiet), quiet => after = users,
           adminIDs' = adminIDs
    PROVE  CopyKept'
  <1>1. TypeInv /\ users' = after
    BY DEF Inv, Change
  <1>2. CASE quiet /\ UNCHANGED <<refresher, outrun, faults>>
    BY <1>1, <1>2, AloneKeepsCopy
  <1>3. CASE NotifyChange /\ faults' = faults
    <2>1. PICK g \in Refreshers :
             /\ refresher[g] = Idle
             /\ refresher' = [refresher EXCEPT ![g] = [at |-> "begun"]]
      BY <1>3 DEF NotifyChange
    <2>2. outrun' = (outrun \/ \E h \in Refreshers : refresher[h].at = "read")
      BY <1>3 DEF NotifyChange
    <2> SUFFICES ASSUME ~outrun'
                 PROVE  /\ \A h \in Refreshers : refresher'[h].at # "read"
                        /\ \E h \in Refreshers : refresher'[h] # Idle
      BY DEF CopyKept
    <2>3. \A h \in Refreshers : refresher[h].at # "read"
      BY <2>2, Zenon
    <2>4. refresher'[g] = [at |-> "begun"]
          /\ \A h \in Refreshers \ {g} : refresher'[h] = refresher[h]
      BY <1>1, <2>1 DEF TypeInv
    <2>5. refresher'[g] # Idle /\ refresher'[g].at # "read"
      BY <2>4 DEF Idle
    <2> QED  BY <2>3, <2>4, <2>5
  <1>4. CASE faults' = faults + 1
    BY <1>1, <1>4 DEF TypeInv, CopyKept
  <1> QED  BY <1>2, <1>3, <1>4 DEF Change

LEMMA RequestKeepsCopy ==
    ASSUME Inv, CopyKept, NEW r \in Requests,
           \/ SetupCreates(r) \/ AdminCreates(r) \/ AdminEdits(r) \/ AdminDeletes(r)
           \/ AdminResetsPassword(r) \/ AdminResetsAll(r) \/ ProfileSaves(r)
    PROVE  CopyKept'
  <1>1. adminIDs' = adminIDs
    BY DEF SetupCreates, AdminCreates, AdminEdits, AdminDeletes, AdminResetsPassword,
           AdminResetsAll, ProfileSaves, Ends
  <1>2. ASSUME NEW id, NEW e, NEW role, Create(id, e, role) PROVE CopyKept'
    BY <1>1, <1>2, ChangeKeepsCopy DEF Create
  <1>3. ASSUME NEW id, NEW account, Update(id, account) PROVE CopyKept'
    BY <1>1, <1>3, ChangeKeepsCopy DEF Update
  <1>4. ASSUME NEW id, Delete(id) PROVE CopyKept'
    BY <1>1, <1>4, ChangeKeepsCopy DEF Delete
  <1>5. ASSUME NEW id, ResetPassword(id) PROVE CopyKept'
    BY <1>1, <1>5, ChangeKeepsCopy DEF ResetPassword
  <1>6. ASSUME FullReset PROVE CopyKept'
    BY <1>1, <1>6, ChangeKeepsCopy DEF FullReset
  <1> QED  BY <1>2, <1>3, <1>4, <1>5, <1>6
           DEF SetupCreates, AdminCreates, AdminEdits, AdminDeletes, AdminResetsPassword,
               AdminResetsAll, ProfileSaves

LEMMA RefresherKeepsCopy ==
    ASSUME Inv, CopyKept, NEW g \in Refreshers, RefresherReads(g) \/ RefresherWrites(g)
    PROVE  CopyKept'
  <1>1. TypeInv /\ refresher[g] # Idle
    BY DEF Inv, RefresherReads, RefresherWrites, Idle
  <1>2. UNCHANGED <<users, faults, outrun>>
    BY DEF RefresherReads, RefresherWrites
  <1>3. AdminIDs' = AdminIDs
    BY <1>2, SameAdmins
  <1>4. CASE RefresherReads(g)
    <2>1. refresher' = [refresher EXCEPT ![g] = [at |-> "read", ids |-> AdminIDs]]
          /\ adminIDs' = adminIDs
      BY <1>4 DEF RefresherReads
    <2>2. refresher'[g] = [at |-> "read", ids |-> AdminIDs]
          /\ \A h \in Refreshers \ {g} : refresher'[h] = refresher[h]
      BY <1>1, <2>1 DEF TypeInv
    <2>3. refresher'[g] # Idle /\ refresher'[g].ids = AdminIDs
      BY <2>2 DEF Idle
    <2> QED  BY <1>2, <1>3, <2>2, <2>3 DEF CopyKept
  <1>5. CASE RefresherWrites(g)
    <2>1. /\ refresher[g].at = "read" /\ adminIDs' = refresher[g].ids
          /\ refresher' = [refresher EXCEPT ![g] = Idle]
      BY <1>5 DEF RefresherWrites
    <2>2. refresher'[g] = Idle
          /\ \A h \in Refreshers \ {g} : refresher'[h] = refresher[h]
      BY <1>1, <2>1 DEF TypeInv
    <2>3. refresher'[g].at # "read"
      BY <2>2 DEF Idle
    <2> QED  BY <1>2, <1>3, <2>1, <2>2, <2>3 DEF CopyKept
  <1> QED  BY <1>4, <1>5

LEMMA CrashKeepsCopy ==
    ASSUME CrashAndRestart
    PROVE  CopyKept'
  <1>1. adminIDs' = AdminIDs' /\ refresher' = [g \in Refreshers |-> Idle]
    BY DEF CrashAndRestart
  <1>2. \A g \in Refreshers : refresher'[g].at # "read"
    BY <1>1 DEF Idle
  <1> QED  BY <1>1, <1>2 DEF CopyKept

LEMMA AlwaysCopyKept == Spec => []CopyKept
  <1>1. Init => CopyKept
    <2> SUFFICES ASSUME Init PROVE CopyKept
      OBVIOUS
    <2>1. AdminIDs = {} /\ adminIDs = {}
      BY NobodyIsFit DEF Init, AdminIDs, IsAdmin, Live
    <2>2. \A g \in Refreshers : refresher[g].at # "read"
      BY DEF Init, Idle
    <2> QED  BY <2>1, <2>2 DEF CopyKept
  <1>2. Inv /\ CopyKept /\ [Next]_vars => CopyKept'
    <2> SUFFICES ASSUME Inv, CopyKept, [Next]_vars PROVE CopyKept'
      OBVIOUS
    <2>1. CASE UNCHANGED vars
      BY <2>1, AloneKeepsCopy DEF vars
    <2>2. ASSUME NEW r \in Requests, NEW id \in Ids,
                 SetupLooks(r) \/ AdminLooks(r, id) \/ ProfileLooks(r, id)
          PROVE  CopyKept'
      BY <2>2, AloneKeepsCopy DEF SetupLooks, AdminLooks, ProfileLooks, Looks
    <2>3. ASSUME NEW r \in Requests, SetupLooks(r) \/ Refused(r)
          PROVE  CopyKept'
      BY <2>3, AloneKeepsCopy DEF SetupLooks, Looks, Refused, Ends
    <2> QED  BY <2>1, <2>2, <2>3, RequestKeepsCopy, RefresherKeepsCopy, CrashKeepsCopy
             DEF Next
  <1> QED  BY <1>1, <1>2, AlwaysInv, PTL DEF Spec

-----------------------------------------------------------------------------
(* What follows from it *)

LEMMA OneOwnerCounts ==
    ASSUME NEW a \in Accounts, OneOwner(a), NEW e \in Emails
    PROVE  Cardinality(Index(a)[e]) <= 1
  <1> DEFINE S == Index(a)[e]
  <1>1. \A x, y \in S : x = y
    BY IndexOf DEF OneOwner
  <1> HIDE DEF S
  <1>2. CASE S = {}
    BY <1>2, FS_EmptySet DEF S
  <1>3. CASE S # {}
    <2>1. PICK x \in S : S = {x}
      BY <1>1, <1>3
    <2>2. Cardinality(S) = 1
      BY <2>1, FS_Singleton
    <2> QED  BY <2>2 DEF S
  <1> QED  BY <1>2, <1>3

\* EmailsAgree: the two maps of the user store agree and an address has one owner, in
\* memory and in users.json, whatever requests interleave and whatever save fails.
THEOREM AddressesHaveOneOwner == Spec => []EmailsAgree
  <1>1. Inv => EmailsAgree
    BY OneOwnerCounts DEF Inv, TypeInv, Stored, EmailsAgree
  <1> QED  BY <1>1, AlwaysInv, PTL

\* GoneForGood: an account whose deletion was acknowledged never comes back, not with
\* the profile form of its owner, and not from the file when the process restarts.
THEOREM DeletedStaysDeleted == Spec => []GoneForGood
  <1>1. Inv => GoneForGood
    BY DEF Inv, Departed, GoneForGood
  <1> QED  BY <1>1, AlwaysInv, PTL

\* AdminRemains: while no two requests have overlapped, the accounts in memory and on
\* disk can be administered, or there are none.
THEOREM SomebodyAdministers == Spec => []AdminRemains
  <1>1. Inv => AdminRemains
    <2> SUFFICES ASSUME Inv, ~overlapped, NEW accounts \in {users, file},
                        Known(accounts) # {}
                 PROVE  \E id \in Known(accounts) :
                           accounts[id].active /\ accounts[id].role = "admin"
      BY DEF AdminRemains
    <2>1. Administered(accounts)
      BY DEF Inv, OneByOne
    <2> QED  BY <2>1 DEF Administered, Rules
  <1> QED  BY <1>1, AlwaysInv, PTL

\* AdminsGetCopies: however many refreshes are under way, once they are all over the
\* store copies notifications to the administrators there are, unless a save has failed
\* or the accounts changed between what a refresh read and what it wrote.
THEOREM CopiesGoToAdmins == Spec => []AdminsGetCopies
  <1>1. CopyKept => AdminsGetCopies
    BY DEF CopyKept, AdminsGetCopies
  <1> QED  BY <1>1, AlwaysCopyKept, PTL
=============================================================================
