-------------------------------- MODULE Users -------------------------------
(***************************************************************************)
(* The accounts (internal/auth/users.go), the handlers that change them    *)
(* (internal/web/handler.go), and the copy of the administrators' ids that *)
(* the store keeps to fan notifications out (cmd main: refreshIndex).      *)
(*                                                                         *)
(* The store's lock makes each of its calls atomic, but the handlers look  *)
(* (is there a user yet? may this user do it? what is his role?) before    *)
(* they call it, and the copy is refreshed by goroutines that read the     *)
(* accounts under one lock and write the copy under another.               *)
(*                                                                         *)
(* Roles other than admin have the same rights here and are one.  Names,   *)
(* passwords and application roles are left out.                           *)
(***************************************************************************)
EXTENDS FiniteSets, Naturals

CONSTANTS
    Ids,        \* identities of accounts, one creation each
    Emails,
    Requests,   \* bound: handlers at work at the same time
    Refreshers, \* bound: goroutines that refresh the index at the same time
    MaxFaults,  \* bound: writes and removals of users.json that fail
    MaxCrashes  \* bound: deaths of the process

ASSUME UsersAssumption == MaxFaults \in Nat /\ MaxCrashes \in Nat

VARIABLES
    users,      \* users[id]: the account, Absent if there is none
    byEmail,    \* byEmail[e]: the ids that the second map has for e, one or none
    file,       \* users.json, all accounts Absent if there is no such file
    adminIDs,   \* the store's copy
    request,    \* request[r]: what the handler has seen
    refresher,  \* refresher[g]: what the goroutine has read
    born,       \* the ids already given
    faults, crashes,
    \* Observers:
    gone,       \* accounts whose removal was acknowledged
    overlapped, \* two handlers have been at work at the same time
    outrun      \* accounts changed between what a refresh read and what it wrote

vars == <<users, byEmail, file, adminIDs, request, refresher, born, faults,
          crashes, gone, overlapped, outrun>>

Absent == [absent |-> TRUE]
Roles == {"admin", "user"}
Account == [email : Emails, role : Roles, active : BOOLEAN]

Nobody == [id \in Ids |-> Absent]
Known(accounts) == {id \in Ids : accounts[id] # Absent}
Index(accounts) ==
    [e \in Emails |-> {id \in Known(accounts) : accounts[id].email = e}]

Live(id) == users[id] # Absent /\ users[id].active
IsAdmin(id) == Live(id) /\ users[id].role = "admin"
AdminIDs == {id \in Ids : IsAdmin(id)}

Idle == [at |-> "idle"]

Init ==
    /\ users = Nobody /\ file = Nobody
    /\ byEmail = Index(Nobody)
    /\ adminIDs = {}
    /\ request = [r \in Requests |-> Idle]
    /\ refresher = [g \in Refreshers |-> Idle]
    /\ born = {} /\ gone = {}
    /\ faults = 0 /\ crashes = 0
    /\ overlapped = FALSE /\ outrun = FALSE

-----------------------------------------------------------------------------
(* The user store *)

\* notifyChange starts a goroutine; when all Refreshers are at work (a bound of
\* the model) the change waits.
NotifyChange ==
    \E g \in Refreshers :
       /\ refresher[g] = Idle
       /\ refresher' = [refresher EXCEPT ![g] = [at |-> "begun"]]
       /\ outrun' = (outrun \/ \E h \in Refreshers : refresher[h].at = "read")

\* Mutant: the error of the save is not returned.
ChangeUnreported(after, index, removed, quiet) ==
    /\ users' = after
    /\ byEmail' = index
    /\ gone' = gone \cup removed
    /\ IF quiet THEN UNCHANGED <<refresher, outrun>> ELSE NotifyChange
    /\ \/ /\ file' = after
          /\ UNCHANGED faults
       \/ /\ faults < MaxFaults /\ faults' = faults + 1
          /\ UNCHANGED file

\* The accounts become after, with the emails of index, and are saved; a save
\* that fails leaves memory changed and tells nobody.  removed are the accounts
\* that a successful reply declares gone; quiet calls have no onChange.
Change(after, index, removed, quiet) ==
    /\ users' = after
    /\ byEmail' = index
    /\ \/ /\ file' = after
          /\ IF quiet THEN UNCHANGED <<refresher, outrun>> ELSE NotifyChange
          /\ gone' = gone \cup removed
          /\ UNCHANGED faults
       \/ /\ faults < MaxFaults
          /\ faults' = faults + 1
          /\ UNCHANGED <<file, refresher, gone, outrun>>

Create(id, email, role) ==
    /\ id \notin born
    /\ byEmail[email] = {}
    /\ born' = born \cup {id}
    /\ Change([users EXCEPT ![id] = [email |-> email, role |-> role, active |-> TRUE]],
              [byEmail EXCEPT ![email] = {id}], {}, FALSE)

\* Mutant: the old address is kept in the map.
MovedKeepsOld(id, new) ==
    IF new = users[id].email THEN byEmail ELSE [byEmail EXCEPT ![new] = {id}]

\* The emails after account id moves to the address new.
Moved(id, new) ==
    IF new = users[id].email THEN byEmail
    ELSE [byEmail EXCEPT ![users[id].email] = {}, ![new] = {id}]

Update(id, account) ==
    /\ users[id] # Absent
    /\ account.email # users[id].email => byEmail[account.email] = {}
    /\ Change([users EXCEPT ![id] = account], Moved(id, account.email), {}, FALSE)
    /\ UNCHANGED born

\* A new password changes no field modelled here, but saves all of them.
ResetPassword(id) ==
    /\ users[id] # Absent
    /\ Change(users, byEmail, {}, TRUE)
    /\ UNCHANGED born

\* Mutant: a deletion is not announced.
DeleteQuietly(id) ==
    /\ users[id] # Absent
    /\ Change([users EXCEPT ![id] = Absent],
              [byEmail EXCEPT ![users[id].email] = {}], {id}, TRUE)
    /\ UNCHANGED born

Delete(id) ==
    /\ users[id] # Absent
    /\ Change([users EXCEPT ![id] = Absent],
              [byEmail EXCEPT ![users[id].email] = {}], {id}, FALSE)
    /\ UNCHANGED born

\* Memory is emptied; the file is removed, or stays if that fails.
FullReset ==
    /\ Change(Nobody, Index(Nobody), Known(users) \cup Known(file), FALSE)
    /\ UNCHANGED born

-----------------------------------------------------------------------------
(* Handlers: a look, then the call *)

Looks(r, seen) ==
    /\ request[r] = Idle
    /\ request' = [request EXCEPT ![r] = seen]
    /\ overlapped' = (overlapped \/ \E q \in Requests \ {r} : request[q] # Idle)
    /\ UNCHANGED <<users, byEmail, file, adminIDs, refresher, born, faults,
                   crashes, gone, outrun>>

SetupLooks(r) == Known(users) = {} /\ Looks(r, [at |-> "setup"])
AdminLooks(r, id) == IsAdmin(id) /\ Looks(r, [at |-> "admin", by |-> id])
ProfileLooks(r, id) ==
    /\ Live(id)
    /\ Looks(r, [at |-> "profile", by |-> id, as |-> users[id]])

Ends(r) ==
    /\ request' = [request EXCEPT ![r] = Idle]
    /\ UNCHANGED <<adminIDs, crashes, overlapped>>

SetupCreates(r) ==
    /\ request[r].at = "setup"
    /\ \E id \in Ids, e \in Emails : Create(id, e, "admin")
    /\ Ends(r)

AdminCreates(r) ==
    /\ request[r].at = "admin"
    /\ \E id \in Ids, e \in Emails, role \in Roles : Create(id, e, role)
    /\ Ends(r)

\* Mutant: nobody is kept off his own account.
OthersAndSelf(by) == Ids

\* The handler looks again who asks, to keep him off his own account; if he was
\* deactivated in the meantime it sees nobody and keeps him off none.
Others(by) == IF Live(by) THEN Ids \ {by} ELSE Ids

AdminEdits(r) ==
    /\ request[r].at = "admin"
    /\ \E id \in Others(request[r].by), account \in Account : Update(id, account)
    /\ Ends(r)

AdminDeletes(r) ==
    /\ request[r].at = "admin"
    /\ \E id \in Others(request[r].by) : Delete(id)
    /\ Ends(r)

AdminResetsPassword(r) ==
    /\ request[r].at = "admin"
    /\ \E id \in Ids : ResetPassword(id)
    /\ Ends(r)

AdminResetsAll(r) ==
    /\ request[r].at = "admin"
    /\ FullReset
    /\ Ends(r)

\* The profile form writes back the role, the address and the state it has read.
ProfileSaves(r) ==
    /\ request[r].at = "profile"
    /\ Update(request[r].by, request[r].as)
    /\ Ends(r)

\* The call is refused (or the form was): nothing happens.
Refused(r) ==
    /\ request[r] # Idle
    /\ Ends(r)
    /\ UNCHANGED <<users, byEmail, file, refresher, born, faults, gone, outrun>>

-----------------------------------------------------------------------------
(* The goroutines and the process *)

\* refreshIndex: users.AdminIDs(), ...
RefresherReads(g) ==
    /\ refresher[g].at = "begun"
    /\ refresher' = [refresher EXCEPT ![g] = [at |-> "read", ids |-> AdminIDs]]
    /\ UNCHANGED <<users, byEmail, file, adminIDs, request, born, faults, crashes,
                   gone, overlapped, outrun>>

\* ... then s.SetAdminIDs.
RefresherWrites(g) ==
    /\ refresher[g].at = "read"
    /\ adminIDs' = refresher[g].ids
    /\ refresher' = [refresher EXCEPT ![g] = Idle]
    /\ UNCHANGED <<users, byEmail, file, request, born, faults, crashes, gone,
                   overlapped, outrun>>

\* The process dies and is started again: load, and one refreshIndex.
CrashAndRestart ==
    /\ crashes < MaxCrashes
    /\ crashes' = crashes + 1
    /\ users' = file
    /\ byEmail' = Index(file)
    /\ adminIDs' = AdminIDs'
    /\ request' = [r \in Requests |-> Idle]
    /\ refresher' = [g \in Refreshers |-> Idle]
    /\ outrun' = FALSE
    /\ UNCHANGED <<file, born, faults, gone, overlapped>>

Next ==
    \/ \E r \in Requests :
          \/ SetupLooks(r) \/ SetupCreates(r)
          \/ (\E id \in Ids : AdminLooks(r, id) \/ ProfileLooks(r, id))
          \/ AdminCreates(r) \/ AdminEdits(r) \/ AdminDeletes(r)
          \/ AdminResetsPassword(r) \/ AdminResetsAll(r)
          \/ ProfileSaves(r) \/ Refused(r)
    \/ \E g \in Refreshers : RefresherReads(g) \/ RefresherWrites(g)
    \/ CrashAndRestart

Spec == Init /\ [][Next]_vars

-----------------------------------------------------------------------------
(* Properties *)

\* The two maps agree and an address has one owner, in memory and on disk:
\* whatever requests interleave, whatever save fails, after every restart.
EmailsAgree ==
    /\ byEmail = Index(users)
    /\ \A e \in Emails : Cardinality(byEmail[e]) <= 1
    /\ \A e \in Emails : Cardinality(Index(file)[e]) <= 1

\* An account whose deletion was acknowledged stays deleted, although a profile
\* form of its owner may be under way and the process may restart.
GoneForGood == \A id \in gone : users[id] = Absent /\ file[id] = Absent

\* The accounts can always be administered: there are none (and /setup makes the
\* first one) or one of them is an active administrator; also those on disk, so
\* that a restart does not lock everybody out.  Requests that overlap are the
\* exception: two administrators may delete each other.
AdminRemains ==
    ~overlapped =>
       \A accounts \in {users, file} : Known(accounts) # {} =>
          \E id \in Known(accounts) :
             accounts[id].active /\ accounts[id].role = "admin"

\* README "Admins always receive a copy of every notification": with no refresh
\* under way, the ids that the store sends copies to are the administrators',
\* however many refreshes were under way at a time.  Two things leave them apart: a
\* failed save starts no refresh, and a refresh that has read before a change may
\* write after the refresh of that change.
AdminsGetCopies ==
    faults = 0 /\ ~outrun /\ (\A g \in Refreshers : refresher[g] = Idle)
       => adminIDs = AdminIDs

=============================================================================
