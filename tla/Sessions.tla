------------------------------ MODULE Sessions ------------------------------
(***************************************************************************)
(* Signed sessions and form tokens (internal/auth/session.go, csrf.go),    *)
(* the secret that signs them, and the wrappers that a request passes      *)
(* (internal/web/handler.go: requireAuth, requireWrite, requireAdmin,      *)
(* requireCSRF).                                                           *)
(*                                                                         *)
(* The server keeps no list of sessions: a cookie is good if it is signed  *)
(* with the secret of the moment, has not expired and belongs to an active *)
(* account.  Every wrapper looks the account up anew, so accounts, secret  *)
(* and clock may change between the looks of one request.  A full reset    *)
(* removes the accounts and then the secret and only logs the errors.      *)
(*                                                                         *)
(* A signature is the secret it was made with; what has expired has NoKey: *)
(* it is refused like what no secret has signed.  A look (GetByID, Active, *)
(* the role) is one step.  Addresses, the accounts made by administrators  *)
(* and saves of accounts that fail are in Users, the limit on log-ins is   *)
(* in RateLimiter.                                                         *)
(***************************************************************************)
EXTENDS FiniteSets, Naturals

CONSTANTS
    Ids,         \* identities of accounts, never given twice
    FirstUsers,  \* the accounts at first: the standing of each id
    Browsers,    \* bound: each with one cookie, one form and one request
    MaxSecrets,  \* bound: secrets generated
    MaxEdits,    \* bound: changes of accounts by administrators
    MaxFaults,   \* bound: writes and removals of files that fail
    MaxRestarts  \* bound: deaths of the process

Standings == {"absent", "inactive", "viewer", "writer", "admin"}

ASSUME SessionsAssumption ==
    /\ FirstUsers \in [Ids -> Standings]
    /\ {MaxSecrets, MaxEdits, MaxFaults, MaxRestarts} \subseteq Nat

VARIABLES
    users, usersFile,    \* the standing of each account, and in users.json
    born,                \* the ids that have been given
    env,                 \* SESSION_SECRET is set
    secret, secretFile,  \* the key in memory, and in data/session-secret: NoKey if
                         \* there is no such file, or none that decodes
    generated,           \* how many secrets have been generated
    cookie,              \* cookie[b]: the session of a browser
    form,                \* form[b]: the token in the page that it shows
    request,             \* request[b]: how far its request has come
    edits, faults, restarts,
    \* Observers, with the field had of a request: the rights that the session's
    \* user has had since it came
    unsaved,  \* a start would not find the secret of memory
    ended     \* browsers whose session a full reset has ended

vars == <<users, usersFile, born, env, secret, secretFile, generated, cookie,
          form, request, edits, faults, restarts, unsaved, ended>>

accounts == <<users, usersFile, born, edits>>
secrets == <<env, secret, secretFile, generated, unsaved>>
browsers == <<cookie, form, ended>>

None == [none |-> TRUE]
NoKey == 0
EnvKey == MaxSecrets + 1
Idle == [at |-> "idle"]

Rights(standing) ==
    CASE standing = "admin" -> {"read", "write", "admin"}
      [] standing = "writer" -> {"read", "write"}
      [] standing = "viewer" -> {"read"}
      [] OTHER -> {}
Live(id) == Rights(users[id]) # {}

-----------------------------------------------------------------------------
(* Cookies and tokens *)

\* GetSessionUserID: the user of a session, none if it is not good.
GetSessionUserID(session) ==
    IF session = None \/ session.key # secret
    THEN {} ELSE {session.user}

\* currentUser, and the right that the caller asks of it.
CurrentUser(b) == {u \in GetSessionUserID(cookie[b]) : Live(u)}
May(b, right) == \E u \in CurrentUser(b) : right \in Rights(users[u])

ValidateCSRFToken(token, user) ==
    /\ token # None
    /\ token.user = user
    /\ token.key = secret

\* What the secret of the moment signs: a session lives for 7 days (cookieTTL), the
\* token of a form for 4 hours (csrfTTL).
Signed(user) == [user |-> user, key |-> secret]

SetSession(b, user) ==
    /\ cookie' = [cookie EXCEPT ![b] = Signed(user)]
    /\ ended' = ended \ {b}

ClearSession(b) ==
    cookie' = [cookie EXCEPT ![b] = None] /\ ended' = ended \ {b}

-----------------------------------------------------------------------------
(* Files *)

\* A file becomes after, or the call fails.
Written(file, file2, after) ==
    \/ file2 = after /\ UNCHANGED faults
    \/ faults < MaxFaults /\ faults' = faults + 1 /\ file2 = file

\* A new secret, and the attempt to write it, whose error is ignored: the file is
\* opened and truncated in place, so that one that fails may leave nothing that
\* decodes.  broken counts the calls that have failed before it.
Generate(broken) ==
    /\ generated < MaxSecrets
    /\ generated' = generated + 1 /\ secret' = generated'
    /\ \/ /\ secretFile' = secret' /\ unsaved' = FALSE
          /\ faults' = faults + broken
       \/ /\ secretFile' \in {secretFile, NoKey} /\ unsaved' = TRUE
          /\ faults' = faults + broken + 1
    /\ faults' <= MaxFaults

\* Mutant: the secret in the file is not understood.
GenerateAlways == Generate(0)

\* A file that cannot be read, or in which there is no key any more, is treated like
\* a missing one: a new secret takes its place.
LoadOrGenerate ==
    \/ /\ secretFile # NoKey
       /\ secret' = secretFile /\ unsaved' = FALSE
       /\ UNCHANGED <<secretFile, generated, faults>>
    \/ secretFile # NoKey /\ Generate(1)
    \/ secretFile = NoKey /\ Generate(0)

InitSessionSecret ==
    /\ IF env
       THEN secret' = EnvKey /\ unsaved' = FALSE /\ UNCHANGED <<secretFile, generated, faults>>
       ELSE LoadOrGenerate
    /\ UNCHANGED env

-----------------------------------------------------------------------------
Init ==
    /\ users = FirstUsers /\ usersFile = FirstUsers
    /\ born = {id \in Ids : FirstUsers[id] # "absent"}
    /\ env \in BOOLEAN
    /\ IF env THEN secret = EnvKey /\ secretFile = NoKey /\ generated = 0
       ELSE secret = 1 /\ secretFile = 1 /\ generated = 1
    /\ cookie = [b \in Browsers |-> None]
    /\ form = [b \in Browsers |-> None]
    /\ request = [b \in Browsers |-> Idle]
    /\ edits = 0 /\ faults = 0 /\ restarts = 0
    /\ unsaved = FALSE /\ ended = {}

Reaches(b, stage) == request' = [request EXCEPT ![b] = stage]
Next1(b, at) == Reaches(b, [request[b] EXCEPT !.at = at])
Ends(b) == Reaches(b, Idle)
\* The answer to a posted form takes the place of its page.
Answered(b) == Ends(b) /\ form' = [form EXCEPT ![b] = None]

-----------------------------------------------------------------------------
(* Log-in, set-up, pages *)

\* loginSubmit: the account is active, and the password right, whoever is logged in
\* with that browser; ...
Authenticates(b, id) ==
    /\ request[b] = Idle
    /\ Live(id)
    /\ Reaches(b, [at |-> "login", user |-> id])
    /\ UNCHANGED <<accounts, secrets, browsers, faults, restarts>>

\* ... comparing passwords takes its time; then the session is signed.
LogsIn(b) ==
    /\ request[b].at = "login"
    /\ SetSession(b, request[b].user)
    /\ Ends(b)
    /\ UNCHANGED <<accounts, secrets, form, faults, restarts>>

\* setupSubmit: there are no users, ...
SetupLooks(b) ==
    /\ request[b] = Idle
    /\ \A id \in Ids : users[id] = "absent"
    /\ Reaches(b, [at |-> "setup"])
    /\ UNCHANGED <<accounts, secrets, browsers, faults, restarts>>

\* ... the administrator is made and logged in.
SetupCreates(b) ==
    /\ request[b].at = "setup"
    /\ \E id \in Ids \ born :
          /\ users' = [users EXCEPT ![id] = "admin"]
          /\ born' = born \cup {id}
          /\ usersFile' = users'
          /\ Reaches(b, [at |-> "login", user |-> id])
    /\ UNCHANGED <<edits, secrets, browsers, faults, restarts>>

\* render puts a token in every page with a form.
ShowsPage(b) ==
    /\ request[b] = Idle
    /\ \E u \in CurrentUser(b) :
          form' = [form EXCEPT ![b] = Signed(u)]
    /\ UNCHANGED <<accounts, secrets, cookie, ended, request, faults, restarts>>

-----------------------------------------------------------------------------
(* A posted form: the wrappers *)

\* requireAuth: a form that asks for a right is posted by a user; who is nobody is
\* sent to the log-in.
RequireAuth(b, right) ==
    /\ request[b] = Idle
    /\ form[b] # None /\ CurrentUser(b) # {}
    /\ Reaches(b, [at |-> "known", right |-> right, had |-> Rights(users[cookie[b].user])])
    /\ UNCHANGED <<accounts, secrets, browsers, faults, restarts>>

\* A further look: the request goes on if it finds what it asks, and ends if
\* not: with a redirection, an error page or, when the second look of requireWrite
\* and requireAdmin finds nobody, a panic.
Looks(b, at, found, next) ==
    /\ request[b].at = at
    /\ IF found THEN Next1(b, next) /\ UNCHANGED form ELSE Answered(b)
    /\ UNCHANGED <<accounts, secrets, cookie, ended, faults, restarts>>

\* Mutant: the role is taken on trust.
RequireKnown(b) == Looks(b, "known", CurrentUser(b) # {}, "allowed")

\* requireWrite, requireAdmin
RequireRole(b) == Looks(b, "known", May(b, request[b].right), "allowed")

TokenFits(b) == \E u \in CurrentUser(b) : ValidateCSRFToken(form[b], u)
RequireCSRF(b) == Looks(b, "allowed", TokenFits(b), "runs")

\* POST /logout asks for the token only; logout clears the cookie.
LogsOut(b) ==
    /\ request[b] = Idle
    /\ TokenFits(b)
    /\ ClearSession(b)
    /\ form' = [form EXCEPT ![b] = None]
    /\ UNCHANGED <<accounts, secrets, request, faults, restarts>>

-----------------------------------------------------------------------------
(* A posted form: the handlers *)

\* A handler that works on instances, or one that looks once more and refuses.
Works(b) ==
    /\ request[b].at = "runs"
    /\ Answered(b)
    /\ UNCHANGED <<accounts, secrets, cookie, ended, faults, restarts>>

\* adminEditUser, adminDeleteUser: nobody edits himself; who is gone is no user.
AdminSets(b) ==
    /\ request[b].at = "runs" /\ request[b].right = "admin"
    /\ edits < MaxEdits /\ edits' = edits + 1
    /\ \E id \in Ids \ CurrentUser(b), standing \in Standings :
          /\ users[id] # "absent"
          /\ users' = [users EXCEPT ![id] = standing]
          /\ usersFile' = users'
          /\ request' = [c \in Browsers |->
                IF c = b THEN Idle
                ELSE IF "had" \in DOMAIN request[c] /\ cookie[c].user = id
                THEN [request[c] EXCEPT !.had = @ \cup Rights(standing)]
                ELSE request[c]]
    /\ form' = [form EXCEPT ![b] = None]
    /\ UNCHANGED <<born, secrets, cookie, ended, faults, restarts>>

\* fullReset: a look at who asks (a panic if he is gone), then users.FullReset,
\* which empties memory and removes users.json or fails to ...
ResetsUsers(b) ==
    /\ request[b].at = "runs" /\ request[b].right = "admin"
    /\ CurrentUser(b) # {}
    /\ users' = [id \in Ids |-> "absent"]
    /\ Written(usersFile, usersFile', users')
    /\ ended' = IF faults' = faults THEN {c \in Browsers : cookie[c] # None} ELSE ended
    /\ Next1(b, "emptied")
    /\ UNCHANGED <<born, edits, secrets, cookie, form, restarts>>

\* Mutant: the secret is rotated in memory only.
RotatesMemory(b) ==
    /\ generated < MaxSecrets
    /\ generated' = generated + 1 /\ secret' = generated' /\ unsaved' = TRUE
    /\ ended' = IF env THEN ended \ {b} ELSE {c \in Browsers \ {b} : cookie[c] # None}
    /\ UNCHANGED <<secretFile, faults>>

\* DeleteSessionSecret: no rotation if the file cannot be removed; the new secret
\* is kept in memory only.  The browser that asked is logged out either way.
DeleteSessionSecret(b) ==
    \/ /\ generated < MaxSecrets
       /\ secretFile' = NoKey
       /\ generated' = generated + 1 /\ secret' = generated' /\ unsaved' = TRUE
       /\ ended' = IF env THEN ended \ {b} ELSE {c \in Browsers \ {b} : cookie[c] # None}
       /\ UNCHANGED faults
    \/ /\ faults < MaxFaults /\ faults' = faults + 1
       /\ ended' = ended \ {b}
       /\ UNCHANGED <<secret, secretFile, generated, unsaved>>

\* ... and then DeleteSessionSecret and ClearSession.
ResetsSecret(b) ==
    /\ request[b].at = "emptied"
    /\ DeleteSessionSecret(b)
    /\ cookie' = [cookie EXCEPT ![b] = None]
    /\ Answered(b)
    /\ UNCHANGED <<accounts, env, restarts>>

-----------------------------------------------------------------------------
(* The clock and the process *)

\* Time passes beyond what a session or a form lives for.
SessionExpires(b) ==
    /\ cookie[b] # None /\ cookie[b].key # NoKey
    /\ cookie' = [cookie EXCEPT ![b].key = NoKey]
    /\ UNCHANGED <<accounts, secrets, form, ended, request, faults, restarts>>

FormExpires(b) ==
    /\ form[b] # None /\ form[b].key # NoKey
    /\ form' = [form EXCEPT ![b].key = NoKey]
    /\ UNCHANGED <<accounts, secrets, cookie, ended, request, faults, restarts>>

\* The process dies and is started again; requests are lost, browsers are not.
CrashAndRestart ==
    /\ restarts < MaxRestarts
    /\ restarts' = restarts + 1
    /\ users' = usersFile
    /\ InitSessionSecret
    /\ request' = [b \in Browsers |-> Idle]
    /\ UNCHANGED <<usersFile, born, edits, browsers>>

Next ==
    \/ \E b \in Browsers :
          \/ (\E id \in Ids : Authenticates(b, id)) \/ LogsIn(b)
          \/ SetupLooks(b) \/ SetupCreates(b) \/ ShowsPage(b)
          \/ (\E right \in {"write", "admin"} : RequireAuth(b, right))
          \/ RequireRole(b) \/ RequireCSRF(b)
          \/ LogsOut(b) \/ Works(b) \/ AdminSets(b)
          \/ ResetsUsers(b) \/ ResetsSecret(b)
          \/ SessionExpires(b) \/ FormExpires(b)
    \/ CrashAndRestart

Spec == Init /\ [][Next]_vars

-----------------------------------------------------------------------------
(* Properties *)

\* A handler runs only for a user who had the right that it needs at some moment
\* since the request came, and on a form that was rendered for him: whoever was
\* demoted, deactivated or deleted before it came is refused, and so is a form
\* that another user has left open in the browser.
InGoodStanding ==
    \A b \in Browsers : request[b].at \in {"runs", "emptied"} =>
       request[b].right \in request[b].had /\ form[b].user = cookie[b].user

\* README "Session cookies: 7-day TTL", "Session secret persisted across restarts":
\* who is logged in stays so, and may post the form before him, across requests,
\* other people's accounts and restarts, until the session or the form expires or
\* the account goes.  Three steps are the exceptions: the rotation by a full reset,
\* a restart when the secret of memory was never on disk (it was rotated, or could
\* not be written), and a restart that cannot read the secret from its file.
Good(b) == CurrentUser(b) # {}
Rotated == generated' # generated /\ restarts' = restarts
SecretMissed == restarts' # restarts /\ (unsaved \/ faults' # faults)
SessionsLast ==
    [][~Rotated /\ ~SecretMissed =>
       \A b \in Browsers :
          /\ Good(b) /\ cookie'[b] = cookie[b] /\ Live(cookie[b].user)' => Good(b)'
          /\ TokenFits(b) /\ Good(b)' /\ form'[b] = form[b] /\ cookie'[b] = cookie[b]
                => TokenFits(b)']_vars

\* The comment "so all existing sessions become invalid immediately": after a full
\* reset no session from before it is ever good again, whatever restarts, if it
\* could remove users.json, or else the secret when that is the one on disk.
ResetEndsSessions == \A b \in ended : ~Good(b)

=============================================================================
