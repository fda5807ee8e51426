--------------------------- MODULE HandlerProofs ----------------------------
(***************************************************************************)
(* Theorems about what the handlers of the web server rely on: the         *)
(* sessions and the limiter (modules Sessions and RateLimiter), and the    *)
(* variables of a new instance (module Vars).  They hold for every number  *)
(* of accounts, browsers, secrets, instances, edits, failed writes and     *)
(* restarts, and for every limit, window and lockout that                  *)
(* LimitsAssumption allows.                                                *)
(***************************************************************************)
EXTENDS Sessions, RateLimiter, Vars, FiniteSetTheorems, WellFoundedInduction, TLAPS

-----------------------------------------------------------------------------
(* The sessions: the inductive invariant *)

SessionType == [user : Ids, key : Nat]

\* A request that requireAuth has let pass.
Underway ==
    [at : {"known", "allowed", "runs", "emptied"}, right : {"write", "admin"},
     had : SUBSET {"read", "write", "admin"}]

RequestType ==
    {Idle} \cup [at : {"login"}, user : Ids] \cup [at : {"setup"}] \cup Underway

TypeInv ==
    /\ users \in [Ids -> Standings] /\ usersFile \in [Ids -> Standings]
    /\ born \in SUBSET Ids /\ env \in BOOLEAN /\ unsaved \in BOOLEAN
    /\ secret \in Nat /\ secretFile \in Nat /\ generated \in Nat
    /\ cookie \in [Browsers -> SessionType \cup {None}]
    /\ form \in [Browsers -> SessionType \cup {None}]
    /\ request \in [Browsers -> RequestType]
    /\ faults \in Nat /\ restarts \in Nat
    /\ ended \in SUBSET Browsers

\* No session is for an id that is yet to be given.
IdsGivenOnce ==
    /\ \A id \in Ids \ born : users[id] = "absent" /\ usersFile[id] = "absent"
    /\ \A b \in Browsers :
          /\ cookie[b] # None => cookie[b].user \in born
          /\ request[b].at = "login" => request[b].user \in born

\* Every secret is younger than those before it, and a start finds the one of
\* memory unless that was never saved.
KeysInOrder ==
    /\ secret # NoKey
    /\ ~env => /\ secret <= generated /\ secretFile <= generated
               /\ \A b \in Browsers : cookie[b] # None => cookie[b].key <= generated
    /\ ~unsaved /\ env => secret = EnvKey
    /\ ~unsaved /\ ~env => secret = secretFile

\* Since a request was let pass its user has had no right that it does not know of.
Admitted ==
    \A b \in Browsers : request[b] \in Underway =>
       /\ cookie[b] # None
       /\ Rights(users[cookie[b].user]) \subseteq request[b].had
       /\ request[b].at # "known" => request[b].right \in request[b].had
       /\ request[b].at \in {"runs", "emptied"} => form[b].user = cookie[b].user

\* A session ends for good when its account is gone, also from the file, or its
\* secret is.
Gone(id) == id \in born /\ users[id] = "absent" /\ usersFile[id] = "absent"
Dead(key) ==
    key = NoKey \/ (~env /\ key <= generated /\ key # secret /\ key # secretFile)

EndedForGood ==
    \A b \in ended : cookie[b] # None /\ (Gone(cookie[b].user) \/ Dead(cookie[b].key))

Inv ==
    /\ TypeInv /\ IdsGivenOnce /\ KeysInOrder /\ Admitted /\ EndedForGood

-----------------------------------------------------------------------------
(* Lemmas about the operators *)

LEMMA RightsFacts ==
    ASSUME NEW standing
    PROVE  /\ Rights(standing) \in SUBSET {"read", "write", "admin"}
           /\ standing = "absent" => Rights(standing) = {}
BY DEF Rights

\* The user of a good session is the one that its cookie names.
LEMMA CurrentUserFacts ==
    ASSUME NEW b \in Browsers
    PROVE  \A u : u \in CurrentUser(b) <=>
              /\ cookie[b] # None /\ cookie[b].key = secret
              /\ u = cookie[b].user /\ Live(u)
BY DEF CurrentUser, GetSessionUserID

LEMMA LiveIsBorn ==
    ASSUME TypeInv, IdsGivenOnce, NEW id \in Ids, Live(id)
    PROVE  id \in born
BY RightsFacts DEF TypeInv, IdsGivenOnce, Live

\* A step of a request on its way: it moves on or it ends.
LEMMA MovedOn ==
    ASSUME NEW b \in Browsers, TypeInv, request[b] \in Underway,
           NEW at \in {"known", "allowed", "runs", "emptied"},
           Next1(b, at)
    PROVE  /\ request' \in [Browsers -> RequestType]
           /\ \A c \in Browsers \ {b} : request'[c] = request[c]
           /\ request'[b] \in Underway /\ request'[b].at = at
           /\ request'[b].right = request[b].right /\ request'[b].had = request[b].had
BY DEF TypeInv, RequestType, Underway, Next1, Reaches

LEMMA RequestEnds ==
    ASSUME NEW b \in Browsers, TypeInv, Ends(b)
    PROVE  /\ request' \in [Browsers -> RequestType]
           /\ \A c \in Browsers \ {b} : request'[c] = request[c]
           /\ request'[b] = Idle /\ Idle \notin Underway
BY DEF TypeInv, RequestType, Underway, Ends, Reaches, Idle

LEMMA StageFacts ==
    ASSUME NEW b \in Browsers, TypeInv
    PROVE  /\ request[b].at \in {"known", "allowed", "runs", "emptied"}
                => request[b] \in Underway
           /\ request[b].at = "login" => request[b].user \in Ids
           /\ "had" \in DOMAIN request[b] <=> request[b] \in Underway
<1>1. request[b] \in RequestType
  BY DEF TypeInv
<1> QED
  BY <1>1 DEF RequestType, Underway, Idle

\* A look of a wrapper lets the request move on, or ends it.
LEMMA LooksEffect ==
    ASSUME NEW b \in Browsers, TypeInv, RequireRole(b) \/ RequireCSRF(b)
    PROVE  /\ UNCHANGED <<accounts, secrets, cookie, ended, faults, restarts>>
           /\ request[b] \in Underway
           /\ \/ Ends(b) /\ form' = [form EXCEPT ![b] = None]
              \/ /\ request[b].at = "known" /\ May(b, request[b].right)
                 /\ Next1(b, "allowed") /\ form' = form
              \/ /\ request[b].at = "allowed" /\ TokenFits(b)
                 /\ Next1(b, "runs") /\ form' = form
<1>1. CASE RequireRole(b)
  BY <1>1, StageFacts DEF RequireRole, Looks, Answered
<1>2. CASE RequireCSRF(b)
  BY <1>2, StageFacts DEF RequireCSRF, Looks, Answered
<1> QED
  BY <1>1, <1>2

\* What becomes of the files and the secret when the process is started.
LEMMA StartEffect ==
    ASSUME TypeInv, KeysInOrder, InitSessionSecret
    PROVE  /\ secret' \in Nat /\ secretFile' \in Nat /\ generated' \in Nat
           /\ unsaved' \in BOOLEAN /\ faults' \in Nat /\ env' = env
           /\ generated <= generated' /\ secret' # NoKey
           /\ ~env => /\ secret' <= generated' /\ secretFile' <= generated'
                      /\ secret' = secretFile \/ generated < secret'
                      /\ secretFile' \in {secretFile, secret', NoKey}
           /\ ~unsaved' /\ env => secret' = EnvKey
           /\ ~unsaved' /\ ~env => secret' = secretFile'
<1>1. MaxSecrets \in Nat
  BY SessionsAssumption
<1>2. CASE env
  <2>1. /\ secret' = EnvKey /\ unsaved' = FALSE /\ env' = env
        /\ secretFile' = secretFile /\ generated' = generated /\ faults' = faults
    BY <1>2 DEF InitSessionSecret
  <2>2. /\ secret' \in Nat /\ secretFile' \in Nat /\ generated' \in Nat
        /\ faults' \in Nat /\ generated <= generated' /\ secret' # NoKey
    BY <1>1, <2>1 DEF TypeInv, EnvKey, NoKey
  <2> QED
    BY Zenon, <1>2, <2>1, <2>2
<1>3. CASE ~env /\ secretFile # NoKey /\ secret' = secretFile /\ unsaved' = FALSE
           /\ UNCHANGED <<secretFile, generated, faults>>
  <2>1. /\ secret' = secretFile /\ unsaved' = FALSE /\ env' = env
        /\ secretFile' = secretFile /\ generated' = generated /\ faults' = faults
    BY <1>3 DEF InitSessionSecret
  <2>2. /\ secret' \in Nat /\ secretFile' \in Nat /\ generated' \in Nat
        /\ faults' \in Nat /\ generated <= generated' /\ secret' # NoKey
    BY <1>3, <2>1 DEF TypeInv, NoKey
  <2>3. secret' <= generated' /\ secretFile' <= generated'
    BY <1>3, <2>1 DEF KeysInOrder
  <2> QED
    BY Zenon, <1>3, <2>1, <2>2, <2>3
<1>4. ASSUME ~env, NEW broken \in {0, 1}, Generate(broken)
      PROVE  /\ secret' \in Nat /\ secretFile' \in Nat /\ generated' \in Nat
             /\ unsaved' \in BOOLEAN /\ faults' \in Nat /\ env' = env
             /\ generated < generated' /\ secret' = generated'
             /\ secretFile' <= generated'
             /\ secretFile' \in {secretFile, secret', NoKey}
             /\ ~unsaved' => secret' = secretFile'
  <2>1. /\ generated' = generated + 1 /\ secret' = generated'
        /\ secretFile' \in {secretFile, secret', NoKey}
        /\ faults' \in {faults + broken, faults + broken + 1}
        /\ unsaved' \in BOOLEAN
        /\ ~unsaved' => secret' = secretFile'
    BY <1>4 DEF Generate
  <2>2. generated \in Nat /\ faults \in Nat /\ secretFile \in Nat
        /\ secretFile <= generated
    BY <1>4 DEF TypeInv, KeysInOrder
  <2>3. env' = env
    BY DEF InitSessionSecret
  <2> QED
    BY <2>1, <2>2, <2>3 DEF NoKey
<1>5. CASE ~env /\ (Generate(0) \/ Generate(1))
  <2>1. /\ secret' \in Nat /\ secretFile' \in Nat /\ generated' \in Nat
        /\ unsaved' \in BOOLEAN /\ faults' \in Nat /\ env' = env
        /\ generated < generated' /\ secret' = generated'
        /\ secretFile' <= generated'
        /\ secretFile' \in {secretFile, secret', NoKey}
        /\ ~unsaved' => secret' = secretFile'
    BY <1>4, <1>5
  <2>2. generated \in Nat
    BY DEF TypeInv
  <2>3. generated <= generated' /\ secret' # NoKey /\ secret' <= generated'
        /\ generated < secret'
    BY <2>1, <2>2 DEF NoKey
  <2> QED
    BY <1>5, <2>1, <2>3
<1> QED
  BY <1>2, <1>3, <1>5 DEF InitSessionSecret, LoadOrGenerate

-----------------------------------------------------------------------------
(* Types *)

LEMMA TypeNext ==
    ASSUME Inv, [Next]_vars
    PROVE  TypeInv'
<1>1. TypeInv
  BY DEF Inv
<1>2. ASSUME NEW b \in Browsers, NEW id \in Ids, Authenticates(b, id)
      PROVE  TypeInv'
  BY <1>1, <1>2 DEF TypeInv, RequestType, Authenticates, Reaches, accounts, secrets, browsers
<1>3. ASSUME NEW b \in Browsers, LogsIn(b)
      PROVE  TypeInv'
  BY <1>1, <1>3, StageFacts, RequestEnds
     DEF TypeInv, SessionType, LogsIn, SetSession, Signed, accounts, secrets
<1>4. ASSUME NEW b \in Browsers, SetupLooks(b)
      PROVE  TypeInv'
  BY <1>1, <1>4 DEF TypeInv, RequestType, SetupLooks, Reaches, accounts, secrets, browsers
<1>5. ASSUME NEW b \in Browsers, SetupCreates(b)
      PROVE  TypeInv'
  BY <1>1, <1>5
     DEF TypeInv, RequestType, Standings, SetupCreates, Reaches, secrets, browsers
<1>6. ASSUME NEW b \in Browsers, ShowsPage(b)
      PROVE  TypeInv'
  <2>1. PICK u \in CurrentUser(b) : form' = [form EXCEPT ![b] = Signed(u)]
    BY <1>6 DEF ShowsPage
  <2>2. Signed(u) \in SessionType
    BY <1>1, <2>1, CurrentUserFacts DEF Signed, SessionType, TypeInv
  <2> QED
    BY <1>1, <1>6, <2>1, <2>2 DEF TypeInv, ShowsPage, accounts, secrets
<1>7. ASSUME NEW b \in Browsers, NEW right \in {"write", "admin"}, RequireAuth(b, right)
      PROVE  TypeInv'
  <2>1. [at |-> "known", right |-> right, had |-> Rights(users[cookie[b].user])]
          \in RequestType
    BY RightsFacts DEF RequestType, Underway
  <2> QED
    BY <1>1, <1>7, <2>1 DEF TypeInv, RequireAuth, Reaches, accounts, secrets, browsers
<1>8. ASSUME NEW b \in Browsers, RequireRole(b) \/ RequireCSRF(b)
      PROVE  TypeInv'
  <2>1. request' \in [Browsers -> RequestType] /\ form' \in [Browsers -> SessionType \cup {None}]
    BY <1>1, <1>8, LooksEffect, MovedOn, RequestEnds DEF TypeInv
  <2> QED
    BY <1>1, <1>8, <2>1, LooksEffect DEF TypeInv, accounts, secrets
<1>9. ASSUME NEW b \in Browsers, LogsOut(b)
      PROVE  TypeInv'
  BY <1>1, <1>9 DEF TypeInv, LogsOut, ClearSession, accounts, secrets
<1>10. ASSUME NEW b \in Browsers, Works(b)
       PROVE  TypeInv'
  BY <1>1, <1>10, RequestEnds DEF TypeInv, Works, Answered, accounts, secrets
<1>11. ASSUME NEW b \in Browsers, AdminSets(b)
       PROVE  TypeInv'
  <2>1. PICK id \in Ids, standing \in Standings :
          /\ users' = [users EXCEPT ![id] = standing]
          /\ usersFile' = users'
          /\ request' = [c \in Browsers |->
                IF c = b THEN Idle
                ELSE IF "had" \in DOMAIN request[c] /\ cookie[c].user = id
                THEN [request[c] EXCEPT !.had = @ \cup Rights(standing)]
                ELSE request[c]]
    BY <1>11 DEF AdminSets
  <2>2. ASSUME NEW c \in Browsers PROVE request'[c] \in RequestType
    <3>1. request[c] \in Underway =>
            [request[c] EXCEPT !.had = @ \cup Rights(standing)] \in Underway
      BY RightsFacts DEF Underway
    <3> QED
      BY <1>1, <2>1, <3>1, StageFacts DEF TypeInv, RequestType
  <2>3. request' \in [Browsers -> RequestType]
    BY <2>1, <2>2
  <2> QED
    BY <1>1, <1>11, <2>1, <2>3 DEF TypeInv, AdminSets, secrets
<1>12. ASSUME NEW b \in Browsers, ResetsUsers(b)
       PROVE  TypeInv'
  <2>1. request' \in [Browsers -> RequestType]
    BY <1>1, <1>12, StageFacts, MovedOn DEF ResetsUsers
  <2> QED
    BY <1>1, <1>12, <2>1 DEF TypeInv, Standings, ResetsUsers, Written, secrets
<1>13. ASSUME NEW b \in Browsers, ResetsSecret(b)
       PROVE  TypeInv'
  <2>1. /\ request' \in [Browsers -> RequestType]
        /\ form' \in [Browsers -> SessionType \cup {None}]
    BY <1>1, <1>13, RequestEnds DEF TypeInv, ResetsSecret, Answered
  <2>2. /\ secret' \in Nat /\ secretFile' \in Nat /\ generated' \in Nat
        /\ faults' \in Nat /\ ended' \in SUBSET Browsers
    BY <1>1, <1>13 DEF TypeInv, ResetsSecret, DeleteSessionSecret, NoKey
  <2>3. unsaved' \in BOOLEAN
    BY <1>1, <1>13 DEF TypeInv, ResetsSecret, DeleteSessionSecret
  <2>4. /\ users' = users /\ usersFile' = usersFile /\ born' = born /\ env' = env
        /\ restarts' = restarts /\ cookie' = [cookie EXCEPT ![b] = None]
    BY <1>13 DEF ResetsSecret, accounts
  <2> QED
    BY <1>1, <2>1, <2>2, <2>3, <2>4 DEF TypeInv
<1>14. ASSUME NEW b \in Browsers, SessionExpires(b) \/ FormExpires(b)
       PROVE  TypeInv'
  BY <1>1, <1>14
     DEF TypeInv, SessionType, SessionExpires, FormExpires, accounts, secrets, NoKey
<1>15. CASE CrashAndRestart
  <2>1. request' \in [Browsers -> RequestType] /\ restarts' \in Nat
    BY <1>1, <1>15 DEF TypeInv, RequestType, CrashAndRestart
  <2> QED
    BY <1>1, <1>15, <2>1, StartEffect DEF TypeInv, CrashAndRestart, browsers, Inv
<1>16. CASE UNCHANGED vars
  BY <1>1, <1>16 DEF TypeInv, vars
<1> QED
  BY <1>2, <1>3, <1>4, <1>5, <1>6, <1>7, <1>8, <1>9, <1>10, <1>11, <1>12, <1>13,
     <1>14, <1>15, <1>16 DEF Next

-----------------------------------------------------------------------------
(* The ids and the secrets *)

LEMMA IdsNext ==
    ASSUME Inv, [Next]_vars, TypeInv'
    PROVE  IdsGivenOnce'
<1>1. TypeInv /\ IdsGivenOnce
  BY DEF Inv
<1>2. ASSUME NEW b \in Browsers, NEW id \in Ids, Authenticates(b, id)
      PROVE  IdsGivenOnce'
  BY <1>1, <1>2, LiveIsBorn
     DEF TypeInv, IdsGivenOnce, Authenticates, Reaches, accounts, browsers
<1>3. ASSUME NEW b \in Browsers, LogsIn(b)
      PROVE  IdsGivenOnce'
  BY <1>1, <1>3
     DEF TypeInv, IdsGivenOnce, LogsIn, SetSession, Signed, Ends, Reaches, Idle, accounts
<1>4. ASSUME NEW b \in Browsers, SetupCreates(b)
      PROVE  IdsGivenOnce'
  <2>1. PICK id \in Ids \ born :
          /\ users' = [users EXCEPT ![id] = "admin"]
          /\ born' = born \cup {id}
          /\ usersFile' = users'
          /\ request' = [request EXCEPT ![b] = [at |-> "login", user |-> id]]
    BY <1>4 DEF SetupCreates, Reaches
  <2>2. cookie' = cookie
    BY <1>4 DEF SetupCreates, browsers
  <2> QED
    BY <1>1, <2>1, <2>2 DEF TypeInv, IdsGivenOnce
<1>5. ASSUME NEW b \in Browsers, NEW right \in {"write", "admin"},
             SetupLooks(b) \/ ShowsPage(b) \/ RequireAuth(b, right)
      PROVE  IdsGivenOnce'
  BY <1>1, <1>5
     DEF TypeInv, IdsGivenOnce, SetupLooks, ShowsPage, RequireAuth, Reaches, accounts, browsers
<1>6. ASSUME NEW b \in Browsers, RequireRole(b) \/ RequireCSRF(b)
      PROVE  IdsGivenOnce'
  <2>1. \A c \in Browsers : request'[c] = request[c] \/ request'[c].at # "login"
    BY <1>1, <1>6, LooksEffect, MovedOn, RequestEnds DEF Idle
  <2> QED
    BY <1>1, <1>6, <2>1, LooksEffect DEF TypeInv, IdsGivenOnce, accounts
<1>7. ASSUME NEW b \in Browsers, LogsOut(b) \/ Works(b)
      PROVE  IdsGivenOnce'
  BY <1>1, <1>7
     DEF TypeInv, IdsGivenOnce, LogsOut, ClearSession, Works, Answered, Ends, Reaches, Idle,
         accounts
<1>8. ASSUME NEW b \in Browsers, AdminSets(b)
      PROVE  IdsGivenOnce'
  <2>1. PICK id \in Ids, standing \in Standings :
          /\ users[id] # "absent"
          /\ users' = [users EXCEPT ![id] = standing]
          /\ usersFile' = users'
          /\ request' = [c \in Browsers |->
                IF c = b THEN Idle
                ELSE IF "had" \in DOMAIN request[c] /\ cookie[c].user = id
                THEN [request[c] EXCEPT !.had = @ \cup Rights(standing)]
                ELSE request[c]]
    BY <1>8 DEF AdminSets
  <2>2. born' = born /\ cookie' = cookie /\ id \in born
    BY <1>1, <1>8, <2>1 DEF AdminSets, IdsGivenOnce
  <2>3. ASSUME NEW c \in Browsers
        PROVE  request'[c] = request[c] \/ request'[c].at # "login"
    BY <1>1, <2>1, StageFacts DEF Idle, Underway
  <2> QED
    BY <1>1, <2>1, <2>2, <2>3 DEF TypeInv, IdsGivenOnce
<1>9. ASSUME NEW b \in Browsers, ResetsUsers(b)
      PROVE  IdsGivenOnce'
  <2>1. \A c \in Browsers : request'[c] = request[c] \/ request'[c].at # "login"
    BY <1>1, <1>9, StageFacts, MovedOn DEF ResetsUsers
  <2> QED
    BY <1>1, <1>9, <2>1 DEF TypeInv, IdsGivenOnce, ResetsUsers, Written
<1>10. ASSUME NEW b \in Browsers, ResetsSecret(b)
       PROVE  IdsGivenOnce'
  BY <1>1, <1>10
     DEF TypeInv, IdsGivenOnce, ResetsSecret, Answered, Ends, Reaches, Idle, accounts
<1>11. ASSUME NEW b \in Browsers, SessionExpires(b) \/ FormExpires(b)
       PROVE  IdsGivenOnce'
  <2>1. \A c \in Browsers : cookie'[c] # None =>
          cookie[c] # None /\ cookie'[c].user = cookie[c].user
    BY <1>1, <1>11 DEF TypeInv, SessionType, SessionExpires, FormExpires
  <2> QED
    BY <1>1, <1>11, <2>1 DEF IdsGivenOnce, SessionExpires, FormExpires, accounts
<1>12. CASE CrashAndRestart
  BY <1>1, <1>12 DEF TypeInv, IdsGivenOnce, CrashAndRestart, Idle, browsers
<1>13. CASE UNCHANGED vars
  BY <1>1, <1>13 DEF IdsGivenOnce, vars
<1> QED
  BY <1>2, <1>3, <1>4, <1>5, <1>6, <1>7, <1>8, <1>9, <1>10, <1>11, <1>12, <1>13
     DEF Next

\* Only four steps touch the secret or the cookie that it signs.
LEMMA OtherStepsKeepKeys ==
    ASSUME [Next]_vars
    PROVE  \/ UNCHANGED <<secrets, cookie, ended>>
           \/ UNCHANGED secrets /\ \E b \in Browsers : LogsIn(b) \/ SessionExpires(b)
           \/ UNCHANGED secrets /\ \E b \in Browsers : LogsOut(b)
           \/ UNCHANGED <<secrets, cookie>> /\ \E b \in Browsers : ResetsUsers(b)
           \/ \E b \in Browsers : ResetsSecret(b)
           \/ CrashAndRestart
<1>1. ASSUME NEW b \in Browsers, NEW id \in Ids, Authenticates(b, id)
      PROVE  UNCHANGED <<secrets, cookie, ended>>
  BY <1>1 DEF Authenticates, browsers
<1>2. ASSUME NEW b \in Browsers, NEW right \in {"write", "admin"},
             \/ SetupLooks(b) \/ SetupCreates(b) \/ ShowsPage(b) \/ RequireAuth(b, right)
             \/ RequireRole(b) \/ RequireCSRF(b) \/ Works(b) \/ AdminSets(b)
             \/ FormExpires(b)
      PROVE  UNCHANGED <<secrets, cookie, ended>>
  BY <1>2 DEF SetupLooks, SetupCreates, ShowsPage, RequireAuth, RequireRole, RequireCSRF,
              Looks, Works, AdminSets, FormExpires, browsers
<1>3. ASSUME NEW b \in Browsers, LogsIn(b) \/ SessionExpires(b) \/ LogsOut(b)
      PROVE  UNCHANGED secrets
  BY <1>3 DEF LogsIn, SessionExpires, LogsOut
<1>4. ASSUME NEW b \in Browsers, ResetsUsers(b)
      PROVE  UNCHANGED <<secrets, cookie>>
  BY <1>4 DEF ResetsUsers
<1>5. CASE UNCHANGED vars
  BY <1>5 DEF vars, secrets
<1> QED
  BY <1>1, <1>2, <1>3, <1>4, <1>5 DEF Next

\* A log-in signs with the secret of the moment.
LEMMA LogsInEffect ==
    ASSUME NEW b \in Browsers, TypeInv, LogsIn(b)
    PROVE  /\ UNCHANGED accounts /\ ended' = ended \ {b}
           /\ cookie'[b] # None /\ cookie'[b].key = secret
           /\ \A c \in Browsers \ {b} : cookie'[c] = cookie[c]
BY DEF TypeInv, LogsIn, SetSession, Signed, None

LEMMA ExpiresEffect ==
    ASSUME NEW b \in Browsers, TypeInv, SessionExpires(b)
    PROVE  /\ UNCHANGED <<accounts, ended>>
           /\ cookie[b] # None /\ cookie'[b] # None
           /\ cookie'[b].key = NoKey /\ cookie'[b].user = cookie[b].user
           /\ \A c \in Browsers \ {b} : cookie'[c] = cookie[c]
BY DEF TypeInv, SessionType, SessionExpires, None

LEMMA KeysNext ==
    ASSUME Inv, [Next]_vars, TypeInv'
    PROVE  KeysInOrder'
<1>1. TypeInv /\ KeysInOrder
  BY DEF Inv
<1>2. CASE UNCHANGED <<secrets, cookie>>
  BY <1>1, <1>2 DEF KeysInOrder, secrets
<1>3. ASSUME NEW b \in Browsers, LogsIn(b) \/ SessionExpires(b), UNCHANGED secrets
      PROVE  KeysInOrder'
  BY <1>1, <1>3, LogsInEffect, ExpiresEffect DEF KeysInOrder, secrets, TypeInv, NoKey
<1>4. ASSUME NEW b \in Browsers, LogsOut(b), UNCHANGED secrets
      PROVE  KeysInOrder'
  BY <1>1, <1>4 DEF KeysInOrder, secrets, TypeInv, LogsOut, ClearSession
<1>5. ASSUME NEW b \in Browsers, ResetsSecret(b)
      PROVE  KeysInOrder'
  <2>1. cookie' = [cookie EXCEPT ![b] = None] /\ env' = env
    BY <1>5 DEF ResetsSecret
  <2>2. CASE UNCHANGED <<secret, secretFile, generated, unsaved>>
    BY <1>1, <2>1, <2>2 DEF KeysInOrder, TypeInv
  <2>3. CASE /\ secretFile' = NoKey
             /\ generated' = generated + 1 /\ secret' = generated' /\ unsaved' = TRUE
    <3>1. \A c \in Browsers : cookie'[c] # None => cookie'[c] = cookie[c]
                                                  /\ cookie[c].key \in Nat
      BY <1>1, <2>1 DEF TypeInv, SessionType
    <3>2. /\ secret' # NoKey /\ unsaved' /\ generated < generated'
          /\ secret' <= generated' /\ secretFile' <= generated' /\ generated \in Nat
      BY <1>1, <2>3 DEF TypeInv, NoKey
    <3>3. ASSUME ~env, NEW c \in Browsers, cookie'[c] # None
          PROVE  cookie'[c].key <= generated'
      <4>1. cookie[c].key \in Nat /\ cookie[c].key <= generated
        BY <1>1, <3>1, <3>3 DEF KeysInOrder
      <4> QED
        BY <1>1, <3>1, <3>2, <3>3, <4>1 DEF TypeInv
    <3> QED
      BY Zenon, <2>1, <3>2, <3>3 DEF KeysInOrder
  <2> QED
    BY <1>5, <2>2, <2>3 DEF ResetsSecret, DeleteSessionSecret
<1>6. CASE CrashAndRestart
  <2>1. InitSessionSecret /\ cookie' = cookie
    BY <1>6 DEF CrashAndRestart, browsers
  <2>2. \A b \in Browsers : cookie[b] # None => cookie[b].key \in Nat
    BY <1>1 DEF TypeInv, SessionType
  <2> QED
    BY <1>1, <2>1, <2>2, StartEffect DEF KeysInOrder, TypeInv
<1> QED
  BY <1>2, <1>3, <1>4, <1>5, <1>6, OtherStepsKeepKeys

-----------------------------------------------------------------------------
(* A session that has ended *)

LEMMA EndedNext ==
    ASSUME Inv, [Next]_vars, TypeInv', IdsGivenOnce'
    PROVE  EndedForGood'
<1>1. TypeInv /\ IdsGivenOnce /\ KeysInOrder /\ EndedForGood
  BY DEF Inv
<1>2. \A id \in Ids : Gone(id) => Gone(id)'
  <2>1. ASSUME NEW b \in Browsers, SetupCreates(b)
        PROVE  \A id \in Ids : Gone(id) => Gone(id)'
    BY <1>1, <2>1 DEF Gone, SetupCreates, TypeInv
  <2>2. ASSUME NEW b \in Browsers, AdminSets(b)
        PROVE  \A id \in Ids : Gone(id) => Gone(id)'
    BY <1>1, <2>2 DEF Gone, AdminSets, TypeInv
  <2>3. ASSUME NEW b \in Browsers, ResetsUsers(b)
        PROVE  \A id \in Ids : Gone(id) => Gone(id)'
    BY <1>1, <2>3 DEF Gone, ResetsUsers, Written, TypeInv
  <2>4. CASE CrashAndRestart
    BY <1>1, <2>4 DEF Gone, CrashAndRestart, TypeInv
  <2>5. CASE UNCHANGED accounts
    BY <2>5 DEF Gone, accounts
  <2>6. ASSUME NEW b \in Browsers, NEW id \in Ids, NEW right \in {"write", "admin"},
               \/ Authenticates(b, id) \/ LogsIn(b) \/ SetupLooks(b) \/ ShowsPage(b)
               \/ RequireAuth(b, right) \/ LogsOut(b) \/ Works(b) \/ ResetsSecret(b)
               \/ SessionExpires(b) \/ FormExpires(b)
        PROVE  UNCHANGED accounts
    BY <2>6 DEF Authenticates, LogsIn, SetupLooks, ShowsPage, RequireAuth, LogsOut, Works,
                ResetsSecret, SessionExpires, FormExpires
  <2>7. ASSUME NEW b \in Browsers, RequireRole(b) \/ RequireCSRF(b)
        PROVE  UNCHANGED accounts
    BY <1>1, <2>7, LooksEffect
  <2>8. UNCHANGED vars => UNCHANGED accounts
    BY DEF vars, accounts
  <2> QED
    BY <2>1, <2>2, <2>3, <2>4, <2>5, <2>6, <2>7, <2>8 DEF Next
<1>3. \A b \in Browsers : cookie[b] # None => cookie[b].user \in Ids /\ cookie[b].key \in Nat
  BY <1>1 DEF TypeInv, SessionType
<1>4. \A b \in ended : b \in Browsers
  BY <1>1 DEF TypeInv
<1>5. CASE UNCHANGED <<secrets, cookie, ended>>
  BY <1>1, <1>2, <1>3, <1>4, <1>5 DEF EndedForGood, Dead, secrets
<1>6. ASSUME NEW b \in Browsers, LogsIn(b) \/ SessionExpires(b), UNCHANGED secrets
      PROVE  EndedForGood'
  <2>1. \A c \in ended' : c \in ended /\ (cookie'[c] = cookie[c] \/ (SessionExpires(b) /\ c = b))
    BY <1>1, <1>4, <1>6, LogsInEffect, ExpiresEffect
  <2>2. ASSUME SessionExpires(b) PROVE Dead(cookie[b].key)' /\ cookie'[b] # None
    BY <1>1, <2>2, ExpiresEffect DEF Dead
  <2> QED
    BY <1>1, <1>2, <1>3, <1>4, <1>6, <2>1, <2>2 DEF EndedForGood, Dead, secrets
<1>7. ASSUME NEW b \in Browsers, LogsOut(b), UNCHANGED secrets
      PROVE  EndedForGood'
  <2>1. \A c \in ended' : c \in ended /\ cookie'[c] = cookie[c]
    BY <1>1, <1>4, <1>7 DEF LogsOut, ClearSession, TypeInv
  <2> QED
    BY <1>1, <1>2, <1>3, <1>4, <1>7, <2>1 DEF EndedForGood, Dead, secrets
<1>8. ASSUME NEW b \in Browsers, ResetsUsers(b), UNCHANGED <<secrets, cookie>>
      PROVE  EndedForGood'
  <2>1. CASE faults' = faults
    <3>1. /\ users' = [id \in Ids |-> "absent"] /\ usersFile' = users' /\ born' = born
          /\ ended' = {c \in Browsers : cookie[c] # None}
      BY <1>1, <1>8, <2>1 DEF ResetsUsers, Written, TypeInv
    <3> QED
      BY <1>1, <1>3, <1>8, <3>1 DEF EndedForGood, Gone, IdsGivenOnce
  <2>2. CASE faults' # faults
    <3>1. ended' = ended
      BY <1>8, <2>2 DEF ResetsUsers
    <3> QED
      BY <1>1, <1>2, <1>3, <1>4, <1>8, <3>1 DEF EndedForGood, Dead, secrets
  <2> QED
    BY <2>1, <2>2
<1>9. ASSUME NEW b \in Browsers, ResetsSecret(b)
      PROVE  EndedForGood'
  <2>1. cookie' = [cookie EXCEPT ![b] = None] /\ env' = env
    BY <1>9 DEF ResetsSecret
  <2>2. CASE UNCHANGED <<secret, secretFile, generated>> /\ ended' = ended \ {b}
    BY <1>1, <1>2, <1>3, <1>4, <2>1, <2>2 DEF EndedForGood, Dead, TypeInv
  <2>3. CASE /\ secretFile' = NoKey
             /\ generated' = generated + 1 /\ secret' = generated'
             /\ ended' = IF env THEN ended \ {b} ELSE {c \in Browsers \ {b} : cookie[c] # None}
    <3>1. ASSUME NEW c \in ended'
          PROVE  /\ c \in Browsers /\ cookie'[c] = cookie[c] /\ cookie[c] # None
                 /\ env => c \in ended
      BY <1>1, <1>4, <2>1, <2>3 DEF TypeInv, EndedForGood
    <3>2. ASSUME NEW c \in ended', env
          PROVE  Gone(cookie[c].user)' \/ Dead(cookie[c].key)'
      BY <1>1, <1>2, <1>3, <3>1, <3>2 DEF EndedForGood, Dead
    <3>3. ASSUME NEW c \in ended', ~env
          PROVE  Dead(cookie[c].key)'
      <4>1. cookie[c].key <= generated /\ cookie[c].key \in Nat /\ generated \in Nat
        BY <1>1, <1>3, <3>1, <3>3 DEF KeysInOrder, TypeInv
      <4>2. cookie[c].key <= generated' /\ cookie[c].key # secret'
        BY <2>3, <4>1
      <4> QED
        BY <2>1, <2>3, <3>1, <3>3, <4>1, <4>2 DEF Dead, NoKey
    <3> QED
      BY <3>1, <3>2, <3>3 DEF EndedForGood
  <2> QED
    BY <1>9, <2>2, <2>3 DEF ResetsSecret, DeleteSessionSecret
<1>10. CASE CrashAndRestart
  <2>1. InitSessionSecret /\ cookie' = cookie /\ ended' = ended
    BY <1>10 DEF CrashAndRestart, browsers
  <2>2. ASSUME NEW b \in ended, Dead(cookie[b].key) PROVE Dead(cookie[b].key)'
    <3>1. ASSUME NEW key \in Nat, Dead(key) PROVE Dead(key)'
      <4>1. /\ secret' \in Nat /\ secretFile' \in Nat /\ generated' \in Nat
            /\ generated <= generated' /\ (env' <=> env)
            /\ ~env => /\ secret' = secretFile \/ generated < secret'
                       /\ secretFile' \in {secretFile, secret', NoKey}
        BY <1>1, <2>1, StartEffect
      <4> QED
        BY <1>1, <3>1, <4>1 DEF Dead, TypeInv, NoKey
    <3>2. cookie[b].key \in Nat /\ cookie' = cookie
      BY <1>1, <1>3, <1>4, <2>1 DEF EndedForGood
    <3> QED
      BY <2>2, <3>1, <3>2 DEF Dead
  <2> QED
    BY <1>1, <1>2, <1>3, <1>4, <2>1, <2>2 DEF EndedForGood
<1> QED
  BY <1>5, <1>6, <1>7, <1>8, <1>9, <1>10, OtherStepsKeepKeys

-----------------------------------------------------------------------------
(* A request that has been let pass *)

\* What keeps request c admitted: its own record is the same, and so are its cookie
\* and form, and its user has no new rights.
LEMMA StaysAdmitted ==
    ASSUME Inv, TypeInv', NEW c \in Browsers,
           request'[c] = request[c], cookie'[c] = cookie[c], form'[c] = form[c],
           \A id \in born : Rights(users'[id]) \subseteq Rights(users[id]),
           request'[c] \in Underway
    PROVE  /\ cookie'[c] # None
           /\ Rights(users'[cookie'[c].user]) \subseteq request'[c].had
           /\ request'[c].at # "known" => request'[c].right \in request'[c].had
           /\ request'[c].at \in {"runs", "emptied"} => form'[c].user = cookie'[c].user
BY DEF Inv, Admitted, IdsGivenOnce

LEMMA AdmittedNext ==
    ASSUME Inv, [Next]_vars, TypeInv'
    PROVE  Admitted'
<1>1. TypeInv /\ IdsGivenOnce /\ KeysInOrder /\ Admitted
  BY DEF Inv
<1> DEFINE Same(c) == /\ request'[c] = request[c] /\ cookie'[c] = cookie[c]
                      /\ form'[c] = form[c]
           NoNewRights == \A id \in born : Rights(users'[id]) \subseteq Rights(users[id])
<1>2. ASSUME NoNewRights, \A c \in Browsers : Same(c) \/ request'[c] \notin Underway
      PROVE  Admitted'
  BY <1>1, <1>2, StaysAdmitted DEF Admitted
<1>3. users' = users => NoNewRights
  OBVIOUS
<1>4. ASSUME NEW b \in Browsers, (\E id \in Ids : Authenticates(b, id)) \/ SetupLooks(b)
      PROVE  Admitted'
  <2>1. users' = users /\ \A c \in Browsers : Same(c) \/ request'[c] \notin Underway
    BY <1>1, <1>4 DEF TypeInv, Underway, Authenticates, SetupLooks, Reaches, accounts, browsers
  <2> QED
    BY <1>2, <1>3, <2>1
<1>5. ASSUME NEW b \in Browsers, LogsIn(b)
      PROVE  Admitted'
  <2>1. users' = users /\ form' = form /\ Ends(b)
    BY <1>5 DEF LogsIn, accounts
  <2>2. \A c \in Browsers : Same(c) \/ request'[c] \notin Underway
    BY <1>1, <1>5, <2>1, LogsInEffect, RequestEnds
  <2> QED
    BY <1>2, <1>3, <2>1, <2>2
<1>6. ASSUME NEW b \in Browsers, SetupCreates(b)
      PROVE  Admitted'
  <2>1. NoNewRights /\ \A c \in Browsers : Same(c) \/ request'[c] \notin Underway
    BY <1>1, <1>6 DEF TypeInv, Underway, SetupCreates, Reaches, browsers
  <2> QED
    BY <1>2, <2>1
<1>7. ASSUME NEW b \in Browsers,
             ShowsPage(b) \/ LogsOut(b) \/ SessionExpires(b) \/ FormExpires(b)
      PROVE  Admitted'
  <2>1. users' = users /\ request' = request
    BY <1>7 DEF ShowsPage, LogsOut, SessionExpires, FormExpires, accounts
  <2>2. CASE ShowsPage(b) \/ LogsOut(b)
    <3>1. \A c \in Browsers : Same(c) \/ request'[c] \notin Underway
      BY <1>1, <2>2 DEF TypeInv, Underway, Idle, ShowsPage, LogsOut, ClearSession
    <3> QED
      BY <1>2, <1>3, <2>1, <3>1
  <2>3. CASE SessionExpires(b) \/ FormExpires(b)
    <3>1. ASSUME NEW c \in Browsers
          PROVE  /\ cookie[c] # None => cookie'[c] # None /\ cookie'[c].user = cookie[c].user
                 /\ form'[c].user = form[c].user
      BY <1>1, <2>3, ExpiresEffect DEF TypeInv, SessionType, SessionExpires, FormExpires
    <3> QED
      BY <1>1, <2>1, <3>1 DEF Admitted
  <2> QED
    BY <1>7, <2>2, <2>3
<1>8. ASSUME NEW b \in Browsers, NEW right \in {"write", "admin"}, RequireAuth(b, right)
      PROVE  Admitted'
  <2>1. /\ users' = users /\ cookie' = cookie /\ form' = form
        /\ request' = [request EXCEPT ![b] =
             [at |-> "known", right |-> right, had |-> Rights(users[cookie[b].user])]]
    BY <1>8 DEF RequireAuth, Reaches, accounts, browsers
  <2>2. cookie[b] # None
    BY <1>8, CurrentUserFacts DEF RequireAuth
  <2> QED
    BY <1>1, <2>1, <2>2 DEF Admitted, TypeInv
<1>9. ASSUME NEW b \in Browsers, RequireRole(b) \/ RequireCSRF(b)
      PROVE  Admitted'
  <2>1. /\ users' = users /\ cookie' = cookie /\ request[b] \in Underway
        /\ \/ Ends(b) /\ form' = [form EXCEPT ![b] = None]
           \/ /\ request[b].at = "known" /\ May(b, request[b].right)
              /\ Next1(b, "allowed") /\ form' = form
           \/ /\ request[b].at = "allowed" /\ TokenFits(b)
              /\ Next1(b, "runs") /\ form' = form
    BY <1>1, <1>9, LooksEffect DEF accounts
  <2>2. CASE Ends(b) /\ form' = [form EXCEPT ![b] = None]
    <3>1. \A c \in Browsers : Same(c) \/ request'[c] \notin Underway
      BY <1>1, <2>1, <2>2, RequestEnds DEF TypeInv
    <3> QED
      BY <1>2, <1>3, <2>1, <3>1
  <2>3. CASE /\ request[b].at = "known" /\ May(b, request[b].right)
             /\ Next1(b, "allowed") /\ form' = form
    <3>1. request[b].right \in request[b].had
      BY <1>1, <2>1, <2>3, CurrentUserFacts DEF May, Admitted
    <3> QED
      BY <1>1, <2>1, <2>3, <3>1, MovedOn DEF Admitted
  <2>4. CASE /\ request[b].at = "allowed" /\ TokenFits(b)
             /\ Next1(b, "runs") /\ form' = form
    <3>1. form[b].user = cookie[b].user
      BY <2>4, CurrentUserFacts DEF TokenFits, ValidateCSRFToken
    <3> QED
      BY <1>1, <2>1, <2>4, <3>1, MovedOn DEF Admitted
  <2> QED
    BY <2>1, <2>2, <2>3, <2>4
<1>10. ASSUME NEW b \in Browsers, Works(b) \/ ResetsSecret(b)
       PROVE  Admitted'
  <2>1. users' = users /\ Ends(b)
    BY <1>10 DEF Works, ResetsSecret, Answered, accounts
  <2>2. \A c \in Browsers : Same(c) \/ request'[c] \notin Underway
    BY <1>1, <1>10, <2>1, RequestEnds DEF TypeInv, Works, ResetsSecret, Answered
  <2> QED
    BY <1>2, <1>3, <2>1, <2>2
<1>11. ASSUME NEW b \in Browsers, AdminSets(b)
       PROVE  Admitted'
  <2>1. PICK id \in Ids, standing \in Standings :
          /\ users' = [users EXCEPT ![id] = standing]
          /\ request' = [c \in Browsers |->
                IF c = b THEN Idle
                ELSE IF "had" \in DOMAIN request[c] /\ cookie[c].user = id
                THEN [request[c] EXCEPT !.had = @ \cup Rights(standing)]
                ELSE request[c]]
    BY <1>11 DEF AdminSets
  <2>2. cookie' = cookie /\ form' = [form EXCEPT ![b] = None]
    BY <1>11 DEF AdminSets
  <2> SUFFICES ASSUME NEW c \in Browsers, request'[c] \in Underway
               PROVE  /\ cookie'[c] # None
                      /\ Rights(users'[cookie'[c].user]) \subseteq request'[c].had
                      /\ request'[c].at # "known"
                           => request'[c].right \in request'[c].had
                      /\ request'[c].at \in {"runs", "emptied"}
                           => form'[c].user = cookie'[c].user
    BY DEF Admitted
  <2>3. c # b
    BY <2>1 DEF Idle, Underway
  <2>4. CASE "had" \in DOMAIN request[c] /\ cookie[c].user = id
    <3>1. request[c] \in Underway
      BY <1>1, <2>4, StageFacts
    <3>2. /\ request'[c].at = request[c].at /\ request'[c].right = request[c].right
          /\ request'[c].had = request[c].had \cup Rights(standing)
      BY <2>1, <2>3, <2>4, <3>1 DEF Underway
    <3>3. users'[cookie[c].user] = standing
      BY <1>1, <2>1, <2>4 DEF TypeInv
    <3> QED
      BY <1>1, <2>2, <2>3, <3>1, <3>2, <3>3 DEF Admitted, TypeInv
  <2>5. CASE ~("had" \in DOMAIN request[c] /\ cookie[c].user = id)
    <3>1. request'[c] = request[c]
      BY <2>1, <2>3, <2>5
    <3>2. cookie[c].user # id /\ cookie[c] # None
      BY <1>1, <2>5, <3>1, StageFacts DEF Admitted
    <3>3. users'[cookie[c].user] = users[cookie[c].user]
      BY <1>1, <2>1, <3>2 DEF TypeInv, SessionType
    <3> QED
      BY <1>1, <2>2, <2>3, <3>1, <3>2, <3>3 DEF Admitted, TypeInv
  <2> QED
    BY <2>4, <2>5
<1>12. ASSUME NEW b \in Browsers, ResetsUsers(b)
       PROVE  Admitted'
  <2>1. /\ users' = [id \in Ids |-> "absent"] /\ cookie' = cookie /\ form' = form
        /\ Next1(b, "emptied") /\ request[b].at = "runs"
    BY <1>12 DEF ResetsUsers
  <2>2. \A id \in born : Rights(users'[id]) = {}
    BY <1>1, <2>1, RightsFacts DEF TypeInv
  <2>3. ASSUME NEW c \in Browsers, request'[c] \in Underway
        PROVE  /\ request[c] \in Underway
               /\ request'[c].right = request[c].right /\ request'[c].had = request[c].had
               /\ request'[c].at = request[c].at
                  \/ (request[c].at = "runs" /\ request'[c].at = "emptied")
    BY <1>1, <2>1, <2>3, StageFacts, MovedOn
  <2> QED
    BY <1>1, <2>1, <2>2, <2>3 DEF Admitted, IdsGivenOnce
<1>13. CASE CrashAndRestart
  BY <1>13 DEF Admitted, CrashAndRestart, Idle, Underway
<1>14. CASE UNCHANGED vars
  BY <1>1, <1>14 DEF Admitted, vars
<1> QED
  BY <1>4, <1>5, <1>6, <1>7, <1>8, <1>9, <1>10, <1>11, <1>12, <1>13, <1>14 DEF Next

-----------------------------------------------------------------------------
(* The theorems *)

LEMMA InvInit == Init => Inv
<1> SUFFICES ASSUME Init PROVE Inv
  OBVIOUS
<1>1. MaxSecrets \in Nat /\ FirstUsers \in [Ids -> Standings]
  BY SessionsAssumption
<1>2. TypeInv
  <2>1. secret \in Nat /\ secretFile \in Nat /\ generated \in Nat
    BY <1>1 DEF Init, EnvKey, NoKey
  <2>2. env \in BOOLEAN /\ unsaved \in BOOLEAN
    BY DEF Init
  <2>3. /\ cookie \in [Browsers -> SessionType \cup {None}] /\ form = cookie
        /\ request \in [Browsers -> RequestType]
    BY DEF Init, RequestType
  <2>4. /\ users \in [Ids -> Standings] /\ usersFile = users /\ born \in SUBSET Ids
        /\ faults \in Nat /\ restarts \in Nat /\ ended \in SUBSET Browsers
    BY <1>1 DEF Init
  <2> QED
    BY <2>1, <2>2, <2>3, <2>4 DEF TypeInv
<1>3. IdsGivenOnce
  BY <1>1 DEF Init, IdsGivenOnce, Idle
<1>4. KeysInOrder
  BY <1>1 DEF Init, KeysInOrder, EnvKey, NoKey
<1>5. Admitted /\ EndedForGood
  BY DEF Init, Admitted, EndedForGood, Idle, Underway
<1> QED
  BY <1>2, <1>3, <1>4, <1>5 DEF Inv

LEMMA InvNext == Inv /\ [Next]_vars => Inv'
BY TypeNext, IdsNext, KeysNext, EndedNext, AdmittedNext DEF Inv

LEMMA Invariance == Spec => []Inv
BY InvInit, InvNext, PTL DEF Spec

\* A handler behind requireAuth, requireWrite or requireAdmin and requireCSRF runs for
\* a user who had the right it asks for since the request came, on his own form.
THEOREM HandlersRunInGoodStanding == Spec => []InGoodStanding
<1>1. Inv => InGoodStanding
  BY StageFacts DEF Inv, InGoodStanding, Admitted
<1> QED
  BY <1>1, Invariance, PTL

\* A full reset ends the sessions for good: no later account, secret, log-in of
\* others or restart makes one of them good again.
THEOREM ResetIsForGood == Spec => []ResetEndsSessions
<1>1. ASSUME Inv PROVE ResetEndsSessions
  <2> SUFFICES ASSUME NEW b \in ended PROVE CurrentUser(b) = {}
    BY DEF ResetEndsSessions, Good
  <2>1. b \in Browsers /\ (Gone(cookie[b].user) \/ Dead(cookie[b].key)) /\ secret # NoKey
    BY <1>1 DEF Inv, TypeInv, EndedForGood, KeysInOrder
  <2>2. \A u \in CurrentUser(b) : FALSE
    BY <2>1, CurrentUserFacts, RightsFacts DEF Gone, Dead, Live
  <2> QED
    BY <2>2
<1> QED
  BY <1>1, Invariance, PTL

\* But for a rotation and a start that misses the secret, because it was not on disk or
\* cannot be read there, no step takes a good session, or the form before it, from a
\* user whose account is active.
THEOREM GoodSessionsLast == Spec => SessionsLast
<1> DEFINE Lasting ==
      ~Rotated /\ ~SecretMissed =>
         \A b \in Browsers :
            /\ Good(b) /\ cookie'[b] = cookie[b] /\ Live(cookie[b].user)' => Good(b)'
            /\ TokenFits(b) /\ Good(b)' /\ form'[b] = form[b] /\ cookie'[b] = cookie[b]
                  => TokenFits(b)'
<1>1. ASSUME Inv, [Next]_vars PROVE [Lasting]_vars
  <2>1. TypeInv /\ KeysInOrder
    BY <1>1 DEF Inv
  <2> SUFFICES ASSUME ~Rotated, ~SecretMissed, NEW b \in Browsers
               PROVE
            /\ Good(b) /\ cookie'[b] = cookie[b] /\ Live(cookie[b].user)' => Good(b)'
            /\ TokenFits(b) /\ Good(b)' /\ form'[b] = form[b] /\ cookie'[b] = cookie[b]
                  => TokenFits(b)'
    OBVIOUS
  <2>2. secret' = secret
    <3>1. CASE UNCHANGED secrets
      BY <3>1 DEF secrets
    <3>2. ASSUME NEW c \in Browsers, ResetsSecret(c)
          PROVE  secret' = secret
      BY <2>1, <3>2 DEF ResetsSecret, DeleteSessionSecret, Rotated, TypeInv
    <3>3. CASE CrashAndRestart
      <4>1. ~unsaved /\ faults' = faults /\ InitSessionSecret
        BY <2>1, <3>3 DEF CrashAndRestart, SecretMissed, TypeInv
      <4>2. ~env => secretFile # NoKey /\ secret = secretFile
        BY <2>1, <4>1 DEF KeysInOrder
      <4>3. ~Generate(1)
        BY <2>1, <4>1 DEF Generate, TypeInv
      <4> QED
        BY <2>1, <4>1, <4>2, <4>3 DEF InitSessionSecret, LoadOrGenerate, KeysInOrder
    <3> QED
      BY <1>1, <3>1, <3>2, <3>3, OtherStepsKeepKeys
  <2>3. \A u : u \in CurrentUser(b)' <=>
              /\ cookie'[b] # None /\ cookie'[b].key = secret'
              /\ u = cookie'[b].user /\ Live(u)'
    BY DEF CurrentUser, GetSessionUserID
  <2>4. \A u : u \in CurrentUser(b) <=>
              /\ cookie[b] # None /\ cookie[b].key = secret
              /\ u = cookie[b].user /\ Live(u)
    BY CurrentUserFacts
  <2>5. ASSUME Good(b), cookie'[b] = cookie[b], Live(cookie[b].user)'
        PROVE  Good(b)'
    BY <2>2, <2>3, <2>4, <2>5 DEF Good
  <2>6. ASSUME TokenFits(b), Good(b)', form'[b] = form[b], cookie'[b] = cookie[b]
        PROVE  TokenFits(b)'
    BY <2>2, <2>3, <2>4, <2>6 DEF Good, TokenFits, ValidateCSRFToken
  <2> QED
    BY <2>5, <2>6
<1> QED
  BY <1>1, Invariance, PTL DEF Spec, SessionsLast

-----------------------------------------------------------------------------
(* The limiter: the inductive invariant *)

RecordType == [count : Nat, firstSeen : Int, blockedUntil : Int]

LimiterTypeInv ==
    /\ attempt \in RecordType /\ kept \in RecordType
    /\ login \in [Logins -> {"idle", "allowed"}]
    /\ now \in Nat /\ tries \in Seq(Nat)
    /\ until \in Nat /\ lifted \in BOOLEAN

WindowOver(a) == now - a.firstSeen > Window

\* The record differs from the one that was never cleaned up only in what is past.
Alike ==
    /\ \/ attempt.count = kept.count /\ attempt.firstSeen = kept.firstSeen
       \/ WindowOver(attempt) /\ WindowOver(kept)
    /\ \/ attempt.blockedUntil = kept.blockedUntil
       \/ ~Blocked(attempt) /\ ~Blocked(kept)

LockoutKept == now < until /\ ~lifted => until <= attempt.blockedUntil

\* The window that is counted began with the attempt First of those let in, and the
\* attempts in it are the ones from First on.
Counting == IF kept.count > Max THEN Max ELSE kept.count
First == Len(tries) - Counting + 1

TriesInOrder ==
    \A i, j \in 1 .. Len(tries) : i <= j => tries[i] <= tries[j] /\ tries[j] <= now

WindowsCounted ==
    /\ tries = <<>> => kept = NoRecord
    /\ tries # <<>> => First \in 1 .. Len(tries) /\ tries[First] = kept.firstSeen
    /\ kept.count > Max => kept.firstSeen + Window < kept.blockedUntil

\* Attempts that far before a window began are out of its reach, and so are attempts
\* that are nearly two windows' worth apart out of each other's.
WindowsApart ==
    /\ \A i \in 1 .. Len(tries) : i <= First - Max => tries[i] + Window < kept.firstSeen
    /\ \A i, j \in 1 .. Len(tries) : i + 2 * Max <= j + 1 => tries[i] + Window < tries[j]

LimiterInv ==
    /\ LimiterTypeInv /\ Alike /\ LockoutKept
    /\ TriesInOrder /\ WindowsCounted /\ WindowsApart

-----------------------------------------------------------------------------
(* What an attempt does to a record *)

LEMMA CountedAfterWindow ==
    ASSUME LimiterTypeInv, NEW a \in RecordType, WindowOver(a)
    PROVE  /\ Counted(a) \in RecordType
           /\ Counted(a).count = 1 /\ Counted(a).firstSeen = now
           /\ Counted(a).blockedUntil = a.blockedUntil
  <1> DEFINE fresh == [a EXCEPT !.count = 0, !.firstSeen = now]
  <1>1. now \in Int /\ a.count \in Nat /\ a.firstSeen \in Int /\ a.blockedUntil \in Int
    BY DEF LimiterTypeInv, RecordType
  <1>2. Counted(a) = [fresh EXCEPT !.count = @ + 1,
                                   !.firstSeen = IF fresh.count = 0 THEN now ELSE @]
    BY DEF WindowOver, Counted
  <1>3. fresh \in RecordType
    <2>1. [a EXCEPT !.count = 0] \in RecordType
      BY <1>1 DEF RecordType
    <2>2. fresh = [[a EXCEPT !.count = 0] EXCEPT !.firstSeen = now]
      OBVIOUS
    <2> QED  BY <1>1, <2>1, <2>2 DEF RecordType
  <1>4. fresh.count = 0 /\ fresh.firstSeen = now /\ fresh.blockedUntil = a.blockedUntil
    BY DEF RecordType
  <1> HIDE DEF fresh
  <1>5. Counted(a) = [fresh EXCEPT !.count = 1, !.firstSeen = now]
    BY <1>2, <1>4
  <1>6. [fresh EXCEPT !.count = 1] \in RecordType
    BY <1>3 DEF RecordType
  <1>7. Counted(a) = [[fresh EXCEPT !.count = 1] EXCEPT !.firstSeen = now]
    BY <1>5
  <1>8. Counted(a) \in RecordType
    BY <1>1, <1>6, <1>7 DEF RecordType
  <1>9. Counted(a).count = 1 /\ Counted(a).firstSeen = now
        /\ Counted(a).blockedUntil = fresh.blockedUntil
    BY <1>3, <1>5 DEF RecordType
  <1> QED  BY <1>4, <1>8, <1>9

LEMMA CountedInWindow ==
    ASSUME LimiterTypeInv, NEW a \in RecordType, ~WindowOver(a)
    PROVE  /\ Counted(a) \in RecordType
           /\ Counted(a).count = a.count + 1
           /\ Counted(a).firstSeen = IF a.count = 0 THEN now ELSE a.firstSeen
           /\ Counted(a).blockedUntil = a.blockedUntil
  <1> DEFINE seen == IF a.count = 0 THEN now ELSE a.firstSeen
  <1>1. now \in Nat /\ a.count \in Nat /\ a.firstSeen \in Int /\ a.blockedUntil \in Int
    BY DEF LimiterTypeInv, RecordType
  <1>2. Counted(a) = [a EXCEPT !.count = @ + 1, !.firstSeen = seen]
    BY DEF WindowOver, Counted
  <1>3. seen \in Int /\ a.count + 1 \in Nat
    BY <1>1
  <1> HIDE DEF seen
  <1>4. Counted(a) \in RecordType
    BY <1>1, <1>2, <1>3 DEF RecordType
  <1>5. Counted(a).count = a.count + 1 /\ Counted(a).firstSeen = seen
        /\ Counted(a).blockedUntil = a.blockedUntil
    BY <1>2 DEF RecordType
  <1> QED  BY <1>4, <1>5 DEF seen

LEMMA CountedType ==
    ASSUME LimiterTypeInv, NEW a \in RecordType
    PROVE  Counted(a) \in RecordType /\ Counted(a).blockedUntil = a.blockedUntil
  <1>1. CASE WindowOver(a)
    BY <1>1, CountedAfterWindow DEF RecordType, LimiterTypeInv
  <1>2. CASE ~WindowOver(a)
    BY <1>2, CountedInWindow
  <1> QED  BY <1>1, <1>2

LEMMA RecordedType ==
    ASSUME LimiterTypeInv, NEW a \in RecordType
    PROVE  Recorded(a) \in RecordType
  <1>1. Counted(a) \in RecordType
    BY CountedType
  <1>2. now + Lockout \in Int
    BY LimitsAssumption DEF LimiterTypeInv
  <1>3. [Counted(a) EXCEPT !.blockedUntil = now + Lockout] \in RecordType
    BY <1>1, <1>2 DEF RecordType
  <1> QED  BY <1>1, <1>3 DEF Recorded

\* An attempt after the window is the first of a new one: it never exceeds the limit.
LEMMA NewWindowAdmits ==
    ASSUME LimiterTypeInv, NEW a \in RecordType, WindowOver(a)
    PROVE  ~Exceeds(a)
  BY CountedAfterWindow, LimitsAssumption DEF Exceeds

LEMMA NoRecordIsOver ==
    ASSUME LimiterTypeInv
    PROVE  NoRecord \in RecordType /\ WindowOver(NoRecord) /\ ~Blocked(NoRecord)
  BY LimitsAssumption DEF LimiterTypeInv, RecordType, NoRecord, Long, WindowOver, Blocked

\* Two records that differ only in what is past are blocked alike, and answer alike.
LEMMA AlikeBlocked ==
    ASSUME LimiterTypeInv, Alike
    PROVE  Blocked(attempt) <=> Blocked(kept)
  BY DEF LimiterTypeInv, RecordType, Alike, Blocked

LEMMA AlikeExceeds ==
    ASSUME LimiterTypeInv, Alike
    PROVE  Exceeds(attempt) <=> Exceeds(kept)
  <1> attempt \in RecordType /\ kept \in RecordType
    BY DEF LimiterTypeInv
  <1>1. CASE WindowOver(attempt) /\ WindowOver(kept)
    BY <1>1, NewWindowAdmits
  <1>2. CASE attempt.count = kept.count /\ attempt.firstSeen = kept.firstSeen
    <2>1. WindowOver(attempt) <=> WindowOver(kept)
      BY <1>2 DEF WindowOver
    <2>2. CASE WindowOver(kept)
      BY <2>1, <2>2, NewWindowAdmits
    <2>3. CASE ~WindowOver(kept)
      <3>1. Counted(attempt).count = Counted(kept).count
        BY <1>2, <2>1, <2>3, CountedInWindow
      <3> QED  BY <3>1 DEF Exceeds
    <2> QED  BY <2>2, <2>3
  <1> QED  BY <1>1, <1>2 DEF Alike

LEMMA AlikeAdmits ==
    ASSUME LimiterTypeInv, Alike
    PROVE  Admits(attempt) <=> Admits(kept)
  BY AlikeBlocked, AlikeExceeds DEF Admits

\* ... and an attempt leaves them alike.
LEMMA RecordedAlike ==
    ASSUME LimiterTypeInv, Alike, attempt' = Recorded(attempt), kept' = Recorded(kept), now' = now
    PROVE  Alike'
  <1> attempt \in RecordType /\ kept \in RecordType
    BY DEF LimiterTypeInv
  <1>1. CASE Blocked(attempt)
    <2>1. attempt' = attempt /\ kept' = kept
      BY <1>1, AlikeBlocked DEF Recorded
    <2> QED  BY <2>1 DEF Alike, WindowOver, Blocked
  <1>2. CASE ~Blocked(attempt)
    <2> DEFINE A == Counted(attempt)
               K == Counted(kept)
    <2>1. A.count = K.count /\ A.firstSeen = K.firstSeen
      <3>1. CASE WindowOver(attempt) /\ WindowOver(kept)
        BY <3>1, CountedAfterWindow
      <3>2. CASE attempt.count = kept.count /\ attempt.firstSeen = kept.firstSeen
        <4>1. WindowOver(attempt) <=> WindowOver(kept)
          BY <3>2 DEF WindowOver
        <4>2. CASE WindowOver(kept)
          BY <4>1, <4>2, CountedAfterWindow
        <4>3. CASE ~WindowOver(kept)
          BY <3>2, <4>1, <4>3, CountedInWindow
        <4> QED  BY <4>2, <4>3
      <3> QED  BY <3>1, <3>2 DEF Alike
    <2>2. A \in RecordType /\ K \in RecordType
          /\ A.blockedUntil = attempt.blockedUntil /\ K.blockedUntil = kept.blockedUntil
      BY CountedType
    <2>3. ~Blocked(kept)
      BY <1>2, AlikeBlocked
    <2>4. CASE Exceeds(attempt)
      <3>1. attempt' = [A EXCEPT !.blockedUntil = now + Lockout]
            /\ kept' = [K EXCEPT !.blockedUntil = now + Lockout]
        BY <1>2, <2>3, <2>4, AlikeExceeds DEF Recorded
      <3>2. attempt'.count = kept'.count /\ attempt'.firstSeen = kept'.firstSeen
            /\ attempt'.blockedUntil = kept'.blockedUntil
        BY <2>1, <2>2, <3>1 DEF RecordType
      <3> QED  BY <3>2 DEF Alike
    <2>5. CASE ~Exceeds(attempt)
      <3>1. attempt' = A /\ kept' = K
        BY <1>2, <2>3, <2>5, AlikeExceeds DEF Recorded
      <3>2. attempt'.count = kept'.count /\ attempt'.firstSeen = kept'.firstSeen
            /\ attempt'.blockedUntil = attempt.blockedUntil
            /\ kept'.blockedUntil = kept.blockedUntil
        BY <2>1, <2>2, <3>1
      <3>3. ~Blocked(attempt)' /\ ~Blocked(kept)'
        BY <1>2, <2>3, <3>2 DEF Blocked
      <3> QED  BY <3>2, <3>3 DEF Alike
    <2> QED  BY <2>4, <2>5
  <1> QED  BY <1>1, <1>2

-----------------------------------------------------------------------------
(* The attempts let in *)

LEMMA Appended ==
    ASSUME NEW s \in Seq(Nat), NEW t \in Nat
    PROVE  /\ Append(s, t) \in Seq(Nat) /\ Len(Append(s, t)) = Len(s) + 1
           /\ Len(s) \in Nat
           /\ \A i \in 1 .. Len(s) : Append(s, t)[i] = s[i] /\ s[i] \in Nat
           /\ Append(s, t)[Len(s) + 1] = t
  OBVIOUS

\* An attempt that is let in opens a window or is counted in the one that is open.
LEMMA AllowCounts ==
    ASSUME LimiterInv, NEW l \in Logins, Allow(l)
    PROVE  /\ Counting' <= Max
           /\ kept'.count <= Max
           /\ \/ /\ First' = Len(tries) + 1 /\ kept'.firstSeen = now
                 /\ tries # <<>> => kept.firstSeen + Window < now
              \/ /\ tries # <<>> /\ First' = First /\ kept'.firstSeen = kept.firstSeen
                 /\ Len(tries) + 2 - 2 * Max <= First - Max
  <1> DEFINE n == Len(tries)
  <1>1. LimiterTypeInv /\ Alike /\ WindowsCounted /\ kept \in RecordType /\ n \in Nat
        /\ tries \in Seq(Nat) /\ now \in Nat
    BY DEF LimiterInv, LimiterTypeInv
  <1>2. Max \in Nat \ {0} /\ Window \in Nat
    BY LimitsAssumption
  <1>3. ~Blocked(kept) /\ ~Exceeds(kept)
    BY <1>1, AlikeAdmits DEF Allow, Admits
  <1>4. kept' = Counted(kept) /\ kept'.count <= Max
    <2>1. kept' = Counted(kept)
      BY <1>3 DEF Allow, Recorded
    <2>2. Counted(kept) \in RecordType
      BY <1>1, CountedType
    <2> QED  BY <1>2, <1>3, <2>1, <2>2 DEF Exceeds, RecordType
  <1>5. Len(tries') = n + 1
    BY <1>1, Appended DEF Allow
  <1>6. CASE WindowOver(kept)
    <2>1. kept'.count = 1 /\ kept'.firstSeen = now
      BY <1>1, <1>4, <1>6, CountedAfterWindow
    <2>2. Counting' = 1
      BY <1>2, <2>1 DEF Counting
    <2>3. First' = n + 1
      BY <1>1, <1>5, <2>2 DEF First
    <2>4. kept.firstSeen + Window < now
      BY <1>1, <1>2, <1>6 DEF WindowOver, RecordType
    <2> QED  BY <1>2, <1>4, <2>1, <2>2, <2>3, <2>4
  <1>7. CASE ~WindowOver(kept)
    <2>1. tries # <<>>
      BY <1>1, <1>7, NoRecordIsOver DEF WindowsCounted
    <2>2. kept'.count = kept.count + 1
      BY <1>1, <1>4, <1>7, CountedInWindow
    <2>3. kept.count \in Nat /\ kept.count < Max
      BY <1>1, <1>2, <1>4, <2>2 DEF RecordType
    <2>4. Counting = kept.count /\ Counting' = kept.count + 1
      BY <1>2, <2>2, <2>3 DEF Counting
    <2>5. First = n - kept.count + 1 /\ First' = First
      BY <1>1, <1>5, <2>3, <2>4 DEF First
    <2>6. kept.count # 0
      BY <1>1, <2>1, <2>3, <2>5 DEF WindowsCounted
    <2>7. kept'.firstSeen = kept.firstSeen
      BY <1>1, <1>4, <1>7, <2>6, CountedInWindow
    <2>8. n + 2 - 2 * Max <= First - Max
      BY <1>1, <1>2, <2>3, <2>5
    <2> QED  BY <1>2, <1>4, <2>1, <2>3, <2>4, <2>5, <2>7, <2>8
  <1> QED  BY <1>6, <1>7

LEMMA AllowKeepsTries ==
    ASSUME LimiterInv, NEW l \in Logins, Allow(l)
    PROVE  TriesInOrder' /\ WindowsCounted' /\ WindowsApart'
  <1> DEFINE n == Len(tries)
  <1>1. /\ LimiterTypeInv /\ TriesInOrder /\ WindowsCounted /\ WindowsApart
        /\ kept \in RecordType /\ n \in Nat /\ tries \in Seq(Nat) /\ now \in Nat
        /\ \A i \in 1 .. n : tries[i] \in Nat
    BY DEF LimiterInv, LimiterTypeInv
  <1>2. Max \in Nat \ {0} /\ Window \in Nat
    BY LimitsAssumption
  <1>3. tries' = Append(tries, now) /\ now' = now
    BY DEF Allow
  <1>4. Len(tries') = n + 1 /\ tries'[n + 1] = now
        /\ \A i \in 1 .. n : tries'[i] = tries[i]
    BY <1>1, <1>3, Appended
  <1>5. kept.firstSeen \in Int /\ kept.count \in Nat
    BY <1>1 DEF RecordType
  <1>6. Counting \in Nat /\ Counting <= Max
    BY <1>2, <1>5 DEF Counting
  <1>7. First \in Int /\ n + 1 - Max <= First
    BY <1>1, <1>2, <1>6 DEF First
  <1>8. TriesInOrder'
    <2> SUFFICES ASSUME NEW i \in 1 .. n + 1, NEW j \in 1 .. n + 1, i <= j
                 PROVE  tries'[i] <= tries'[j] /\ tries'[j] <= now
      BY <1>3, <1>4 DEF TriesInOrder
    <2>1. CASE j = n + 1
      <3>1. CASE i = n + 1
        BY <1>1, <1>4, <2>1, <3>1
      <3>2. CASE i # n + 1
        BY <1>1, <1>4, <2>1, <3>2 DEF TriesInOrder
      <3> QED  BY <3>1, <3>2
    <2>2. CASE j # n + 1
      <3>1. i \in 1 .. n /\ j \in 1 .. n
        BY <1>1, <2>2
      <3>2. tries[i] <= tries[j] /\ tries[j] <= now
        BY <1>1, <3>1 DEF TriesInOrder
      <3> QED  BY <1>4, <3>1, <3>2
    <2> QED  BY <2>1, <2>2
  <1>9. ~(kept'.count > Max)
    <2>1. kept' \in RecordType /\ kept'.count <= Max
      BY <1>1, AllowCounts, RecordedType DEF Allow
    <2> QED  BY <1>2, <2>1 DEF RecordType
  <1>10. CASE /\ First' = n + 1 /\ kept'.firstSeen = now
              /\ tries # <<>> => kept.firstSeen + Window < now
    <2>0. First' = n + 1 /\ kept'.firstSeen = now
      BY <1>10, Zenon
    <2>1. \A i \in 1 .. n : i <= First => tries[i] + Window < now
      <3> SUFFICES ASSUME NEW i \in 1 .. n, i <= First
                   PROVE  tries[i] + Window < now
        OBVIOUS
      <3>1. tries # <<>>
        BY <1>1
      <3>2. First \in 1 .. n /\ tries[First] = kept.firstSeen
        BY <1>1, <3>1 DEF WindowsCounted
      <3>3. tries[i] <= kept.firstSeen
        BY <1>1, <3>2 DEF TriesInOrder
      <3>4. kept.firstSeen + Window < now
        BY <1>10, <3>1, Zenon
      <3> QED  BY <1>1, <1>2, <1>5, <3>3, <3>4
    <2>2. \A i \in 1 .. n + 1 : i <= First' - Max => tries'[i] + Window < kept'.firstSeen
      <3> SUFFICES ASSUME NEW i \in 1 .. n + 1, i <= First' - Max
                   PROVE  tries'[i] + Window < kept'.firstSeen
        OBVIOUS
      <3>1. i <= n + 1 - Max
        BY <1>1, <1>2, <2>0
      <3>2. i \in 1 .. n /\ i <= First
        BY <1>1, <1>2, <1>7, <3>1
      <3> QED  BY <1>4, <2>0, <2>1, <3>2
    <2>3. \A i, j \in 1 .. n + 1 : i + 2 * Max <= j + 1 => tries'[i] + Window < tries'[j]
      <3> SUFFICES ASSUME NEW i \in 1 .. n + 1, NEW j \in 1 .. n + 1, i + 2 * Max <= j + 1
                   PROVE  tries'[i] + Window < tries'[j]
        OBVIOUS
      <3>1. i \in 1 .. n /\ i <= n + 1 - Max
        BY <1>1, <1>2
      <3>2. CASE j = n + 1
        <4>1. i <= First
          BY <1>1, <1>2, <1>7, <3>1
        <4> QED  BY <1>4, <2>1, <3>1, <3>2, <4>1
      <3>3. CASE j # n + 1
        <4>1. j \in 1 .. n
          BY <1>1, <3>3
        <4> QED  BY <1>1, <1>4, <3>1, <4>1 DEF WindowsApart
      <3> QED  BY <3>2, <3>3
    <2>4. tries' # <<>> /\ First' \in 1 .. n + 1 /\ tries'[First'] = kept'.firstSeen
      <3>1. n + 1 \in 1 .. n + 1 /\ tries' # <<>>
        BY <1>1, <1>4
      <3> QED  BY <1>4, <2>0, <3>1, Zenon
    <2>5. WindowsCounted'
      BY <1>2, <1>4, <2>4, <1>9 DEF WindowsCounted
    <2> QED  BY <1>4, <1>8, <2>2, <2>3, <2>5 DEF WindowsApart
  <1>11. CASE /\ tries # <<>> /\ First' = First /\ kept'.firstSeen = kept.firstSeen
              /\ n + 2 - 2 * Max <= First - Max
    <2>1. First \in 1 .. n /\ tries[First] = kept.firstSeen
      BY <1>1, <1>11 DEF WindowsCounted
    <2>2. kept.firstSeen <= now
      BY <1>1, <2>1 DEF TriesInOrder
    <2>3. \A i \in 1 .. n + 1 : i <= First' - Max => tries'[i] + Window < kept'.firstSeen
      <3> SUFFICES ASSUME NEW i \in 1 .. n + 1, i <= First - Max
                   PROVE  tries'[i] + Window < kept.firstSeen
        BY <1>11
      <3>1. i \in 1 .. n
        BY <1>1, <1>2, <2>1
      <3> QED  BY <1>1, <1>4, <3>1 DEF WindowsApart
    <2>4. \A i, j \in 1 .. n + 1 : i + 2 * Max <= j + 1 => tries'[i] + Window < tries'[j]
      <3> SUFFICES ASSUME NEW i \in 1 .. n + 1, NEW j \in 1 .. n + 1, i + 2 * Max <= j + 1
                   PROVE  tries'[i] + Window < tries'[j]
        OBVIOUS
      <3>1. i \in 1 .. n
        BY <1>1, <1>2
      <3>2. CASE j = n + 1
        <4>1. i <= First - Max
          BY <1>1, <1>2, <1>7, <1>11, <3>1, <3>2
        <4>2. tries[i] + Window < kept.firstSeen
          BY <1>1, <3>1, <4>1 DEF WindowsApart
        <4>3. tries[i] + Window < now
          BY <1>1, <1>2, <1>5, <2>2, <3>1, <4>2
        <4> QED  BY <1>4, <3>1, <3>2, <4>3
      <3>3. CASE j # n + 1
        <4>1. j \in 1 .. n
          BY <1>1, <3>3
        <4> QED  BY <1>1, <1>4, <3>1, <4>1 DEF WindowsApart
      <3> QED  BY <3>2, <3>3
    <2>5. tries' # <<>> /\ First' \in 1 .. n + 1 /\ tries'[First'] = kept'.firstSeen
      BY <1>1, <1>4, <1>11, <2>1
    <2>6. WindowsCounted'
      BY <1>2, <1>4, <2>5, <1>9 DEF WindowsCounted
    <2> QED  BY <1>4, <1>8, <2>3, <2>4, <2>6 DEF WindowsApart
  <1> QED  BY <1>10, <1>11, AllowCounts

\* An attempt that is turned away is not counted again.
LEMMA RefuseKeepsTries ==
    ASSUME LimiterInv, NEW l \in Logins, Refuse(l)
    PROVE  TriesInOrder' /\ WindowsCounted' /\ WindowsApart'
  <1>1. /\ LimiterTypeInv /\ Alike /\ TriesInOrder /\ WindowsCounted /\ WindowsApart
        /\ kept \in RecordType /\ tries \in Seq(Nat) /\ now \in Nat
    BY DEF LimiterInv, LimiterTypeInv
  <1>2. tries' = tries /\ now' = now /\ kept' = Recorded(kept)
    BY DEF Refuse
  <1>3. Max \in Nat \ {0} /\ Window \in Nat /\ Lockout \in Nat /\ Window < Lockout
    BY LimitsAssumption
  <1>4. CASE Blocked(kept)
    <2>1. kept' = kept
      BY <1>2, <1>4 DEF Recorded
    <2>2. First' = First
      BY <1>2, <2>1 DEF First, Counting
    <2> QED  BY <1>1, <1>2, <2>1, <2>2 DEF TriesInOrder, WindowsCounted, WindowsApart
  <1>5. CASE ~Blocked(kept)
    <2>1. Exceeds(kept)
      BY <1>1, <1>5, AlikeAdmits DEF Refuse, Admits
    <2>2. ~WindowOver(kept)
      BY <1>1, <2>1, NewWindowAdmits
    <2>3. tries # <<>>
      BY <1>1, <2>2, NoRecordIsOver DEF WindowsCounted
    <2>4. First \in 1 .. Len(tries) /\ tries[First] = kept.firstSeen
      BY <1>1, <2>3 DEF WindowsCounted
    <2>5. kept.count \in Nat /\ kept.firstSeen \in Int /\ kept.blockedUntil \in Int
      BY <1>1 DEF RecordType
    <2>6. kept.count <= Max
      <3> SUFFICES ASSUME kept.count > Max PROVE FALSE
        BY <1>3, <2>5
      <3>1. kept.firstSeen + Window < kept.blockedUntil
        BY <1>1 DEF WindowsCounted
      <3> QED  BY <1>1, <1>3, <1>5, <2>2, <2>5, <3>1 DEF Blocked, WindowOver
    <2>7. Counted(kept) \in RecordType /\ Counted(kept).count = kept.count + 1
      BY <1>1, <2>2, CountedInWindow
    <2>8. kept.count = Max
      BY <1>3, <2>1, <2>5, <2>6, <2>7 DEF Exceeds
    <2>9. Counted(kept).firstSeen = kept.firstSeen
      BY <1>1, <1>3, <2>2, <2>8, CountedInWindow
    <2>10. kept' = [Counted(kept) EXCEPT !.blockedUntil = now + Lockout]
      BY <1>2, <1>5, <2>1 DEF Recorded
    <2>11. kept'.count = Max + 1 /\ kept'.firstSeen = kept.firstSeen
           /\ kept'.blockedUntil = now + Lockout
      BY <2>7, <2>8, <2>9, <2>10 DEF RecordType
    <2>12. Counting' = Counting
      BY <1>3, <2>8, <2>11 DEF Counting
    <2>13. First' = First
      BY <1>2, <2>12 DEF First
    <2>14. kept.firstSeen <= now
      BY <1>1, <2>4 DEF TriesInOrder
    <2>15. kept'.firstSeen + Window < kept'.blockedUntil
      BY <1>1, <1>3, <2>5, <2>11, <2>14
    <2> QED  BY <1>1, <1>2, <2>3, <2>4, <2>11, <2>13, <2>15
             DEF TriesInOrder, WindowsCounted, WindowsApart
  <1> QED  BY <1>4, <1>5

-----------------------------------------------------------------------------
(* The invariant *)

LEMMA InitInv == LimiterInit => LimiterInv
  <1> SUFFICES ASSUME LimiterInit PROVE LimiterInv
    OBVIOUS
  <1>1. NoRecord \in RecordType
    BY LimitsAssumption DEF RecordType, NoRecord, Long
  <1>2. LimiterTypeInv
    <2>1. login \in [Logins -> {"idle", "allowed"}] /\ attempt \in RecordType
          /\ kept \in RecordType
      BY <1>1 DEF LimiterInit
    <2>2. now \in Nat /\ until \in Nat
      BY DEF LimiterInit
    <2>3. tries \in Seq(Nat)
      BY DEF LimiterInit
    <2>4. lifted \in BOOLEAN
      BY Zenon DEF LimiterInit
    <2> QED  BY <2>1, <2>2, <2>3, <2>4, Zenon DEF LimiterTypeInv
  <1>3. tries = <<>> /\ Len(tries) = 0 /\ 1 .. Len(tries) = {}
    BY DEF LimiterInit
  <1>4. ~(kept.count > Max)
    BY LimitsAssumption DEF LimiterInit, NoRecord
  <1> QED  BY <1>2, <1>3, <1>4
           DEF LimiterInit, LimiterInv, Alike, LockoutKept, TriesInOrder, WindowsCounted, WindowsApart

LEMMA AllowInv ==
    ASSUME LimiterInv, NEW l \in Logins, Allow(l)
    PROVE  LimiterInv'
  <1>1. LimiterTypeInv /\ Alike /\ LockoutKept
    BY DEF LimiterInv
  <1>2. LimiterTypeInv'
    <2>1. attempt' \in RecordType /\ kept' \in RecordType
      BY <1>1, RecordedType DEF LimiterTypeInv, Allow
    <2>2. tries' \in Seq(Nat)
      BY <1>1, Appended DEF LimiterTypeInv, Allow
    <2>3. login' \in [Logins -> {"idle", "allowed"}]
      BY <1>1 DEF LimiterTypeInv, Allow
    <2> QED  BY <1>1, <2>1, <2>2, <2>3 DEF LimiterTypeInv, Allow
  <1>3. Alike'
    BY <1>1, RecordedAlike DEF Allow
  <1>4. LockoutKept'
    <2>1. ~(now < until /\ ~lifted)
      BY <1>1 DEF LockoutKept, LimiterTypeInv, RecordType, Allow, Admits, Blocked
    <2> QED  BY <2>1 DEF LockoutKept, Allow
  <1> QED  BY <1>2, <1>3, <1>4, AllowKeepsTries DEF LimiterInv

LEMMA RefuseInv ==
    ASSUME LimiterInv, NEW l \in Logins, Refuse(l)
    PROVE  LimiterInv'
  <1>1. LimiterTypeInv /\ Alike /\ LockoutKept
    BY DEF LimiterInv
  <1>2. now + Lockout \in Nat
    BY <1>1, LimitsAssumption DEF LimiterTypeInv
  <1>3. until' \in Nat /\ lifted' \in BOOLEAN
    BY <1>1, <1>2 DEF LimiterTypeInv, Refuse
  <1>4. LimiterTypeInv'
    <2>1. attempt' \in RecordType /\ kept' \in RecordType
      BY <1>1, RecordedType DEF LimiterTypeInv, Refuse
    <2> QED  BY <1>1, <1>3, <2>1 DEF LimiterTypeInv, Refuse
  <1>5. Alike'
    BY <1>1, RecordedAlike DEF Refuse
  <1>6. LockoutKept'
    <2>1. CASE Blocked(attempt)
      BY <1>1, <2>1 DEF LockoutKept, Refuse, Recorded
    <2>2. CASE ~Blocked(attempt)
      <3>1. Exceeds(attempt)
        BY <2>2 DEF Refuse, Admits
      <3>2. attempt' = [Counted(attempt) EXCEPT !.blockedUntil = now + Lockout]
        BY <2>2, <3>1 DEF Refuse, Recorded
      <3>3. Counted(attempt) \in RecordType
        BY <1>1, CountedType DEF LimiterTypeInv
      <3>4. attempt'.blockedUntil = until'
        BY <2>2, <3>2, <3>3 DEF RecordType, Refuse
      <3> QED  BY <1>3, <3>4 DEF LockoutKept
    <2> QED  BY <2>1, <2>2
  <1> QED  BY <1>4, <1>5, <1>6, RefuseKeepsTries DEF LimiterInv

LEMMA SucceedsInv ==
    ASSUME LimiterInv, NEW l \in Logins, Succeeds(l)
    PROVE  LimiterInv'
  <1>1. NoRecord \in RecordType
    BY NoRecordIsOver DEF LimiterInv
  <1>2. LimiterTypeInv'
    BY <1>1 DEF LimiterInv, LimiterTypeInv, Succeeds
  <1>3. tries' = <<>> /\ Len(tries') = 0 /\ 1 .. Len(tries') = {}
    BY DEF Succeeds
  <1>4. ~(kept'.count > Max)
    BY LimitsAssumption DEF Succeeds, NoRecord
  <1> QED  BY <1>2, <1>3, <1>4
           DEF Succeeds, LimiterInv, Alike, LockoutKept, TriesInOrder, WindowsCounted, WindowsApart

\* What is dropped is a record whose window and lockout are over.
LEMMA CleanupInv ==
    ASSUME LimiterInv, Cleanup
    PROVE  LimiterInv'
  <1>1. LimiterTypeInv /\ Alike /\ LockoutKept
    BY DEF LimiterInv
  <1>2. NoRecord \in RecordType /\ WindowOver(NoRecord) /\ ~Blocked(NoRecord)
    BY <1>1, NoRecordIsOver
  <1>3. LimiterTypeInv'
    BY <1>1, <1>2 DEF LimiterTypeInv, Cleanup
  <1>4. WindowOver(attempt) /\ ~Blocked(attempt)
    BY <1>1, LimitsAssumption DEF LimiterTypeInv, RecordType, Cleanup, WindowOver, Blocked
  <1>5. WindowOver(kept) /\ ~Blocked(kept)
    BY <1>1, <1>4, AlikeBlocked DEF Alike, WindowOver
  <1>6. Alike'
    <2>1. WindowOver(attempt)' /\ ~Blocked(attempt)'
      BY <1>2 DEF Cleanup, WindowOver, Blocked
    <2>2. WindowOver(kept)' /\ ~Blocked(kept)'
      BY <1>5 DEF Cleanup, WindowOver, Blocked
    <2> QED  BY <2>1, <2>2 DEF Alike
  <1>7. LockoutKept'
    <2>1. ~(now < until /\ ~lifted)
      BY <1>1, <1>4 DEF LockoutKept, LimiterTypeInv, RecordType, Blocked
    <2> QED  BY <2>1 DEF LockoutKept, Cleanup
  <1> QED  BY <1>3, <1>6, <1>7
           DEF Cleanup, LimiterInv, TriesInOrder, WindowsCounted, WindowsApart, First, Counting

LEMMA TimePassesInv ==
    ASSUME LimiterInv, TimePasses
    PROVE  LimiterInv'
  <1>1. LimiterTypeInv /\ Alike /\ LockoutKept /\ TriesInOrder
    BY DEF LimiterInv
  <1>2. attempt' = attempt /\ kept' = kept /\ now' = now + 1 /\ until' = until
        /\ lifted' = lifted /\ tries' = tries /\ login' = login
    BY DEF TimePasses
  <1>3. LimiterTypeInv'
    BY <1>1, <1>2 DEF LimiterTypeInv
  <1>4. /\ attempt \in RecordType /\ kept \in RecordType /\ now \in Nat
        /\ tries \in Seq(Nat) /\ \A i \in 1 .. Len(tries) : tries[i] \in Nat
    BY <1>1 DEF LimiterTypeInv
  <1>5. Alike'
    <2>1. \A a \in RecordType : WindowOver(a) => WindowOver(a)'
      BY <1>2, <1>4, LimitsAssumption DEF WindowOver, RecordType
    <2>2. \A a \in RecordType : ~Blocked(a) => ~Blocked(a)'
      BY <1>2, <1>4 DEF Blocked, RecordType
    <2> QED  BY <1>1, <1>2, <1>4, <2>1, <2>2 DEF Alike, WindowOver, Blocked
  <1>6. LockoutKept'
    BY <1>1, <1>2 DEF LimiterTypeInv, LockoutKept
  <1>7. TriesInOrder'
    BY <1>1, <1>2, <1>4 DEF TriesInOrder
  <1> QED  BY <1>2, <1>3, <1>5, <1>6, <1>7
           DEF LimiterInv, WindowsCounted, WindowsApart, First, Counting

LEMMA NextInv == LimiterInv /\ [LimiterNext]_limiterVars => LimiterInv'
  <1> SUFFICES ASSUME LimiterInv, [LimiterNext]_limiterVars PROVE LimiterInv'
    OBVIOUS
  <1>1. ASSUME NEW l \in Logins, Fails(l) PROVE LimiterInv'
    <2>1. LimiterTypeInv'
      BY <1>1 DEF Fails, LimiterInv, LimiterTypeInv
    <2> QED  BY <1>1, <2>1 DEF Fails, LimiterInv, Alike, WindowOver, Blocked, LockoutKept,
                               TriesInOrder, WindowsCounted, WindowsApart, First, Counting
  <1>2. CASE UNCHANGED limiterVars
    BY <1>2 DEF limiterVars, LimiterInv, LimiterTypeInv, Alike, WindowOver, Blocked, LockoutKept,
                TriesInOrder, WindowsCounted, WindowsApart, First, Counting
  <1> QED  BY <1>1, <1>2, AllowInv, RefuseInv, SucceedsInv, CleanupInv, TimePassesInv
           DEF LimiterNext

LEMMA AlwaysInv == LimiterSpec => []LimiterInv
  BY InitInv, NextInv, PTL DEF LimiterSpec

-----------------------------------------------------------------------------
(* What follows from it *)

\* A non-empty set of numbers has a smallest member.
LEMMA SmallestOf ==
    ASSUME NEW S \in SUBSET Nat, S # {}
    PROVE  \E m \in S : \A i \in S : m <= i
  <1>1. PICK m \in S : \A i \in S : <<i, m>> \notin OpToRel(<, Nat)
    BY WFMin, NatLessThanWellFounded
  <1>2. \A i \in S : ~(i < m)
    BY <1>1 DEF OpToRel
  <1> QED  BY <1>2

LEMMA FewInWindow ==
    ASSUME LimiterInv, NEW t \in 0 .. now
    PROVE  TriesFrom(t) < 2 * Max
  <1> DEFINE n == Len(tries)
             S == {i \in 1 .. n : tries[i] \in t .. t + Window}
  <1>1. /\ TriesInOrder /\ WindowsApart /\ now \in Nat /\ t \in Nat
        /\ tries \in Seq(Nat) /\ n \in Nat /\ \A i \in 1 .. n : tries[i] \in Nat
    BY DEF LimiterInv, LimiterTypeInv
  <1>2. Max \in Nat \ {0} /\ Window \in Nat
    BY LimitsAssumption
  <1>3. TriesFrom(t) = Cardinality(S)
    <2>1. DOMAIN tries = 1 .. n
      BY <1>1
    <2> QED  BY <2>1, Zenon DEF TriesFrom
  <1>4. \A i, j \in S : j + 1 < i + 2 * Max
    <2> SUFFICES ASSUME NEW i \in S, NEW j \in S, ~(j + 1 < i + 2 * Max)
                 PROVE  FALSE
      OBVIOUS
    <2>1. i \in 1 .. n /\ j \in 1 .. n /\ i + 2 * Max <= j + 1
      BY <1>1, <1>2
    <2>2. tries[i] + Window < tries[j]
      BY <1>1, <2>1 DEF WindowsApart
    <2>3. t <= tries[i] /\ tries[j] <= t + Window /\ tries[i] \in Nat /\ tries[j] \in Nat
      BY <1>1
    <2> QED  BY <1>1, <1>2, <2>2, <2>3
  <1>5. S \subseteq 1 .. n
    OBVIOUS
  <1> HIDE DEF S, n
  <1>6. CASE S = {}
    BY <1>2, <1>3, <1>6, FS_EmptySet
  <1>7. CASE S # {}
    <2>1. \E m \in S : \A i \in S : m <= i
      BY <1>1, <1>5, <1>7, SmallestOf
    <2>2. PICK m \in S : \A i \in S : m <= i
      BY <2>1
    <2>3. m \in Nat
      BY <1>5
    <2>4. S \subseteq m .. m + 2 * Max - 2
      <3> SUFFICES ASSUME NEW i \in S PROVE i \in m .. m + 2 * Max - 2
        OBVIOUS
      <3>1. i \in Nat /\ m <= i /\ i + 1 < m + 2 * Max
        BY <1>4, <1>5, <2>2
      <3> QED  BY <1>2, <2>3, <3>1
    <2>5. m + 2 * Max - 2 \in Int /\ m \in Int
      BY <1>2, <2>3
    <2>6. /\ IsFiniteSet(m .. m + 2 * Max - 2)
          /\ Cardinality(m .. m + 2 * Max - 2) = 2 * Max - 1
      BY <1>2, <2>3, <2>5, FS_Interval
    <2>7. Cardinality(S) <= 2 * Max - 1 /\ Cardinality(S) \in Nat
      BY <2>4, <2>6, FS_Subset, FS_CardinalityType
    <2> QED  BY <1>2, <1>3, <2>7
  <1> QED  BY <1>6, <1>7

\* TwiceInWindow: no period of the window's length sees twice the limit of attempts let
\* in without a success, wherever the windows that Allow counts happen to begin.
THEOREM AttemptsAreLimited == LimiterSpec => []TwiceInWindow
  <1>1. LimiterInv => TwiceInWindow
    BY FewInWindow DEF TwiceInWindow
  <1> QED  BY <1>1, AlwaysInv, PTL

\* LockoutServed: a lockout lasts as long as it was set for, whatever is tried and
\* cleaned up meanwhile, unless a login that was let in before it succeeds.
THEOREM LockoutsAreServed == LimiterSpec => []LockoutServed
  <1>1. LimiterInv => LockoutServed
    BY DEF LimiterInv, LimiterTypeInv, RecordType, LockoutKept, LockoutServed, Admits, Blocked
  <1> QED  BY <1>1, AlwaysInv, PTL

\* CleanupUnnoticed: the goroutine that drops old records never changes an answer.
THEOREM CleanupNeverNoticed == LimiterSpec => []CleanupUnnoticed
  <1>1. LimiterInv => CleanupUnnoticed
    BY AlikeAdmits DEF LimiterInv, CleanupUnnoticed
  <1> QED  BY <1>1, AlwaysInv, PTL

-----------------------------------------------------------------------------
(* The variables of an instance *)

VarsTyped ==
    /\ array \in [Loads -> Texts] /\ latest \in Loads
    /\ inst \in [InstanceIds -> Instance \cup {Absent}]
    /\ disk \in [InstanceIds -> Saved \cup {Absent}]
    /\ asked \in [InstanceIds -> Values \cup {Absent}]

\* ApplyVars is called for an instance that is there.
AskedIsThere == \A i \in InstanceIds : asked[i] # Absent => inst[i] # Absent

VarsInv == VarsTyped /\ AskedIsThere /\ NoPlaceholderLeft

LEMMA SavedAsShown ==
    ASSUME VarsInv, NEW i \in InstanceIds, NEW x \in Instance,
           inst' = [inst EXCEPT ![i] = x], array' \in [Loads -> Texts], Save(i),
           x.note # Placeholder =>
              (IF x.in = Own THEN x.own ELSE array'[x.in]) # Placeholder
    PROVE  /\ disk' \in [InstanceIds -> Saved \cup {Absent}]
           /\ \A j \in InstanceIds : disk'[j] # Absent /\ disk'[j].note # Placeholder
                                => disk'[j].notify # Placeholder
<1>1. Notify(i)' = (IF x.in = Own THEN x.own ELSE array'[x.in]) /\ inst'[i] = x
  BY DEF VarsInv, VarsTyped, Notify
<1>2. Notify(i)' \in Texts /\ x.note \in Texts
  BY <1>1 DEF Instance
<1> DEFINE saved == [note |-> x.note, notify |-> Notify(i)']
<1>3. saved \in Saved /\ (saved.note # Placeholder => saved.notify # Placeholder)
  BY <1>1, <1>2 DEF Saved
<1>4. disk' = [disk EXCEPT ![i] = saved] \/ disk' = disk
  BY <1>1 DEF Save
<1> HIDE DEF saved
<1> QED
  BY <1>3, <1>4 DEF VarsInv, VarsTyped, NoPlaceholderLeft

LEMMA VarsStart ==
    ASSUME VarsAssumption, VarsInit PROVE VarsInv
<1>1. Loads = 0 .. MaxReloads /\ 0 \in Loads
  BY DEF Loads, VarsAssumption
<1> QED
  BY <1>1 DEF VarsInit, VarsInv, VarsTyped, AskedIsThere, NoPlaceholderLeft, Texts

LEMMA MakeKeeps ==
    ASSUME VarsAssumption, VarsInv, NEW i \in InstanceIds, Make(i),
           asked' = asked \/ \E v \in Values : asked' = [asked EXCEPT ![i] = v]
    PROVE  VarsInv'
<1> DEFINE x == [note |-> Placeholder, in |-> latest, own |-> Placeholder]
<1>1. /\ inst[i] = Absent /\ inst' = [inst EXCEPT ![i] = x]
      /\ array' = array /\ latest' = latest /\ Save(i)
  BY DEF Make
<1>2. x \in Instance /\ x.note = Placeholder
  BY DEF VarsInv, VarsTyped, Instance, Texts
<1>3. x # Absent
  BY DEF Absent
<1> HIDE DEF x
<1>4. /\ disk' \in [InstanceIds -> Saved \cup {Absent}]
      /\ \A j \in InstanceIds : disk'[j] # Absent /\ disk'[j].note # Placeholder
                           => disk'[j].notify # Placeholder
  BY <1>1, <1>2, SavedAsShown DEF VarsInv, VarsTyped
<1>5. \A j \in InstanceIds : inst'[j] # Absent /\ inst'[j].note # Placeholder
                        => Notify(j)' # Placeholder
  BY <1>1, <1>2 DEF VarsInv, VarsTyped, NoPlaceholderLeft, Notify
<1>6. VarsTyped'
  BY <1>1, <1>2, <1>4 DEF VarsInv, VarsTyped
<1>7. AskedIsThere'
  BY <1>1, <1>3 DEF VarsInv, VarsTyped, AskedIsThere
<1> QED
  BY <1>4, <1>5, <1>6, <1>7 DEF VarsInv, NoPlaceholderLeft

LEMMA ApplyKeeps ==
    ASSUME VarsAssumption, VarsInv, NEW i \in InstanceIds, ApplyVars(i)
    PROVE  VarsInv'
<1> DEFINE v == asked[i]
           a == inst[i].in
           x == [inst[i] EXCEPT !.note = Substituted(@, v), !.own = Substituted(@, v)]
<1>1. /\ v \in Values /\ v # Placeholder
      /\ inst[i] # Absent /\ inst[i] \in Instance
  BY DEF VarsInv, VarsTyped, AskedIsThere, ApplyVars, VarsAssumption
<1>2. \A t \in Texts : Substituted(t, v) \in Texts /\ Substituted(t, v) # Placeholder
  BY <1>1 DEF Substituted, Texts
<1>3. x \in Instance /\ x.in = a /\ x.own # Placeholder
  BY <1>1, <1>2 DEF Instance
<1>4. /\ inst' = [inst EXCEPT ![i] = x]
      /\ array' = IF a = Own THEN array
                  ELSE [array EXCEPT ![a] = Substituted(@, v)]
      /\ asked' = [asked EXCEPT ![i] = Absent]
      /\ latest' = latest /\ Save(i)
  BY DEF ApplyVars, VarsInv, VarsTyped
<1>5. a # Own => a \in Loads
  BY <1>1 DEF Instance
<1>6. array' \in [Loads -> Texts]
  BY <1>2, <1>4, <1>5 DEF VarsInv, VarsTyped
<1>7. \A b \in Loads : array[b] # Placeholder => array'[b] # Placeholder
  BY <1>2, <1>4, <1>5 DEF VarsInv, VarsTyped
<1>8. a # Own => array'[a] # Placeholder
  BY <1>2, <1>4, <1>5 DEF VarsInv, VarsTyped
<1>9. x # Absent
  BY <1>3 DEF Absent, Instance
<1> HIDE DEF x, v, a
<1>10. /\ disk' \in [InstanceIds -> Saved \cup {Absent}]
       /\ \A j \in InstanceIds : disk'[j] # Absent /\ disk'[j].note # Placeholder
                            => disk'[j].notify # Placeholder
  BY <1>3, <1>4, <1>6, <1>8, SavedAsShown
<1>11. ASSUME NEW j \in InstanceIds, inst'[j] # Absent, inst'[j].note # Placeholder
       PROVE  Notify(j)' # Placeholder
  <2>1. CASE j = i
    BY <1>3, <1>4, <1>8, <2>1 DEF Notify, VarsInv, VarsTyped
  <2>2. CASE j # i
    <3>1. /\ inst'[j] = inst[j] /\ Notify(j) # Placeholder
          /\ inst[j] \in Instance
      BY <1>4, <1>11, <2>2 DEF VarsInv, VarsTyped, NoPlaceholderLeft
    <3> QED
      BY <1>7, <3>1 DEF Notify, Instance
  <2> QED
    BY <2>1, <2>2
<1>12. VarsTyped'
  BY <1>3, <1>4, <1>6, <1>10 DEF VarsInv, VarsTyped
<1>13. AskedIsThere'
  BY <1>4, <1>9 DEF VarsInv, VarsTyped, AskedIsThere
<1> QED
  BY <1>10, <1>11, <1>12, <1>13 DEF VarsInv, NoPlaceholderLeft

LEMMA VarsRestart ==
    ASSUME VarsInv, ServerRestarts PROVE VarsInv'
<1> DEFINE back(i) == [note |-> disk[i].note, in |-> Own, own |-> disk[i].notify]
<1>1. /\ inst' = [i \in InstanceIds |-> IF disk[i] = Absent THEN Absent ELSE back(i)]
      /\ array' = [b \in Loads |-> Placeholder]
      /\ asked' = [i \in InstanceIds |-> Absent]
      /\ disk' = disk /\ latest' = latest
  BY DEF ServerRestarts
<1>2. ASSUME NEW i \in InstanceIds, disk[i] # Absent
      PROVE  /\ back(i) \in Instance
             /\ back(i).note = disk[i].note /\ back(i).own = disk[i].notify
             /\ back(i).in = Own
  BY <1>2 DEF VarsInv, VarsTyped, Instance, Saved
<1> HIDE DEF back
<1>3. VarsTyped'
  BY <1>1, <1>2 DEF VarsInv, VarsTyped, Texts
<1>4. NoPlaceholderLeft'
  BY <1>1, <1>2 DEF VarsInv, NoPlaceholderLeft, Notify
<1> QED
  BY <1>1, <1>3, <1>4 DEF VarsInv, AskedIsThere

\* NoPlaceholderLeft: an instance that shows its own value in the note has no
\* placeholder left in the notify list, in memory and in its file, although ApplyVars
\* writes the list into the array of the definition that others share, after any
\* reload, failed save or crash.
THEOREM PlaceholdersReplaced == VarsSpec => []NoPlaceholderLeft
<1>1. VarsInit => VarsInv
  BY VarsAssumption, VarsStart
<1>2. ASSUME VarsInv, [VarsNext]_allVars PROVE VarsInv'
  <2>1. CASE \E i \in InstanceIds : CreateInstance(i) \/ \E src \in InstanceIds : CloneInstance(src, i)
    BY <1>2, <2>1, VarsAssumption, MakeKeeps DEF CreateInstance, CloneInstance
  <2>2. CASE \E i \in InstanceIds : ApplyVars(i)
    BY <1>2, <2>2, VarsAssumption, ApplyKeeps
  <2>3. CASE HotReload
    BY <1>2, <2>3, VarsAssumption DEF HotReload, VarsInv, VarsTyped, AskedIsThere, NoPlaceholderLeft,
                      Notify, Loads, VarsAssumption
  <2>4. CASE ServerRestarts
    BY <1>2, <2>4, VarsRestart
  <2>5. CASE UNCHANGED allVars
    BY <1>2, <2>5 DEF allVars, VarsInv, VarsTyped, AskedIsThere, NoPlaceholderLeft, Notify
  <2> QED
    BY <1>2, <2>1, <2>2, <2>3, <2>4, <2>5 DEF VarsNext
<1>3. VarsInv => NoPlaceholderLeft
  BY DEF VarsInv
<1> QED
  BY <1>1, <1>2, <1>3, PTL DEF VarsSpec
=============================================================================
