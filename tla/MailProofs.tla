----------------------------- MODULE MailProofs -----------------------------
(***************************************************************************)
(* Theorems about module Mail, for every number of saves, mails, failures  *)
(* and restarts, and every life of a token.                                *)
(***************************************************************************)
EXTENDS Mail, TLAPS

-----------------------------------------------------------------------------
(* The inductive invariant *)

Config == [n : 1 .. MaxSaves, type : {"graph", "unknown"}]
FileType == Config \cup {Nothing, Empty, Torn}
MailerType == Config \cup {Nothing, Half}

SaverType ==
    {Idle} \cup [at : {"opened"}, in : {"tmp", "file", "gone"}, config : Config]
    \cup [at : {"written", "renamed", "set"}, config : Config]

TokenType == {NoToken, Mixed} \cup [got : Nat, whole : {TRUE}]

MailType ==
    {Idle} \cup [at : {"injected"}, m : MailerType, since : Nat]
    \cup [at : {"fired"}, m : MailerType, r : BOOLEAN, since : Nat]
    \cup [at : {"asked", "kept"}, m : Config, began : Nat]
    \cup [at : {"writing"}, m : Config, token : TokenType, began : Nat]
    \cup [at : {"sending"}, token : TokenType, began : Nat]

TypeInv ==
    /\ file \in FileType /\ tmp \in FileType
    /\ saver \in [Savers -> SaverType] /\ saves \in 0 .. MaxSaves
    /\ mailer \in MailerType /\ resolver \in BOOLEAN
    /\ mail \in [Mails -> MailType]
    /\ cache \in [1 .. MaxSaves -> [token : TokenType, until : Nat]]
    /\ now \in Nat /\ acked \in Nat
    /\ overlapped \in BOOLEAN /\ raced \in BOOLEAN /\ blank \in BOOLEAN /\ slowest \in Nat

\* A save that is alone finds the temporary file and the fields as it left them.
SaverInStep(s) ==
    /\ saver[s] # Idle => saver[s].config.n = saves
    /\ saver[s].at = "opened" => saver[s].in = "tmp" /\ tmp = Empty
    /\ saver[s].at = "written" => tmp = saver[s].config
    /\ saver[s].at \in {"renamed", "set"} => file = saver[s].config
    /\ saver[s].at = "set" => mailer = saver[s].config /\ Usable(mailer)

OneSave ==
    ~overlapped =>
       /\ \A s, z \in Savers : saver[s] # Idle /\ saver[z] # Idle => s = z
       /\ \A s \in Savers : SaverInStep(s)
       /\ file \notin {Empty, Torn} /\ file.n <= saves /\ mailer.n <= saves
       /\ Usable(file) /\ (\A s \in Savers : saver[s].at \notin {"renamed", "set"})
             => mailer = file /\ resolver

\* The acknowledged configuration, or a later one, is at work, and was when a call
\* read the fields.
AckedAtWork ==
    ~overlapped =>
       /\ acked > 0 => Usable(mailer) /\ mailer.n >= acked /\ resolver
       /\ \A k \in Mails : mail[k].at \in {"injected", "fired"} /\ mail[k].since > 0 =>
             /\ Usable(mail[k].m) /\ mail[k].m.n >= mail[k].since
             /\ IF mail[k].at = "fired" THEN mail[k].r ELSE resolver

\* What is no token is what the service gave, or what a race left.
Excused(token) ==
    \/ token = NoToken /\ blank
    \/ token = Mixed /\ raced

\* A cached token is offered until it is TokenCached and two calls of getToken old.
CacheFresh(n) ==
    /\ cache[n].until <= now + TokenCached
    /\ cache[n].token.whole =>
          cache[n].until <= cache[n].token.got + TokenCached + 2 * slowest
    /\ cache[n].token = Mixed => raced

\* A call of getToken on its way, and the send after it.
CallFresh(k) ==
    /\ "began" \in DOMAIN mail[k] =>
          mail[k].began <= now /\ now <= mail[k].began + slowest
    /\ mail[k].at = "writing" =>
          IF mail[k].token.whole THEN mail[k].began <= mail[k].token.got
          ELSE Excused(mail[k].token)
    /\ mail[k].at = "kept" =>
          LET token == cache[mail[k].m.n].token IN
          IF token.whole THEN mail[k].began <= token.got + slowest ELSE Excused(token)
    /\ mail[k].at = "sending" =>
          IF mail[k].token.whole
          THEN mail[k].began < mail[k].token.got + TokenCached + 2 * slowest
          ELSE Excused(mail[k].token)

TokensFresh ==
    /\ \A n \in 1 .. MaxSaves : CacheFresh(n)
    /\ \A k \in Mails : CallFresh(k)

Inv == TypeInv /\ OneSave /\ AckedAtWork /\ TokensFresh

-----------------------------------------------------------------------------
(* Lemmas about the stages of saves and of mails *)

LEMMA Bounds == MaxSaves \in Nat /\ TokenCached \in Nat \ {0}
BY MailAssumption

LEMMA SaverStages ==
    ASSUME TypeInv, NEW s \in Savers
    PROVE  /\ saver[s] # Idle => saver[s].config \in Config
           /\ saver[s].at \in {"opened", "written", "renamed", "set"} <=> saver[s] # Idle
           /\ saver[s].at = "opened" =>
                saver[s] \in [at : {"opened"}, in : {"tmp", "file", "gone"}, config : Config]
           /\ saver[s].at \in {"written", "renamed", "set"} =>
                saver[s] \in [at : {"written", "renamed", "set"}, config : Config]
<1>1. saver[s] \in SaverType
  BY DEF TypeInv
<1> QED
  BY <1>1 DEF SaverType, Idle

LEMMA MailStages ==
    ASSUME TypeInv, NEW k \in Mails
    PROVE  /\ mail[k].at = "injected" =>
                mail[k] \in [at : {"injected"}, m : MailerType, since : Nat]
           /\ mail[k].at = "fired" =>
                mail[k] \in [at : {"fired"}, m : MailerType, r : BOOLEAN, since : Nat]
           /\ mail[k].at \in {"asked", "kept"} =>
                mail[k] \in [at : {"asked", "kept"}, m : Config, began : Nat]
           /\ mail[k].at = "writing" =>
                mail[k] \in [at : {"writing"}, m : Config, token : TokenType, began : Nat]
           /\ mail[k].at = "sending" =>
                mail[k] \in [at : {"sending"}, token : TokenType, began : Nat]
           /\ "began" \in DOMAIN mail[k]
                <=> mail[k].at \in {"asked", "kept", "writing", "sending"}
<1>1. mail[k] \in MailType
  BY DEF TypeInv
<1> QED
  BY <1>1 DEF MailType, Idle

LEMMA Usables ==
    /\ \A config \in MailerType : Usable(config) => config \in Config
    /\ \A config \in FileType : Usable(config) => config \in Config
    /\ Config \subseteq FileType /\ Config \subseteq MailerType
BY DEF FileType, MailerType, Config, Usable, Nothing, Half, Empty, Torn

SaverStep(s) ==
    \/ (\E type \in {"graph", "unknown"} : Opens(s, type))
    \/ Writes(s) \/ WriteFails(s) \/ Renames(s)
    \/ KeepsMailer(s) \/ SetsMailer(s) \/ SetsResolver(s)

MailStep(k) ==
    \/ Injects(k) \/ Fires(k) \/ SendsNothing(k) \/ TakesCached(k) \/ AsksToken(k)
    \/ GetsToken(k) \/ KeepsToken(k) \/ KeepsExpiry(k) \/ Sends(k)

\* A save does not touch the mails, a mail does not touch the configuration.
LEMMA SaverStepKeeps ==
    ASSUME NEW s, SaverStep(s)
    PROVE  UNCHANGED <<mail, cache, now, raced, blank, slowest>>
BY DEF SaverStep, Opens, Writes, WriteFails, Renames, KeepsMailer, SetsMailer, SetsResolver,
       sending, observers

LEMMA MailStepKeeps ==
    ASSUME NEW k, MailStep(k) \/ Tick
    PROVE  UNCHANGED <<file, tmp, saver, saves, mailer, resolver, overlapped, acked>>
BY DEF MailStep, Injects, Fires, SendsNothing, TakesCached, AsksToken, GetsToken, KeepsToken,
       KeepsExpiry, Sends, Tick, disk, fields, observers

LEMMA Steps ==
    ASSUME [Next]_vars
    PROVE  \/ (\E s \in Savers : SaverStep(s)) \/ (\E k \in Mails : MailStep(k))
           \/ Tick \/ Restarts \/ UNCHANGED vars
BY DEF Next, SaverStep, MailStep

-----------------------------------------------------------------------------
(* Types *)

\* A save keeps the types, whichever of the files it has open.
LEMMA SaverStepType ==
    ASSUME TypeInv, NEW s \in Savers, SaverStep(s)
    PROVE  TypeInv'
<1> DEFINE SaveType == /\ file \in FileType /\ tmp \in FileType
                       /\ saver \in [Savers -> SaverType] /\ saves \in 0 .. MaxSaves
                       /\ mailer \in MailerType /\ resolver \in BOOLEAN
                       /\ acked \in Nat /\ overlapped \in BOOLEAN
<1>1. /\ SaveType /\ MaxSaves \in Nat
      /\ UNCHANGED <<mail, cache, now, raced, blank, slowest>>
  BY SaverStepKeeps, Bounds DEF TypeInv
<1>2. Idle \in SaverType
  BY DEF SaverType
<1> SUFFICES SaveType'
  BY <1>1 DEF TypeInv
<1>3. ASSUME NEW type \in {"graph", "unknown"}, Opens(s, type)
      PROVE  SaveType'
  <2>1. saves' \in 1 .. MaxSaves
    BY <1>1, <1>3 DEF Opens
  <2>2. [n |-> saves', type |-> type] \in Config
    BY <2>1 DEF Config
  <2>3. [at |-> "opened", in |-> "tmp", config |-> [n |-> saves', type |-> type]] \in SaverType
    BY <2>2 DEF SaverType
  <2>4. /\ file' = file /\ tmp' = Empty /\ mailer' = mailer /\ resolver' = resolver
        /\ acked' = acked /\ overlapped' \in BOOLEAN
    BY <1>3 DEF Opens, fields
  <2>5. saver' \in [Savers -> SaverType]
    BY <1>1, <1>3, <2>3 DEF Opens, Saver
  <2> QED
    BY <1>1, <2>1, <2>4, <2>5 DEF FileType
<1>4. CASE Writes(s)
  <2>1. /\ saver[s].config \in Config /\ saver[s].at = "opened"
        /\ saver' = [saver EXCEPT ![s] = [at |-> "written", config |-> saver[s].config]]
    BY <1>4, SaverStages DEF Writes, Saver
  <2>2. [at |-> "written", config |-> saver[s].config] \in SaverType
    BY <2>1 DEF SaverType
  <2>3. file' \in FileType /\ tmp' \in FileType
    BY <1>1, <1>4, <2>1 DEF Writes, Over, FileType, disk
  <2>4. saver' \in [Savers -> SaverType]
    BY <1>1, <2>1, <2>2
  <2> QED
    BY <1>1, <1>4, <2>3, <2>4 DEF Writes, fields, observers
<1>5. CASE WriteFails(s) \/ KeepsMailer(s)
  BY <1>1, <1>2, <1>5 DEF WriteFails, KeepsMailer, Saver, disk, fields, observers
<1>6. CASE Renames(s)
  <2>1. /\ file' \in FileType /\ tmp' \in FileType
        /\ UNCHANGED <<saves, mailer, resolver, overlapped, acked>>
    BY <1>1, <1>6 DEF Renames, FileType, disk, fields, observers
  <2>2. saver[s] \in [at : {"written", "renamed", "set"}, config : Config]
    BY <1>6, SaverStages DEF Renames
  <2>3. [saver[s] EXCEPT !.at = "renamed"] \in SaverType
    BY <2>2 DEF SaverType
  <2>4. ASSUME NEW z \in Savers PROVE Moved(z) \in SaverType
    BY <1>1, SaverStages DEF Moved, SaverType
  <2>5. saver' \in [Savers -> SaverType]
    BY <1>1, <1>2, <1>6, <2>3, <2>4 DEF Renames, Saver
  <2> QED
    BY <1>1, <2>1, <2>5
<1>7. CASE SetsMailer(s)
  <2>1. saver[s] \in [at : {"written", "renamed", "set"}, config : Config]
    BY <1>7, SaverStages DEF SetsMailer
  <2>2. [saver[s] EXCEPT !.at = "set"] \in SaverType /\ saver[s].config \in MailerType
    BY <2>1, Usables DEF SaverType
  <2>3. mailer' \in MailerType /\ saver' \in [Savers -> SaverType]
    BY <1>1, <1>7, <2>2 DEF SetsMailer, Saver, MailerType
  <2> QED
    BY <1>1, <1>7, <2>3 DEF SetsMailer, disk, observers
<1>8. CASE SetsResolver(s)
  <2>1. saver[s].config \in Config
    BY <1>8, SaverStages DEF SetsResolver
  <2>2. acked' \in Nat
    BY <1>1, <1>8, <2>1 DEF SetsResolver, Config
  <2> QED
    BY <1>1, <1>2, <1>8, <2>2 DEF SetsResolver, Saver, disk
<1> QED
  BY <1>3, <1>4, <1>5, <1>6, <1>7, <1>8 DEF SaverStep

\* What a call may find in a cache.
LEMMA ReadsFacts ==
    ASSUME TypeInv, NEW n \in 1 .. MaxSaves, NEW k, NEW token \in Reads(n, k)
    PROVE  /\ token \in TokenType
           /\ token = cache[n].token \/ (token = Mixed /\ Writing(n, k))
BY DEF TypeInv, TokenType, Reads

\* A mail keeps the types.
LEMMA MailStepType ==
    ASSUME TypeInv, NEW k \in Mails, MailStep(k)
    PROVE  TypeInv'
<1> DEFINE SendType == /\ mail \in [Mails -> MailType]
                       /\ cache \in [1 .. MaxSaves -> [token : TokenType, until : Nat]]
                       /\ now \in Nat /\ raced \in BOOLEAN /\ blank \in BOOLEAN
                       /\ slowest \in Nat
<1>1. SendType
  BY DEF TypeInv
<1>2. TokenCached \in Nat
  BY Bounds
<1> SUFFICES SendType'
  BY MailStepKeeps DEF TypeInv
<1>3. ASSUME NEW stage \in MailType, Mail(k, stage)
      PROVE  mail' \in [Mails -> MailType]
  BY <1>1, <1>3 DEF Mail
<1>4. ASSUME mail[k].at \in {"asked", "kept", "writing"}
      PROVE  mail[k].m.n \in 1 .. MaxSaves
  BY <1>4, MailStages DEF Config
<1>5. ASSUME NEW m \in Config PROVE m.n \in 1 .. MaxSaves
  BY DEF Config
<1>6. Idle \in MailType
  BY DEF MailType
<1>7. CASE Injects(k)
  <2>1. [at |-> "injected", m |-> mailer, since |-> acked] \in MailType
    BY DEF TypeInv, MailType
  <2> QED
    BY <1>1, <1>3, <1>7, <2>1 DEF Injects, observers
<1>8. CASE Fires(k)
  <2>1. [at |-> "fired", m |-> mail[k].m, r |-> resolver, since |-> mail[k].since] \in MailType
    BY <1>8, MailStages DEF Fires, TypeInv, MailType
  <2> QED
    BY <1>1, <1>3, <1>8, <2>1 DEF Fires, observers
<1>9. CASE SendsNothing(k) \/ Sends(k)
  BY <1>1, <1>3, <1>6, <1>9 DEF SendsNothing, Sends, observers
<1>10. ASSUME mail[k].at = "fired", Usable(mail[k].m)
       PROVE  mail[k].m \in Config
  BY <1>10, MailStages, Usables
<1>11. CASE TakesCached(k)
  <2>1. mail[k].m.n \in 1 .. MaxSaves
    BY <1>5, <1>10, <1>11 DEF TakesCached
  <2>2. PICK token \in Reads(mail[k].m.n, k) :
          /\ Mail(k, [at |-> "sending", token |-> token, began |-> now])
          /\ raced' = (raced \/ Writing(mail[k].m.n, k))
    BY <1>11 DEF TakesCached
  <2>3. [at |-> "sending", token |-> token, began |-> now] \in MailType
    BY <1>1, <2>1, <2>2, ReadsFacts DEF MailType
  <2>4. raced' \in BOOLEAN
    BY <2>2
  <2> QED
    BY <1>1, <1>3, <1>11, <2>2, <2>3, <2>4 DEF TakesCached
<1>12. CASE AsksToken(k)
  <2>1. [at |-> "asked", m |-> mail[k].m, began |-> now] \in MailType
    BY <1>1, <1>10, <1>12 DEF AsksToken, MailType
  <2> QED
    BY <1>1, <1>3, <1>12, <2>1 DEF AsksToken, observers
<1>13. CASE GetsToken(k)
  <2>1. ASSUME NEW token \in {Token(now), NoToken}
        PROVE  [at |-> "writing", m |-> mail[k].m, token |-> token,
                began |-> mail[k].began] \in MailType
    <3>1. Token(now) \in [got : Nat, whole : {TRUE}]
      BY <1>1 DEF Token
    <3>2. token \in TokenType
      BY Zenon, <3>1, <2>1 DEF TokenType
    <3>3. mail[k].m \in Config /\ mail[k].began \in Nat
      BY <1>13, MailStages DEF GetsToken
    <3> QED
      BY <3>2, <3>3 DEF MailType
  <2>2. mail' \in [Mails -> MailType]
    BY <1>3, <1>6, <1>13, <2>1 DEF GetsToken
  <2>3. blank' \in BOOLEAN
    BY <1>1, <1>13 DEF GetsToken
  <2> QED
    BY <1>1, <1>13, <2>2, <2>3 DEF GetsToken
<1>14. CASE KeepsToken(k)
  <2>1. mail[k] \in [at : {"writing"}, m : Config, token : TokenType, began : Nat]
    BY <1>14, MailStages DEF KeepsToken
  <2>2. [at |-> "kept", m |-> mail[k].m, began |-> mail[k].began] \in MailType
    BY <2>1 DEF MailType
  <2>3. PICK token \in {mail[k].token, Mixed} :
          cache' = [cache EXCEPT ![mail[k].m.n].token = token]
    BY <1>14 DEF KeepsToken
  <2>4. token \in TokenType
    <3>1. mail[k].token \in TokenType
      BY <2>1
    <3> QED
      BY Zenon, <2>3, <3>1 DEF TokenType
  <2>5. cache' \in [1 .. MaxSaves -> [token : TokenType, until : Nat]]
    BY <1>1, <2>3, <2>4
  <2>6. raced' \in BOOLEAN
    BY <1>14 DEF KeepsToken
  <2> QED
    BY <1>1, <1>3, <1>14, <2>2, <2>5, <2>6 DEF KeepsToken
<1>15. CASE KeepsExpiry(k)
  <2>1. mail[k] \in [at : {"asked", "kept"}, m : Config, began : Nat]
    BY <1>15, MailStages DEF KeepsExpiry
  <2>2. mail[k].m.n \in 1 .. MaxSaves
    BY <1>5, <2>1
  <2>3. PICK token \in Reads(mail[k].m.n, k) :
          Mail(k, [at |-> "sending", token |-> token, began |-> mail[k].began])
    BY <1>15 DEF KeepsExpiry
  <2>4. [at |-> "sending", token |-> token, began |-> mail[k].began] \in MailType
    BY <2>1, <2>2, <2>3, ReadsFacts DEF MailType
  <2>5. cache' \in [1 .. MaxSaves -> [token : TokenType, until : Nat]]
    <3>1. now + TokenCached \in Nat
      BY <1>1, <1>2
    <3>2. cache' = [cache EXCEPT ![mail[k].m.n].until = now + TokenCached]
      BY <1>15 DEF KeepsExpiry
    <3> QED
      BY <1>1, <3>1, <3>2
  <2>6. raced' \in BOOLEAN
    BY <1>15 DEF KeepsExpiry
  <2> QED
    BY <1>1, <1>3, <1>15, <2>3, <2>4, <2>5, <2>6 DEF KeepsExpiry
<1> QED
  BY <1>7, <1>8, <1>9, <1>11, <1>12, <1>13, <1>14, <1>15 DEF MailStep

LEMMA TypeNext ==
    ASSUME TypeInv, [Next]_vars
    PROVE  TypeInv'
<1>1. CASE Tick
  <2>1. now' \in Nat /\ slowest' \in Nat /\ UNCHANGED <<mail, cache, raced, blank>>
    BY <1>1 DEF Tick, TypeInv, observers
  <2> QED
    BY <1>1, <2>1, MailStepKeeps DEF TypeInv
<1>2. CASE Restarts
  <2>1. mailer' \in MailerType /\ resolver' \in BOOLEAN
    BY <1>2, Usables DEF Restarts, Start, TypeInv, MailerType, Usable
  <2>2. acked' \in Nat
    BY <1>2, Usables, Bounds DEF Restarts, TypeInv, Config
  <2>3. /\ saver' \in [Savers -> SaverType] /\ mail' \in [Mails -> MailType]
        /\ cache' \in [1 .. MaxSaves -> [token : TokenType, until : Nat]]
    BY <1>2 DEF Restarts, SaverType, MailType, TokenType, NoCache
  <2> QED
    BY <1>2, <2>1, <2>2, <2>3 DEF Restarts, TypeInv, disk, sending
<1>3. CASE UNCHANGED vars
  BY <1>3 DEF vars, TypeInv
<1> QED
  BY <1>1, <1>2, <1>3, Steps, SaverStepType, MailStepType

-----------------------------------------------------------------------------
(* A save that is alone *)

LEMMA OneSaveStep ==
    ASSUME Inv, TypeInv', NEW s \in Savers, SaverStep(s)
    PROVE  OneSave'
<1> SUFFICES ASSUME ~overlapped'
             PROVE  /\ \A r, z \in Savers : saver'[r] # Idle /\ saver'[z] # Idle => r = z
                    /\ \A r \in Savers : SaverInStep(r)'
                    /\ file' \notin {Empty, Torn} /\ file'.n <= saves' /\ mailer'.n <= saves'
                    /\ Usable(file)' /\ (\A r \in Savers : saver'[r].at \notin {"renamed", "set"})
                          => mailer' = file' /\ resolver'
  BY DEF OneSave
<1>1. /\ TypeInv /\ MaxSaves \in Nat /\ saves \in Nat
      /\ \A r \in Savers : saver[r] \in SaverType
  BY Bounds DEF Inv, TypeInv
<1>2. ~overlapped
  BY DEF SaverStep, Opens, Writes, WriteFails, Renames, KeepsMailer, SetsMailer,
         SetsResolver, observers
<1>3. /\ \A r, z \in Savers : saver[r] # Idle /\ saver[z] # Idle => r = z
      /\ \A r \in Savers : SaverInStep(r)
      /\ file \notin {Empty, Torn} /\ file.n <= saves /\ mailer.n <= saves
      /\ Usable(file) /\ (\A r \in Savers : saver[r].at \notin {"renamed", "set"})
            => mailer = file /\ resolver
  BY <1>2 DEF Inv, OneSave
<1>4. \A z \in Savers \ {s} : saver[z] = Idle
  <2>1. CASE saver[s] # Idle
    BY <1>3, <2>1
  <2>2. ASSUME NEW type, Opens(s, type)
        PROVE  \A z \in Savers \ {s} : saver[z] = Idle
    BY <2>2 DEF Opens
  <2>3. saver[s] = Idle => \E type : Opens(s, type)
    BY DEF SaverStep, Writes, WriteFails, Renames, KeepsMailer, SetsMailer, SetsResolver, Idle
  <2> QED
    BY <2>1, <2>2, <2>3
\* The others stay idle, so what must be shown is about s.
<1>5. /\ Idle.at \notin {"opened", "written", "renamed", "set"}
      /\ \A z \in Savers : Moved(z) = saver[z] \/ saver[z].at = "opened"
  BY DEF Idle, Moved
<1>6. ASSUME NEW stage, saver' = [saver EXCEPT ![s] = stage]
      PROVE  /\ saver'[s] = stage
             /\ \A z \in Savers \ {s} : saver'[z] = Idle
             /\ \A r, z \in Savers : saver'[r] # Idle /\ saver'[z] # Idle => r = z
  BY <1>1, <1>4, <1>6 DEF TypeInv
<1>7. ASSUME NEW type \in {"graph", "unknown"}, Opens(s, type)
      PROVE  OneSave'
  <2> DEFINE stage == [at |-> "opened", in |-> "tmp", config |-> [n |-> saves', type |-> type]]
  <2>1. /\ saver' = [saver EXCEPT ![s] = stage] /\ tmp' = Empty
        /\ saves' = saves + 1 /\ saver[s] = Idle
        /\ UNCHANGED <<file, mailer, resolver>>
    BY <1>7 DEF Opens, Saver, fields
  <2>2. stage.at = "opened" /\ stage.in = "tmp" /\ stage.config.n = saves'
    OBVIOUS
  <2> HIDE DEF stage
  <2>3. \A r \in Savers : SaverInStep(r)'
    BY <1>5, <1>6, <2>1, <2>2, ZenonT(40) DEF SaverInStep
  <2>4. file'.n <= saves' /\ mailer'.n <= saves'
    BY <1>1, <1>3, <2>1, SMTT(40) DEF TypeInv, FileType, MailerType, Config, Nothing, Empty, Torn, Half
  <2>5. \A r \in Savers : saver[r].at \notin {"renamed", "set"}
    BY <1>4, <1>5, <2>1
  <2> QED
    BY <1>3, <1>6, <2>1, <2>3, <2>4, <2>5 DEF OneSave, Usable
<1>8. ASSUME NEW stage, saver' = [saver EXCEPT ![s] = stage], SaverInStep(s)'
      PROVE  \A r \in Savers : SaverInStep(r)'
  BY <1>5, <1>6, <1>8 DEF SaverInStep
<1>9. ASSUME saver' = [saver EXCEPT ![s] = Idle]
      PROVE  \A r \in Savers : SaverInStep(r)'
  BY <1>5, <1>6, <1>9 DEF SaverInStep
<1>10. ASSUME saver[s].at \in {"opened", "written"}
       PROVE  Usable(file) => mailer = file /\ resolver
  BY <1>3, <1>4, <1>5, <1>10
<1>11. saver[s].at \in {"opened", "written", "renamed", "set"}
         => /\ saver[s].config \in Config /\ saver[s].config.n = saves
            /\ saver[s].config \notin {Empty, Torn}
  BY <1>1, <1>3, SaverStages DEF SaverInStep, Config, Empty, Torn
<1>12. CASE Writes(s)
  <2>1. /\ saver' = [saver EXCEPT ![s] = [at |-> "written", config |-> saver[s].config]]
        /\ saver[s].at = "opened" /\ UNCHANGED <<saves, mailer, resolver>>
    BY <1>12 DEF Writes, Saver, fields
  <2>2. tmp' = saver[s].config /\ file' = file
    BY <1>3, <1>12, <2>1 DEF Writes, SaverInStep, Over
  <2>3. SaverInStep(s)'
    BY <1>6, <1>11, <2>1, <2>2, ZenonT(40) DEF SaverInStep
  <2> QED
    BY <1>3, <1>6, <1>8, <1>10, <2>1, <2>2, <2>3 DEF OneSave, Usable
<1>13. CASE WriteFails(s)
  <2>1. /\ saver' = [saver EXCEPT ![s] = Idle] /\ saver[s].at = "opened"
        /\ UNCHANGED <<file, saves, mailer, resolver>>
    BY <1>13 DEF WriteFails, Saver, disk, fields
  <2> QED
    BY <1>3, <1>6, <1>9, <1>10, <2>1 DEF OneSave, Usable
<1>14. CASE Renames(s)
  <2>1. /\ saver[s].at = "written" /\ tmp = saver[s].config
        /\ UNCHANGED <<saves, mailer, resolver>>
    BY <1>3, <1>14 DEF Renames, SaverInStep, fields
  <2>2. CASE /\ file' = tmp /\ tmp' = Nothing
             /\ saver' = [z \in Savers |-> IF z = s THEN [saver[s] EXCEPT !.at = "renamed"]
                                           ELSE Moved(z)]
    <3>1. /\ saver'[s].at = "renamed" /\ saver'[s].config = saver[s].config
      BY <1>1, <2>1, <2>2, SaverStages
    <3>2. \A z \in Savers \ {s} : saver'[z] = Idle
      BY <1>4, <1>5, <2>2
    <3>3. \A r \in Savers : SaverInStep(r)'
      BY <1>5, <1>11, <2>1, <2>2, <3>1, <3>2 DEF SaverInStep
    <3>4. \A r, z \in Savers : saver'[r] # Idle /\ saver'[z] # Idle => r = z
      BY <3>2
    <3>5. file' \notin {Empty, Torn} /\ file'.n <= saves' /\ mailer'.n <= saves'
      BY <1>1, <1>3, <1>11, <2>1, <2>2
    <3> QED
      BY <3>1, <3>3, <3>4, <3>5 DEF OneSave
  <2>3. CASE saver' = [saver EXCEPT ![s] = Idle] /\ UNCHANGED <<file, tmp>>
    BY <1>3, <1>6, <1>9, <1>10, <2>1, <2>3 DEF OneSave, Usable
  <2> QED
    BY <1>14, <2>2, <2>3 DEF Renames, Saver, disk
<1>15. CASE KeepsMailer(s)
  <2>1. /\ saver' = [saver EXCEPT ![s] = Idle] /\ file = saver[s].config
        /\ ~Usable(saver[s].config)
        /\ UNCHANGED <<file, saves, mailer, resolver>>
    BY <1>3, <1>15 DEF KeepsMailer, Saver, SaverInStep, disk, fields
  <2> QED
    BY <1>3, <1>6, <1>9, <2>1 DEF OneSave, Usable
<1>16. CASE SetsMailer(s)
  <2>1. /\ saver[s].at = "renamed" /\ Usable(saver[s].config)
        /\ UNCHANGED <<file, tmp, saves, resolver>>
        /\ \/ mailer' = Half /\ saver' = saver
           \/ /\ mailer' = saver[s].config
              /\ saver' = [saver EXCEPT ![s] = [saver[s] EXCEPT !.at = "set"]]
    BY <1>16 DEF SetsMailer, Saver, disk
  <2>2. CASE mailer' = Half /\ saver' = saver
    <3>1. \A r \in Savers : SaverInStep(r)'
      BY <1>3, <1>4, <1>5, <2>1, <2>2 DEF SaverInStep
    <3>2. mailer'.n <= saves'
      BY <1>1, <2>1, <2>2 DEF Half
    <3> QED
      BY <1>3, <2>1, <2>2, <3>1, <3>2 DEF OneSave
  <2>3. CASE /\ mailer' = saver[s].config
             /\ saver' = [saver EXCEPT ![s] = [saver[s] EXCEPT !.at = "set"]]
    <3> DEFINE stage == [saver[s] EXCEPT !.at = "set"]
    <3>5. saver[s] \in [at : {"written", "renamed", "set"}, config : Config]
      BY <1>1, <2>1, SaverStages
    <3>6. stage.at = "set" /\ stage.config = saver[s].config
      BY <3>5
    <3>7. saver'[s] = stage
      BY <1>6, <2>3
    <3>1. /\ saver'[s].at = "set" /\ saver'[s].config = saver[s].config
          /\ file = saver[s].config
      BY <1>3, <2>1, <3>6, <3>7 DEF SaverInStep
    <3> HIDE DEF stage
    <3>2. SaverInStep(s)'
      BY <1>11, <2>1, <2>3, <3>1 DEF SaverInStep, Usable
    <3>3. mailer'.n <= saves'
      BY <1>1, <1>11, <2>1, <2>3
    <3>4. \A r, z \in Savers : saver'[r] # Idle /\ saver'[z] # Idle => r = z
      BY <1>6, <2>3
    <3> QED
      BY <1>3, <1>8, <2>1, <2>3, <3>1, <3>2, <3>3, <3>4 DEF OneSave
  <2> QED
    BY <2>1, <2>2, <2>3
<1>17. CASE SetsResolver(s)
  <2>1. /\ saver' = [saver EXCEPT ![s] = Idle] /\ resolver' = TRUE
        /\ file = mailer /\ UNCHANGED <<file, saves, mailer>>
    BY <1>3, <1>17 DEF SetsResolver, Saver, SaverInStep, disk
  <2> QED
    BY <1>3, <1>6, <1>9, <2>1 DEF OneSave
<1> QED
  BY <1>7, <1>12, <1>13, <1>14, <1>15, <1>16, <1>17 DEF SaverStep, OneSave

LEMMA OneSaveNext ==
    ASSUME Inv, [Next]_vars, TypeInv'
    PROVE  OneSave'
<1>1. ASSUME NEW k \in Mails, MailStep(k)
      PROVE  OneSave'
  <2>1. UNCHANGED <<file, tmp, saver, saves, mailer, resolver, overlapped>>
    BY <1>1, MailStepKeeps
  <2> QED
    BY <2>1 DEF Inv, OneSave, SaverInStep, Usable
<1>2. CASE Tick \/ UNCHANGED vars
  <2>1. UNCHANGED <<file, tmp, saver, saves, mailer, resolver, overlapped>>
    BY <1>2, MailStepKeeps DEF vars
  <2> QED
    BY <2>1 DEF Inv, OneSave, SaverInStep, Usable
<1>3. CASE Restarts
  <2>1. /\ saver' = [s \in Savers |-> Idle] /\ overlapped' = overlapped
        /\ file' = file /\ saves' = saves
        /\ mailer' = (IF Usable(file) THEN file ELSE Nothing) /\ resolver' = Usable(file)
    BY <1>3 DEF Restarts, Start, disk
  <2>2. \A s \in Savers : SaverInStep(s)'
    BY <2>1 DEF SaverInStep, Idle
  <2>3. saves \in Nat /\ Nothing.n = 0
    BY Bounds DEF Inv, TypeInv, Nothing
  <2>4. ASSUME Usable(file)'
        PROVE  mailer' = file' /\ resolver'
    BY <2>1, <2>4 DEF Usable
  <2>5. ASSUME ~overlapped'
        PROVE  file' \notin {Empty, Torn} /\ file'.n <= saves' /\ mailer'.n <= saves'
    BY <2>1, <2>3, <2>5 DEF Inv, OneSave
  <2>6. \A s, z \in Savers : saver'[s] # Idle /\ saver'[z] # Idle => s = z
    BY <2>1
  <2> QED
    BY <2>2, <2>4, <2>5, <2>6 DEF OneSave
<1> QED
  BY <1>1, <1>2, <1>3, Steps, OneSaveStep

-----------------------------------------------------------------------------
(* The configuration at work *)

LEMMA AckedNext ==
    ASSUME Inv, [Next]_vars, TypeInv'
    PROVE  AckedAtWork'
<1>1. TypeInv
  BY DEF Inv
<1>2. ASSUME NEW s \in Savers, SaverStep(s), ~overlapped'
      PROVE  AckedAtWork'
  <2>1. UNCHANGED mail
    BY <1>2, SaverStepKeeps
  <2>2. ~overlapped
    BY <1>2 DEF SaverStep, Opens, Writes, WriteFails, Renames, KeepsMailer, SetsMailer,
                SetsResolver, observers
  <2>3. CASE UNCHANGED <<mailer, resolver, acked>>
    BY <2>1, <2>2, <2>3 DEF Inv, AckedAtWork
  <2>4. CASE SetsMailer(s)
    <3>1. /\ saver[s].at = "renamed" /\ Usable(saver[s].config)
          /\ UNCHANGED <<resolver, acked>>
          /\ mailer # Nothing => mailer' = saver[s].config
      BY <2>4 DEF SetsMailer, observers
    <3>2. saver[s] # Idle
      BY <3>1 DEF Idle
    <3>3. saver[s].config.n = saves /\ mailer.n <= saves
      BY <2>2, <3>2 DEF Inv, OneSave, SaverInStep
    <3>4. acked > 0 => Usable(mailer) /\ mailer.n >= acked /\ resolver
      BY <2>2 DEF Inv, AckedAtWork
    <3>5. ~Usable(Nothing) /\ acked \in Nat /\ saves \in Nat
      BY <1>1, Bounds DEF TypeInv, Usable, Nothing
    <3>6. acked > 0 => Usable(mailer)
      BY <3>4
    <3>7. acked > 0 => mailer' = saver[s].config
      BY <3>1, <3>5, <3>6
    <3>8. acked > 0 => mailer.n \in Nat /\ saves >= acked
      <4>1. mailer.n \in Nat
        BY <1>1, Bounds DEF TypeInv, MailerType, Config, Nothing, Half
      <4> QED
        BY <3>3, <3>4, <3>5, <4>1
    <3>9. acked' > 0 => Usable(mailer)' /\ mailer'.n >= acked' /\ resolver'
      BY <3>1, <3>3, <3>4, <3>7, <3>8 DEF Usable
    <3> QED
      BY <2>1, <2>2, <3>1, <3>9 DEF Inv, AckedAtWork
  <2>5. CASE SetsResolver(s)
    <3>1. /\ saver[s].at = "set" /\ resolver' = TRUE /\ acked' = saver[s].config.n
          /\ mailer' = mailer
      BY <2>5 DEF SetsResolver
    <3>2. mailer = saver[s].config /\ Usable(mailer)
      BY <2>2, <3>1 DEF Inv, OneSave, SaverInStep
    <3>3. mailer.n \in Nat
      BY <1>1, Bounds DEF TypeInv, MailerType, Config, Nothing, Half
    <3>4. Usable(mailer)' /\ mailer'.n >= acked' /\ resolver'
      BY <3>1, <3>2, <3>3 DEF Usable
    <3> QED
      BY <2>1, <2>2, <3>1, <3>4 DEF Inv, AckedAtWork
  <2>6. UNCHANGED <<mailer, resolver, acked>> \/ SetsMailer(s) \/ SetsResolver(s)
    BY <1>2 DEF SaverStep, Opens, Writes, WriteFails, Renames, KeepsMailer, fields, observers
  <2> QED
    BY <2>3, <2>4, <2>5, <2>6
<1>3. ASSUME NEW k \in Mails, MailStep(k), ~overlapped'
      PROVE  AckedAtWork'
  <2>1. UNCHANGED <<mailer, resolver, acked, overlapped>>
    BY <1>3, MailStepKeeps
  <2>2. /\ acked > 0 => Usable(mailer) /\ mailer.n >= acked /\ resolver
        /\ \A j \in Mails : mail[j].at \in {"injected", "fired"} /\ mail[j].since > 0 =>
             /\ Usable(mail[j].m) /\ mail[j].m.n >= mail[j].since
             /\ IF mail[j].at = "fired" THEN mail[j].r ELSE resolver
    BY <1>3, <2>1 DEF Inv, AckedAtWork
  <2>3. ASSUME NEW stage, mail' = [mail EXCEPT ![k] = stage],
               stage.at \in {"injected", "fired"} /\ stage.since > 0 =>
                  /\ Usable(stage.m) /\ stage.m.n >= stage.since
                  /\ IF stage.at = "fired" THEN stage.r ELSE resolver
        PROVE  AckedAtWork'
    <3>1. \A j \in Mails : mail'[j] = mail[j] \/ mail'[j] = stage
      BY <1>1, <2>3 DEF TypeInv
    <3> QED
      BY <2>1, <2>2, <2>3, <3>1 DEF AckedAtWork, Usable
  <2>4. CASE Injects(k)
    BY <2>2, <2>3, <2>4 DEF Injects, Mail
  <2>5. CASE Fires(k)
    BY <2>2, <2>3, <2>5 DEF Fires, Mail
  <2>6. CASE SendsNothing(k) \/ Sends(k)
    BY <2>3, <2>6 DEF SendsNothing, Sends, Mail, Idle
  <2>7. CASE TakesCached(k) \/ AsksToken(k)
    BY <2>3, <2>7 DEF TakesCached, AsksToken, Mail
  <2>8. CASE GetsToken(k) \/ KeepsToken(k) \/ KeepsExpiry(k)
    BY <2>3, <2>8 DEF GetsToken, KeepsToken, KeepsExpiry, Mail, Idle
  <2> QED
    BY <1>3, <2>4, <2>5, <2>6, <2>7, <2>8 DEF MailStep
<1>4. CASE Tick \/ UNCHANGED vars
  <2>1. UNCHANGED <<mailer, resolver, acked, overlapped, mail>>
    BY <1>4 DEF Tick, vars, fields, observers
  <2> QED
    BY <2>1 DEF Inv, AckedAtWork, Usable
<1>5. CASE Restarts
  <2>1. /\ mail' = [k \in Mails |-> Idle]
        /\ IF Usable(file)
           THEN mailer' = file /\ resolver' = TRUE /\ acked' = file.n
           ELSE acked' = 0
    BY <1>5 DEF Restarts, Start
  <2>2. Usable(file) => file.n \in Nat
    BY <1>1, Usables, Bounds DEF TypeInv, Config
  <2>3. acked' > 0 => Usable(mailer)' /\ mailer'.n >= acked' /\ resolver'
    BY <2>1, <2>2 DEF Usable
  <2> QED
    BY <2>1, <2>3 DEF AckedAtWork, Idle
<1> QED
  BY <1>2, <1>3, <1>4, <1>5, Steps DEF AckedAtWork

-----------------------------------------------------------------------------
(* The tokens *)

\* A save leaves the tokens alone.
LEMMA TokensKept ==
    ASSUME TokensFresh, UNCHANGED <<mail, cache, now, raced, blank, slowest>>
    PROVE  TokensFresh'
BY DEF TokensFresh, CacheFresh, CallFresh, Excused

LEMMA TokenFacts ==
    /\ ~NoToken.whole /\ ~Mixed.whole /\ Mixed # NoToken
    /\ \A t : Token(t).whole /\ Token(t).got = t
    /\ \A token \in TokenType : token.whole => token.got \in Nat
<1>1. ~NoToken.whole /\ ~Mixed.whole /\ Mixed # NoToken
  BY DEF NoToken, Mixed
<1>2. ASSUME NEW t PROVE Token(t).whole /\ Token(t).got = t
  BY DEF Token
<1>3. ASSUME NEW token \in TokenType, token.whole PROVE token.got \in Nat
  BY <1>1, <1>3 DEF TokenType
<1> QED
  BY <1>1, <1>2, <1>3

\* What a call that returns a token must show of it.
LEMMA ReturnsFresh ==
    ASSUME NEW k, NEW token, NEW began,
           mail'[k] = [at |-> "sending", token |-> token, began |-> began],
           began <= now', now' <= began + slowest',
           token.whole => began < token.got + TokenCached + 2 * slowest',
           ~token.whole => Excused(token)'
    PROVE  CallFresh(k)'
BY DEF CallFresh, Excused

\* The step of one mail, stage by stage: the others are as before, and so are the
\* caches unless the step says otherwise.
LEMMA CallMoves ==
    ASSUME Inv, TypeInv', NEW k \in Mails, NEW stage, Mail(k, stage),
           cache' = cache, now' = now, slowest' = slowest, raced => raced', blank => blank',
           CallFresh(k)'
    PROVE  TokensFresh'
<1>1. \A n \in 1 .. MaxSaves : CacheFresh(n)'
  BY DEF Inv, TokensFresh, CacheFresh
<1>2. \A j \in Mails \ {k} : CallFresh(j)'
  BY DEF Inv, TypeInv, TokensFresh, CallFresh, Excused, Mail
<1> QED
  BY <1>1, <1>2 DEF TokensFresh

LEMMA TokensStep ==
    ASSUME Inv, TypeInv', NEW k \in Mails, MailStep(k)
    PROVE  TokensFresh'
<1>1. /\ TypeInv /\ TokensFresh /\ CallFresh(k)
      /\ now \in Nat /\ now' = now /\ slowest \in Nat /\ slowest' = slowest
      /\ (raced => raced') /\ (blank => blank')
  BY DEF Inv, TypeInv, TokensFresh, MailStep, Injects, Fires, SendsNothing, TakesCached,
         AsksToken, GetsToken, KeepsToken, KeepsExpiry, Sends, observers
<1>2. ASSUME NEW stage, Mail(k, stage)
      PROVE  mail'[k] = stage /\ \A j \in Mails \ {k} : mail'[j] = mail[j]
  BY <1>1, <1>2 DEF TypeInv, Mail
<1>3. ASSUME mail[k].at \in {"kept", "writing"}
      PROVE  mail[k].m.n \in 1 .. MaxSaves /\ mail[k].began \in Nat
  BY <1>1, <1>3, MailStages DEF Config
<1>4. ASSUME mail[k].at = "fired", Usable(mail[k].m)
      PROVE  mail[k].m.n \in 1 .. MaxSaves
  BY <1>1, <1>4, MailStages, Usables DEF Config
\* What is found in a cache is fresh, or excused.
<1>5. ASSUME NEW n \in 1 .. MaxSaves, NEW token \in Reads(n, k), raced' = (raced \/ Writing(n, k))
      PROVE  /\ token.whole => token = cache[n].token /\ token.got \in Nat
             /\ ~token.whole /\ token # NoToken => token = Mixed /\ raced'
             /\ token = NoToken => token = cache[n].token
  <2>1. token \in TokenType /\ (token = cache[n].token \/ (token = Mixed /\ Writing(n, k)))
    BY <1>1, ReadsFacts
  <2>2. ~token.whole /\ token # NoToken => token = Mixed
    BY <2>1 DEF TokenType
  <2>3. cache[n].token = Mixed => raced
    BY <1>1 DEF TokensFresh, CacheFresh
  <2> QED
    BY <1>1, <1>5, <2>1, <2>2, <2>3, TokenFacts
<1>6. CASE Injects(k) \/ Fires(k) \/ SendsNothing(k) \/ Sends(k)
  <2>1. PICK stage : Mail(k, stage) /\ stage.at \in {"injected", "fired", "idle"}
                     /\ "began" \notin DOMAIN stage
    BY <1>6 DEF Injects, Fires, SendsNothing, Sends, Idle
  <2>2. cache' = cache
    BY <1>6 DEF Injects, Fires, SendsNothing, Sends
  <2>3. CallFresh(k)'
    BY <1>2, <2>1 DEF CallFresh
  <2> QED
    BY <1>1, <2>1, <2>2, <2>3, CallMoves
<1>7. CASE TakesCached(k)
  <2>1. mail[k].m.n \in 1 .. MaxSaves
    BY <1>4, <1>7 DEF TakesCached
  <2>2. PICK token \in Reads(mail[k].m.n, k) :
          /\ token # NoToken /\ now < cache[mail[k].m.n].until
          /\ Mail(k, [at |-> "sending", token |-> token, began |-> now])
          /\ raced' = (raced \/ Writing(mail[k].m.n, k))
    BY <1>7 DEF TakesCached
  <2>3. cache' = cache
    BY <1>7 DEF TakesCached
  <2>4. ASSUME token.whole PROVE now < token.got + TokenCached + 2 * slowest
    <3>1. token = cache[mail[k].m.n].token /\ token.got \in Nat
      BY <1>5, <2>1, <2>2, <2>4
    <3>2. cache[mail[k].m.n].until <= token.got + TokenCached + 2 * slowest
      BY <1>1, <2>1, <2>4, <3>1 DEF TokensFresh, CacheFresh
    <3>3. cache[mail[k].m.n].until \in Nat
      BY <1>1, <2>1 DEF TypeInv
    <3> QED
      BY <1>1, <2>2, <3>1, <3>2, <3>3, Bounds
  <2>5. ASSUME ~token.whole PROVE Excused(token)'
    BY <1>5, <2>1, <2>2, <2>5 DEF Excused
  <2>6. now <= now' /\ now' <= now + slowest'
    BY <1>1
  <2>7. CallFresh(k)'
    BY <1>1, <1>2, <2>2, <2>4, <2>5, <2>6, ReturnsFresh
  <2> QED
    BY <1>1, <2>2, <2>3, <2>7, CallMoves
<1>8. CASE AsksToken(k)
  <2> DEFINE stage == [at |-> "asked", m |-> mail[k].m, began |-> now]
  <2>1. Mail(k, stage) /\ cache' = cache
    BY <1>8 DEF AsksToken
  <2>2. CallFresh(k)'
    BY <1>1, <1>2, <2>1 DEF CallFresh
  <2> QED
    BY <1>1, <2>1, <2>2, CallMoves
<1>9. CASE GetsToken(k)
  <2>1. cache' = cache /\ mail[k].at = "asked"
    BY <1>9 DEF GetsToken
  <2>2. mail[k].began <= now /\ now <= mail[k].began + slowest
    BY <1>1, <2>1, MailStages DEF CallFresh
  <2>3. CASE Mail(k, Idle)
    <3>1. CallFresh(k)'
      BY <1>2, <2>3 DEF CallFresh, Idle
    <3> QED
      BY <1>1, <2>1, <2>3, <3>1, CallMoves
  <2>4. ASSUME NEW token \in {Token(now), NoToken},
               Mail(k, [at |-> "writing", m |-> mail[k].m, token |-> token,
                        began |-> mail[k].began]),
               blank' = (blank \/ token = NoToken)
        PROVE  TokensFresh'
    <3>1. /\ token.whole => token.got = now
          /\ ~token.whole => Excused(token)'
      BY <2>4, TokenFacts DEF Excused
    <3>2. CallFresh(k)'
      BY <1>1, <1>2, <2>2, <2>4, <3>1 DEF CallFresh, Excused
    <3> QED
      BY <1>1, <2>1, <2>4, <3>2, CallMoves
  <2> QED
    BY <1>9, <2>3, <2>4 DEF GetsToken
<1>10. CASE KeepsToken(k)
  <2> DEFINE n == mail[k].m.n
  <2>1. mail[k] \in [at : {"writing"}, m : Config, token : TokenType, began : Nat]
        /\ n \in 1 .. MaxSaves
    BY <1>1, <1>3, <1>10, MailStages DEF KeepsToken
  <2>2. PICK token :
          /\ cache' = [cache EXCEPT ![n].token = token]
          /\ token = mail[k].token \/ (token = Mixed /\ raced')
    BY <1>10 DEF KeepsToken
  <2>3. Mail(k, [at |-> "kept", m |-> mail[k].m, began |-> mail[k].began])
    BY <1>10 DEF KeepsToken
  <2>4. /\ cache'[n].token = token /\ cache'[n].until = cache[n].until
        /\ \A i \in 1 .. MaxSaves : i # n => cache'[i] = cache[i]
    BY <1>1, <2>1, <2>2 DEF TypeInv
  <2>5. /\ mail[k].began <= now /\ now <= mail[k].began + slowest
        /\ IF mail[k].token.whole THEN mail[k].began <= mail[k].token.got
           ELSE Excused(mail[k].token)
    BY <1>1, <2>1 DEF CallFresh
  <2>6. /\ token.whole => token = mail[k].token /\ token.got \in Nat
        /\ ~token.whole => Excused(token)'
    BY <1>1, <2>1, <2>2, <2>5, TokenFacts DEF Excused
  <2>7. token = Mixed => raced'
    BY <1>1, <2>2, <2>5, TokenFacts DEF Excused
  <2>8. ASSUME token.whole PROVE now <= token.got + slowest
    BY <1>1, <2>1, <2>5, <2>6, <2>8
  <2> HIDE DEF n
  <2>9. ASSUME NEW i \in 1 .. MaxSaves PROVE CacheFresh(i)'
    <3>1. CASE i # n
      BY <1>1, <2>4, <3>1 DEF TokensFresh, CacheFresh
    <3>2. CASE i = n
      <4>1. cache[n].until <= now + TokenCached /\ cache[n].until \in Nat
        BY <1>1, <2>1 DEF TokensFresh, CacheFresh, TypeInv
      <4>2. ASSUME token.whole
            PROVE  cache[n].until <= token.got + TokenCached + 2 * slowest
        BY <1>1, <2>6, <2>8, <4>1, <4>2, Bounds
      <4> QED
        BY <1>1, <2>4, <2>7, <3>2, <4>1, <4>2 DEF CacheFresh
    <3> QED
      BY <3>1, <3>2
  <2>10. ASSUME NEW j \in Mails, j # k PROVE CallFresh(j)'
    <3>1. mail'[j] = mail[j] /\ CallFresh(j)
      BY <1>1, <1>2, <2>3, <2>10 DEF TokensFresh
    <3>2. CASE mail[j].at # "kept"
      BY <1>1, <3>1, <3>2 DEF CallFresh, Excused
    <3>3. CASE mail[j].at = "kept"
      <4>1. /\ mail[j] \in [at : {"asked", "kept"}, m : Config, began : Nat]
            /\ mail[j].m.n \in 1 .. MaxSaves
        BY <1>1, <3>3, MailStages DEF Config
      <4>2. mail[j].began <= now /\ now <= mail[j].began + slowest
        BY <3>1, <4>1 DEF CallFresh
      <4>3. ASSUME token.whole PROVE mail[j].began <= token.got + slowest
        BY <1>1, <2>6, <2>8, <4>1, <4>2, <4>3
      <4>4. CASE mail[j].m.n = n
        BY <1>1, <2>4, <2>6, <3>1, <3>3, <4>2, <4>3, <4>4 DEF CallFresh, Excused
      <4>5. CASE mail[j].m.n # n
        BY <1>1, <2>4, <3>1, <3>3, <4>1, <4>2, <4>5 DEF CallFresh, Excused
      <4> QED
        BY <4>4, <4>5
    <3> QED
      BY <3>2, <3>3
  <2>11. CallFresh(k)'
    <3>1. ASSUME token.whole PROVE mail[k].began <= token.got + slowest
      BY <1>1, <2>1, <2>5, <2>6, <2>8, <3>1
    <3>2. /\ mail'[k] = [at |-> "kept", m |-> mail[k].m, began |-> mail[k].began]
          /\ mail'[k].m.n = n
      BY <1>2, <2>3 DEF n
    <3> QED
      BY <1>1, <2>4, <2>5, <2>6, <3>1, <3>2 DEF CallFresh, Excused
  <2> QED
    BY <2>9, <2>10, <2>11 DEF TokensFresh
<1>11. CASE KeepsExpiry(k)
  <2> DEFINE n == mail[k].m.n
  <2>1. mail[k] \in [at : {"asked", "kept"}, m : Config, began : Nat] /\ n \in 1 .. MaxSaves
        /\ mail[k].at = "kept"
    BY <1>1, <1>3, <1>11, MailStages DEF KeepsExpiry
  <2>2. PICK token \in Reads(n, k) :
          Mail(k, [at |-> "sending", token |-> token, began |-> mail[k].began])
    BY <1>11 DEF KeepsExpiry
  <2>3. /\ cache' = [cache EXCEPT ![n].until = now + TokenCached]
        /\ raced' = (raced \/ Writing(n, k))
    BY <1>11 DEF KeepsExpiry
  <2>4. /\ cache'[n].token = cache[n].token /\ cache'[n].until = now + TokenCached
        /\ \A i \in 1 .. MaxSaves : i # n => cache'[i] = cache[i]
    BY <1>1, <2>1, <2>3 DEF TypeInv
  <2>5. /\ mail[k].began <= now /\ now <= mail[k].began + slowest
        /\ IF cache[n].token.whole THEN mail[k].began <= cache[n].token.got + slowest
           ELSE Excused(cache[n].token)
    BY <1>1, <2>1 DEF CallFresh
  <2>6. cache[n].token \in TokenType
    BY <1>1, <2>1 DEF TypeInv
  <2>7. ASSUME cache[n].token.whole
        PROVE  /\ now + TokenCached <= cache[n].token.got + TokenCached + 2 * slowest
               /\ mail[k].began < cache[n].token.got + TokenCached + 2 * slowest
    <3>1. cache[n].token.got \in Nat
      BY <2>6, <2>7, TokenFacts
    <3> QED
      BY <1>1, <2>1, <2>5, <2>7, <3>1, Bounds
  <2>8. /\ token.whole => token = cache[n].token
        /\ ~token.whole => Excused(token)'
    BY <1>1, <1>5, <2>1, <2>2, <2>3, <2>5, TokenFacts DEF Excused
  <2>9. cache[n].token = Mixed => raced'
    BY <1>1, <2>1 DEF TokensFresh, CacheFresh
  <2> HIDE DEF n
  <2>10. ASSUME NEW i \in 1 .. MaxSaves PROVE CacheFresh(i)'
    <3>1. CASE i # n
      BY <1>1, <2>4, <3>1 DEF TokensFresh, CacheFresh
    <3>2. CASE i = n
      <4>1. now + TokenCached <= now' + TokenCached
        BY <1>1, Bounds
      <4> QED
        BY <1>1, <2>4, <2>7, <2>9, <3>2, <4>1 DEF CacheFresh
    <3> QED
      BY <3>1, <3>2
  <2>11. ASSUME NEW j \in Mails, j # k PROVE CallFresh(j)'
    <3>1. mail'[j] = mail[j] /\ CallFresh(j)
      BY <1>1, <1>2, <2>2, <2>11 DEF TokensFresh
    <3>2. mail[j].at = "kept" => cache'[mail[j].m.n].token = cache[mail[j].m.n].token
      BY <1>1, <2>4, MailStages DEF Config
    <3> QED
      BY <1>1, <3>1, <3>2 DEF CallFresh, Excused
  <2>12. CallFresh(k)'
    <3>1. mail'[k] = [at |-> "sending", token |-> token, began |-> mail[k].began]
      BY <1>2, <2>2
    <3>2. token.whole => mail[k].began < token.got + TokenCached + 2 * slowest'
      BY <1>1, <2>7, <2>8
    <3>3. mail[k].began <= now' /\ now' <= mail[k].began + slowest'
      BY <1>1, <2>5
    <3> QED
      BY <2>8, <3>1, <3>2, <3>3, ReturnsFresh
  <2> QED
    BY <2>10, <2>11, <2>12 DEF TokensFresh
<1> QED
  BY <1>6, <1>7, <1>8, <1>9, <1>10, <1>11 DEF MailStep

LEMMA TokensNext ==
    ASSUME Inv, [Next]_vars, TypeInv'
    PROVE  TokensFresh'
<1>1. TypeInv /\ TokensFresh
  BY DEF Inv
<1>2. ASSUME NEW s \in Savers, SaverStep(s)
      PROVE  TokensFresh'
  BY <1>1, <1>2, SaverStepKeeps, TokensKept
<1>3. CASE UNCHANGED vars
  BY <1>1, <1>3, TokensKept DEF vars
<1>4. CASE Tick
  <2>1. /\ now' = now + 1 /\ UNCHANGED <<mail, cache, raced, blank>>
        /\ now \in Nat /\ slowest \in Nat /\ slowest' \in {slowest, slowest + 1}
        /\ (\E k \in Mails : "began" \in DOMAIN mail[k] /\ mail[k].began + slowest <= now)
             => slowest' = slowest + 1
    BY <1>1, <1>4 DEF Tick, TypeInv
  <2>2. ASSUME NEW token \in TokenType, token.whole
        PROVE  token.got \in Nat
    BY <2>2, TokenFacts
  <2>3. ASSUME NEW n \in 1 .. MaxSaves PROVE CacheFresh(n)'
    <3>1. /\ cache[n].until \in Nat /\ cache[n].until <= now + TokenCached
          /\ cache[n].token \in TokenType
      BY <1>1 DEF TypeInv, TokensFresh, CacheFresh
    <3>2. cache[n].until <= now' + TokenCached
      BY <2>1, <3>1, Bounds
    <3>3. ASSUME cache[n].token.whole
          PROVE  cache[n].until <= cache[n].token.got + TokenCached + 2 * slowest'
      <4>1. cache[n].until <= cache[n].token.got + TokenCached + 2 * slowest
        BY <1>1, <3>3 DEF TokensFresh, CacheFresh
      <4>2. cache[n].token.got \in Nat
        BY <2>2, <3>1, <3>3
      <4> QED
        BY <2>1, <3>1, <4>1, <4>2, Bounds
    <3> QED
      BY <1>1, <2>1, <3>2, <3>3 DEF TokensFresh, CacheFresh
  <2>4. ASSUME NEW k \in Mails PROVE CallFresh(k)'
    <3>1. CallFresh(k)
      BY <1>1 DEF TokensFresh
    <3>2. ASSUME "began" \in DOMAIN mail[k]
          PROVE  mail[k].began <= now' /\ now' <= mail[k].began + slowest'
      <4>1. mail[k].began \in Nat
        BY <1>1, <3>2, MailStages
      <4>2. mail[k].began <= now /\ now <= mail[k].began + slowest
        BY <3>1, <3>2 DEF CallFresh
      <4> QED
        BY <2>1, <3>2, <4>1, <4>2
    <3>3. ASSUME mail[k].at = "kept", cache[mail[k].m.n].token.whole
          PROVE  mail[k].began <= cache[mail[k].m.n].token.got + slowest'
      <4>1. mail[k].began \in Nat /\ cache[mail[k].m.n].token \in TokenType
        BY <1>1, <3>3, MailStages DEF TypeInv, Config
      <4>2. mail[k].began <= cache[mail[k].m.n].token.got + slowest
        BY <3>1, <3>3 DEF CallFresh
      <4>3. cache[mail[k].m.n].token.got \in Nat
        BY <2>2, <3>3, <4>1
      <4> QED
        BY <2>1, <4>1, <4>2, <4>3
    <3>4. ASSUME mail[k].at = "sending", mail[k].token.whole
          PROVE  mail[k].began < mail[k].token.got + TokenCached + 2 * slowest'
      <4>1. mail[k].began \in Nat /\ mail[k].token \in TokenType
        BY <1>1, <3>4, MailStages
      <4>2. mail[k].began < mail[k].token.got + TokenCached + 2 * slowest
        BY <3>1, <3>4 DEF CallFresh
      <4>3. mail[k].token.got \in Nat
        BY <2>2, <3>4, <4>1
      <4> QED
        BY <2>1, <4>1, <4>2, <4>3, Bounds
    <3> QED
      BY <2>1, <3>1, <3>2, <3>3, <3>4 DEF CallFresh, Excused
  <2> QED
    BY <2>3, <2>4 DEF TokensFresh
<1>5. CASE Restarts
  <2>1. /\ mail' = [k \in Mails |-> Idle] /\ now' = now
        /\ cache' = [n \in 1 .. MaxSaves |-> NoCache]
    BY <1>5 DEF Restarts
  <2>2. \A n \in 1 .. MaxSaves : CacheFresh(n)'
    BY <1>1, <2>1, Bounds DEF TypeInv, CacheFresh, NoCache, NoToken, Mixed
  <2>3. \A k \in Mails : CallFresh(k)'
    BY <2>1 DEF CallFresh, Idle
  <2> QED
    BY <2>2, <2>3 DEF TokensFresh
<1> QED
  BY <1>1, <1>2, <1>3, <1>4, <1>5, Steps, TokensStep

-----------------------------------------------------------------------------
(* The theorems *)

LEMMA InvInit == Init => Inv
<1> SUFFICES ASSUME Init PROVE Inv
  OBVIOUS
<1>1. TypeInv
  <2>1. Idle \in SaverType /\ Idle \in MailType /\ NoToken \in TokenType
    BY DEF SaverType, MailType, TokenType
  <2>2. Nothing \in FileType /\ Nothing \in MailerType
    BY DEF FileType, MailerType
  <2>3. /\ saver \in [Savers -> SaverType] /\ mail \in [Mails -> MailType]
        /\ cache \in [1 .. MaxSaves -> [token : TokenType, until : Nat]]
    BY <2>1 DEF Init, NoCache
  <2>4. saves \in 0 .. MaxSaves /\ now \in Nat /\ acked \in Nat /\ slowest \in Nat
    BY Bounds DEF Init
  <2>5. resolver \in BOOLEAN /\ overlapped \in BOOLEAN /\ raced \in BOOLEAN
        /\ blank \in BOOLEAN
    BY DEF Init
  <2>6. file = Nothing /\ tmp = Nothing /\ mailer = Nothing
    BY DEF Init
  <2> QED
    BY <2>2, <2>3, <2>4, <2>5, <2>6 DEF TypeInv
<1>2. OneSave
  BY DEF Init, OneSave, SaverInStep, Usable, Idle, Nothing, Empty, Torn
<1>3. AckedAtWork
  BY DEF Init, AckedAtWork, Idle
<1>4. \A n \in 1 .. MaxSaves : CacheFresh(n)
  BY Bounds DEF Init, CacheFresh, NoCache, NoToken, Mixed
<1>5. \A k \in Mails : CallFresh(k)
  BY DEF Init, CallFresh, Idle
<1> QED
  BY <1>1, <1>2, <1>3, <1>4, <1>5 DEF Inv, TokensFresh

LEMMA InvNext == Inv /\ [Next]_vars => Inv'
<1> SUFFICES ASSUME Inv, [Next]_vars PROVE Inv'
  OBVIOUS
<1>1. TypeInv'
  BY TypeNext DEF Inv
<1> QED
  BY <1>1, OneSaveNext, AckedNext, TokensNext DEF Inv

LEMMA Invariance == Spec => []Inv
BY InvInit, InvNext, PTL DEF Spec

\* SaveMailConfig: mail.json is whole, and what it says is at work when no save is
\* under way, as long as saves do not overlap.
THEOREM SavedConfigurationIsLive == Spec => []SavedIsLive
<1>1. ASSUME Inv PROVE SavedIsLive
  <2> SUFFICES ASSUME ~overlapped
               PROVE  /\ file # Empty /\ file # Torn
                      /\ Usable(file) /\ (\A s \in Savers : saver[s] = Idle)
                           => mailer = file /\ resolver
    BY DEF SavedIsLive
  <2>1. \A s \in Savers : saver[s] = Idle => saver[s].at \notin {"renamed", "set"}
    BY DEF Idle
  <2> QED
    BY <1>1, <2>1 DEF Inv, OneSave
<1> QED
  BY <1>1, Invariance, PTL

\* inject: a call that begins after a configuration was acknowledged mails with it or
\* with a later one, as long as saves do not overlap.
THEOREM MailedByAcknowledged == Spec => []MailedByCurrent
<1>1. Inv => MailedByCurrent
  BY DEF Inv, AckedAtWork, MailedByCurrent
<1> QED
  BY <1>1, Invariance, PTL

\* getToken: a mail goes out with a token that is younger than TokenCached and three
\* times the slowest call, however many calls ask for one at the same time.
THEOREM TokensAreFresh == Spec => []TokenIsFresh
<1>1. ASSUME Inv PROVE TokenIsFresh
  <2> SUFFICES ASSUME NEW k \in Mails, mail[k].at = "sending"
               PROVE  LET token == mail[k].token IN
                      \/ token.whole /\ now < token.got + TokenCached + 3 * slowest
                      \/ token = NoToken /\ blank
                      \/ token = Mixed /\ raced
    BY DEF TokenIsFresh
  <2>1. /\ mail[k] \in [at : {"sending"}, token : TokenType, began : Nat]
        /\ now \in Nat /\ slowest \in Nat
    BY <1>1, MailStages DEF Inv, TypeInv
  <2>2. /\ now <= mail[k].began + slowest
        /\ IF mail[k].token.whole
           THEN mail[k].began < mail[k].token.got + TokenCached + 2 * slowest
           ELSE Excused(mail[k].token)
    BY <1>1, <2>1 DEF Inv, TokensFresh, CallFresh
  <2>3. mail[k].token.whole => mail[k].token.got \in Nat
    BY <2>1, TokenFacts
  <2> QED
    BY <2>1, <2>2, <2>3, Bounds DEF Excused
<1> QED
  BY <1>1, Invariance, PTL
=============================================================================
