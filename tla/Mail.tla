-------------------------------- MODULE Mail --------------------------------
(***************************************************************************)
(* Outgoing mail: the configuration that an administrator saves            *)
(* (internal/store/store.go SaveMailConfig, SetMailer), the mailer that    *)
(* each call on an instance is given (inject) and that a goroutine uses    *)
(* later (internal/engine/engine.go activate, fireNotify), and the token   *)
(* that a Graph mailer caches (internal/mailer/graph.go getToken).         *)
(*                                                                         *)
(* None of this takes a lock: saves share one temporary file, the mailer   *)
(* and the resolver are two fields that are written one after the other    *)
(* while calls read them, and all sends of a mailer share its cache.       *)
(*                                                                         *)
(* A configuration is the number of its save and its type.  A send by SMTP *)
(* keeps no state and is left out, and so are messages and addresses.      *)
(***************************************************************************)
EXTENDS FiniteSets, Naturals

CONSTANTS
    Savers,      \* bound: saves at work at the same time
    Mails,       \* bound: mails under way at the same time
    MaxSaves, MaxTime, MaxFaults, MaxRestarts, \* bounds
    TokenCached  \* how long a token is cached

ASSUME MailAssumption ==
    /\ {MaxSaves, MaxTime, MaxFaults, MaxRestarts} \subseteq Nat
    /\ TokenCached \in Nat \ {0}

VARIABLES
    file,      \* mail.json
    tmp,       \* mail.json.tmp, which all saves share
    saver,     \* saver[s]: how far a save has come
    saves,     \* saves begun
    mailer, resolver, \* the two fields of the store
    mail,      \* mail[k]: a call that notifies, and then its goroutine
    cache,     \* cache[n]: token and expiry in the mailer of save n
    now, faults, restarts,
    \* Observers:
    overlapped, \* two saves have been at work at the same time
    acked,      \* the last save acknowledged whose mailer is at work
    raced,      \* a token was read or written while another call wrote it
    blank,      \* the service has answered with neither a token nor an error
    slowest     \* the longest that a getToken with its send has been under way

vars == <<file, tmp, saver, saves, mailer, resolver, mail, cache, now, faults,
          restarts, overlapped, acked, raced, blank, slowest>>

disk == <<file, tmp>>
fields == <<mailer, resolver>>
sending == <<raced, blank, slowest>>
observers == <<overlapped, acked, raced, blank, slowest>>

Idle == [at |-> "idle"]
Nothing == [n |-> 0, type |-> "nothing"]  \* no file, no mailer
Empty == [n |-> 0, type |-> "empty"]      \* a file that was just truncated
Torn == [n |-> 0, type |-> "torn"]        \* a file that is no JSON
Half == [n |-> 0, type |-> "half"]        \* an interface with one of its words
Usable(config) == config.type = "graph"

NoToken == [got |-> 0, whole |-> FALSE]
Mixed == [got |-> 1, whole |-> FALSE]     \* the pointer of one, the length of another
Token(t) == [got |-> t, whole |-> TRUE]
NoCache == [token |-> NoToken, until |-> 0]

\* main: the configuration on disk, if it can be used.
Start(config) ==
    /\ mailer' = IF Usable(config) THEN config ELSE Nothing
    /\ resolver' = Usable(config)

Init ==
    /\ file = Nothing /\ tmp = Nothing
    /\ saver = [s \in Savers |-> Idle] /\ saves = 0
    /\ mailer = Nothing /\ resolver = FALSE
    /\ mail = [k \in Mails |-> Idle]
    /\ cache = [n \in 1 .. MaxSaves |-> NoCache]
    /\ now = 0 /\ faults = 0 /\ restarts = 0
    /\ overlapped = FALSE /\ acked = 0
    /\ raced = FALSE /\ blank = FALSE /\ slowest = 0

-----------------------------------------------------------------------------
(* SaveMailConfig *)

Saver(s, stage) == saver' = [saver EXCEPT ![s] = stage]

\* WriteFile, its open: the file is there, and empty.
Opens(s, type) ==
    /\ saver[s] = Idle /\ saves < MaxSaves
    /\ saves' = saves + 1
    /\ Saver(s, [at |-> "opened", in |-> "tmp", config |-> [n |-> saves', type |-> type]])
    /\ tmp' = Empty
    /\ overlapped' = (overlapped \/ \E z \in Savers \ {s} : saver[z] # Idle)
    /\ UNCHANGED <<file, fields, mail, cache, now, faults, restarts, acked, sending>>

\* What a file holds after a write at its start: the rest of a longer content stays.
Over(content, config) == IF content = Empty THEN {config} ELSE {config, Torn}

\* WriteFile, its write: to the file that was opened, wherever it is by now.
Writes(s) ==
    /\ saver[s].at = "opened"
    /\ CASE saver[s].in = "tmp" -> tmp' \in Over(tmp, saver[s].config) /\ UNCHANGED file
         [] saver[s].in = "file" -> file' \in Over(file, saver[s].config) /\ UNCHANGED tmp
         [] OTHER -> UNCHANGED disk
    /\ Saver(s, [at |-> "written", config |-> saver[s].config])
    /\ UNCHANGED <<saves, fields, mail, cache, now, faults, restarts, observers>>

\* The write fails; the temporary file stays as it is.
WriteFails(s) ==
    /\ saver[s].at = "opened"
    /\ faults < MaxFaults /\ faults' = faults + 1
    /\ Saver(s, Idle)
    /\ UNCHANGED <<disk, saves, fields, mail, cache, now, restarts, observers>>

\* Where the files of the others are after tmp has become mail.json.
Moved(z) ==
    IF saver[z].at # "opened" THEN saver[z]
    ELSE [saver[z] EXCEPT !.in = IF @ = "tmp" THEN "file" ELSE "gone"]

\* Mutant: the error of the rename is overlooked.
RenamesOrNot(s) ==
    /\ saver[s].at = "written"
    /\ \/ /\ tmp # Nothing
          /\ file' = tmp /\ tmp' = Nothing /\ UNCHANGED faults
          /\ saver' = [z \in Savers |-> IF z = s THEN [saver[s] EXCEPT !.at = "renamed"]
                                        ELSE Moved(z)]
       \/ /\ faults < MaxFaults /\ faults' = faults + 1 /\ UNCHANGED disk
          /\ Saver(s, [saver[s] EXCEPT !.at = "renamed"])
    /\ UNCHANGED <<saves, fields, mail, cache, now, restarts, observers>>

\* Rename fails if another save has renamed the file away, or for itself.
Renames(s) ==
    /\ saver[s].at = "written"
    /\ \/ /\ tmp # Nothing
          /\ file' = tmp /\ tmp' = Nothing /\ UNCHANGED faults
          /\ saver' = [z \in Savers |-> IF z = s THEN [saver[s] EXCEPT !.at = "renamed"]
                                        ELSE Moved(z)]
       \/ /\ \/ tmp = Nothing /\ UNCHANGED faults
             \/ faults < MaxFaults /\ faults' = faults + 1
          /\ UNCHANGED disk
          /\ Saver(s, Idle)
    /\ UNCHANGED <<saves, fields, mail, cache, now, restarts, observers>>

\* No mailer is made for a type that is empty, or unknown: the one before stays.
KeepsMailer(s) ==
    /\ saver[s].at = "renamed" /\ ~Usable(saver[s].config)
    /\ Saver(s, Idle)
    /\ UNCHANGED <<disk, saves, fields, mail, cache, now, faults, restarts, observers>>

\* SetMailer: s.mailer = m; the first time its two words are there one by one ...
SetsMailer(s) ==
    /\ saver[s].at = "renamed" /\ Usable(saver[s].config)
    /\ IF mailer = Nothing
       THEN mailer' = Half /\ UNCHANGED saver
       ELSE mailer' = saver[s].config /\ Saver(s, [saver[s] EXCEPT !.at = "set"])
    /\ UNCHANGED <<disk, saves, resolver, mail, cache, now, faults, restarts, observers>>

\* ... and s.emailResolver = r, which is the same at every save; then the reply.
SetsResolver(s) ==
    /\ saver[s].at = "set"
    /\ resolver' = TRUE
    /\ acked' = saver[s].config.n
    /\ Saver(s, Idle)
    /\ UNCHANGED <<disk, saves, mailer, mail, cache, now, faults, restarts, overlapped, sending>>

-----------------------------------------------------------------------------
(* A call that notifies, and its goroutine *)

Mail(k, stage) == mail' = [mail EXCEPT ![k] = stage]

\* Mutant: an instance is given the mailer when it is loaded, perhaps before a save.
InjectsAtLoad(k) ==
    /\ mail[k] = Idle
    /\ \E m \in {mailer} \cup {Nothing} :
          Mail(k, [at |-> "injected", m |-> m, since |-> acked])
    /\ UNCHANGED <<disk, saver, saves, fields, cache, now, faults, restarts, observers>>

\* inject: the mailer, ...
Injects(k) ==
    /\ mail[k] = Idle
    /\ Mail(k, [at |-> "injected", m |-> mailer, since |-> acked])
    /\ UNCHANGED <<disk, saver, saves, fields, cache, now, faults, restarts, observers>>

\* ... the resolver; the goroutine is started with both.
Fires(k) ==
    /\ mail[k].at = "injected"
    /\ Mail(k, [at |-> "fired", m |-> mail[k].m, r |-> resolver, since |-> mail[k].since])
    /\ UNCHANGED <<disk, saver, saves, fields, cache, now, faults, restarts, observers>>

\* fireNotify returns without a mailer or a resolver.
SendsNothing(k) ==
    /\ mail[k].at = "fired"
    /\ mail[k].m = Nothing \/ ~mail[k].r
    /\ Mail(k, Idle)
    /\ UNCHANGED <<disk, saver, saves, fields, cache, now, faults, restarts, observers>>

Writing(n, k) ==
    \E j \in Mails \ {k} : mail[j].at = "writing" /\ mail[j].m.n = n

\* What is found in cache n: another call may be writing it.
Reads(n, k) == {cache[n].token} \cup (IF Writing(n, k) THEN {Mixed} ELSE {})

\* getToken with a cached token that has not expired.
TakesCached(k) ==
    /\ mail[k].at = "fired" /\ Usable(mail[k].m) /\ mail[k].r
    /\ \E token \in Reads(mail[k].m.n, k) :
          /\ token # NoToken /\ now < cache[mail[k].m.n].until
          /\ Mail(k, [at |-> "sending", token |-> token, began |-> now])
          /\ raced' = (raced \/ Writing(mail[k].m.n, k))
    /\ UNCHANGED <<disk, saver, saves, fields, cache, now, faults, restarts, overlapped, acked, blank, slowest>>

\* getToken without: it asks for one, ...
AsksToken(k) ==
    /\ mail[k].at = "fired" /\ Usable(mail[k].m) /\ mail[k].r
    /\ \/ cache[mail[k].m.n].token = NoToken
       \/ now >= cache[mail[k].m.n].until
       \/ Writing(mail[k].m.n, k)
    /\ Mail(k, [at |-> "asked", m |-> mail[k].m, began |-> now])
    /\ UNCHANGED <<disk, saver, saves, fields, cache, now, faults, restarts, observers>>

\* ... is given one by the service, or is refused, or gets an answer that holds
\* neither a token nor an error and is taken for a token, ...
GetsToken(k) ==
    /\ mail[k].at = "asked"
    /\ \/ \E token \in {Token(now), NoToken} :
             /\ Mail(k, [at |-> "writing", m |-> mail[k].m, token |-> token,
                         began |-> mail[k].began])
             /\ blank' = (blank \/ token = NoToken)
       \/ Mail(k, Idle) /\ UNCHANGED blank
    /\ UNCHANGED <<disk, saver, saves, fields, cache, now, faults, restarts,
                   overlapped, acked, raced, slowest>>

\* ... which arrives and is kept, ...
KeepsToken(k) ==
    /\ mail[k].at = "writing"
    /\ LET n == mail[k].m.n IN
          /\ \E token \in {mail[k].token} \cup (IF Writing(n, k) THEN {Mixed} ELSE {}) :
                cache' = [cache EXCEPT ![n].token = token]
          /\ raced' = (raced \/ Writing(n, k))
    /\ Mail(k, [at |-> "kept", m |-> mail[k].m, began |-> mail[k].began])
    /\ UNCHANGED <<disk, saver, saves, fields, now, faults, restarts, overlapped, acked, blank, slowest>>

\* Mutant: it is kept a unit too long.
KeepsTooLong(k) ==
    /\ mail[k].at = "kept"
    /\ cache' = [cache EXCEPT ![mail[k].m.n].until = now + TokenCached + 1]
    /\ Mail(k, [at |-> "sending", token |-> cache[mail[k].m.n].token, began |-> mail[k].began])
    /\ UNCHANGED <<disk, saver, saves, fields, now, faults, restarts, observers>>

\* ... notes until when, and returns what is in the cache by then.
KeepsExpiry(k) ==
    /\ mail[k].at = "kept"
    /\ LET n == mail[k].m.n IN
          /\ cache' = [cache EXCEPT ![n].until = now + TokenCached]
          /\ \E token \in Reads(n, k) :
                Mail(k, [at |-> "sending", token |-> token, began |-> mail[k].began])
          /\ raced' = (raced \/ Writing(n, k))
    /\ UNCHANGED <<disk, saver, saves, fields, now, faults, restarts, overlapped, acked, blank, slowest>>

\* sendMail, with or without success.
Sends(k) ==
    /\ mail[k].at = "sending"
    /\ Mail(k, Idle)
    /\ UNCHANGED <<disk, saver, saves, fields, cache, now, faults, restarts, observers>>

-----------------------------------------------------------------------------
(* The clock and the process *)

\* Neither http.Post nor http.DefaultClient has a timeout: a call may take for ever.
Tick ==
    /\ now < MaxTime
    /\ now' = now + 1
    /\ slowest' = IF \E k \in Mails : "began" \in DOMAIN mail[k] /\ mail[k].began + slowest <= now
                  THEN slowest + 1 ELSE slowest
    /\ UNCHANGED <<disk, saver, saves, fields, mail, cache, faults, restarts,
                   overlapped, acked, raced, blank>>

\* The process dies, of itself or because a goroutine sends with half an interface.
Restarts ==
    /\ \/ restarts < MaxRestarts /\ restarts' = restarts + 1
       \/ (\E k \in Mails : mail[k].at = "fired" /\ mail[k].m = Half /\ mail[k].r)
          /\ UNCHANGED restarts
    /\ Start(file)
    /\ saver' = [s \in Savers |-> Idle]
    /\ mail' = [k \in Mails |-> Idle]
    /\ cache' = [n \in 1 .. MaxSaves |-> NoCache]
    /\ acked' = IF Usable(file) THEN file.n ELSE 0
    /\ UNCHANGED <<disk, saves, now, faults, overlapped, sending>>

Next ==
    \/ \E s \in Savers :
          \/ (\E type \in {"graph", "unknown"} : Opens(s, type))
          \/ Writes(s) \/ WriteFails(s) \/ Renames(s)
          \/ KeepsMailer(s) \/ SetsMailer(s) \/ SetsResolver(s)
    \/ \E k \in Mails :
          \/ Injects(k) \/ Fires(k) \/ SendsNothing(k) \/ TakesCached(k) \/ AsksToken(k)
          \/ GetsToken(k) \/ KeepsToken(k) \/ KeepsExpiry(k) \/ Sends(k)
    \/ Tick \/ Restarts

Spec == Init /\ [][Next]_vars

-----------------------------------------------------------------------------
(* Properties *)

\* SaveMailConfig "writes a new mail config to disk and reloads the active mailer":
\* mail.json is whole at every moment, whatever fails and whenever the process
\* dies, and with no save under way its configuration, if it can be used, is the
\* one at work.  Saves that overlap are the exception: they share one temporary
\* file and set the fields in an order of their own.
SavedIsLive ==
    ~overlapped =>
       /\ file # Empty /\ file # Torn
       /\ Usable(file) /\ (\A s \in Savers : saver[s] = Idle) => mailer = file /\ resolver

\* A step that becomes ready after a configuration was acknowledged is mailed with
\* it, or with a later one, and never with half of one.
MailedByCurrent ==
    ~overlapped => \A k \in Mails : mail[k].at = "fired" /\ mail[k].since > 0 =>
       Usable(mail[k].m) /\ mail[k].m.n >= mail[k].since /\ mail[k].r

\* getToken caches a token for TokenCached (55 minutes) from its arrival, and nothing
\* bounds how long a request takes: a mail goes out with a token that is younger than
\* TokenCached and three times the slowest call, also when several sends find the cache
\* empty, or its token expired, at the same time, and so do the mails after them.  It
\* goes out with none only if the service gave none, and with what is no token only
\* if a call touched the token in the very moment in which another wrote it.
TokenIsFresh ==
    \A k \in Mails : mail[k].at = "sending" =>
       LET token == mail[k].token IN
       \/ token.whole /\ now < token.got + TokenCached + 3 * slowest
       \/ token = NoToken /\ blank
       \/ token = Mixed /\ raced

=============================================================================
