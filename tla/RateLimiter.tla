----------------------------- MODULE RateLimiter ----------------------------
(***************************************************************************)
(* The login limiter (internal/auth/ratelimit.go) and the handler that     *)
(* asks it (loginSubmit).  Every client address has a record of its own,   *)
(* so one address is modelled, with several logins of it at a time: the    *)
(* handler asks Allow, checks the password, and calls Reset when it was    *)
(* right, three steps with no lock around them.  A goroutine drops old     *)
(* records.                                                                *)
(***************************************************************************)
EXTENDS Integers, Sequences, FiniteSets

CONSTANTS
    Logins,   \* bound: logins of the address that are under way at a time
    Max,      \* r.max
    Window,   \* r.window
    Lockout,  \* r.lockout
    MaxTime,  \* bound: the clock stops there
    MaxTries  \* bound: attempts that are let in

\* NewRateLimiter: 5 attempts, 15 minutes, 30 minutes.
ASSUME LimitsAssumption ==
    /\ Max \in Nat \ {0} /\ Window \in Nat \ {0} /\ Lockout \in Nat
    /\ Window < Lockout
    /\ MaxTime \in Nat /\ MaxTries \in Nat

VARIABLES
    attempt,  \* the record of the address, NoRecord if there is none
    login,    \* login[l]: "idle" or "allowed"
    now,
    \* Observers:
    kept,     \* the record as it would be if nothing were ever cleaned up
    tries,    \* the times of the attempts let in since the last Reset
    until,    \* the end of the last lockout that was imposed
    lifted    \* a login has succeeded since

limiterVars == <<attempt, login, now, kept, tries, until, lifted>>

\* A fresh loginAttempt: the zero time is long before every window.
Long == -1 - Window - Lockout
NoRecord == [count |-> 0, firstSeen |-> Long, blockedUntil |-> Long]

Blocked(a) == now < a.blockedUntil

\* Mutant: the counter starts again when the window is just over.
CountedEarly(a) ==
    LET fresh == IF now - a.firstSeen >= Window
                 THEN [a EXCEPT !.count = 0, !.firstSeen = now] ELSE a
    IN  [fresh EXCEPT !.count = @ + 1,
                      !.firstSeen = IF fresh.count = 0 THEN now ELSE @]

\* The counter starts again when the window has passed since the first attempt.
Counted(a) ==
    LET fresh == IF now - a.firstSeen > Window
                 THEN [a EXCEPT !.count = 0, !.firstSeen = now] ELSE a
    IN  [fresh EXCEPT !.count = @ + 1,
                      !.firstSeen = IF fresh.count = 0 THEN now ELSE @]

Exceeds(a) == Counted(a).count > Max

Admits(a) == ~Blocked(a) /\ ~Exceeds(a)

\* The record after Allow.
Recorded(a) ==
    IF Blocked(a) THEN a
    ELSE IF Exceeds(a) THEN [Counted(a) EXCEPT !.blockedUntil = now + Lockout]
    ELSE Counted(a)

LimiterInit ==
    /\ attempt = NoRecord /\ kept = NoRecord
    /\ login = [l \in Logins |-> "idle"]
    /\ now = 0
    /\ tries = <<>> /\ until = 0 /\ lifted = FALSE

-----------------------------------------------------------------------------

Allow(l) ==
    /\ login[l] = "idle"
    /\ Admits(attempt)
    /\ Len(tries) < MaxTries
    /\ attempt' = Recorded(attempt) /\ kept' = Recorded(kept)
    /\ login' = [login EXCEPT ![l] = "allowed"]
    /\ tries' = Append(tries, now)
    /\ UNCHANGED <<now, until, lifted>>

Refuse(l) ==
    /\ login[l] = "idle"
    /\ ~Admits(attempt)
    /\ attempt' = Recorded(attempt) /\ kept' = Recorded(kept)
    /\ IF Blocked(attempt) THEN UNCHANGED <<until, lifted>>
       ELSE until' = now + Lockout /\ lifted' = FALSE
    /\ UNCHANGED <<login, now, tries>>

\* Authenticate refuses: the attempt stays counted.
Fails(l) ==
    /\ login[l] = "allowed"
    /\ login' = [login EXCEPT ![l] = "idle"]
    /\ UNCHANGED <<attempt, now, kept, tries, until, lifted>>

\* Authenticate succeeds, and Reset deletes the record.
Succeeds(l) ==
    /\ login[l] = "allowed"
    /\ login' = [login EXCEPT ![l] = "idle"]
    /\ attempt' = NoRecord /\ kept' = NoRecord
    /\ tries' = <<>>
    /\ lifted' = TRUE
    /\ UNCHANGED <<now, until>>

\* Mutants: a record is dropped in its lockout, or when the window ends.
CleanupBlocked ==
    /\ attempt.firstSeen < now - Window
    /\ attempt' = NoRecord
    /\ UNCHANGED <<login, now, kept, tries, until, lifted>>

CleanupEarly ==
    /\ attempt.firstSeen <= now - Window
    /\ attempt.blockedUntil < now
    /\ attempt' = NoRecord
    /\ UNCHANGED <<login, now, kept, tries, until, lifted>>

\* A round of cleanup.
Cleanup ==
    /\ attempt.firstSeen < now - Window
    /\ attempt.blockedUntil < now
    /\ attempt' = NoRecord
    /\ UNCHANGED <<login, now, kept, tries, until, lifted>>

TimePasses ==
    /\ now < MaxTime
    /\ now' = now + 1
    /\ UNCHANGED <<attempt, login, kept, tries, until, lifted>>

LimiterNext ==
    \/ \E l \in Logins : Allow(l) \/ Refuse(l) \/ Fails(l) \/ Succeeds(l)
    \/ Cleanup \/ TimePasses

LimiterSpec == LimiterInit /\ [][LimiterNext]_limiterVars

-----------------------------------------------------------------------------
(* Properties *)

\* The attempts let in from a time on, for the length of the window.
TriesFrom(t) == Cardinality({i \in DOMAIN tries : tries[i] \in t .. t + Window})

\* The limit, counted by windows that start with their first attempt: no period
\* of the window's length sees twice Max attempts let in without a success.
TwiceInWindow == \A t \in 0 .. now : TriesFrom(t) < 2 * Max

\* A lockout lasts as long as it was set for, whatever is tried and cleaned up
\* meanwhile, unless a login that was let in before it succeeds.
LockoutServed == now < until /\ ~lifted => ~Admits(attempt)

\* Cleaning up is never noticed: what Allow answers now is what it would answer
\* if the record had been kept.
CleanupUnnoticed == Admits(attempt) <=> Admits(kept)
=============================================================================
