------------------------------- MODULE Engine -------------------------------
(***************************************************************************)
(* The workflow engine (internal/engine/engine.go) as operators on values: *)
(* a workflow definition wf, the persisted part of an instance inst and    *)
(* the time now go in, the instance after the call comes out.  The modules *)
(* that own state (Instance, Store) apply them one call per action.        *)
(*                                                                         *)
(* Step names are unique in a workflow (README: "Name must be unique       *)
(* within the workflow"), so a step is its name.  Texts, labels, comments  *)
(* and the created/updated/started stamps are left out.                    *)
(***************************************************************************)
EXTENDS Integers, Sequences

CONSTANTS
    Steps,    \* names of the steps of a workflow
    Items,    \* identities of checklist items
    NoStep    \* a name that no step of the workflow has

ASSUME NoStepAssumption == NoStep \notin Steps

Names == Steps \cup {NoStep}

\* A *time.Time that may be nil.
NoTime == -1
Times == Nat \cup {NoTime}

Active == {"ready", "ask", "gate"}
Completed == {"done", "ended"}
Terminal == Completed \cup {"skipped"}
Status == {"pending"} \cup Active \cup Terminal

\* What a notification says: the approval link of a gate, an assignment, a
\* completed step, an overdue step.
Kinds == {"link", "assigned", "completed", "overdue"}

(***************************************************************************)
(* A parsed definition.  ask[s] is the sequence of targets, empty for a    *)
(* step without an ask (the parser refuses an ask without targets);        *)
(* schedule[s] is relative to the creation, due[s] to the activation.      *)
(***************************************************************************)
WorkflowType ==
    [needs : [Steps -> SUBSET Names],
     ask : [Steps -> Seq(Names)],
     gate : [Steps -> BOOLEAN],
     ends : [Steps -> BOOLEAN],
     schedule : [Steps -> Times],
     due : [Steps -> Times],
     items : [Steps -> SUBSET Items],
     required : [Steps -> SUBSET Items],
     notify : [Steps -> BOOLEAN],
     assign : [Steps -> BOOLEAN]]

(***************************************************************************)
(* A persisted instance.  Needs never change but for the sentinel          *)
(* "__ask_target__", so the instance keeps only whether it is there.       *)
(* A gate token is unique: token[s] says that step s was given one.        *)
(* audit[s] is the trail of step s, oldest entry first.                    *)
(***************************************************************************)
InstanceType ==
    [status : [Steps -> Status],
     sentinel : [Steps -> BOOLEAN],
     chosen : [Steps -> Nat],
     scheduleAt : [Steps -> Times],
     dueAt : [Steps -> Times],
     notified : [Steps -> BOOLEAN],
     token : [Steps -> BOOLEAN],
     gateUsed : [Steps -> BOOLEAN],
     items : [Steps -> SUBSET Items],
     checked : [Steps -> SUBSET Items],
     audit : [Steps -> Seq({"complete", "ask", "gate"})],
     state : {"ready", "done"},
     archived : BOOLEAN]

-----------------------------------------------------------------------------
(* Activation *)

\* Mutant: a skipped step holds up those that need it.
NeedsCompleted(wf, inst, s) ==
    /\ ~inst.sentinel[s]
    /\ \A n \in wf.needs[s] : n \in Steps /\ inst.status[n] \in Completed

\* All the names s waits for are steps in a terminal state.
NeedsSatisfied(wf, inst, s) ==
    /\ ~inst.sentinel[s]
    /\ \A n \in wf.needs[s] : n \in Steps /\ inst.status[n] \in Terminal

ActiveStatus(wf, s) ==
    IF wf.gate[s] THEN "gate"
    ELSE IF wf.ask[s] # <<>> THEN "ask" ELSE "ready"

\* activate() on every step of S: setDueAt keeps a due date already there.
Activate(wf, inst, S, now) ==
    [inst EXCEPT
       !.status = [s \in Steps |->
                     IF s \in S THEN ActiveStatus(wf, s) ELSE inst.status[s]],
       !.token = [s \in Steps |-> inst.token[s] \/ (s \in S /\ wf.gate[s])],
       !.dueAt = [s \in Steps |->
                    IF s \in S /\ wf.due[s] # NoTime /\ inst.dueAt[s] = NoTime
                    THEN now + wf.due[s] ELSE inst.dueAt[s]]]

\* Mutants: a join that is content with one of its steps, a schedule unread.
StartableOnAny(wf, inst, now) ==
    {s \in Steps : /\ inst.status[s] = "pending" /\ ~inst.sentinel[s]
                   /\ wf.needs[s] = {} \/ \E n \in wf.needs[s] \cap Steps :
                                             inst.status[n] \in Terminal
                   /\ inst.scheduleAt[s] <= now}

StartableAtOnce(wf, inst, now) ==
    {s \in Steps : inst.status[s] = "pending" /\ NeedsSatisfied(wf, inst, s)}

\* The pending steps that nothing holds back at time now.
Startable(wf, inst, now) ==
    {s \in Steps : /\ inst.status[s] = "pending"
                   /\ NeedsSatisfied(wf, inst, s)
                   /\ inst.scheduleAt[s] <= now}

\* The loop of activateReady: an activated step is not terminal, so it never
\* satisfies the needs of another one and the first pass starts them all.
ActivateReady(wf, inst, now) ==
    Activate(wf, inst, Startable(wf, inst, now), now)

AskTargets(wf) == UNION {{wf.ask[s][i] : i \in DOMAIN wf.ask[s]} : s \in Steps}

\* The steps as the definition has them, before any is activated: a target of
\* some ask that needs nothing gets the sentinel to wait for.
Unstarted(wf, now) ==
    [status |-> [s \in Steps |-> "pending"],
     sentinel |-> [s \in Steps |-> s \in AskTargets(wf) /\ wf.needs[s] = {}],
     chosen |-> [s \in Steps |-> 0],
     scheduleAt |-> [s \in Steps |-> IF wf.schedule[s] = NoTime
                                     THEN NoTime ELSE now + wf.schedule[s]],
     dueAt |-> [s \in Steps |-> NoTime],
     notified |-> [s \in Steps |-> FALSE],
     token |-> [s \in Steps |-> FALSE],
     gateUsed |-> [s \in Steps |-> FALSE],
     items |-> wf.items,
     checked |-> [s \in Steps |-> {}],
     audit |-> [s \in Steps |-> <<>>],
     state |-> "ready",
     archived |-> FALSE]

\* Mutant: NewInstance forgets the sentinel.
NewInstanceUnmarked(wf, now) ==
    ActivateReady(
      wf, [Unstarted(wf, now) EXCEPT !.sentinel = [s \in Steps |-> FALSE]], now)

NewInstance(wf, now) == ActivateReady(wf, Unstarted(wf, now), now)

-----------------------------------------------------------------------------
(* Completion *)

\* Mutants: an end step closes the instance as "ended", a skipped step does not
\* count as over.
RecalcEnded(inst) ==
    IF \E s \in Steps : inst.status[s] = "ended"
    THEN [inst EXCEPT !.state = "ended", !.archived = TRUE] ELSE inst

RecalcCompleted(inst) ==
    IF \A s \in Steps : inst.status[s] \in Completed
    THEN [inst EXCEPT !.state = "done", !.archived = TRUE]
    ELSE [inst EXCEPT !.state = "ready"]

\* recalc: an instance whose steps are all terminal is done, and archived.
Recalc(inst) ==
    IF \A s \in Steps : inst.status[s] \in Terminal
    THEN [inst EXCEPT !.state = "done", !.archived = TRUE]
    ELSE [inst EXCEPT !.state = "ready"]

\* Mutant: the end of a step starts no other.
CompleteAlone(wf, inst, s, now) ==
    Recalc([inst EXCEPT !.status[s] = IF wf.ends[s] THEN "ended" ELSE "done"])

CompleteStep(wf, inst, s, now) ==
    Recalc(ActivateReady(
             wf,
             [inst EXCEPT !.status[s] = IF wf.ends[s] THEN "ended" ELSE "done"],
             now))

Audited(inst, s, action) ==
    [inst EXCEPT !.audit[s] = Append(@, action)]

\* Mutant: the other targets are left pending.
RouteSkippingNone(wf, inst, s, i) ==
    [inst EXCEPT
       !.chosen[s] = i,
       !.sentinel = [t \in Steps |-> inst.sentinel[t] /\ t # wf.ask[s][i]]]

\* The routing loop of AnswerAsk and RedeemGate: the sentinel of the chosen
\* target goes, every target at another position is skipped if still pending.
Route(wf, inst, s, i) ==
    [inst EXCEPT
       !.chosen[s] = i,
       !.sentinel = [t \in Steps |-> inst.sentinel[t] /\ t # wf.ask[s][i]],
       !.status = [t \in Steps |->
                     IF /\ inst.status[t] = "pending"
                        /\ \E k \in DOMAIN wf.ask[s] \ {i} : wf.ask[s][k] = t
                     THEN "skipped" ELSE inst.status[t]]]

RequiredListBlocked(wf, inst, s) == ~(wf.required[s] \subseteq inst.checked[s])

\* Mutant: any active step may be advanced.
CanAdvanceActive(wf, inst, s) ==
    inst.status[s] \in Active /\ ~RequiredListBlocked(wf, inst, s)

CanAdvance(wf, inst, s) ==
    inst.status[s] = "ready" /\ ~RequiredListBlocked(wf, inst, s)

AdvanceStep(wf, inst, s, now) ==
    CompleteStep(wf, Audited(inst, s, "complete"), s, now)

CanAnswer(wf, inst, s, i) ==
    inst.status[s] = "ask" /\ i \in DOMAIN wf.ask[s]

AnswerAsk(wf, inst, s, i, now) ==
    CompleteStep(wf, Route(wf, Audited(inst, s, "ask"), s, i), s, now)

\* Mutant: a token stays good when its gate is decided.
LinkValidAgain(inst, s, now) ==
    inst.token[s] /\ (inst.dueAt[s] = NoTime \/ now <= inst.dueAt[s])

\* A link is good while its gate is open and not past its due date.
LinkValid(inst, s, now) ==
    /\ inst.token[s] /\ inst.status[s] = "gate"
    /\ inst.dueAt[s] = NoTime \/ now <= inst.dueAt[s]

CanRedeem(wf, inst, s, i, now) ==
    LinkValid(inst, s, now) /\ (wf.ask[s] = <<>> \/ i \in DOMAIN wf.ask[s])

RedeemGate(wf, inst, s, i, now) ==
    LET opened == Audited([inst EXCEPT !.gateUsed[s] = TRUE], s, "gate")
    IN  CompleteStep(
          wf, IF wf.ask[s] = <<>> THEN opened ELSE Route(wf, opened, s, i), s, now)

-----------------------------------------------------------------------------
(* Checklist items: only those of an active step can be touched. *)

ToggleListItem(inst, s, item) ==
    [inst EXCEPT !.checked[s] =
       IF item \in @ THEN @ \ {item} ELSE @ \cup {item}]

CheckAllListItems(inst, s) == [inst EXCEPT !.checked[s] = inst.items[s]]

AddListItem(inst, s, item) == [inst EXCEPT !.items[s] = @ \cup {item}]

-----------------------------------------------------------------------------
(* The scheduler *)

ScheduledNow(wf, inst, now) ==
    {s \in Startable(wf, inst, now) : inst.scheduleAt[s] # NoTime}

TickScheduled(wf, inst, now) ==
    LET S == ScheduledNow(wf, inst, now)
    IN  IF S = {} THEN inst
        ELSE ActivateReady(wf, Activate(wf, inst, S, now), now)

IsOverdue(inst, s, now) ==
    /\ inst.dueAt[s] # NoTime /\ now > inst.dueAt[s]
    /\ inst.status[s] \notin Terminal

TickOverdue(inst, now) ==
    [inst EXCEPT !.notified =
       [s \in Steps |-> inst.notified[s] \/ IsOverdue(inst, s, now)]]

\* Mutants: the scheduler passes over archived instances, or looks for overdue
\* steps only where it has started one.
TickUnarchived(wf, inst, now) ==
    IF inst.archived THEN inst
    ELSE TickOverdue(TickScheduled(wf, inst, now), now)

TickStarted(wf, inst, now) ==
    LET after == TickScheduled(wf, inst, now)
    IN  IF inst.state = "done" \/ after = inst THEN inst
        ELSE TickOverdue(after, now)

\* One round of the scheduler for one instance: it passes over done instances.
Tick(wf, inst, now) ==
    IF inst.state = "done" THEN inst
    ELSE TickOverdue(TickScheduled(wf, inst, now), now)

\* Mutant: a gate is notified of its end as well.
FiresForGates(wf, before, after, s, kind) ==
    CASE kind = "completed" -> /\ wf.notify[s]
                               /\ before.status[s] \in Active
                               /\ after.status[s] \in Completed
      [] OTHER -> FALSE

(***************************************************************************)
(* The notifications a call fires (fireNotify, fireAssignNotify and the    *)
(* goroutine of TickOverdue), read off the instance before and after it.   *)
(***************************************************************************)
Fires(wf, before, after, s, kind) ==
    CASE kind = "link" -> /\ wf.notify[s] /\ wf.gate[s]
                          /\ before.status[s] = "pending"
                          /\ after.status[s] \in Active
      [] kind = "assigned" -> /\ wf.assign[s]
                              /\ before.status[s] = "pending"
                              /\ after.status[s] \in Active
      [] kind = "completed" -> /\ wf.notify[s] /\ ~wf.gate[s]
                               /\ before.status[s] \in Active
                               /\ after.status[s] \in Completed
      [] kind = "overdue" -> /\ wf.notify[s] \/ wf.assign[s]
                             /\ ~before.notified[s] /\ after.notified[s]
=============================================================================
