------------------------------ MODULE Instance ------------------------------
(***************************************************************************)
(* The life of one workflow instance in a running server: every call that  *)
(* internal/store/store.go makes on it under the store's lock, each of     *)
(* them one action, and the passing of time between them.  Saving to disk, *)
(* crashes and the other instances are in module Store.                    *)
(*                                                                         *)
(* A call that the code refuses changes nothing and is not an action.      *)
(***************************************************************************)
EXTENDS Engine, FiniteSets

CONSTANTS
    Workflows,  \* the definitions an instance may be created from
    MaxTime     \* bound: the clock stops there

\* A workflow without steps is never done: recalc runs when a step completes.
ASSUME StepsAssumption == Steps # {}
ASSUME WorkflowsAssumption == Workflows \subseteq WorkflowType
\* Required is a field of the checklist item.
ASSUME RequiredAssumption ==
    \A w \in Workflows : \A s \in Steps : w.required[s] \subseteq w.items[s]
ASSUME MaxTimeAssumption == MaxTime \in Nat

VARIABLES
    wf,     \* the definition the instance was created from
    inst,   \* the instance
    now,    \* the clock
    mail    \* mail[s][k]: notifications of kind k fired for step s

vars == <<wf, inst, now, mail>>

-----------------------------------------------------------------------------

Fired(before, after, s, kind) == IF Fires(wf, before, after, s, kind) THEN 1 ELSE 0

\* The call leaves the instance as after, and fires what the change calls for.
Becomes(after) ==
    /\ inst' = after
    /\ mail' = [s \in Steps |-> [k \in Kinds |->
                  mail[s][k] + Fired(inst, after, s, k)]]
    /\ UNCHANGED <<wf, now>>

Init ==
    /\ wf \in Workflows
    /\ now = 0
    /\ inst = NewInstance(wf, now)
    /\ mail = [s \in Steps |-> [k \in Kinds |-> Fired(Unstarted(wf, now), inst, s, k)]]

Advance(s) ==
    /\ ~inst.archived
    /\ CanAdvance(wf, inst, s)
    /\ Becomes(AdvanceStep(wf, inst, s, now))

Answer(s) ==
    /\ ~inst.archived
    /\ \E i \in DOMAIN wf.ask[s] :
          /\ CanAnswer(wf, inst, s, i)
          /\ Becomes(AnswerAsk(wf, inst, s, i, now))

\* The approval link asks no more than the token: also of an archived instance.
Redeem(s) ==
    \E i \in DOMAIN wf.ask[s] \cup {0} :
       /\ CanRedeem(wf, inst, s, i, now)
       /\ Becomes(RedeemGate(wf, inst, s, i, now))

EditableItems(s) == ~inst.archived /\ inst.status[s] \in Active

Toggle(s) ==
    /\ EditableItems(s)
    /\ \E item \in inst.items[s] : Becomes(ToggleListItem(inst, s, item))

CheckAll(s) ==
    /\ EditableItems(s)
    /\ Becomes(CheckAllListItems(inst, s))

AddItem(s) ==
    /\ EditableItems(s)
    /\ \E item \in Items \ inst.items[s] : Becomes(AddListItem(inst, s, item))

Archive ==
    /\ ~inst.archived
    /\ Becomes([inst EXCEPT !.archived = TRUE])

\* One tick of runScheduler, archived instances included.
SchedulerTick == Becomes(Tick(wf, inst, now))

TimePasses ==
    /\ now < MaxTime
    /\ now' = now + 1
    /\ UNCHANGED <<wf, inst, mail>>

StepCall(s) ==
    Advance(s) \/ Answer(s) \/ Redeem(s) \/ Toggle(s) \/ CheckAll(s) \/ AddItem(s)

Next ==
    \/ \E s \in Steps : StepCall(s)
    \/ Archive
    \/ SchedulerTick
    \/ TimePasses

\* The ticker goroutine and the clock never stop; nobody has to press a button.
Fairness == WF_vars(SchedulerTick) /\ WF_vars(TimePasses)

Spec == Init /\ [][Next]_vars

FairSpec == Spec /\ Fairness

-----------------------------------------------------------------------------
(* Safety *)

\* Every field holds a value of its type, and no notification is owed.
TypeOK ==
    /\ wf \in Workflows
    /\ inst \in InstanceType
    /\ now \in Nat
    /\ mail \in [Steps -> [Kinds -> Nat]]

Over(s) == inst.status[s] \in Terminal
Begun(s) == inst.status[s] \in Active \cup Completed

\* AND-join (README "waits for all listed steps"): whatever the order of calls
\* and ticks, a step has begun only if all it needs is over, and its sentinel,
\* if it had one, has been taken away.
NeedsMet ==
    \A s \in Steps : Begun(s) => NeedsSatisfied(wf, inst, s)

\* A target that needs nothing begins only when some completed ask or gate has
\* chosen it (NewInstance: "keep them pending until explicitly routed").
RoutedBeforeBegun ==
    \A t \in AskTargets(wf) \cap Steps :
       wf.needs[t] = {} /\ Begun(t) =>
          \E s \in Steps : /\ inst.status[s] \in Completed
                           /\ inst.chosen[s] \in DOMAIN wf.ask[s]
                           /\ wf.ask[s][inst.chosen[s]] = t

\* recalc is called by completions only, yet the instance is done exactly when
\* all of its steps are terminal, and is then archived.
DoneIffAllTerminal ==
    /\ inst.state = "done" <=> \A s \in Steps : Over(s)
    /\ inst.state = "done" => inst.archived

\* A completed step was completed by exactly one call, the one its definition
\* asks for; a step that is not completed has left no trace in the trail.  A
\* gate is completed with its token used, never by an advance or an answer.
CompletedOnce ==
    \A s \in Steps :
       /\ inst.audit[s] = IF inst.status[s] \notin Completed THEN <<>>
                          ELSE IF wf.gate[s] THEN <<"gate">>
                          ELSE IF wf.ask[s] # <<>> THEN <<"ask">>
                          ELSE <<"complete">>
       /\ inst.gateUsed[s] <=> wf.gate[s] /\ inst.status[s] \in Completed
       /\ inst.token[s] <=> wf.gate[s] /\ Begun(s)

\* No notification is fired twice, and none is fired for a step that does not
\* call for it: the link goes out with the token, the completion with the end.
NotifiedOnce ==
    \A s \in Steps :
       /\ mail[s]["link"] = IF wf.notify[s] /\ inst.token[s] THEN 1 ELSE 0
       /\ mail[s]["assigned"] = IF wf.assign[s] /\ Begun(s) THEN 1 ELSE 0
       /\ mail[s]["completed"] =
            IF /\ wf.notify[s] /\ ~wf.gate[s]
               /\ inst.status[s] \in Completed THEN 1 ELSE 0
       /\ mail[s]["overdue"] =
            IF (wf.notify[s] \/ wf.assign[s]) /\ inst.notified[s] THEN 1 ELSE 0

\* A pending step that nothing holds back waits for its schedule: activateReady
\* and recalc leave no step behind, although only completions and ticks run it.
NoneLeftBehind ==
    \A s \in Steps :
       inst.status[s] = "pending" /\ NeedsSatisfied(wf, inst, s)
          => inst.scheduleAt[s] > 0

\* The targets of s are steps that need s or nothing, and no other ask, nor s
\* at another position, offers them.
CleanRouting(w, s) ==
    \A i \in DOMAIN w.ask[s] :
       /\ w.ask[s][i] \in Steps
       /\ w.needs[w.ask[s][i]] = {} \/ s \in w.needs[w.ask[s][i]]
       /\ \A t \in Steps : \A j \in DOMAIN w.ask[t] :
             w.ask[s][i] = w.ask[t][j] => s = t /\ i = j

\* XOR-split (README "chosen target activates, others are skipped"): once s is
\* completed, of its targets the one chosen is not skipped and the others are.
XorSplit ==
    \A s \in Steps :
       CleanRouting(wf, s) /\ inst.status[s] \in Completed =>
          \A i \in DOMAIN wf.ask[s] :
             inst.status[wf.ask[s][i]] = "skipped" <=> i # inst.chosen[s]

\* Needs name steps of the workflow and, with the asks, can be put in an order;
\* no ask can itself be skipped by another ask.
Straightforward(w) ==
    /\ \A s \in Steps : w.ask[s] # <<>> => s \notin AskTargets(w)
    /\ \E rank \in [Steps -> 1 .. Cardinality(Steps)] : \A s \in Steps :
          /\ \A n \in w.needs[s] : n \in Steps /\ rank[n] < rank[s]
          /\ \A i \in DOMAIN w.ask[s] :
                w.ask[s][i] \in Steps => rank[s] < rank[w.ask[s][i]]

\* A call on s is enabled, when the items of its checklist are ticked (which
\* anybody may do, in any order), or the scheduler starts s in its time.
CanGoOn(s) ==
    \/ CanAdvance(wf, CheckAllListItems(inst, s), s)
    \/ \E i \in DOMAIN wf.ask[s] : CanAnswer(wf, inst, s, i)
    \/ \E i \in DOMAIN wf.ask[s] \cup {0} : CanRedeem(wf, inst, s, i, now)
    \/ inst.status[s] = "pending" /\ NeedsSatisfied(wf, inst, s)

\* A gate past its due date: RedeemGate refuses its link for ever.
Lapsed(s) ==
    /\ inst.status[s] = "gate"
    /\ inst.dueAt[s] # NoTime /\ now > inst.dueAt[s]

\* The unfinished steps that have to be over before s can start: those it
\* needs and, while it has the sentinel, the asks that offer it.
WaitsFor(s) ==
    {r \in Steps : /\ inst.status[s] = "pending" /\ ~Over(r)
                   /\ \/ r \in wf.needs[s]
                      \/ inst.sentinel[s] /\ \E i \in DOMAIN wf.ask[r] : wf.ask[r][i] = s}

\* No order of calls leads into a dead end: of the unfinished steps of an
\* instance that nobody has archived, no group waits only for itself.  Whoever
\* follows what a step waits for comes to one where a call is enabled or that
\* the scheduler will start, or to a gate that nobody answered in time: a lapsed
\* gate holds up the steps that wait for it, and these only.
NeverStuck ==
    Straightforward(wf) /\ ~inst.archived =>
       \A S \in SUBSET {s \in Steps : ~Over(s)} :
          S # {} /\ (\A s \in S : WaitsFor(s) \subseteq S)
             => \E s \in S : CanGoOn(s) \/ Lapsed(s)

-----------------------------------------------------------------------------
(* Action properties *)

\* The scheduler never starts a step before its time, and neither does a call.
NotBeforeSchedule ==
    [][\A s \in Steps : inst.status[s] = "pending" /\ Begun(s)'
          => now >= inst.scheduleAt[s]]_vars

-----------------------------------------------------------------------------
(* Liveness *)

HeldBySchedule(s) ==
    /\ inst.status[s] = "pending" /\ NeedsSatisfied(wf, inst, s)
    /\ inst.scheduleAt[s] <= MaxTime

\* A scheduled step whose needs are met starts (or is skipped), with nobody
\* calling: the minute ticker sees to it, on an archived instance too.
ScheduledStepStarts ==
    \A s \in Steps : HeldBySchedule(s) ~> inst.status[s] # "pending"

\* An overdue step is notified of, unless it ends first.
OverdueStepNotified ==
    \A s \in Steps : IsOverdue(inst, s, now) ~> (inst.notified[s] \/ Over(s))

-----------------------------------------------------------------------------
(* Refinement *)

PhaseOf(st) ==
    CASE st = "pending" -> "waiting"
      [] st \in Active -> "open"
      [] st \in Completed -> "finished"
      [] st = "skipped" -> "dropped"

Promise == INSTANCE Lifecycle WITH
    after <- wf.needs,
    phase <- [s \in Steps |-> PhaseOf(inst.status[s])],
    closed <- inst.state = "done"

\* Every call and every tick is a step that the life cycle allows, or none.
ImplementsLifecycle == Promise!Spec

-----------------------------------------------------------------------------
(* What the documentation says and the code does not do *)

\* README "instance completes when all paths end": there is always a step to
\* work on or to wait for, until the instance is done.
NeverDeadEnd ==
    inst.state = "done" \/ \E s \in Steps :
       \/ inst.status[s] \in Active
       \/ inst.status[s] = "pending" /\ NeedsSatisfied(wf, inst, s)
=============================================================================
