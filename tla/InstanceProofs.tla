--------------------------- MODULE InstanceProofs ---------------------------
(***************************************************************************)
(* Theorems about module Instance, for every set of steps, every set of    *)
(* definitions and every clock bound.                                      *)
(***************************************************************************)
EXTENDS Instance, EngineProofs, WellFoundedInduction

(***************************************************************************)
(* What a step of the specification does to the instance: the case split   *)
(* every invariant below goes through.                                     *)
(***************************************************************************)

\* The call that the status of step s asks for completes it, with answer i.
Finishes(s, i, act) ==
    /\ Completes(wf, inst, inst', s, i, act, now)
    /\ \/ act = "complete" /\ inst.status[s] = "ready" /\ i = 0
       \/ act = "ask" /\ inst.status[s] = "ask" /\ i \in DOMAIN wf.ask[s]
       \/ /\ act = "gate" /\ inst.status[s] = "gate"
          /\ i \in DOMAIN wf.ask[s] \cup {0} /\ (i = 0 <=> wf.ask[s] = <<>>)

\* Notifications are fired for what the step changes.
Posts == mail' = [s \in Steps |-> [k \in Kinds |->
                    mail[s][k] + Fired(inst, inst', s, k)]]

Changes ==
    \/ \E s \in Steps, i \in Nat, act \in {"complete", "ask", "gate"} : Finishes(s, i, act)
    \/ Starts(wf, inst, inst', now)
    \/ Edits(inst, inst')

LEMMA TypeFacts ==
    ASSUME TypeOK
    PROVE  wf \in WorkflowType /\ inst \in InstanceType /\ now \in Nat
BY WorkflowsAssumption DEF TypeOK

LEMMA NextChanges ==
    ASSUME TypeOK, [Next]_vars
    PROVE  /\ wf' = wf
           /\ (UNCHANGED <<inst, mail>> /\ now' \in Nat) \/ (Changes /\ Posts /\ now' = now)
<1>1. wf \in WorkflowType /\ inst \in InstanceType /\ now \in Nat
  BY TypeFacts
<1>2. \A s \in Steps : DOMAIN wf.ask[s] \subseteq Nat
  BY <1>1 DEF WorkflowType
<1>3. ASSUME NEW x, Becomes(x) PROVE wf' = wf /\ inst' = x /\ Posts /\ now' = now
  BY <1>3 DEF Becomes, Posts
<1>4. ASSUME NEW s \in Steps, Advance(s) PROVE wf' = wf /\ Changes /\ Posts /\ now' = now
  <2>1. CanAdvance(wf, inst, s) /\ Becomes(AdvanceStep(wf, inst, s, now))
    BY <1>4 DEF Advance
  <2>2. Finishes(s, 0, "complete")
    BY <1>1, <1>3, <2>1, AdvanceCompletes DEF Finishes, CanAdvance
  <2> QED
    BY <1>3, <2>1, <2>2 DEF Changes
<1>5. ASSUME NEW s \in Steps, Answer(s) PROVE wf' = wf /\ Changes /\ Posts /\ now' = now
  <2>1. PICK i \in DOMAIN wf.ask[s] :
          CanAnswer(wf, inst, s, i) /\ Becomes(AnswerAsk(wf, inst, s, i, now))
    BY <1>5 DEF Answer
  <2>2. Finishes(s, i, "ask")
    BY <1>1, <1>3, <2>1, AnswerCompletes DEF Finishes, CanAnswer
  <2> QED
    BY <1>2, <1>3, <2>1, <2>2 DEF Changes
<1>6. ASSUME NEW s \in Steps, Redeem(s) PROVE wf' = wf /\ Changes /\ Posts /\ now' = now
  <2>1. PICK i \in DOMAIN wf.ask[s] \cup {0} :
          CanRedeem(wf, inst, s, i, now) /\ Becomes(RedeemGate(wf, inst, s, i, now))
    BY <1>6 DEF Redeem
  <2>2. Finishes(s, i, "gate")
    BY <1>1, <1>3, <2>1, RedeemCompletes DEF Finishes, CanRedeem, LinkValid
  <2> QED
    BY <1>2, <1>3, <2>1, <2>2 DEF Changes
<1>7. ASSUME NEW s \in Steps, Toggle(s) \/ CheckAll(s) \/ AddItem(s)
      PROVE  wf' = wf /\ Changes /\ Posts /\ now' = now
  <2>1. inst.items[s] \subseteq Items
    BY <1>1 DEF InstanceType
  <2>2. CASE Toggle(s)
    BY <1>1, <1>3, <2>1, <2>2, ToggleEdits DEF Toggle, Changes
  <2>3. CASE CheckAll(s)
    BY <1>1, <1>3, <2>3, CheckAllEdits DEF CheckAll, Changes
  <2>4. CASE AddItem(s)
    BY <1>1, <1>3, <2>4, AddItemEdits DEF AddItem, Changes
  <2> QED
    BY <1>7, <2>2, <2>3, <2>4
<1>8. CASE Archive
  BY <1>1, <1>3, <1>8, ArchiveEdits DEF Archive, Changes
<1>9. CASE SchedulerTick
  BY <1>1, <1>3, <1>9, TickStarts DEF SchedulerTick, Changes
<1>10. CASE TimePasses \/ UNCHANGED vars
  BY <1>1, <1>10 DEF TimePasses, vars
<1> QED
  BY <1>4, <1>5, <1>6, <1>7, <1>8, <1>9, <1>10 DEF Next, StepCall

LEMMA TypeInit ==
    ASSUME Init
    PROVE  TypeOK
<1> USE WorkflowsAssumption
<1>1. wf \in WorkflowType /\ now \in Nat /\ inst \in InstanceType
  BY NewInstanceType DEF Init
<1>2. mail \in [Steps -> [Kinds -> Nat]]
  BY DEF Init, Fired
<1> QED
  BY <1>1, <1>2 DEF TypeOK, Init

LEMMA TypeStep ==
    ASSUME TypeOK, [Next]_vars
    PROVE  TypeOK'
<1>1. CASE UNCHANGED <<wf, inst, mail>> /\ now' \in Nat
  BY <1>1 DEF TypeOK
<1>2. CASE wf' = wf /\ Changes /\ Posts /\ now' = now
  <2>1. inst' \in InstanceType
    BY <1>2 DEF Changes, Finishes, Completes, Starts, Edits
  <2>2. mail' \in [Steps -> [Kinds -> Nat]]
    <3>1. \A s \in Steps, k \in Kinds : mail[s][k] + Fired(inst, inst', s, k) \in Nat
      BY DEF TypeOK, Fired
    <3> QED
      BY <1>2, <3>1 DEF Posts
  <2> QED
    BY <1>2, <2>1, <2>2 DEF TypeOK
<1> QED
  BY <1>1, <1>2, NextChanges

\* Every state of the program is well typed: nothing a call or a tick does takes
\* a field out of its type.
THEOREM TypeCorrect == Spec => []TypeOK
<1>1. Init => TypeOK
  BY TypeInit
<1>2. TypeOK /\ [Next]_vars => TypeOK'
  BY TypeStep
<1> QED
  BY <1>1, <1>2, PTL DEF Spec

-----------------------------------------------------------------------------
(* Theorems about the order in which steps begin. *)

\* A step of the specification moves the steps forward, or leaves them.
LEMMA NextMoves ==
    ASSUME TypeOK, [Next]_vars
    PROVE  Moves(wf, inst, inst', now) /\ wf' = wf
<1>1. CASE UNCHANGED inst /\ wf' = wf
  BY <1>1 DEF Moves, Active, Terminal, Completed
<1>2. CASE Changes /\ wf' = wf
  BY <1>2, TypeFacts, CompletesMoves, StartsMoves, EditsMoves DEF Changes, Finishes
<1> QED
  BY <1>1, <1>2, NextChanges

\* The first state is that of the definition with its first steps started.
LEMMA InitStarts ==
    ASSUME Init
    PROVE  /\ Starts(wf, Unstarted(wf, 0), inst, 0)
           /\ NoneDue(wf, inst, 0)
           /\ \A s \in Steps : inst.status[s] = "pending"
                               \/ Started(wf, Unstarted(wf, 0), inst, s, 0)
           /\ \A s \in Steps : inst.status[s] \in {"pending"} \cup Active
<1>1. Starts(wf, Unstarted(wf, 0), inst, 0) /\ NoneDue(wf, inst, 0)
  BY WorkflowsAssumption, NewInstanceStarts DEF Init
<1>2. \A s \in Steps : Unstarted(wf, 0).status[s] = "pending"
  BY DEF Unstarted
<1>3. \A s \in Steps : ActiveStatus(wf, s) \in Active
  BY DEF ActiveStatus, Active
<1> QED
  BY <1>1, <1>2, <1>3 DEF Starts, Started

LEMMA NeedsMetStep ==
    ASSUME TypeOK, NeedsMet, [Next]_vars
    PROVE  NeedsMet'
<1>1. Moves(wf, inst, inst', now) /\ wf' = wf
  BY NextMoves
<1>2. inst \in InstanceType
  BY TypeFacts
<1> SUFFICES ASSUME NEW s \in Steps, Begun(s)' PROVE NeedsSatisfied(wf, inst', s)
  BY <1>1 DEF NeedsMet, NeedsSatisfied
<1>3. inst.status[s] \in Status
  BY <1>2 DEF InstanceType
<1>4. inst'.status[s] \notin {"pending", "skipped"}
  BY DEF Begun, Active, Completed
<1>5. CASE inst.status[s] = "pending"
  BY <1>1, <1>4, <1>5 DEF Moves, Started
<1>6. CASE inst.status[s] = "skipped"
  BY <1>1, <1>4, <1>6 DEF Moves, Terminal
<1>7. CASE Begun(s)
  BY <1>1, <1>7, NeedsStaySatisfied DEF NeedsMet
<1> QED
  BY <1>3, <1>5, <1>6, <1>7 DEF Begun, Status, Terminal

LEMMA NeedsMetInit ==
    ASSUME Init
    PROVE  NeedsMet
BY InitStarts DEF NeedsMet, Begun, Started, Active, Completed

\* AND-join: for every definition and every interleaving of calls, ticks and
\* the clock, a step has begun only after all it needs is over and after the
\* ask that offers it, if it needs nothing else, has let it go.
THEOREM JoinWaitsForAll == Spec => []NeedsMet
<1>1. Init => TypeOK /\ NeedsMet
  BY TypeInit, NeedsMetInit
<1>2. TypeOK /\ NeedsMet /\ [Next]_vars => TypeOK' /\ NeedsMet'
  BY TypeStep, NeedsMetStep
<1> QED
  BY <1>1, <1>2, PTL DEF Spec

\* No call and no tick starts a step before its scheduled time.
THEOREM NeverBeforeSchedule == Spec => NotBeforeSchedule
<1>1. TypeOK /\ [Next]_vars =>
        [\A s \in Steps : inst.status[s] = "pending" /\ Begun(s)'
           => now >= inst.scheduleAt[s]]_vars
  <2> SUFFICES ASSUME TypeOK, [Next]_vars, NEW s \in Steps,
                      inst.status[s] = "pending", Begun(s)'
               PROVE  now >= inst.scheduleAt[s]
    OBVIOUS
  <2>1. Moves(wf, inst, inst', now)
    BY NextMoves
  <2>2. inst'.status[s] \notin {"pending", "skipped"}
    BY DEF Begun, Active, Completed
  <2>3. inst.scheduleAt[s] <= now
    BY <2>1, <2>2 DEF Moves, Started
  <2>4. inst.scheduleAt[s] \in Int /\ now \in Int
    <3>1. inst.scheduleAt[s] \in Times /\ now \in Nat
      BY TypeFacts DEF InstanceType
    <3> QED
      BY <3>1 DEF Times, NoTime
  <2> QED
    BY <2>3, <2>4
<1> QED
  BY <1>1, TypeCorrect, PTL DEF Spec, NotBeforeSchedule

-----------------------------------------------------------------------------
(***************************************************************************)
(* The inductive invariant: the properties of module Instance and what     *)
(* they need to know of the past, namely how each step came to its status. *)
(***************************************************************************)

\* An active step waits for the call its definition asks for.
ActiveAsDefined ==
    \A s \in Steps : inst.status[s] \in Active => inst.status[s] = ActiveStatus(wf, s)

\* The completed step s has chosen, or passed over, step t.
Chose(s, t) ==
    /\ inst.status[s] \in Completed
    /\ inst.chosen[s] \in DOMAIN wf.ask[s] /\ wf.ask[s][inst.chosen[s]] = t

PassedOver(s, t) ==
    /\ inst.status[s] \in Completed
    /\ inst.chosen[s] \in DOMAIN wf.ask[s] /\ OtherTarget(wf, s, inst.chosen[s], t)

\* The sentinel holds back a target that needs nothing, until it is chosen.
SentinelHeld ==
    \A t \in Steps :
       /\ inst.sentinel[t] => t \in AskTargets(wf) /\ wf.needs[t] = {}
       /\ t \in AskTargets(wf) /\ wf.needs[t] = {} /\ ~inst.sentinel[t]
            => \E s \in Steps : Chose(s, t)

SkippedByAsk ==
    \A t \in Steps : inst.status[t] = "skipped" => \E s \in Steps : PassedOver(s, t)

\* A completed ask has an answer, has let go its chosen target and left no other
\* one pending.
AskSettled ==
    \A s \in Steps : inst.status[s] \in Completed /\ wf.ask[s] # <<>> =>
       /\ inst.chosen[s] \in DOMAIN wf.ask[s]
       /\ \A t \in Steps : wf.ask[s][inst.chosen[s]] = t => ~inst.sentinel[t]
       /\ \A t \in Steps : OtherTarget(wf, s, inst.chosen[s], t)
                             => inst.status[t] # "pending"

\* What needed the step that passed it over had not begun, and is skipped.
LeftOut ==
    \A s \in Steps, t \in Steps :
       PassedOver(s, t) /\ s \in wf.needs[t] => inst.status[t] = "skipped"

\* The items that must be ticked are in the checklist of the step.
RequiredListed == \A s \in Steps : wf.required[s] \subseteq inst.items[s]

Inv ==
    /\ TypeOK /\ NeedsMet /\ ActiveAsDefined /\ RequiredListed
    /\ DoneIffAllTerminal /\ CompletedOnce /\ NotifiedOnce /\ NoneLeftBehind
    /\ SentinelHeld /\ SkippedByAsk /\ AskSettled /\ LeftOut

\* The ways a status may change.
LEMMA StatusChanges ==
    ASSUME TypeOK, [Next]_vars, NEW s \in Steps
    PROVE  /\ inst.status[s] \in {"pending", "skipped"} \cup Active \cup Completed
           /\ inst.status[s] = "pending" =>
                \/ inst'.status[s] \in {"pending", "skipped"}
                \/ /\ inst'.status[s] \in Active /\ inst'.status[s] = ActiveStatus(wf, s)
                   /\ Started(wf, inst, inst', s, now)
           /\ inst.status[s] \in Active =>
                inst'.status[s] = inst.status[s] \/ inst'.status[s] \in Completed
           /\ inst.status[s] \in Completed \cup {"skipped"} => inst'.status[s] = inst.status[s]
<1>1. Moves(wf, inst, inst', now) /\ inst \in InstanceType
  BY NextMoves, TypeFacts
<1>2. inst.status[s] \in {"pending", "skipped"} \cup Active \cup Completed
  BY <1>1 DEF InstanceType, Status, Terminal
<1>3. ActiveStatus(wf, s) \in Active
  BY DEF ActiveStatus, Active
<1> QED
  BY <1>1, <1>2, <1>3 DEF Moves, Started, Terminal

LEMMA ActiveAsDefinedStep ==
    ASSUME TypeOK, ActiveAsDefined, [Next]_vars
    PROVE  ActiveAsDefined'
<1> SUFFICES ASSUME NEW s \in Steps, inst'.status[s] \in Active
             PROVE  inst'.status[s] = ActiveStatus(wf, s)
  BY NextChanges DEF ActiveAsDefined, ActiveStatus
<1> QED
  BY StatusChanges DEF ActiveAsDefined, Active, Completed

LEMMA DoneIffAllTerminalStep ==
    ASSUME TypeOK, DoneIffAllTerminal, [Next]_vars
    PROVE  DoneIffAllTerminal'
<1>1. CASE UNCHANGED inst
  BY <1>1 DEF DoneIffAllTerminal, Over
<1>2. ASSUME NEW s, NEW i, NEW act, Finishes(s, i, act)
      PROVE  DoneIffAllTerminal'
  BY <1>2 DEF Finishes, Completes, DoneIffAllTerminal, Over
<1>3. CASE Starts(wf, inst, inst', now)
  <2>1. \A s \in Steps : Over(s) <=> Over(s)'
    BY <1>3 DEF Starts, Started, ActiveStatus, Over, Terminal, Completed
  <2> QED
    BY <1>3, <2>1 DEF Starts, DoneIffAllTerminal
<1>4. CASE Edits(inst, inst')
  BY <1>4 DEF Edits, DoneIffAllTerminal, Over
<1> QED
  BY <1>1, <1>2, <1>3, <1>4, NextChanges DEF Changes

\* The entry that an advance, an answer or a redemption of step s leaves.
LEMMA EntryOf ==
    ASSUME TypeOK, ActiveAsDefined, NEW s \in Steps, NEW i, NEW act,
           Finishes(s, i, act)
    PROVE  /\ inst.status[s] \in Active /\ inst'.status[s] \in Completed
           /\ <<act>> = IF wf.gate[s] THEN <<"gate">>
                        ELSE IF wf.ask[s] # <<>> THEN <<"ask">> ELSE <<"complete">>
           /\ act = "gate" <=> wf.gate[s]
           /\ wf.ask[s] # <<>> => i \in DOMAIN wf.ask[s] /\ i # 0
<1>1. inst.status[s] \in Active /\ inst'.status[s] \in Completed
  BY DEF Finishes, Completes
<1>2. inst.status[s] = IF wf.gate[s] THEN "gate"
                       ELSE IF wf.ask[s] # <<>> THEN "ask" ELSE "ready"
  BY <1>1 DEF ActiveAsDefined, ActiveStatus
<1>3. 0 \notin DOMAIN wf.ask[s]
  BY TypeFacts DEF WorkflowType
<1>4. \/ act = "complete" /\ ~wf.gate[s] /\ wf.ask[s] = <<>>
      \/ act = "ask" /\ ~wf.gate[s] /\ wf.ask[s] # <<>> /\ i \in DOMAIN wf.ask[s]
      \/ /\ act = "gate" /\ wf.gate[s]
         /\ i \in DOMAIN wf.ask[s] \cup {0} /\ (i = 0 <=> wf.ask[s] = <<>>)
  BY <1>2 DEF Finishes
<1> QED
  BY <1>1, <1>3, <1>4

LEMMA CompletedOnceStep ==
    ASSUME TypeOK, ActiveAsDefined, CompletedOnce, [Next]_vars
    PROVE  CompletedOnce'
<1>1. /\ wf \in WorkflowType /\ inst \in InstanceType /\ inst' \in InstanceType
      /\ wf' = wf
  BY TypeFacts, TypeStep, NextChanges DEF TypeOK
<1> SUFFICES ASSUME NEW s \in Steps
             PROVE  /\ inst'.audit[s] = IF inst'.status[s] \notin Completed THEN <<>>
                                        ELSE IF wf.gate[s] THEN <<"gate">>
                                        ELSE IF wf.ask[s] # <<>> THEN <<"ask">>
                                        ELSE <<"complete">>
                    /\ inst'.gateUsed[s] <=> wf.gate[s] /\ inst'.status[s] \in Completed
                    /\ inst'.token[s] <=> wf.gate[s] /\ Begun(s)'
  BY <1>1 DEF CompletedOnce
<1>2. /\ inst.audit[s] = IF inst.status[s] \notin Completed THEN <<>>
                         ELSE IF wf.gate[s] THEN <<"gate">>
                         ELSE IF wf.ask[s] # <<>> THEN <<"ask">>
                         ELSE <<"complete">>
      /\ inst.gateUsed[s] <=> wf.gate[s] /\ inst.status[s] \in Completed
      /\ inst.token[s] <=> wf.gate[s] /\ Begun(s)
  BY DEF CompletedOnce
<1>3. /\ Begun(s) <=> inst.status[s] \in Active \/ inst.status[s] \in Completed
      /\ Begun(s)' <=> inst'.status[s] \in Active \/ inst'.status[s] \in Completed
      /\ Active \cap Completed = {} /\ "pending" \notin Active \cup Completed
      /\ "skipped" \notin Active \cup Completed
  BY DEF Begun, Active, Completed
<1>4. CASE UNCHANGED inst
  BY <1>2, <1>3, <1>4
<1>5. ASSUME NEW r \in Steps, NEW i, NEW act, Finishes(r, i, act)
      PROVE  /\ inst'.audit[s] = IF inst'.status[s] \notin Completed THEN <<>>
                                 ELSE IF wf.gate[s] THEN <<"gate">>
                                 ELSE IF wf.ask[s] # <<>> THEN <<"ask">>
                                 ELSE <<"complete">>
             /\ inst'.gateUsed[s] <=> wf.gate[s] /\ inst'.status[s] \in Completed
             /\ inst'.token[s] <=> wf.gate[s] /\ Begun(s)'
  <2>1. /\ inst.status[r] \in Active /\ inst'.status[r] \in Completed
        /\ <<act>> = IF wf.gate[r] THEN <<"gate">>
                     ELSE IF wf.ask[r] # <<>> THEN <<"ask">> ELSE <<"complete">>
        /\ act = "gate" <=> wf.gate[r]
    BY <1>5, EntryOf
  <2>2. /\ inst'.audit = [inst.audit EXCEPT ![r] = Append(inst.audit[r], act)]
        /\ inst'.gateUsed = IF act = "gate" THEN [inst.gateUsed EXCEPT ![r] = TRUE]
                            ELSE inst.gateUsed
        /\ inst'.token[s] <=> inst.token[s] \/ (wf.gate[s] /\ Started(wf, inst, inst', s, now))
        /\ s # r => \/ inst'.status[s] = inst.status[s]
                    \/ inst.status[s] = "pending" /\ inst'.status[s] = "skipped"
                    \/ Started(wf, inst, inst', s, now)
    BY <1>5 DEF Finishes, Completes
  <2>3. Started(wf, inst, inst', s, now)
          => inst.status[s] = "pending" /\ inst'.status[s] \in Active
    BY DEF Started, ActiveStatus, Active
  <2>4. inst.audit \in [Steps -> Seq({"complete", "ask", "gate"})]
        /\ inst.gateUsed \in [Steps -> BOOLEAN]
    BY <1>1 DEF InstanceType
  <2>5. CASE s = r
    <3>1. inst'.audit[s] = Append(<<>>, act)
      BY <1>2, <1>3, <2>1, <2>2, <2>4, <2>5
    <3>2. inst'.audit[s] = <<act>>
      BY <3>1
    <3>3. inst'.gateUsed[s] <=> wf.gate[s]
      BY <1>2, <1>3, <2>1, <2>2, <2>4, <2>5
    <3>4. inst'.token[s] <=> wf.gate[s]
      BY <1>2, <1>3, <2>1, <2>2, <2>3, <2>5
    <3> QED
      BY <1>3, <2>1, <2>5, <3>2, <3>3, <3>4
  <2>6. CASE s # r
    <3>1. inst'.audit[s] = inst.audit[s] /\ inst'.gateUsed[s] = inst.gateUsed[s]
      BY <2>2, <2>4, <2>6
    <3>2. inst'.status[s] \in Completed <=> inst.status[s] \in Completed
      BY <1>3, <2>2, <2>3, <2>6
    <3>3. Begun(s)' <=> Begun(s) \/ Started(wf, inst, inst', s, now)
      BY <1>3, <2>2, <2>3, <2>6
    <3> QED
      BY <1>2, <2>2, <3>1, <3>2, <3>3
  <2> QED
    BY <2>5, <2>6
<1>6. CASE Starts(wf, inst, inst', now)
  <2>1. Started(wf, inst, inst', s, now)
          => inst.status[s] = "pending" /\ inst'.status[s] \in Active
    BY DEF Started, ActiveStatus, Active
  <2>2. /\ inst'.audit = inst.audit /\ inst'.gateUsed = inst.gateUsed
        /\ inst'.token[s] <=> inst.token[s] \/ (wf.gate[s] /\ Started(wf, inst, inst', s, now))
        /\ inst'.status[s] = inst.status[s] \/ Started(wf, inst, inst', s, now)
    BY <1>6 DEF Starts
  <2>3. inst'.status[s] \in Completed <=> inst.status[s] \in Completed
    BY <1>3, <2>1, <2>2
  <2>4. Begun(s)' <=> Begun(s) \/ Started(wf, inst, inst', s, now)
    BY <1>3, <2>1, <2>2
  <2> QED
    BY <1>2, <2>2, <2>3, <2>4
<1>7. CASE Edits(inst, inst')
  BY <1>2, <1>3, <1>7 DEF Edits
<1> QED
  BY <1>4, <1>5, <1>6, <1>7, NextChanges DEF Changes

\* What each kind of notification is fired for, in numbers.
LEMMA FiredKinds ==
    ASSUME NEW b, NEW a, NEW s
    PROVE  /\ Fired(b, a, s, "link") =
                IF /\ wf.notify[s] /\ wf.gate[s]
                   /\ b.status[s] = "pending" /\ a.status[s] \in Active THEN 1 ELSE 0
           /\ Fired(b, a, s, "assigned") =
                IF /\ wf.assign[s]
                   /\ b.status[s] = "pending" /\ a.status[s] \in Active THEN 1 ELSE 0
           /\ Fired(b, a, s, "completed") =
                IF /\ wf.notify[s] /\ ~wf.gate[s]
                   /\ b.status[s] \in Active /\ a.status[s] \in Completed THEN 1 ELSE 0
           /\ Fired(b, a, s, "overdue") =
                IF (wf.notify[s] \/ wf.assign[s]) /\ ~b.notified[s] /\ a.notified[s]
                THEN 1 ELSE 0
BY DEF Fired, Fires

LEMMA NotifiedOnceStep ==
    ASSUME TypeOK, CompletedOnce, CompletedOnce', NotifiedOnce, [Next]_vars
    PROVE  NotifiedOnce'
<1>1. wf' = wf
  BY NextChanges
<1>2. CASE UNCHANGED <<inst, mail>>
  BY <1>1, <1>2 DEF NotifiedOnce, Begun
<1>3. CASE Changes /\ Posts
  <2> SUFFICES ASSUME NEW s \in Steps
      PROVE  /\ mail'[s]["link"] = IF wf.notify[s] /\ inst'.token[s] THEN 1 ELSE 0
             /\ mail'[s]["assigned"] = IF wf.assign[s] /\ Begun(s)' THEN 1 ELSE 0
             /\ mail'[s]["completed"] =
                  IF /\ wf.notify[s] /\ ~wf.gate[s]
                     /\ inst'.status[s] \in Completed THEN 1 ELSE 0
             /\ mail'[s]["overdue"] =
                  IF (wf.notify[s] \/ wf.assign[s]) /\ inst'.notified[s] THEN 1 ELSE 0
    BY <1>1, Zenon DEF NotifiedOnce
  <2>1. \A k \in Kinds : mail'[s][k] = mail[s][k] + Fired(inst, inst', s, k)
    BY <1>3 DEF Posts
  <2>2. /\ mail'[s]["link"] = mail[s]["link"] + Fired(inst, inst', s, "link")
        /\ mail'[s]["assigned"] = mail[s]["assigned"] + Fired(inst, inst', s, "assigned")
        /\ mail'[s]["completed"] = mail[s]["completed"] + Fired(inst, inst', s, "completed")
        /\ mail'[s]["overdue"] = mail[s]["overdue"] + Fired(inst, inst', s, "overdue")
    BY <2>1 DEF Kinds
  <2>3. /\ Begun(s) <=> inst.status[s] \in Active \/ inst.status[s] \in Completed
        /\ Begun(s)' <=> inst'.status[s] \in Active \/ inst'.status[s] \in Completed
        /\ Active \cap Completed = {} /\ "pending" \notin Active \cup Completed
        /\ "skipped" \notin Active \cup Completed
    BY DEF Begun, Active, Completed
  <2>4. /\ inst.token[s] <=> wf.gate[s] /\ Begun(s)
        /\ inst'.token[s] <=> wf.gate[s] /\ Begun(s)'
    BY <1>1 DEF CompletedOnce
  <2>5. /\ inst.status[s] \in {"pending", "skipped"} \cup Active \cup Completed
        /\ inst.status[s] = "pending" =>
             inst'.status[s] \in {"pending", "skipped"} \cup Active
        /\ inst.status[s] \in Active =>
             inst'.status[s] = inst.status[s] \/ inst'.status[s] \in Completed
        /\ inst.status[s] \in Completed \cup {"skipped"} => inst'.status[s] = inst.status[s]
    BY StatusChanges
  <2>6. mail'[s]["link"] = IF wf.notify[s] /\ inst'.token[s] THEN 1 ELSE 0
    <3>1. mail[s]["link"] = IF wf.notify[s] /\ inst.token[s] THEN 1 ELSE 0
      BY DEF NotifiedOnce
    <3> QED
      BY <2>2, <2>3, <2>4, <2>5, <3>1, FiredKinds
  <2>7. mail'[s]["assigned"] = IF wf.assign[s] /\ Begun(s)' THEN 1 ELSE 0
    <3>1. mail[s]["assigned"] = IF wf.assign[s] /\ Begun(s) THEN 1 ELSE 0
      BY DEF NotifiedOnce
    <3> QED
      BY <2>2, <2>3, <2>5, <3>1, FiredKinds
  <2>8. mail'[s]["completed"] = IF /\ wf.notify[s] /\ ~wf.gate[s]
                                   /\ inst'.status[s] \in Completed THEN 1 ELSE 0
    <3>1. mail[s]["completed"] = IF /\ wf.notify[s] /\ ~wf.gate[s]
                                    /\ inst.status[s] \in Completed THEN 1 ELSE 0
      BY DEF NotifiedOnce
    <3> QED
      BY <2>2, <2>3, <2>5, <3>1, FiredKinds
  <2>9. mail'[s]["overdue"] =
          IF (wf.notify[s] \/ wf.assign[s]) /\ inst'.notified[s] THEN 1 ELSE 0
    <3>1. mail[s]["overdue"] =
            IF (wf.notify[s] \/ wf.assign[s]) /\ inst.notified[s] THEN 1 ELSE 0
      BY DEF NotifiedOnce
    <3>2. inst.notified[s] => inst'.notified[s]
      BY <1>3 DEF Changes, Finishes, Completes, Starts, Edits
    <3> QED
      BY <2>2, <3>1, <3>2, FiredKinds
  <2> QED
    BY <2>6, <2>7, <2>8, <2>9
<1> QED
  BY <1>2, <1>3, NextChanges

LEMMA NoneLeftBehindStep ==
    ASSUME TypeOK, NoneLeftBehind, [Next]_vars
    PROVE  NoneLeftBehind'
<1>1. inst' \in InstanceType /\ wf' = wf /\ now \in Nat
  BY TypeFacts, TypeStep, NextChanges DEF TypeOK
<1> SUFFICES ASSUME NEW s \in Steps, inst'.status[s] = "pending",
                    NeedsSatisfied(wf, inst', s)
             PROVE  inst'.scheduleAt[s] > 0
  BY <1>1 DEF NoneLeftBehind, NeedsSatisfied
<1>2. inst'.scheduleAt[s] \in Int
  <2>1. inst'.scheduleAt[s] \in Times
    BY <1>1 DEF InstanceType
  <2> QED
    BY <2>1 DEF Times, NoTime
<1>3. CASE UNCHANGED inst
  BY <1>3 DEF NoneLeftBehind
<1>4. ASSUME NEW r, NEW i, NEW act, Finishes(r, i, act)
      PROVE  inst'.scheduleAt[s] > 0
  <2>1. ~(inst'.scheduleAt[s] <= now)
    BY <1>4 DEF Finishes, Completes, NoneDue
  <2> QED
    BY <1>1, <1>2, <2>1
<1>5. CASE Starts(wf, inst, inst', now)
  <2>1. inst.status[s] = "pending" /\ NeedsSatisfied(wf, inst, s)
        /\ inst'.scheduleAt = inst.scheduleAt
    BY <1>5 DEF Starts, Started
  <2> QED
    BY <2>1 DEF NoneLeftBehind
<1>6. CASE Edits(inst, inst')
  BY <1>6 DEF Edits, NeedsSatisfied, NoneLeftBehind
<1> QED
  BY <1>3, <1>4, <1>5, <1>6, NextChanges DEF Changes

\* A completed step keeps its choice, and a step completes with the one given.
LEMMA ChoiceKept ==
    ASSUME TypeOK, ActiveAsDefined, [Next]_vars, NEW s \in Steps,
           inst.status[s] \in Completed
    PROVE  inst'.status[s] = inst.status[s] /\ inst'.chosen[s] = inst.chosen[s]
<1>1. inst'.status[s] = inst.status[s] /\ inst.status[s] \notin Active
  BY StatusChanges DEF Active, Completed
<1>2. inst.chosen \in [Steps -> Nat]
  BY TypeFacts DEF InstanceType
<1>3. CASE UNCHANGED inst
  BY <1>3
<1>4. ASSUME NEW r \in Steps, NEW i, NEW act, Finishes(r, i, act)
      PROVE  inst'.chosen[s] = inst.chosen[s]
  BY <1>1, <1>2, <1>4 DEF Finishes, Completes
<1> QED
  BY <1>1, <1>3, <1>4, NextChanges DEF Changes, Starts, Edits

\* A step that completes has chosen the answer of the call, if its definition asks.
LEMMA ChoiceMade ==
    ASSUME TypeOK, ActiveAsDefined, [Next]_vars, NEW s \in Steps,
           inst.status[s] \notin Completed, inst'.status[s] \in Completed
    PROVE  \E i \in Nat, act \in {"complete", "ask", "gate"} :
              /\ Finishes(s, i, act)
              /\ wf.ask[s] # <<>> => /\ i \in DOMAIN wf.ask[s] /\ i # 0
                                     /\ inst'.chosen[s] = i
<1>1. ~Started(wf, inst, inst', s, now)
  BY DEF Started, ActiveStatus, Completed
<1>2. PICK r \in Steps, i \in Nat, act \in {"complete", "ask", "gate"} :
         Finishes(r, i, act)
  BY <1>1, NextChanges DEF Changes, Starts, Edits
<1>3. r = s
  BY <1>1, <1>2 DEF Finishes, Completes, Completed
<1>4. inst.chosen \in [Steps -> Nat]
  BY TypeFacts DEF InstanceType
<1>5. wf.ask[s] # <<>> => i \in DOMAIN wf.ask[s] /\ i # 0
  BY <1>2, <1>3, EntryOf
<1>6. i # 0 => inst'.chosen[s] = i
  BY <1>2, <1>3, <1>4 DEF Finishes, Completes
<1> QED
  BY <1>2, <1>3, <1>5, <1>6

LEMMA ChoseStays ==
    ASSUME TypeOK, ActiveAsDefined, [Next]_vars, NEW s \in Steps, NEW t
    PROVE  /\ Chose(s, t) => Chose(s, t)'
           /\ inst.status[s] \in Completed => (PassedOver(s, t) <=> PassedOver(s, t)')
           /\ PassedOver(s, t) => PassedOver(s, t)'
BY ChoiceKept, NextChanges DEF Chose, PassedOver, OtherTarget

LEMMA SentinelHeldStep ==
    ASSUME TypeOK, ActiveAsDefined, SentinelHeld, [Next]_vars
    PROVE  SentinelHeld'
<1>1. wf' = wf /\ Moves(wf, inst, inst', now)
  BY NextMoves
<1>2. \A t \in Steps : inst'.sentinel[t] => t \in AskTargets(wf) /\ wf.needs[t] = {}
  BY <1>1 DEF SentinelHeld, Moves
<1>3. ASSUME NEW t \in Steps, t \in AskTargets(wf), wf.needs[t] = {}, ~inst'.sentinel[t]
      PROVE  \E s \in Steps : Chose(s, t)'
  <2>1. CASE ~inst.sentinel[t]
    BY <1>3, <2>1, ChoseStays DEF SentinelHeld
  <2>2. CASE inst.sentinel[t]
    <3>1. PICK s \in Steps, i \in Nat, act \in {"complete", "ask", "gate"} :
             Finishes(s, i, act)
      BY <1>3, <2>2, NextChanges DEF Changes, Starts, Edits
    <3>2. i # 0 /\ wf.ask[s][i] = t
      BY <1>3, <2>2, <3>1 DEF Finishes, Completes
    <3>3. i \in DOMAIN wf.ask[s]
      BY <3>1, <3>2 DEF Finishes
    <3>4. inst'.status[s] \in Completed /\ inst'.chosen[s] = i
      <4>1. inst.chosen \in [Steps -> Nat]
        BY TypeFacts DEF InstanceType
      <4> QED
        BY <3>1, <3>2, <4>1 DEF Finishes, Completes
    <3> QED
      BY <1>1, <3>2, <3>3, <3>4 DEF Chose
  <2> QED
    BY <2>1, <2>2
<1> QED
  BY <1>1, <1>2, <1>3 DEF SentinelHeld, AskTargets

LEMMA SkippedByAskStep ==
    ASSUME TypeOK, ActiveAsDefined, SkippedByAsk, [Next]_vars
    PROVE  SkippedByAsk'
<1>1. wf' = wf
  BY NextChanges
<1> SUFFICES ASSUME NEW t \in Steps, inst'.status[t] = "skipped"
             PROVE  \E s \in Steps : PassedOver(s, t)'
  BY DEF SkippedByAsk
<1>2. CASE inst.status[t] = "skipped"
  BY <1>2, ChoseStays DEF SkippedByAsk
<1>3. CASE inst.status[t] # "skipped"
  <2>1. ~Started(wf, inst, inst', t, now)
    BY DEF Started, ActiveStatus
  <2>2. PICK s \in Steps, i \in Nat, act \in {"complete", "ask", "gate"} :
           Finishes(s, i, act)
    BY <1>3, <2>1, NextChanges DEF Changes, Starts, Edits
  <2>3. OtherTarget(wf, s, i, t) /\ inst'.status[s] \in Completed
    BY <1>3, <2>1, <2>2 DEF Finishes, Completes, Completed
  <2>4. i # 0 /\ i \in DOMAIN wf.ask[s]
    BY <2>2, <2>3 DEF OtherTarget, Finishes
  <2>5. inst'.chosen[s] = i
    <3>1. inst.chosen \in [Steps -> Nat]
      BY TypeFacts DEF InstanceType
    <3> QED
      BY <2>2, <2>4, <3>1 DEF Finishes, Completes
  <2> QED
    BY <1>1, <2>3, <2>4, <2>5 DEF PassedOver
<1> QED
  BY <1>2, <1>3

LEMMA AskSettledStep ==
    ASSUME TypeOK, ActiveAsDefined, AskSettled, [Next]_vars
    PROVE  AskSettled'
<1>1. wf' = wf /\ Moves(wf, inst, inst', now)
  BY NextMoves
<1> SUFFICES ASSUME NEW s \in Steps, inst'.status[s] \in Completed, wf.ask[s] # <<>>
             PROVE  /\ inst'.chosen[s] \in DOMAIN wf.ask[s]
                    /\ \A t \in Steps : wf.ask[s][inst'.chosen[s]] = t => ~inst'.sentinel[t]
                    /\ \A t \in Steps : OtherTarget(wf, s, inst'.chosen[s], t)
                                          => inst'.status[t] # "pending"
  BY <1>1 DEF AskSettled, OtherTarget
<1>2. CASE inst.status[s] \in Completed
  <2>1. inst'.chosen[s] = inst.chosen[s]
    BY <1>2, ChoiceKept
  <2>2. \A t \in Steps : inst.status[t] # "pending" => inst'.status[t] # "pending"
    BY StatusChanges DEF Active, Completed
  <2> QED
    BY <1>1, <1>2, <2>1, <2>2 DEF AskSettled, Moves
<1>3. CASE inst.status[s] \notin Completed
  <2>1. PICK i \in Nat, act \in {"complete", "ask", "gate"} :
           /\ Finishes(s, i, act)
           /\ wf.ask[s] # <<>> => /\ i \in DOMAIN wf.ask[s] /\ i # 0
                                  /\ inst'.chosen[s] = i
    BY <1>3, ChoiceMade
  <2> QED
    BY <2>1 DEF Finishes, Completes
<1> QED
  BY <1>2, <1>3

LEMMA LeftOutStep ==
    ASSUME TypeOK, ActiveAsDefined, NeedsMet, LeftOut, [Next]_vars
    PROVE  LeftOut'
<1>1. wf' = wf
  BY NextChanges
<1> SUFFICES ASSUME NEW s \in Steps, NEW t \in Steps, PassedOver(s, t)', s \in wf.needs[t]
             PROVE  inst'.status[t] = "skipped"
  BY <1>1 DEF LeftOut
<1>2. CASE inst.status[s] \in Completed
  <2>1. inst.status[t] = "skipped"
    BY <1>2, ChoseStays DEF LeftOut
  <2> QED
    BY <2>1, StatusChanges
<1>3. CASE inst.status[s] \notin Completed
  <2>1. /\ inst'.status[s] \in Completed /\ wf.ask[s] # <<>>
        /\ OtherTarget(wf, s, inst'.chosen[s], t)
    BY <1>1 DEF PassedOver, OtherTarget
  <2>2. PICK i \in Nat, act \in {"complete", "ask", "gate"} :
           Finishes(s, i, act) /\ inst'.chosen[s] = i
    BY <1>3, <2>1, ChoiceMade
  <2>3. inst.status[s] \in Active
    BY <2>2 DEF Finishes, Completes
  <2>4. ~Begun(t)
    BY <2>3 DEF NeedsMet, NeedsSatisfied, Active, Terminal, Completed
  <2>5. inst.status[t] \in {"pending", "skipped"}
    BY <2>4, StatusChanges DEF Begun
  <2>6. CASE inst.status[t] = "pending"
    BY <2>1, <2>2, <2>6 DEF Finishes, Completes
  <2>7. CASE inst.status[t] = "skipped"
    BY <2>7, StatusChanges
  <2> QED
    BY <2>5, <2>6, <2>7
<1> QED
  BY <1>2, <1>3

LEMMA RequiredListedStep ==
    ASSUME TypeOK, RequiredListed, [Next]_vars
    PROVE  RequiredListed'
<1>1. \A s \in Steps : inst.items[s] \subseteq inst'.items[s]
  BY NextChanges DEF Changes, Finishes, Completes, Starts, Edits
<1> QED
  BY <1>1, NextChanges DEF RequiredListed

LEMMA RequiredListedInit ==
    ASSUME Init
    PROVE  RequiredListed
<1>1. wf \in Workflows /\ inst.items = Unstarted(wf, 0).items
  BY InitStarts DEF Init, Starts
<1>2. inst.items = wf.items
  BY <1>1 DEF Unstarted
<1> QED
  BY <1>1, <1>2, RequiredAssumption DEF RequiredListed

LEMMA InvInit ==
    ASSUME Init
    PROVE  Inv
<1> DEFINE x == Unstarted(wf, 0)
<1>1. TypeOK /\ NeedsMet
  BY TypeInit, NeedsMetInit
<1>2. /\ Starts(wf, x, inst, 0) /\ NoneDue(wf, inst, 0)
      /\ \A s \in Steps : inst.status[s] = "pending" \/ Started(wf, x, inst, s, 0)
      /\ \A s \in Steps : inst.status[s] \in {"pending"} \cup Active
  BY InitStarts
<1>3. /\ inst.sentinel = [s \in Steps |-> s \in AskTargets(wf) /\ wf.needs[s] = {}]
      /\ \A s \in Steps :
            /\ x.status[s] = "pending" /\ ~x.token[s] /\ ~x.notified[s]
            /\ ~inst.gateUsed[s] /\ inst.audit[s] = <<>>
      /\ inst.state = "ready"
  <2>1. /\ x.sentinel = [s \in Steps |-> s \in AskTargets(wf) /\ wf.needs[s] = {}]
        /\ \A s \in Steps :
              /\ x.status[s] = "pending" /\ ~x.token[s] /\ ~x.notified[s]
              /\ ~x.gateUsed[s] /\ x.audit[s] = <<>>
        /\ x.state = "ready"
    BY DEF Unstarted
  <2>2. /\ inst.sentinel = x.sentinel /\ inst.gateUsed = x.gateUsed
        /\ inst.audit = x.audit /\ inst.state = x.state
    BY <1>2 DEF Starts
  <2> HIDE DEF x
  <2> QED
    BY <2>1, <2>2
<1>4. \A s \in Steps : inst.status[s] \notin Completed \cup {"skipped"}
  BY <1>2 DEF Active, Completed
<1>5. ActiveAsDefined
  BY <1>2 DEF ActiveAsDefined, Started, Active
<1>6. DoneIffAllTerminal
  BY <1>3, <1>4, StepsAssumption DEF DoneIffAllTerminal, Over, Terminal
<1>7. \A s \in Steps : inst.token[s] <=> wf.gate[s] /\ Started(wf, x, inst, s, 0)
  BY <1>2, <1>3 DEF Starts
<1>8. \A s \in Steps : Begun(s) <=> Started(wf, x, inst, s, 0)
  <2> TAKE s \in Steps
  <2>1. ActiveStatus(wf, s) \in Active
    BY DEF ActiveStatus, Active
  <2> QED
    BY <1>2, <2>1 DEF Begun, Started, Active, Completed
<1>9. CompletedOnce
  BY <1>3, <1>4, <1>7, <1>8 DEF CompletedOnce
<1>10. NotifiedOnce
  <2> SUFFICES ASSUME NEW s \in Steps
      PROVE  /\ mail[s]["link"] = IF wf.notify[s] /\ inst.token[s] THEN 1 ELSE 0
             /\ mail[s]["assigned"] = IF wf.assign[s] /\ Begun(s) THEN 1 ELSE 0
             /\ mail[s]["completed"] =
                  IF /\ wf.notify[s] /\ ~wf.gate[s]
                     /\ inst.status[s] \in Completed THEN 1 ELSE 0
             /\ mail[s]["overdue"] =
                  IF (wf.notify[s] \/ wf.assign[s]) /\ inst.notified[s] THEN 1 ELSE 0
    BY Zenon DEF NotifiedOnce
  <2>1. \A k \in Kinds : mail[s][k] = Fired(x, inst, s, k)
    BY DEF Init
  <2>2. /\ mail[s]["link"] = Fired(x, inst, s, "link")
        /\ mail[s]["assigned"] = Fired(x, inst, s, "assigned")
        /\ mail[s]["completed"] = Fired(x, inst, s, "completed")
        /\ mail[s]["overdue"] = Fired(x, inst, s, "overdue")
    BY <2>1 DEF Kinds
  <2>3. x.status[s] = "pending" /\ x.status[s] \notin Active /\ ~x.notified[s]
    BY <1>3 DEF Active
  <2>4. Begun(s) <=> inst.status[s] \in Active
    BY <1>4 DEF Begun
  <2> HIDE DEF x
  <2> QED
    BY <1>4, <1>7, <1>8, <2>2, <2>3, <2>4, FiredKinds
<1>11. NoneLeftBehind
  <2> SUFFICES ASSUME NEW s \in Steps, inst.status[s] = "pending",
                      NeedsSatisfied(wf, inst, s)
               PROVE  inst.scheduleAt[s] > 0
    BY DEF NoneLeftBehind
  <2>1. inst.scheduleAt[s] \in Times
    BY <1>1, TypeFacts DEF InstanceType
  <2>2. inst.scheduleAt[s] \in Int
    BY <2>1 DEF Times, NoTime
  <2>3. ~(inst.scheduleAt[s] <= 0)
    BY <1>2 DEF NoneDue
  <2> QED
    BY <2>2, <2>3
<1>12. SentinelHeld
  BY <1>3 DEF SentinelHeld
<1>13. SkippedByAsk /\ AskSettled /\ LeftOut
  BY <1>4 DEF SkippedByAsk, AskSettled, LeftOut, PassedOver
<1> QED
  BY <1>1, <1>5, <1>6, <1>9, <1>10, <1>11, <1>12, <1>13, RequiredListedInit DEF Inv

LEMMA InvStep ==
    ASSUME Inv, [Next]_vars
    PROVE  Inv'
BY TypeStep, NeedsMetStep, ActiveAsDefinedStep, RequiredListedStep, DoneIffAllTerminalStep,
   CompletedOnceStep, NotifiedOnceStep, NoneLeftBehindStep, SentinelHeldStep,
   SkippedByAskStep, AskSettledStep, LeftOutStep
DEF Inv

LEMMA Invariance == Spec => []Inv
<1>1. Init => Inv
  BY InvInit
<1>2. Inv /\ [Next]_vars => Inv'
  BY InvStep
<1> QED
  BY <1>1, <1>2, PTL DEF Spec

\* recalc runs at completions only, yet in every reachable state the instance is
\* done exactly when all of its steps are terminal, and is archived then.
THEOREM DoneWhenAllTerminal == Spec => []DoneIffAllTerminal
<1>1. Inv => DoneIffAllTerminal
  BY DEF Inv
<1> QED
  BY <1>1, Invariance, PTL

\* Whatever the order of buttons, links and ticks, a step is completed by one
\* call, of the kind its definition asks for, and its token is used up with it.
THEOREM CompletedByOneCall == Spec => []CompletedOnce
<1>1. Inv => CompletedOnce
  BY DEF Inv
<1> QED
  BY <1>1, Invariance, PTL

\* Every mail of the engine goes out once, for the change that calls for it.
THEOREM EachMailOnce == Spec => []NotifiedOnce
<1>1. Inv => NotifiedOnce
  BY DEF Inv
<1> QED
  BY <1>1, Invariance, PTL

\* A pending step with nothing to wait for has a schedule in the future of the
\* instance's creation: completions and ticks leave no other one behind.
THEOREM OnlyScheduledWait == Spec => []NoneLeftBehind
<1>1. Inv => NoneLeftBehind
  BY DEF Inv
<1> QED
  BY <1>1, Invariance, PTL

LEMMA BegunWasRouted ==
    ASSUME Inv
    PROVE  RoutedBeforeBegun
<1> SUFFICES ASSUME NEW t \in AskTargets(wf) \cap Steps, wf.needs[t] = {}, Begun(t)
             PROVE  \E s \in Steps : Chose(s, t)
  BY DEF RoutedBeforeBegun, Chose
<1>1. ~inst.sentinel[t]
  BY DEF Inv, NeedsMet, NeedsSatisfied
<1> QED
  BY <1>1 DEF Inv, SentinelHeld

\* A target that needs nothing has begun only if a completed ask or gate has
\* chosen it: the sentinel of NewInstance holds it back until then.
THEOREM TargetsAwaitRouting == Spec => []RoutedBeforeBegun
BY BegunWasRouted, Invariance, PTL

LEMMA SplitIsExclusive ==
    ASSUME Inv
    PROVE  XorSplit
<1> SUFFICES ASSUME NEW s \in Steps, CleanRouting(wf, s), inst.status[s] \in Completed,
                    NEW i \in DOMAIN wf.ask[s]
             PROVE  inst.status[wf.ask[s][i]] = "skipped" <=> i # inst.chosen[s]
  BY DEF XorSplit
<1> DEFINE t == wf.ask[s][i]
<1>1. /\ t \in Steps
      /\ wf.needs[t] = {} \/ s \in wf.needs[t]
      /\ \A r \in Steps : \A j \in DOMAIN wf.ask[r] : t = wf.ask[r][j] => s = r /\ i = j
  BY DEF CleanRouting
<1>2. wf \in WorkflowType
  BY TypeFacts DEF Inv
<1>3. 0 \notin DOMAIN wf.ask[s] /\ wf.ask[s] # <<>>
  BY <1>2 DEF WorkflowType
<1>4. inst.chosen[s] \in DOMAIN wf.ask[s] /\ inst.chosen[s] # 0
  BY <1>3 DEF Inv, AskSettled
<1> HIDE DEF t
<1>5. ASSUME inst.status[t] = "skipped" PROVE i # inst.chosen[s]
  <2>1. PICK r \in Steps : PassedOver(r, t)
    BY <1>1, <1>5 DEF Inv, SkippedByAsk
  <2>2. PICK k \in DOMAIN wf.ask[r] \ {inst.chosen[r]} : wf.ask[r][k] = t
    BY <2>1 DEF PassedOver, OtherTarget
  <2> QED
    BY <1>1, <2>2
<1>6. ASSUME i # inst.chosen[s] PROVE inst.status[t] = "skipped"
  <2>1. PassedOver(s, t)
    BY <1>4, <1>6 DEF PassedOver, OtherTarget, t
  <2>2. CASE s \in wf.needs[t]
    BY <1>1, <2>1, <2>2 DEF Inv, LeftOut
  <2>3. CASE wf.needs[t] = {}
    <3>1. ~Begun(t)
      <4> SUFFICES ASSUME Begun(t) PROVE FALSE
        OBVIOUS
      <4>1. t \in AskTargets(wf)
        BY DEF AskTargets, t
      <4>2. PICK r \in Steps : Chose(r, t)
        BY <1>1, <2>3, <4>1, BegunWasRouted DEF RoutedBeforeBegun, Chose
      <4> QED
        BY <1>1, <1>6, <4>2 DEF Chose
    <3>2. inst.status[t] # "pending"
      BY <1>1, <1>3, <2>1 DEF Inv, AskSettled, PassedOver
    <3>3. inst.status[t] \in Status
      BY <1>1, TypeFacts DEF Inv, InstanceType
    <3> QED
      BY <3>1, <3>2, <3>3 DEF Begun, Status, Terminal
  <2> QED
    BY <1>1, <2>2, <2>3
<1> QED
  BY <1>5, <1>6 DEF t

\* Of the targets of a completed ask or gate, the chosen one is not skipped and
\* the others are, for every definition that routes to them from there alone.
THEOREM SplitExcludes == Spec => []XorSplit
BY SplitIsExclusive, Invariance, PTL

-----------------------------------------------------------------------------
(* No dead end: a pending step of least rank is held back by nothing. *)

LEMMA LeastNatural ==
    ASSUME NEW T \in SUBSET Nat, T # {}
    PROVE  \E m \in T : \A n \in T : m <= n
<1> DEFINE R == OpToRel(<, Nat)
<1>1. IsWellFoundedOn(R, Nat)
  BY NatLessThanWellFounded
<1>2. \A m, n \in Nat : n < m => <<n, m>> \in R
  BY DEF OpToRel
<1> HIDE DEF R
<1>3. PICK m \in T : \A n \in T : ~(<<n, m>> \in R)
  BY <1>1, WFMin
<1>4. \A n \in T : ~(n < m)
  BY <1>2, <1>3
<1>5. \A n \in T : m <= n
  BY <1>4
<1> QED
  BY <1>5

\* An active step of an instance takes a call, unless it is a gate that lapsed.
LEMMA ActiveGoesOn ==
    ASSUME Inv, NEW s \in Steps, inst.status[s] \in Active
    PROVE  CanGoOn(s) \/ Lapsed(s)
<1>1. /\ wf \in WorkflowType /\ inst \in InstanceType /\ now \in Nat
      /\ inst.status[s] = ActiveStatus(wf, s)
  BY TypeFacts DEF Inv, ActiveAsDefined
<1>2. wf.ask[s] # <<>> => 1 \in DOMAIN wf.ask[s]
  BY <1>1 DEF WorkflowType
<1>3. CASE inst.status[s] = "ready"
  <2>1. CheckAllListItems(inst, s).status = inst.status
        /\ CheckAllListItems(inst, s).checked[s] = inst.items[s]
    BY <1>1 DEF CheckAllListItems, InstanceType
  <2>2. wf.required[s] \subseteq inst.items[s]
    BY DEF Inv, RequiredListed
  <2> QED
    BY <1>3, <2>1, <2>2 DEF CanGoOn, CanAdvance, RequiredListBlocked
<1>4. CASE inst.status[s] = "ask"
  <2>1. wf.ask[s] # <<>>
    BY <1>1, <1>4 DEF ActiveStatus
  <2> QED
    BY <1>2, <1>4, <2>1 DEF CanGoOn, CanAnswer
<1>5. CASE inst.status[s] = "gate" /\ ~Lapsed(s)
  <2>1. wf.gate[s] /\ Begun(s)
    BY <1>1, <1>5 DEF ActiveStatus, Begun
  <2>2. inst.dueAt[s] = NoTime \/ now <= inst.dueAt[s]
    <3>1. inst.dueAt[s] \in Int
      BY <1>1 DEF InstanceType, Times, NoTime
    <3> QED
      BY <1>1, <1>5, <3>1 DEF Lapsed
  <2>3. LinkValid(inst, s, now)
    BY <1>5, <2>1, <2>2 DEF Inv, CompletedOnce, LinkValid
  <2>4. \E i \in DOMAIN wf.ask[s] \cup {0} : wf.ask[s] = <<>> \/ i \in DOMAIN wf.ask[s]
    BY <1>2
  <2> QED
    BY <2>3, <2>4 DEF CanGoOn, CanRedeem
<1> QED
  BY <1>3, <1>4, <1>5 DEF Active

\* A pending step starts in its time, or waits for an unfinished step of lower
\* rank.
LEMMA PendingWaits ==
    ASSUME Inv, Straightforward(wf),
           NEW rank \in [Steps -> Nat],
           \A s \in Steps :
              /\ \A n \in wf.needs[s] : n \in Steps /\ rank[n] < rank[s]
              /\ \A i \in DOMAIN wf.ask[s] :
                    wf.ask[s][i] \in Steps => rank[s] < rank[wf.ask[s][i]],
           NEW s \in Steps, inst.status[s] = "pending"
    PROVE  CanGoOn(s) \/ \E r \in WaitsFor(s) : rank[r] < rank[s]
<1>1. CASE NeedsSatisfied(wf, inst, s)
  BY <1>1 DEF CanGoOn
<1>2. CASE ~NeedsSatisfied(wf, inst, s) /\ ~inst.sentinel[s]
  <2>1. PICK r \in wf.needs[s] : r \in Steps /\ ~Over(r)
    BY <1>2 DEF NeedsSatisfied, Over
  <2> QED
    BY <2>1 DEF WaitsFor
<1>3. CASE inst.sentinel[s]
  <2>1. PICK r \in Steps : \E i \in DOMAIN wf.ask[r] : wf.ask[r][i] = s
    BY <1>3 DEF Inv, SentinelHeld, AskTargets
  <2>2. rank[r] < rank[s]
    BY <2>1
  <2>3. CASE ~Over(r)
    BY <1>3, <2>1, <2>2, <2>3 DEF WaitsFor
  <2>4. CASE Over(r)
    <3>1. wf \in WorkflowType
      BY TypeFacts DEF Inv
    <3>2. wf.ask[r] # <<>> /\ 0 \notin DOMAIN wf.ask[r]
      BY <2>1, <3>1 DEF WorkflowType
    <3>3. inst.status[r] # "skipped"
      <4> SUFFICES ASSUME inst.status[r] = "skipped" PROVE FALSE
        OBVIOUS
      <4>1. PICK u \in Steps : PassedOver(u, r)
        BY DEF Inv, SkippedByAsk
      <4>2. r \in AskTargets(wf)
        BY <4>1 DEF PassedOver, OtherTarget, AskTargets
      <4> QED
        BY <3>2, <4>2 DEF Straightforward
    <3>4. /\ inst.chosen[r] \in DOMAIN wf.ask[r]
          /\ wf.ask[r][inst.chosen[r]] = s => ~inst.sentinel[s]
          /\ OtherTarget(wf, r, inst.chosen[r], s) => inst.status[s] # "pending"
      BY <2>4, <3>2, <3>3 DEF Inv, AskSettled, Terminal, Over
    <3>5. OtherTarget(wf, r, inst.chosen[r], s)
      BY <1>3, <2>1, <3>2, <3>4 DEF OtherTarget
    <3> QED
      BY <3>4, <3>5
  <2> QED
    BY <2>3, <2>4
<1> QED
  BY <1>1, <1>2, <1>3

LEMMA AlwaysAWayOn ==
    ASSUME Inv
    PROVE  NeverStuck
<1> SUFFICES ASSUME Straightforward(wf),
                    NEW S \in SUBSET {s \in Steps : ~Over(s)}, S # {},
                    \A s \in S : WaitsFor(s) \subseteq S
             PROVE  \E s \in S : CanGoOn(s) \/ Lapsed(s)
  BY DEF NeverStuck
<1>1. \A s \in S : s \in Steps /\ inst.status[s] \in {"pending"} \cup Active
  BY TypeFacts DEF Inv, InstanceType, Status, Over
<1>2. PICK rank \in [Steps -> 1 .. Cardinality(Steps)] : \A s \in Steps :
         /\ \A n \in wf.needs[s] : n \in Steps /\ rank[n] < rank[s]
         /\ \A i \in DOMAIN wf.ask[s] :
               wf.ask[s][i] \in Steps => rank[s] < rank[wf.ask[s][i]]
  BY DEF Straightforward
<1>3. rank \in [Steps -> Nat]
  <2> DEFINE top == Cardinality(Steps)
  <2>1. rank \in [Steps -> 1 .. top]
    OBVIOUS
  <2> HIDE DEF top
  <2>2. 1 .. top \subseteq Nat
    OBVIOUS
  <2> QED
    BY <2>1, <2>2
<1> DEFINE ranks == {rank[s] : s \in S}
<1>4. PICK m \in ranks : \A n \in ranks : m <= n
  <2>1. ranks \in SUBSET Nat /\ ranks # {}
    BY <1>1, <1>3
  <2> HIDE DEF ranks
  <2> QED
    BY <2>1, LeastNatural
<1>5. PICK s \in S : rank[s] = m
  OBVIOUS
<1>6. \A r \in S : ~(rank[r] < rank[s])
  <2> TAKE r \in S
  <2>1. rank[r] \in ranks
    OBVIOUS
  <2>2. m <= rank[r]
    BY <1>4, <2>1
  <2>3. rank[r] \in Nat /\ rank[s] \in Nat
    BY <1>1, <1>3
  <2> HIDE DEF ranks
  <2> QED
    BY <1>5, <2>2, <2>3
<1>7. CASE inst.status[s] \in Active
  BY <1>1, <1>7, ActiveGoesOn
<1>8. CASE inst.status[s] = "pending"
  <2>1. ~\E r \in WaitsFor(s) : rank[r] < rank[s]
    BY <1>6
  <2>2. CanGoOn(s)
    BY <1>1, <1>2, <1>3, <1>8, <2>1, PendingWaits
  <2> QED
    BY <2>2
<1> QED
  BY <1>1, <1>7, <1>8

\* No order of buttons, links and ticks leads into a dead end, for every
\* definition whose needs and asks can be put in an order and in which no ask is
\* offered by another one: of the unfinished steps no group waits only for
\* itself, and what all of them wait for in the end takes a call, starts in its
\* time or is a gate that nobody answered before its due date.
THEOREM NoDeadEnd == Spec => []NeverStuck
BY AlwaysAWayOn, Invariance, PTL

-----------------------------------------------------------------------------
(* The instance implements the life cycle of module Lifecycle. *)

PhaseMap == [s \in Steps |-> PhaseOf(inst.status[s])]

LEMMA Phases ==
    ASSUME NEW st \in Status
    PROVE  /\ PhaseOf(st) \in Promise!Phases
           /\ PhaseOf(st) = "waiting" <=> st = "pending"
           /\ PhaseOf(st) = "open" <=> st \in Active
           /\ PhaseOf(st) = "finished" <=> st \in Completed
           /\ PhaseOf(st) = "dropped" <=> st = "skipped"
           /\ PhaseOf(st) \in Promise!Over <=> st \in Terminal
BY DEF PhaseOf, Promise!Phases, Promise!Over, Status, Active, Completed, Terminal

\* What a step begins after is over in its phases as in its statuses.
LEMMA NeedsOpen ==
    ASSUME NEW x \in InstanceType, NEW s \in Steps, NeedsSatisfied(wf, x, s),
           NEW ph, \A r \in Steps : ph[r] = PhaseOf(x.status[r])
    PROVE  Promise!MayOpen(ph, s)
BY Phases DEF NeedsSatisfied, Promise!MayOpen, InstanceType

LEMMA LifecycleInit ==
    ASSUME Init
    PROVE  Promise!Init
<1>1. wf \in WorkflowType /\ inst \in InstanceType
  BY InvInit, TypeFacts DEF Inv
<1>2. wf.needs \in [Steps -> SUBSET Names]
  BY <1>1 DEF WorkflowType
<1>3. \A s \in Steps : inst.status[s] \in Status /\ inst.status[s] \in {"pending"} \cup Active
  BY <1>1, InitStarts DEF InstanceType
<1>4. PhaseMap \in [Steps -> {"waiting", "open"}]
  BY <1>3, Phases DEF PhaseMap
<1>5. inst.state # "done"
  BY <1>3, StepsAssumption, InvInit
     DEF Inv, DoneIffAllTerminal, Over, Active, Terminal, Completed
<1>6. ASSUME NEW s \in Steps, PhaseMap[s] = "open"
      PROVE  wf.needs[s] = {}
  <2>1. inst.status[s] # "pending"
    BY <1>3, <1>6, Phases DEF PhaseMap
  <2>2. NeedsSatisfied(wf, inst, s)
    BY <2>1, InitStarts DEF Started
  <2> QED
    BY <1>3, <2>2 DEF NeedsSatisfied, Active, Terminal, Completed
<1> QED
  BY <1>2, <1>4, <1>5, <1>6, Zenon DEF Promise!Init, PhaseMap

\* The completion of step s finishes it, drops the targets it passes over and
\* opens the steps it lets start.
LEMMA FinishesIsFinish ==
    ASSUME Inv, Inv', wf' = wf, NEW s \in Steps, NEW i, NEW act, Finishes(s, i, act)
    PROVE  Promise!Finish(s)
<1>1. inst \in InstanceType /\ inst' \in InstanceType
  BY TypeFacts DEF Inv, TypeOK
<1>2. \A r \in Steps : inst.status[r] \in Status /\ inst'.status[r] \in Status
  BY <1>1 DEF InstanceType
<1>3. /\ \A r \in Steps : PhaseMap[r] = PhaseOf(inst.status[r])
      /\ \A r \in Steps : PhaseMap'[r] = PhaseOf(inst'.status[r])
  BY DEF PhaseMap
<1>4. PhaseMap[s] = "open" /\ PhaseMap'[s] = "finished"
  BY <1>2, <1>3, Phases DEF Finishes, Completes
<1>5. PhaseMap' \in [Steps -> Promise!Phases]
  BY <1>2, Phases DEF PhaseMap
<1>6. ASSUME NEW r \in Steps \ {s}
      PROVE  \/ PhaseMap'[r] = PhaseMap[r]
             \/ PhaseMap[r] = "waiting" /\ PhaseMap'[r] = "dropped"
             \/ /\ PhaseMap[r] = "waiting" /\ PhaseMap'[r] = "open"
                /\ Promise!MayOpen(PhaseMap', r)
  <2>1. \/ inst'.status[r] = inst.status[r]
        \/ inst.status[r] = "pending" /\ inst'.status[r] = "skipped"
        \/ Started(wf, inst, inst', r, now)
    BY DEF Finishes, Completes
  <2>2. CASE Started(wf, inst, inst', r, now)
    <3>1. PhaseMap[r] = "waiting" /\ PhaseMap'[r] = "open"
      BY <1>2, <1>3, <2>2, Phases DEF Started, ActiveStatus, Active
    <3>2. Promise!MayOpen(PhaseMap', r)
      BY <1>1, <1>3, <2>2, NeedsOpen DEF Started
    <3> QED
      BY <3>1, <3>2
  <2> QED
    BY <1>2, <1>3, <2>1, <2>2, Phases
<1>7. (inst'.state = "done") = (\A r \in Steps : PhaseMap'[r] \in Promise!Over)
  <2>1. inst'.state = "done" <=> \A r \in Steps : inst'.status[r] \in Terminal
    BY Zenon DEF Inv, DoneIffAllTerminal, Over
  <2>2. \A r \in Steps : inst'.status[r] \in Terminal <=> PhaseMap'[r] \in Promise!Over
    BY <1>2, <1>3, Phases
  <2> QED
    BY <2>1, <2>2, Zenon
<1> QED
  BY <1>4, <1>5, <1>6, <1>7, Zenon DEF Promise!Finish, PhaseMap

\* A tick opens the steps whose time has come.
LEMMA StartsIsOpen ==
    ASSUME Inv, Inv', wf' = wf, Starts(wf, inst, inst', now)
    PROVE  Promise!Open
<1>1. inst \in InstanceType /\ inst' \in InstanceType
  BY TypeFacts DEF Inv, TypeOK
<1>2. \A r \in Steps : inst.status[r] \in Status /\ inst'.status[r] \in Status
  BY <1>1 DEF InstanceType
<1>3. /\ \A r \in Steps : PhaseMap[r] = PhaseOf(inst.status[r])
      /\ \A r \in Steps : PhaseMap'[r] = PhaseOf(inst'.status[r])
  BY DEF PhaseMap
<1>4. PhaseMap' \in [Steps -> Promise!Phases]
  BY <1>2, Phases DEF PhaseMap
<1>5. ASSUME NEW r \in Steps
      PROVE  \/ PhaseMap'[r] = PhaseMap[r]
             \/ /\ PhaseMap[r] = "waiting" /\ PhaseMap'[r] = "open"
                /\ Promise!MayOpen(PhaseMap, r)
  <2>1. CASE inst'.status[r] = inst.status[r]
    BY <1>3, <2>1
  <2>2. CASE Started(wf, inst, inst', r, now)
    <3>1. PhaseMap[r] = "waiting" /\ PhaseMap'[r] = "open"
      BY <1>2, <1>3, <2>2, Phases DEF Started, ActiveStatus, Active
    <3>2. NeedsSatisfied(wf, inst, r)
      BY <2>2 DEF Started, Starts
    <3>3. Promise!MayOpen(PhaseMap, r)
      BY <1>1, <1>3, <3>2, NeedsOpen
    <3> QED
      BY <3>1, <3>3
  <2> QED
    BY <2>1, <2>2 DEF Starts
<1>6. (inst'.state = "done") = (inst.state = "done")
  BY DEF Starts
<1> QED
  BY <1>4, <1>5, <1>6, Zenon DEF Promise!Open, PhaseMap

\* Every step of the instance is a step of its life cycle, or none.
LEMMA LifecycleStep ==
    ASSUME Inv, Inv', [Next]_vars
    PROVE  [Promise!Next]_(Promise!vars)
<1>1. wf' = wf
  BY NextChanges DEF Inv
<1>2. CASE inst'.status = inst.status /\ inst'.state = inst.state
  BY <1>1, <1>2 DEF Promise!vars
<1>3. ASSUME NEW s \in Steps, NEW i, NEW act, Finishes(s, i, act)
      PROVE  Promise!Next
  BY <1>1, <1>3, FinishesIsFinish DEF Promise!Next
<1>4. CASE Starts(wf, inst, inst', now)
  BY <1>1, <1>4, StartsIsOpen DEF Promise!Next
<1> QED
  BY <1>2, <1>3, <1>4, NextChanges DEF Inv, Changes, Edits

\* The engine keeps what module Lifecycle promises of it: each call and each tick
\* finishes one open step, or opens waiting ones, in the order they come after
\* each other, or is not seen; the instance closes with its last step.
THEOREM RefinesLifecycle == Spec => ImplementsLifecycle
<1>1. Init => Promise!Init
  BY LifecycleInit
<1>2. Inv /\ Inv' /\ [Next]_vars => [Promise!Next]_(Promise!vars)
  BY LifecycleStep
<1> QED
  BY <1>1, <1>2, Invariance, PTL DEF Spec, ImplementsLifecycle, Promise!Spec
=============================================================================
