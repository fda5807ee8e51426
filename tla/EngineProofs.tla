---------------------------- MODULE EngineProofs ----------------------------
(***************************************************************************)
(* Lemmas about the operators of module Engine: their results are          *)
(* instances, and what each call changes of the instance it is given.      *)
(* They speak of no variable, so the proofs about one instance             *)
(* (InstanceProofs) and about the store (StoreProofs) both rest on them.   *)
(***************************************************************************)
EXTENDS Engine, TLAPS

-----------------------------------------------------------------------------
(* The operators of the engine return instances. *)

LEMMA ActivateType ==
    ASSUME NEW w \in WorkflowType, NEW x \in InstanceType, NEW S, NEW t \in Nat
    PROVE  Activate(w, x, S, t) \in InstanceType
<1> DEFINE st == [s \in Steps |-> IF s \in S THEN ActiveStatus(w, s) ELSE x.status[s]]
           tk == [s \in Steps |-> x.token[s] \/ (s \in S /\ w.gate[s])]
           du == [s \in Steps |-> IF s \in S /\ w.due[s] # NoTime /\ x.dueAt[s] = NoTime
                                  THEN t + w.due[s] ELSE x.dueAt[s]]
<1>1. st \in [Steps -> Status]
  BY DEF ActiveStatus, InstanceType, Status, Active
<1>2. tk \in [Steps -> BOOLEAN]
  BY DEF InstanceType
<1>3. du \in [Steps -> Times]
  <2>1. \A s \in Steps : w.due[s] \in Times /\ x.dueAt[s] \in Times
    BY DEF WorkflowType, InstanceType
  <2> QED
    BY <2>1 DEF Times, NoTime
<1>4. Activate(w, x, S, t) = [x EXCEPT !.status = st, !.token = tk, !.dueAt = du]
  BY DEF Activate
<1> HIDE DEF st, tk, du
<1> QED
  BY <1>1, <1>2, <1>3, <1>4 DEF InstanceType

LEMMA ActivateReadyType ==
    ASSUME NEW w \in WorkflowType, NEW x \in InstanceType, NEW t \in Nat
    PROVE  ActivateReady(w, x, t) \in InstanceType
BY ActivateType DEF ActivateReady

LEMMA UnstartedType ==
    ASSUME NEW w \in WorkflowType, NEW t \in Nat
    PROVE  Unstarted(w, t) \in InstanceType
<1> DEFINE at == [s \in Steps |-> IF w.schedule[s] = NoTime
                                  THEN NoTime ELSE t + w.schedule[s]]
<1>1. at \in [Steps -> Times]
  <2>1. \A s \in Steps : w.schedule[s] \in Times
    BY DEF WorkflowType
  <2> QED
    BY <2>1 DEF Times, NoTime
<1>2. w.items \in [Steps -> SUBSET Items]
  BY DEF WorkflowType
<1>3. [s \in Steps |-> <<>>] \in [Steps -> Seq({"complete", "ask", "gate"})]
  OBVIOUS
<1> QED
  BY <1>1, <1>2, <1>3 DEF Unstarted, InstanceType, Status, Times, NoTime

LEMMA NewInstanceType ==
    ASSUME NEW w \in WorkflowType, NEW t \in Nat
    PROVE  NewInstance(w, t) \in InstanceType
BY UnstartedType, ActivateReadyType DEF NewInstance

LEMMA RouteType ==
    ASSUME NEW w \in WorkflowType, NEW x \in InstanceType, NEW s \in Steps,
           NEW i \in Nat
    PROVE  Route(w, x, s, i) \in InstanceType
BY DEF Route, InstanceType, WorkflowType, Status, Terminal

LEMMA AuditedType ==
    ASSUME NEW x \in InstanceType, NEW s \in Steps,
           NEW act \in {"complete", "ask", "gate"}
    PROVE  Audited(x, s, act) \in InstanceType
<1>1. x.audit[s] \in Seq({"complete", "ask", "gate"})
  BY DEF InstanceType
<1>2. Append(x.audit[s], act) \in Seq({"complete", "ask", "gate"})
  BY <1>1
<1>3. [x.audit EXCEPT ![s] = Append(x.audit[s], act)]
        \in [Steps -> Seq({"complete", "ask", "gate"})]
  BY <1>2 DEF InstanceType
<1>4. Audited(x, s, act) = [x EXCEPT !.audit = [x.audit EXCEPT ![s] = Append(x.audit[s], act)]]
  BY DEF Audited
<1> QED
  BY <1>3, <1>4 DEF InstanceType

LEMMA CompleteStepType ==
    ASSUME NEW w \in WorkflowType, NEW x \in InstanceType, NEW s \in Steps,
           NEW t \in Nat
    PROVE  CompleteStep(w, x, s, t) \in InstanceType
<1> DEFINE over == [x EXCEPT !.status[s] = IF w.ends[s] THEN "ended" ELSE "done"]
<1>1. over \in InstanceType
  BY DEF InstanceType, Status, Terminal, Completed
<1>2. ActivateReady(w, over, t) \in InstanceType
  BY <1>1, ActivateReadyType
<1>3. \A y \in InstanceType : Recalc(y) \in InstanceType
  BY DEF Recalc, InstanceType
<1> QED
  BY <1>2, <1>3 DEF CompleteStep

LEMMA AdvanceStepType ==
    ASSUME NEW w \in WorkflowType, NEW x \in InstanceType, NEW s \in Steps,
           NEW t \in Nat
    PROVE  AdvanceStep(w, x, s, t) \in InstanceType
BY AuditedType, CompleteStepType DEF AdvanceStep

LEMMA AnswerAskType ==
    ASSUME NEW w \in WorkflowType, NEW x \in InstanceType, NEW s \in Steps,
           NEW i \in Nat, NEW t \in Nat
    PROVE  AnswerAsk(w, x, s, i, t) \in InstanceType
BY AuditedType, RouteType, CompleteStepType DEF AnswerAsk

LEMMA RedeemGateType ==
    ASSUME NEW w \in WorkflowType, NEW x \in InstanceType, NEW s \in Steps,
           NEW i \in Nat, NEW t \in Nat
    PROVE  RedeemGate(w, x, s, i, t) \in InstanceType
<1>1. [x EXCEPT !.gateUsed[s] = TRUE] \in InstanceType
  BY DEF InstanceType
<1>2. Audited([x EXCEPT !.gateUsed[s] = TRUE], s, "gate") \in InstanceType
  BY <1>1, AuditedType
<1> QED
  BY <1>2, RouteType, CompleteStepType DEF RedeemGate

LEMMA TickType ==
    ASSUME NEW w \in WorkflowType, NEW x \in InstanceType, NEW t \in Nat
    PROVE  Tick(w, x, t) \in InstanceType
<1>1. TickScheduled(w, x, t) \in InstanceType
  BY ActivateType, ActivateReadyType DEF TickScheduled
<1>2. \A y \in InstanceType : TickOverdue(y, t) \in InstanceType
  BY DEF TickOverdue, InstanceType
<1> QED
  BY <1>1, <1>2 DEF Tick

LEMMA ToggleType ==
    ASSUME NEW x \in InstanceType, NEW s \in Steps, NEW item \in Items
    PROVE  ToggleListItem(x, s, item) \in InstanceType
BY DEF ToggleListItem, InstanceType

LEMMA CheckAllType ==
    ASSUME NEW x \in InstanceType, NEW s \in Steps
    PROVE  CheckAllListItems(x, s) \in InstanceType
BY DEF CheckAllListItems, InstanceType

LEMMA AddItemType ==
    ASSUME NEW x \in InstanceType, NEW s \in Steps, NEW item \in Items
    PROVE  AddListItem(x, s, item) \in InstanceType
BY DEF AddListItem, InstanceType

-----------------------------------------------------------------------------
(***************************************************************************)
(* What a call changes.  Whatever it is, it completes one step, starts     *)
(* steps whose time has come, or edits what no step waits for.             *)
(***************************************************************************)

\* The routing of answer i of step s leaves r out; an i of 0 routes nothing.
OtherTarget(w, s, i, r) == i # 0 /\ \E k \in DOMAIN w.ask[s] \ {i} : w.ask[s][k] = r

\* Step r is started at time t by the call that makes y of x.
Started(w, x, y, r, t) ==
    /\ x.status[r] = "pending"
    /\ y.status[r] = ActiveStatus(w, r)
    /\ NeedsSatisfied(w, y, r)
    /\ x.scheduleAt[r] <= t

\* No step of y is left pending whose needs are over and whose time has come.
NoneDue(w, y, t) ==
    \A r \in Steps : y.status[r] = "pending" /\ NeedsSatisfied(w, y, r)
                       => ~(y.scheduleAt[r] <= t)

\* A call at time t completes step s of x with answer i, by an entry act.
Completes(w, x, y, s, i, act, t) ==
    /\ y \in InstanceType
    /\ x.status[s] \in Active
    /\ y.status[s] \in Completed
    /\ \A r \in Steps \ {s} :
          \/ y.status[r] = x.status[r]
          \/ x.status[r] = "pending" /\ y.status[r] = "skipped" /\ OtherTarget(w, s, i, r)
          \/ Started(w, x, y, r, t)
    /\ \A r \in Steps : OtherTarget(w, s, i, r) => y.status[r] # "pending"
    /\ \A r \in Steps : OtherTarget(w, s, i, r) /\ x.status[r] = "pending"
                          => y.status[r] = "skipped"
    /\ NoneDue(w, y, t)
    /\ \A r \in Steps : y.sentinel[r] <=> x.sentinel[r] /\ ~(i # 0 /\ w.ask[s][i] = r)
    /\ \A r \in Steps :
          y.token[r] <=> x.token[r] \/ (w.gate[r] /\ Started(w, x, y, r, t))
    /\ y.chosen = IF i = 0 THEN x.chosen ELSE [x.chosen EXCEPT ![s] = i]
    /\ y.gateUsed = IF act = "gate" THEN [x.gateUsed EXCEPT ![s] = TRUE] ELSE x.gateUsed
    /\ y.audit = [x.audit EXCEPT ![s] = Append(x.audit[s], act)]
    /\ y.scheduleAt = x.scheduleAt /\ y.notified = x.notified /\ y.items = x.items
    /\ y.state = "done" <=> \A r \in Steps : y.status[r] \in Terminal
    /\ y.archived <=> x.archived \/ y.state = "done"

\* A call at time t starts the steps whose time has come, and no other.
Starts(w, x, y, t) ==
    /\ y \in InstanceType
    /\ \A r \in Steps : y.status[r] = x.status[r] \/ Started(w, x, y, r, t)
    /\ \A r \in Steps : NeedsSatisfied(w, y, r) <=> NeedsSatisfied(w, x, r)
    /\ \A r \in Steps :
          y.token[r] <=> x.token[r] \/ (w.gate[r] /\ Started(w, x, y, r, t))
    /\ \A r \in Steps : x.notified[r] => y.notified[r]
    /\ y.chosen = x.chosen /\ y.gateUsed = x.gateUsed /\ y.audit = x.audit
    /\ y.sentinel = x.sentinel /\ y.scheduleAt = x.scheduleAt /\ y.items = x.items
    /\ y.state = x.state /\ y.archived = x.archived

\* It starts those of S.
StartsAll(w, x, y, S, t) ==
    /\ Starts(w, x, y, t)
    /\ \A r \in Steps : r \in S <=> Started(w, x, y, r, t)

\* A call edits the checklists or archives the instance.
Edits(x, y) ==
    /\ y \in InstanceType
    /\ y.status = x.status /\ y.sentinel = x.sentinel /\ y.chosen = x.chosen
    /\ y.scheduleAt = x.scheduleAt /\ y.notified = x.notified
    /\ y.token = x.token /\ y.gateUsed = x.gateUsed /\ y.audit = x.audit
    /\ y.state = x.state /\ (x.archived => y.archived)
    /\ \A r \in Steps : x.items[r] \subseteq y.items[r]

\* Activation changes no need: what it starts was pending and is not terminal.
LEMMA ActivateEffect ==
    ASSUME NEW w \in WorkflowType, NEW x \in InstanceType, NEW t \in Nat,
           NEW S \in SUBSET Startable(w, x, t)
    PROVE  StartsAll(w, x, Activate(w, x, S, t), S, t)
<1> DEFINE y == Activate(w, x, S, t)
<1>1. y \in InstanceType
  BY ActivateType
<1>2. /\ y.sentinel = x.sentinel /\ y.scheduleAt = x.scheduleAt /\ y.items = x.items
      /\ y.chosen = x.chosen /\ y.gateUsed = x.gateUsed /\ y.audit = x.audit
      /\ y.notified = x.notified /\ y.state = x.state /\ y.archived = x.archived
      /\ y.status = [s \in Steps |->
                       IF s \in S THEN ActiveStatus(w, s) ELSE x.status[s]]
      /\ y.token = [s \in Steps |-> x.token[s] \/ (s \in S /\ w.gate[s])]
  BY DEF Activate, InstanceType
<1>3. \A s \in S : /\ s \in Steps /\ x.status[s] = "pending"
                   /\ NeedsSatisfied(w, x, s) /\ x.scheduleAt[s] <= t
  BY DEF Startable
<1>4. \A s \in Steps : ActiveStatus(w, s) \in Active
  BY DEF ActiveStatus, Active
<1> HIDE DEF y
<1>5. \A s \in Steps : x.status[s] \in Terminal <=> y.status[s] \in Terminal
  BY <1>2, <1>3, <1>4 DEF Terminal, Completed, Active
<1>6. \A s \in Steps : NeedsSatisfied(w, y, s) <=> NeedsSatisfied(w, x, s)
  BY <1>2, <1>5 DEF NeedsSatisfied
<1>7. \A r \in Steps : r \in S => Started(w, x, y, r, t)
  BY <1>2, <1>3, <1>6 DEF Started
<1>8. \A r \in Steps : r \notin S => y.status[r] = x.status[r]
  BY <1>2
<1>9. \A r \in Steps : r \in S \/ ~Started(w, x, y, r, t)
  BY <1>4, <1>8 DEF Started, Active
<1>10. \A r \in Steps : y.token[r] <=> x.token[r] \/ (w.gate[r] /\ Started(w, x, y, r, t))
  BY <1>2, <1>7, <1>9
<1>11. Starts(w, x, y, t)
  <2>1. \A r \in Steps : y.status[r] = x.status[r] \/ Started(w, x, y, r, t)
    BY <1>7, <1>8
  <2> QED
    BY <1>1, <1>2, <1>6, <2>1, <1>10 DEF Starts
<1>12. StartsAll(w, x, y, S, t)
  BY <1>7, <1>9, <1>11 DEF StartsAll
<1> QED
  BY <1>12 DEF y

LEMMA ActivateReadyEffect ==
    ASSUME NEW w \in WorkflowType, NEW x \in InstanceType, NEW t \in Nat
    PROVE  /\ Starts(w, x, ActivateReady(w, x, t), t)
           /\ NoneDue(w, ActivateReady(w, x, t), t)
<1> DEFINE S == Startable(w, x, t)
           y == Activate(w, x, S, t)
<1>1. StartsAll(w, x, y, S, t)
  BY ActivateEffect
<1>2. \A r \in Steps : ActiveStatus(w, r) # "pending"
  BY DEF ActiveStatus
<1> HIDE DEF y
<1>3. ASSUME NEW r \in Steps, y.status[r] = "pending", NeedsSatisfied(w, y, r)
      PROVE  ~(y.scheduleAt[r] <= t)
  <2>1. r \notin S
    BY <1>1, <1>2, <1>3 DEF StartsAll, Started
  <2>2. /\ x.status[r] = "pending" /\ NeedsSatisfied(w, x, r)
        /\ y.scheduleAt[r] = x.scheduleAt[r]
    BY <1>1, <1>3, <2>1 DEF StartsAll, Starts
  <2> QED
    BY <2>1, <2>2 DEF Startable
<1> QED
  BY <1>1, <1>3 DEF y, ActivateReady, StartsAll, NoneDue

(***************************************************************************)
(* A call that completes step s first makes z of x: it writes the trail    *)
(* and routes the answer.                                                  *)
(***************************************************************************)
Prepares(w, x, z, s, i, act) ==
    /\ z \in InstanceType
    /\ \A r \in Steps : z.status[r] = IF x.status[r] = "pending" /\ OtherTarget(w, s, i, r)
                                      THEN "skipped" ELSE x.status[r]
    /\ \A r \in Steps : z.sentinel[r] <=> x.sentinel[r] /\ ~(i # 0 /\ w.ask[s][i] = r)
    /\ z.chosen = IF i = 0 THEN x.chosen ELSE [x.chosen EXCEPT ![s] = i]
    /\ z.gateUsed = IF act = "gate" THEN [x.gateUsed EXCEPT ![s] = TRUE] ELSE x.gateUsed
    /\ z.audit = [x.audit EXCEPT ![s] = Append(x.audit[s], act)]
    /\ z.token = x.token /\ z.archived = x.archived
    /\ z.scheduleAt = x.scheduleAt /\ z.notified = x.notified /\ z.items = x.items

LEMMA PreparedCompletes ==
    ASSUME NEW w \in WorkflowType, NEW x \in InstanceType, NEW z, NEW t \in Nat,
           NEW s \in Steps, NEW i \in Nat, NEW act,
           Prepares(w, x, z, s, i, act), x.status[s] \in Active
    PROVE  Completes(w, x, CompleteStep(w, z, s, t), s, i, act, t)
<1> DEFINE over == [z EXCEPT !.status[s] = IF w.ends[s] THEN "ended" ELSE "done"]
           p == ActivateReady(w, over, t)
           y == Recalc(p)
<1>1. /\ over \in InstanceType
      /\ over.status[s] \in Completed
      /\ \A r \in Steps \ {s} : over.status[r] = z.status[r]
      /\ over.sentinel = z.sentinel /\ over.chosen = z.chosen
      /\ over.gateUsed = z.gateUsed /\ over.audit = z.audit
      /\ over.token = z.token /\ over.archived = z.archived
      /\ over.scheduleAt = z.scheduleAt /\ over.notified = z.notified /\ over.items = z.items
  BY ZenonT(40) DEF Prepares, InstanceType, Status, Terminal, Completed
<1> HIDE DEF over
<1>2. p \in InstanceType /\ Starts(w, over, p, t) /\ NoneDue(w, p, t)
  BY <1>1, ActivateReadyType, ActivateReadyEffect
<1>0. p.notified = over.notified
  BY DEF ActivateReady, Activate, InstanceType
<1> HIDE DEF p
<1>3. /\ y \in InstanceType
      /\ y.status = p.status /\ y.sentinel = p.sentinel /\ y.chosen = p.chosen
      /\ y.gateUsed = p.gateUsed /\ y.audit = p.audit /\ y.token = p.token
      /\ y.scheduleAt = p.scheduleAt /\ y.notified = p.notified /\ y.items = p.items
      /\ y.state = "done" <=> \A r \in Steps : p.status[r] \in Terminal
      /\ y.archived <=> p.archived \/ y.state = "done"
  BY <1>2 DEF Recalc, InstanceType
<1>4. y = CompleteStep(w, z, s, t)
  BY DEF CompleteStep, over, p
<1> HIDE DEF y
<1>5. \A r \in Steps : NeedsSatisfied(w, y, r) <=> NeedsSatisfied(w, p, r)
  BY <1>3 DEF NeedsSatisfied
<1>6. x.status[s] # "pending"
  BY DEF Active
<1>7. \A r \in Steps \ {s} : over.status[r] =
         IF x.status[r] = "pending" /\ OtherTarget(w, s, i, r)
         THEN "skipped" ELSE x.status[r]
  BY <1>1, ZenonT(40) DEF Prepares
<1>8. over.status[s] # "pending"
  BY <1>1 DEF Completed
<1>9. y.status[s] \in Completed
  BY <1>1, <1>2, <1>3, <1>8 DEF Starts, Started
<1>10. \A r \in Steps : Started(w, over, p, r, t) => r # s /\ Started(w, x, y, r, t)
  BY <1>1, <1>3, <1>5, <1>7, <1>8 DEF Started, Prepares
<1>11. ASSUME NEW r \in Steps \ {s}
       PROVE  \/ y.status[r] = x.status[r]
              \/ /\ x.status[r] = "pending" /\ y.status[r] = "skipped"
                 /\ OtherTarget(w, s, i, r)
              \/ Started(w, x, y, r, t)
  BY <1>2, <1>3, <1>7, <1>10 DEF Starts
<1>12. ASSUME NEW r \in Steps, OtherTarget(w, s, i, r)
       PROVE  /\ y.status[r] # "pending"
              /\ x.status[r] = "pending" => y.status[r] = "skipped"
  <2>1. over.status[r] # "pending" /\ (x.status[r] = "pending" => over.status[r] = "skipped")
    BY <1>6, <1>7, <1>8, <1>12
  <2>2. y.status[r] = over.status[r]
    BY <1>2, <1>3, <2>1 DEF Starts, Started
  <2> QED
    BY <2>1, <2>2
<1>13. NoneDue(w, y, t)
  BY <1>2, <1>3, <1>5 DEF NoneDue
<1>14. \A r \in Steps : Started(w, x, y, r, t) => Started(w, over, p, r, t)
  <2> SUFFICES ASSUME NEW r \in Steps, Started(w, x, y, r, t)
               PROVE  Started(w, over, p, r, t)
    OBVIOUS
  <2>1. y.status[r] \in Active /\ r # s
    BY <1>6 DEF Started, ActiveStatus, Active
  <2>2. over.status[r] = "pending"
    <3>1. ~OtherTarget(w, s, i, r)
      BY <1>12, <2>1 DEF Started, Active
    <3> QED
      BY <1>7, <2>1, <3>1 DEF Started
  <2> QED
    BY <1>1, <1>3, <1>5, <2>2 DEF Started, Prepares
<1>15. \A r \in Steps : y.token[r] <=> x.token[r] \/ (w.gate[r] /\ Started(w, x, y, r, t))
  BY <1>1, <1>2, <1>3, <1>10, <1>14, ZenonT(40) DEF Starts, Prepares
<1>16. \A r \in Steps : y.sentinel[r] <=> x.sentinel[r] /\ ~(i # 0 /\ w.ask[s][i] = r)
  <2>1. y.sentinel = z.sentinel
    BY <1>1, <1>2, <1>3 DEF Starts
  <2> QED
    BY <2>1, Zenon DEF Prepares
<1>17. /\ y.chosen = IF i = 0 THEN x.chosen ELSE [x.chosen EXCEPT ![s] = i]
       /\ y.gateUsed = IF act = "gate" THEN [x.gateUsed EXCEPT ![s] = TRUE] ELSE x.gateUsed
       /\ y.audit = [x.audit EXCEPT ![s] = Append(x.audit[s], act)]
       /\ y.scheduleAt = x.scheduleAt /\ y.notified = x.notified /\ y.items = x.items
       /\ y.state = "done" <=> \A r \in Steps : y.status[r] \in Terminal
       /\ y.archived <=> x.archived \/ y.state = "done"
  BY <1>1, <1>2, <1>0, <1>3 DEF Starts, Prepares
<1> QED
  BY <1>3, <1>4, <1>9, <1>11, <1>12, <1>13, <1>15, <1>16, <1>17 DEF Completes

(* The calls of the engine, each as one of the three kinds of change. *)

LEMMA AuditedPrepares ==
    ASSUME NEW w, NEW x \in InstanceType, NEW s \in Steps,
           NEW act \in {"complete", "ask"}
    PROVE  Prepares(w, x, Audited(x, s, act), s, 0, act)
<1>1. Audited(x, s, act) \in InstanceType
  BY AuditedType
<1> QED
  BY <1>1 DEF Audited, Prepares, OtherTarget, InstanceType

LEMMA AuditedGatePrepares ==
    ASSUME NEW w, NEW x \in InstanceType, NEW s \in Steps
    PROVE  Prepares(w, x, Audited([x EXCEPT !.gateUsed[s] = TRUE], s, "gate"), s, 0, "gate")
<1>1. [x EXCEPT !.gateUsed[s] = TRUE] \in InstanceType
  BY DEF InstanceType
<1>2. Audited([x EXCEPT !.gateUsed[s] = TRUE], s, "gate") \in InstanceType
  BY <1>1, AuditedType
<1> QED
  BY <1>2 DEF Audited, Prepares, OtherTarget, InstanceType

LEMMA RoutePrepares ==
    ASSUME NEW w \in WorkflowType, NEW x, NEW z, NEW s \in Steps,
           NEW i \in DOMAIN w.ask[s], NEW act, Prepares(w, x, z, s, 0, act)
    PROVE  Prepares(w, x, Route(w, z, s, i), s, i, act)
<1> DEFINE y == Route(w, z, s, i)
<1>1. z \in InstanceType /\ i \in Nat /\ i # 0
  BY DEF Prepares, WorkflowType
<1>2. y \in InstanceType
  BY <1>1, RouteType
<1>3. /\ y.status = [r \in Steps |->
            IF z.status[r] = "pending" /\ \E k \in DOMAIN w.ask[s] \ {i} : w.ask[s][k] = r
            THEN "skipped" ELSE z.status[r]]
      /\ y.sentinel = [r \in Steps |-> z.sentinel[r] /\ r # w.ask[s][i]]
      /\ y.chosen = [z.chosen EXCEPT ![s] = i]
      /\ y.gateUsed = z.gateUsed /\ y.audit = z.audit /\ y.token = z.token
      /\ y.archived = z.archived /\ y.scheduleAt = z.scheduleAt
      /\ y.notified = z.notified /\ y.items = z.items
  BY <1>1 DEF Route, InstanceType
<1> HIDE DEF y
<1>4. \A r \in Steps : z.status[r] = x.status[r]
  BY DEF Prepares, OtherTarget
<1>5. \A r \in Steps : z.sentinel[r] <=> x.sentinel[r]
  BY DEF Prepares
<1>6. \A r \in Steps : y.status[r] = IF x.status[r] = "pending" /\ OtherTarget(w, s, i, r)
                                     THEN "skipped" ELSE x.status[r]
  <2> TAKE r \in Steps
  <2>1. y.status[r] = IF /\ z.status[r] = "pending"
                         /\ \E k \in DOMAIN w.ask[s] \ {i} : w.ask[s][k] = r
                      THEN "skipped" ELSE z.status[r]
    BY <1>3
  <2>2. OtherTarget(w, s, i, r) <=> \E k \in DOMAIN w.ask[s] \ {i} : w.ask[s][k] = r
    BY <1>1, Zenon DEF OtherTarget
  <2>3. z.status[r] = x.status[r]
    BY <1>4
  <2> QED
    BY <2>1, <2>2, <2>3, Zenon
<1>7. \A r \in Steps : y.sentinel[r] <=> x.sentinel[r] /\ ~(i # 0 /\ w.ask[s][i] = r)
  BY <1>1, <1>3, <1>5
<1>8. Prepares(w, x, y, s, i, act)
  BY <1>1, <1>2, <1>3, <1>6, <1>7 DEF Prepares
<1> QED
  BY <1>8 DEF y

LEMMA AdvanceCompletes ==
    ASSUME NEW w \in WorkflowType, NEW x \in InstanceType, NEW s \in Steps,
           NEW t \in Nat, CanAdvance(w, x, s)
    PROVE  Completes(w, x, AdvanceStep(w, x, s, t), s, 0, "complete", t)
BY AuditedPrepares, PreparedCompletes DEF AdvanceStep, CanAdvance, Active

LEMMA AnswerCompletes ==
    ASSUME NEW w \in WorkflowType, NEW x \in InstanceType, NEW s \in Steps,
           NEW i \in DOMAIN w.ask[s], NEW t \in Nat, CanAnswer(w, x, s, i)
    PROVE  Completes(w, x, AnswerAsk(w, x, s, i, t), s, i, "ask", t)
<1>1. Prepares(w, x, Route(w, Audited(x, s, "ask"), s, i), s, i, "ask")
  BY AuditedPrepares, RoutePrepares
<1>2. i \in Nat /\ x.status[s] \in Active
  BY DEF WorkflowType, CanAnswer, Active
<1> QED
  BY <1>1, <1>2, PreparedCompletes DEF AnswerAsk

LEMMA RedeemCompletes ==
    ASSUME NEW w \in WorkflowType, NEW x \in InstanceType, NEW s \in Steps,
           NEW i \in DOMAIN w.ask[s] \cup {0}, NEW t \in Nat,
           CanRedeem(w, x, s, i, t)
    PROVE  /\ Completes(w, x, RedeemGate(w, x, s, i, t), s, i, "gate", t)
           /\ i = 0 <=> w.ask[s] = <<>>
<1> DEFINE opened == Audited([x EXCEPT !.gateUsed[s] = TRUE], s, "gate")
<1>1. Prepares(w, x, opened, s, 0, "gate")
  BY AuditedGatePrepares
<1>2. i \in Nat /\ x.status[s] \in Active
  BY DEF WorkflowType, CanRedeem, LinkValid, Active
<1>3. RedeemGate(w, x, s, i, t) =
        CompleteStep(w, IF w.ask[s] = <<>> THEN opened ELSE Route(w, opened, s, i), s, t)
  BY DEF RedeemGate
<1>4. 0 \notin DOMAIN w.ask[s] /\ (w.ask[s] = <<>> => DOMAIN w.ask[s] = {})
  BY DEF WorkflowType
<1> HIDE DEF opened
<1>5. CASE w.ask[s] = <<>>
  BY <1>1, <1>2, <1>3, <1>4, <1>5, PreparedCompletes
<1>6. CASE w.ask[s] # <<>>
  <2>1. i \in DOMAIN w.ask[s]
    BY <1>6 DEF CanRedeem
  <2>2. Prepares(w, x, Route(w, opened, s, i), s, i, "gate")
    BY <1>1, <2>1, RoutePrepares
  <2> QED
    BY <1>2, <1>3, <1>4, <1>6, <2>1, <2>2, PreparedCompletes
<1> QED
  BY <1>5, <1>6

LEMMA StartsTransitive ==
    ASSUME NEW w \in WorkflowType, NEW x \in InstanceType, NEW y, NEW z, NEW t,
           Starts(w, x, y, t), Starts(w, y, z, t)
    PROVE  Starts(w, x, z, t)
<1>1. \A r \in Steps : ActiveStatus(w, r) # "pending"
  BY DEF ActiveStatus
<1>2. \A r \in Steps : NeedsSatisfied(w, z, r) <=> NeedsSatisfied(w, x, r)
  BY DEF Starts
<1>3. \A r \in Steps :
        Started(w, x, z, r, t) <=> Started(w, x, y, r, t) \/ Started(w, y, z, r, t)
  <2> TAKE r \in Steps
  <2>1. /\ NeedsSatisfied(w, z, r) <=> NeedsSatisfied(w, y, r)
        /\ y.scheduleAt = x.scheduleAt
        /\ y.status[r] = x.status[r] \/ Started(w, x, y, r, t)
        /\ z.status[r] = y.status[r] \/ Started(w, y, z, r, t)
    BY DEF Starts
  <2>2. ActiveStatus(w, r) # "pending"
    BY <1>1
  <2> QED
    BY <2>1, <2>2 DEF Started
<1>4. \A r \in Steps : z.status[r] = x.status[r] \/ Started(w, x, z, r, t)
  BY <1>3 DEF Starts
<1>5. \A r \in Steps : z.token[r] <=> x.token[r] \/ (w.gate[r] /\ Started(w, x, z, r, t))
  BY <1>3 DEF Starts
<1>6. \A r \in Steps : x.notified[r] => z.notified[r]
  BY DEF Starts
<1> QED
  BY <1>2, <1>4, <1>5, <1>6 DEF Starts

\* The scheduler may mark steps as notified of besides.
LEMMA SameStarts ==
    ASSUME NEW w \in WorkflowType, NEW x \in InstanceType, NEW y \in InstanceType, NEW t,
           y.status = x.status, y.sentinel = x.sentinel, y.chosen = x.chosen,
           y.scheduleAt = x.scheduleAt, y.token = x.token, y.gateUsed = x.gateUsed,
           y.audit = x.audit, y.state = x.state, y.archived = x.archived,
           y.items = x.items,
           \A r \in Steps : x.notified[r] => y.notified[r]
    PROVE  Starts(w, x, y, t)
<1>1. \A r \in Steps : ~Started(w, x, y, r, t)
  BY DEF Started, ActiveStatus
<1> QED
  BY <1>1 DEF Starts, NeedsSatisfied

LEMMA TickStarts ==
    ASSUME NEW w \in WorkflowType, NEW x \in InstanceType, NEW t \in Nat
    PROVE  Starts(w, x, Tick(w, x, t), t)
<1> DEFINE S == ScheduledNow(w, x, t)
           y == Activate(w, x, S, t)
           z == TickScheduled(w, x, t)
<1>1. Starts(w, x, x, t)
  BY SameStarts
<1>2. y \in InstanceType /\ Starts(w, x, y, t)
  <2>1. S \in SUBSET Startable(w, x, t)
    BY DEF ScheduledNow
  <2> HIDE DEF S
  <2> QED
    BY <2>1, ActivateType, ActivateEffect DEF StartsAll
<1> HIDE DEF y
<1>3. z \in InstanceType /\ Starts(w, x, z, t)
  <2>1. CASE S = {}
    BY <1>1, <2>1 DEF TickScheduled
  <2>2. CASE S # {}
    <3>1. z = ActivateReady(w, y, t)
      BY <2>2 DEF TickScheduled, y
    <3> HIDE DEF z
    <3>2. z \in InstanceType /\ Starts(w, y, z, t)
      BY <1>2, <3>1, ActivateReadyType, ActivateReadyEffect
    <3> QED
      BY <1>2, <3>2, StartsTransitive
  <2> QED
    BY <2>1, <2>2
<1> HIDE DEF z
<1>4. Starts(w, z, TickOverdue(z, t), t)
  <2> DEFINE v == TickOverdue(z, t)
  <2>1. /\ v \in InstanceType
        /\ v.status = z.status /\ v.sentinel = z.sentinel /\ v.chosen = z.chosen
        /\ v.scheduleAt = z.scheduleAt /\ v.token = z.token /\ v.gateUsed = z.gateUsed
        /\ v.audit = z.audit /\ v.state = z.state /\ v.archived = z.archived
        /\ v.items = z.items
        /\ \A r \in Steps : z.notified[r] => v.notified[r]
    BY <1>3 DEF TickOverdue, InstanceType
  <2> HIDE DEF v
  <2>2. Starts(w, z, v, t)
    BY <1>3, <2>1, SameStarts
  <2> QED
    BY <2>2 DEF v
<1>5. Starts(w, x, TickOverdue(z, t), t)
  BY <1>3, <1>4, StartsTransitive
<1> QED
  BY <1>1, <1>5 DEF Tick, z

LEMMA NewInstanceStarts ==
    ASSUME NEW w \in WorkflowType, NEW t \in Nat
    PROVE  /\ Starts(w, Unstarted(w, t), NewInstance(w, t), t)
           /\ NoneDue(w, NewInstance(w, t), t)
BY UnstartedType, ActivateReadyEffect DEF NewInstance

LEMMA ToggleEdits ==
    ASSUME NEW x \in InstanceType, NEW s \in Steps, NEW item \in Items
    PROVE  Edits(x, ToggleListItem(x, s, item))
BY ToggleType DEF ToggleListItem, Edits, InstanceType

LEMMA CheckAllEdits ==
    ASSUME NEW x \in InstanceType, NEW s \in Steps
    PROVE  Edits(x, CheckAllListItems(x, s))
BY CheckAllType DEF CheckAllListItems, Edits, InstanceType

LEMMA AddItemEdits ==
    ASSUME NEW x \in InstanceType, NEW s \in Steps, NEW item \in Items
    PROVE  Edits(x, AddListItem(x, s, item))
<1> DEFINE y == AddListItem(x, s, item)
<1>1. /\ y \in InstanceType
      /\ y.status = x.status /\ y.sentinel = x.sentinel /\ y.chosen = x.chosen
      /\ y.scheduleAt = x.scheduleAt /\ y.notified = x.notified
      /\ y.token = x.token /\ y.gateUsed = x.gateUsed /\ y.audit = x.audit
      /\ y.state = x.state /\ y.archived = x.archived
  BY AddItemType DEF AddListItem, InstanceType
<1>2. y.items = [x.items EXCEPT ![s] = x.items[s] \cup {item}]
  BY DEF AddListItem, InstanceType
<1>3. \A r \in Steps : x.items[r] \subseteq y.items[r]
  <2>1. x.items \in [Steps -> SUBSET Items]
    BY DEF InstanceType
  <2> QED
    BY <1>2, <2>1
<1> HIDE DEF y
<1>4. Edits(x, y)
  BY <1>1, <1>3 DEF Edits
<1> QED
  BY <1>4 DEF y

LEMMA ArchiveEdits ==
    ASSUME NEW x \in InstanceType
    PROVE  Edits(x, [x EXCEPT !.archived = TRUE])
BY DEF Edits, InstanceType

-----------------------------------------------------------------------------
(***************************************************************************)
(* What the three kinds of change have in common: steps only move forward, *)
(* and begin only when what they need is over and their time has come.     *)
(***************************************************************************)
Moves(w, x, y, t) ==
    \A s \in Steps :
       /\ x.status[s] \in Terminal => y.status[s] = x.status[s]
       /\ x.status[s] \in Active => y.status[s] \in {x.status[s]} \cup Completed
       /\ x.status[s] = "pending" /\ y.status[s] \notin {"pending", "skipped"}
            => Started(w, x, y, s, t)
       /\ y.sentinel[s] => x.sentinel[s]
       /\ y.scheduleAt[s] = x.scheduleAt[s]

LEMMA NeedsStaySatisfied ==
    ASSUME NEW w, NEW x, NEW y, NEW t, Moves(w, x, y, t),
           NEW s \in Steps, NeedsSatisfied(w, x, s)
    PROVE  NeedsSatisfied(w, y, s)
BY DEF Moves, NeedsSatisfied

LEMMA CompletesMoves ==
    ASSUME NEW w \in WorkflowType, NEW x \in InstanceType, NEW y, NEW s \in Steps,
           NEW i, NEW act, NEW t, Completes(w, x, y, s, i, act, t)
    PROVE  Moves(w, x, y, t)
<1> SUFFICES ASSUME NEW r \in Steps
             PROVE  /\ x.status[r] \in Terminal => y.status[r] = x.status[r]
                    /\ x.status[r] \in Active => y.status[r] \in {x.status[r]} \cup Completed
                    /\ x.status[r] = "pending" /\ y.status[r] \notin {"pending", "skipped"}
                         => Started(w, x, y, r, t)
                    /\ y.sentinel[r] => x.sentinel[r]
                    /\ y.scheduleAt[r] = x.scheduleAt[r]
  BY DEF Moves
<1>1. (y.sentinel[r] => x.sentinel[r]) /\ y.scheduleAt[r] = x.scheduleAt[r]
  BY DEF Completes
<1>2. CASE r = s
  BY <1>1, <1>2 DEF Completes, Active, Terminal, Completed
<1>3. CASE r # s
  <2>1. \/ y.status[r] = x.status[r]
        \/ x.status[r] = "pending" /\ y.status[r] = "skipped"
        \/ Started(w, x, y, r, t)
    BY <1>3 DEF Completes
  <2> QED
    BY <1>1, <2>1 DEF Started, Active, Terminal, Completed
<1> QED
  BY <1>2, <1>3

LEMMA StartsMoves ==
    ASSUME NEW w, NEW x, NEW y, NEW t, Starts(w, x, y, t)
    PROVE  Moves(w, x, y, t)
BY DEF Starts, Started, Moves, Active, Terminal, Completed

LEMMA EditsMoves ==
    ASSUME NEW w, NEW x, NEW y, NEW t, Edits(x, y)
    PROVE  Moves(w, x, y, t)
BY DEF Edits, Moves, Active, Terminal, Completed
=============================================================================
