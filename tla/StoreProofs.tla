----------------------------- MODULE StoreProofs -----------------------------
(***************************************************************************)
(* Theorems about module Store, for every set of instances, steps and      *)
(* definitions and every number of failed writes and of crashes.           *)
(***************************************************************************)
EXTENDS Store, EngineProofs, FiniteSetTheorems

-----------------------------------------------------------------------------
(***************************************************************************)
(* The inductive invariant: the safety properties of module Store, and of  *)
(* what they say of the disk the part that memory must keep, as the next   *)
(* save writes memory over the disk.                                       *)
(***************************************************************************)

AllFacts ==
    {<<"completed", s>> : s \in Steps} \cup {<<"noted", n>> : n \in Notes}
    \cup {<<"archived", "instance">>}

StoreType ==
    /\ up \in BOOLEAN
    /\ mem \in [Ids -> Entry \cup {Absent}]
    /\ disk \in [Ids -> Entry \cup {Absent}]
    /\ now \in Nat /\ faults \in Nat
    /\ created \in SUBSET Ids /\ deleted \in SUBSET Ids
    /\ acked \in [Ids -> SUBSET AllFacts]
    /\ redeemed \in [Ids -> [Steps -> Nat]]

\* An id that was not given yet has left no trace.
NotYetCreated ==
    \A id \in Ids \ created :
       /\ mem[id] = Absent /\ disk[id] = Absent
       /\ id \notin deleted
       /\ \A s \in Steps : redeemed[id][s] = 0 /\ <<id, s>> \notin links

\* What a reply told is in memory too, while the instance is there.
AckedInMemory ==
    \A id \in Ids : mem[id] # Absent => acked[id] \subseteq Facts(mem[id])

\* A gate whose redemption was confirmed is completed on disk and in memory.
RedeemedCompleted ==
    \A id \in Ids, s \in Steps : redeemed[id][s] # 0 =>
       /\ disk[id] # Absent => disk[id].inst.status[s] \in Completed
       /\ mem[id] # Absent => mem[id].inst.status[s] \in Completed

\* The same but for notes, which a refused UpdateInstance leaves in memory only.
Alike(m, d) == IF m = Absent THEN d = Absent ELSE d # Absent /\ m.inst = d.inst

\* While no write has failed, memory and disk agree, and the gate of a link that
\* was sent is no longer pending.
InStep ==
    faults = 0 =>
       /\ up => \A id \in Ids : Alike(mem[id], disk[id])
       /\ \A id \in Ids, s \in Steps :
             <<id, s>> \in links /\ disk[id] # Absent
               => disk[id].inst.status[s] # "pending"

Inv ==
    /\ StoreType /\ NotYetCreated
    /\ AckedIsDurable /\ AckedInMemory /\ DeletedIsFinal
    /\ RedeemedOnce /\ RedeemedCompleted /\ InStep

-----------------------------------------------------------------------------
(* What a call may do to the entry of one instance. *)

\* Entry e is entry b after a call: nothing that was reported of b is undone.
Grows(b, e) ==
    /\ e \in Entry
    /\ \A s \in Steps :
          /\ b.inst.status[s] \in Completed => e.inst.status[s] \in Completed
          /\ b.inst.status[s] # "pending" => e.inst.status[s] # "pending"
    /\ b.inst.archived => e.inst.archived
    /\ b.notes \subseteq e.notes

NoNewLinks(id) == \A s \in Steps : <<id, s>> \in links' => <<id, s>> \in links

Kept(id) ==
    /\ mem'[id] = mem[id] /\ disk'[id] = disk[id]
    /\ acked'[id] = acked[id] /\ redeemed'[id] = redeemed[id]
    /\ id \in deleted' => id \in deleted
    /\ NoNewLinks(id) /\ up' = up

\* The entry has a note more, in memory.
Noted(id) ==
    /\ mem[id] # Absent /\ Grows(mem[id], mem'[id]) /\ mem'[id].inst = mem[id].inst
    /\ disk'[id] = disk[id] /\ acked'[id] = acked[id] /\ redeemed'[id] = redeemed[id]
    /\ deleted' = deleted /\ created' = created
    /\ NoNewLinks(id) /\ up' = up

\* Entry e is in memory, and on disk if the write did not fail; done lists the
\* gates whose redemption is confirmed.
WrittenAs(id, e, done) ==
    /\ e \in Entry /\ up /\ up'
    /\ id \notin created \/ (mem[id] # Absent /\ Grows(mem[id], e))
    /\ id \in created'
    /\ id \in deleted' => id \in deleted
    /\ \A s \in Steps : <<id, s>> \in links'
                          => <<id, s>> \in links \/ e.inst.status[s] # "pending"
    /\ mem'[id] = e
    /\ \/ /\ disk'[id] = e /\ acked'[id] \in {acked[id], Facts(e)}
          /\ redeemed'[id] = [s \in Steps |-> redeemed[id][s] + IF s \in done THEN 1 ELSE 0]
       \/ /\ disk'[id] = disk[id] /\ acked'[id] = acked[id]
          /\ redeemed'[id] = redeemed[id] /\ faults' # 0

\* A gate is redeemed while it is open.
Confirms(id, e, done) ==
    \A s \in done : /\ mem[id] # Absent /\ mem[id].inst.status[s] \notin Completed
                    /\ e.inst.status[s] \in Completed

Written(id) == \E e, done : WrittenAs(id, e, done) /\ Confirms(id, e, done)

\* Memory forgets the instance, its file may stay.
Dropped(id) ==
    /\ mem'[id] = Absent /\ up
    /\ \/ disk'[id] = Absent /\ acked'[id] = {}
       \/ disk'[id] = disk[id] /\ acked'[id] \in {acked[id], {}} /\ (~up' \/ faults' # 0)
    /\ redeemed'[id] = redeemed[id] /\ NoNewLinks(id)
    /\ id \in deleted' => id \in deleted \/ (id \in created /\ disk'[id] = Absent)

\* A started process reads the file.
ReadBack(id) ==
    /\ ~up /\ up' /\ mem'[id] = disk[id] /\ disk'[id] = disk[id]
    /\ acked'[id] = acked[id] /\ redeemed'[id] = redeemed[id]
    /\ id \in deleted' => id \in deleted
    /\ NoNewLinks(id)

\* What every step of the specification does.
Effect ==
    /\ StoreType'
    /\ created \subseteq created'
    /\ faults' = 0 => faults = 0
    /\ \A id \in Ids : Kept(id) \/ Noted(id) \/ Written(id) \/ Dropped(id) \/ ReadBack(id)

-----------------------------------------------------------------------------
(* The invariant is kept by any step with that effect. *)

LEMMA EntryIsThere ==
    ASSUME NEW e \in Entry
    PROVE  e # Absent
<1>1. "wf" \in DOMAIN e
  BY DEF Entry
<1>2. "wf" \notin DOMAIN Absent
  BY DEF Absent
<1> QED
  BY <1>1, <1>2

LEMMA GrownFacts ==
    ASSUME NEW b, b # Absent, NEW e, Grows(b, e)
    PROVE  Facts(b) \subseteq Facts(e)
<1>1. e # Absent
  BY EntryIsThere DEF Grows
<1> QED
  BY <1>1 DEF Grows, Facts

LEMMA FactsType ==
    ASSUME NEW e \in Entry \cup {Absent}
    PROVE  Facts(e) \in SUBSET AllFacts
BY DEF Facts, AllFacts, Entry

\* What a reply told before is a fact of the entry written now.
LEMMA WrittenKeepsAcked ==
    ASSUME Inv, NEW id \in Ids, NEW e, NEW done, WrittenAs(id, e, done)
    PROVE  acked[id] \subseteq Facts(e)
<1>1. CASE id \notin created
  BY <1>1 DEF Inv, NotYetCreated, AckedIsDurable, Facts
<1>2. CASE mem[id] # Absent /\ Grows(mem[id], e)
  BY <1>2, GrownFacts DEF Inv, AckedInMemory
<1> QED
  BY <1>1, <1>2 DEF WrittenAs

LEMMA AckedStep ==
    ASSUME Inv, Effect
    PROVE  AckedIsDurable' /\ AckedInMemory'
<1> SUFFICES ASSUME NEW id \in Ids
             PROVE  /\ acked'[id] \subseteq Facts(disk'[id])
                    /\ mem'[id] # Absent => acked'[id] \subseteq Facts(mem'[id])
  BY DEF AckedIsDurable, AckedInMemory, Facts
<1>1. /\ acked[id] \subseteq Facts(disk[id])
      /\ mem[id] # Absent => acked[id] \subseteq Facts(mem[id])
  BY DEF Inv, AckedIsDurable, AckedInMemory
<1>2. CASE Kept(id)
  BY <1>1, <1>2 DEF Kept
<1>3. CASE Written(id)
  <2>1. PICK e, done : WrittenAs(id, e, done)
    BY <1>3 DEF Written
  <2>2. acked[id] \subseteq Facts(e)
    BY <2>1, WrittenKeepsAcked
  <2> QED
    BY <1>1, <2>1, <2>2 DEF WrittenAs
<1>4. CASE Dropped(id)
  BY <1>1, <1>4 DEF Dropped
<1>5. CASE ReadBack(id)
  BY <1>1, <1>5 DEF ReadBack
<1>6. CASE Noted(id)
  BY <1>1, <1>6, GrownFacts DEF Noted
<1> QED
  BY <1>2, <1>3, <1>4, <1>5, <1>6 DEF Effect

LEMMA DeletedStep ==
    ASSUME Inv, Effect
    PROVE  DeletedIsFinal' /\ NotYetCreated'
<1>1. ASSUME NEW id \in Ids, id \in deleted'
      PROVE  mem'[id] = Absent /\ disk'[id] = Absent
  <2>1. id \in deleted => mem[id] = Absent /\ disk[id] = Absent /\ id \in created
    BY DEF Inv, DeletedIsFinal, NotYetCreated
  <2>2. ~Written(id)
    BY <1>1, <2>1 DEF Written, WrittenAs
  <2> QED
    BY <1>1, <2>1, <2>2 DEF Effect, Kept, Noted, Dropped, ReadBack
<1>2. DeletedIsFinal'
  <2>1. deleted' \subseteq Ids
    BY DEF Effect, StoreType
  <2> QED
    BY <1>1, <2>1 DEF DeletedIsFinal
<1>3. ASSUME NEW id \in Ids, id \notin created'
      PROVE  /\ mem'[id] = Absent /\ disk'[id] = Absent
             /\ id \notin deleted'
             /\ \A s \in Steps : redeemed'[id][s] = 0 /\ <<id, s>> \notin links'
  <2>1. /\ id \notin created
        /\ mem[id] = Absent /\ disk[id] = Absent /\ id \notin deleted
        /\ \A s \in Steps : redeemed[id][s] = 0 /\ <<id, s>> \notin links
    BY <1>3 DEF Inv, NotYetCreated, Effect
  <2>2. ~Written(id)
    BY <1>3 DEF Written, WrittenAs
  <2> QED
    BY <2>1, <2>2 DEF Effect, Kept, Noted, Dropped, ReadBack, NoNewLinks
<1> QED
  BY <1>2, <1>3 DEF NotYetCreated

LEMMA RedeemedStep ==
    ASSUME Inv, Effect
    PROVE  RedeemedOnce' /\ RedeemedCompleted'
<1> SUFFICES ASSUME NEW id \in Ids, NEW s \in Steps
             PROVE  /\ redeemed'[id][s] <= 1
                    /\ redeemed'[id][s] # 0 =>
                         /\ disk'[id] # Absent => disk'[id].inst.status[s] \in Completed
                         /\ mem'[id] # Absent => mem'[id].inst.status[s] \in Completed
  BY DEF RedeemedOnce, RedeemedCompleted
<1>1. /\ redeemed[id][s] \in Nat /\ redeemed[id][s] <= 1
      /\ redeemed[id][s] # 0 =>
           /\ disk[id] # Absent => disk[id].inst.status[s] \in Completed
           /\ mem[id] # Absent => mem[id].inst.status[s] \in Completed
      /\ id \notin created => redeemed[id][s] = 0 /\ mem[id] = Absent
  BY DEF Inv, StoreType, RedeemedOnce, RedeemedCompleted, NotYetCreated
<1>2. CASE Kept(id)
  BY <1>1, <1>2 DEF Kept
<1>3. CASE Written(id)
  <2>1. PICK e, done : WrittenAs(id, e, done) /\ Confirms(id, e, done)
    BY <1>3 DEF Written
  <2>2. redeemed[id][s] # 0 => e.inst.status[s] \in Completed /\ s \notin done
    BY <1>1, <2>1 DEF WrittenAs, Confirms, Grows
  <2>3. s \in done => e.inst.status[s] \in Completed
    BY <2>1 DEF Confirms
  <2>4. CASE /\ disk'[id] = e
             /\ redeemed'[id] = [r \in Steps |-> redeemed[id][r]
                                                 + IF r \in done THEN 1 ELSE 0]
    <3>1. redeemed'[id][s] = redeemed[id][s] + IF s \in done THEN 1 ELSE 0
      BY <2>4
    <3>2. mem'[id] = e
      BY <2>1 DEF WrittenAs
    <3> QED
      BY <1>1, <2>2, <2>3, <2>4, <3>1, <3>2
  <2>5. CASE disk'[id] = disk[id] /\ redeemed'[id] = redeemed[id]
    BY <1>1, <2>1, <2>2, <2>5 DEF WrittenAs
  <2> QED
    BY <2>1, <2>4, <2>5 DEF WrittenAs
<1>4. CASE Dropped(id)
  BY <1>1, <1>4 DEF Dropped
<1>5. CASE ReadBack(id)
  BY <1>1, <1>5 DEF ReadBack
<1>6. CASE Noted(id)
  BY <1>1, <1>6 DEF Noted
<1> QED
  BY <1>2, <1>3, <1>4, <1>5, <1>6 DEF Effect

LEMMA InStepStep ==
    ASSUME Inv, Effect
    PROVE  InStep'
<1> SUFFICES ASSUME faults' = 0
             PROVE  /\ up' => \A id \in Ids : Alike(mem'[id], disk'[id])
                    /\ \A id \in Ids, s \in Steps :
                          <<id, s>> \in links' /\ disk'[id] # Absent
                            => disk'[id].inst.status[s] # "pending"
  BY DEF InStep
<1>1. /\ up => \A id \in Ids : Alike(mem[id], disk[id])
      /\ \A id \in Ids, s \in Steps : <<id, s>> \in links /\ disk[id] # Absent
                                        => disk[id].inst.status[s] # "pending"
  BY DEF Inv, InStep, Effect
<1>2. ASSUME NEW id \in Ids, up'
      PROVE  Alike(mem'[id], disk'[id])
  <2>1. CASE Kept(id) \/ Dropped(id) \/ ReadBack(id)
    BY <1>1, <1>2, <2>1 DEF Kept, Dropped, ReadBack, Alike
  <2>2. CASE Written(id)
    <3>1. PICK e, done : WrittenAs(id, e, done)
      BY <2>2 DEF Written
    <3> QED
      BY <3>1 DEF WrittenAs, Alike
  <2>3. CASE Noted(id)
    BY <1>1, <1>2, <2>3, EntryIsThere DEF Noted, Grows, Alike
  <2> QED
    BY <2>1, <2>2, <2>3 DEF Effect
<1>3. up' => \A id \in Ids : Alike(mem'[id], disk'[id])
  BY <1>2
<1>4. ASSUME NEW id \in Ids, NEW s \in Steps, <<id, s>> \in links', disk'[id] # Absent
      PROVE  disk'[id].inst.status[s] # "pending"
  <2>1. CASE Kept(id) \/ Noted(id) \/ Dropped(id) \/ ReadBack(id)
    BY <1>1, <1>4, <2>1 DEF Kept, Noted, Dropped, ReadBack, NoNewLinks
  <2>2. CASE Written(id)
    <3>1. PICK e, done : WrittenAs(id, e, done)
      BY <2>2 DEF Written
    <3>2. disk'[id] = e
      BY <3>1 DEF WrittenAs
    <3>3. CASE <<id, s>> \notin links
      BY <1>4, <3>1, <3>2, <3>3 DEF WrittenAs
    <3>4. CASE <<id, s>> \in links
      <4>1. mem[id] # Absent /\ Grows(mem[id], e) /\ up
        BY <3>1, <3>4 DEF WrittenAs, Inv, NotYetCreated
      <4> QED
        BY <1>1, <3>2, <3>4, <4>1 DEF Grows, Alike
    <3> QED
      BY <3>3, <3>4
  <2> QED
    BY <2>1, <2>2 DEF Effect
<1> QED
  BY <1>3, <1>4

-----------------------------------------------------------------------------
(* Every action has that effect. *)

LEMMA InFlightType ==
    ASSUME StoreType, NEW id \in Ids, mem[id] # Absent
    PROVE  /\ mem[id] \in Entry
           /\ mem[id].wf \in WorkflowType /\ mem[id].wf \in Workflows
           /\ mem[id].inst \in InstanceType
           /\ now \in Nat
BY StoreAssumption DEF StoreType, Entry

\* A call of the engine lets an entry grow.
LEMMA EngineGrows ==
    ASSUME NEW b \in Entry, NEW t \in Nat, NEW y,
           \/ \E s \in Steps : \E i, act : Completes(b.wf, b.inst, y, s, i, act, t)
           \/ Starts(b.wf, b.inst, y, t)
           \/ Edits(b.inst, y)
    PROVE  /\ [b EXCEPT !.inst = y] \in Entry
           /\ Grows(b, [b EXCEPT !.inst = y])
<1> DEFINE e == [b EXCEPT !.inst = y]
<1>1. b.wf \in WorkflowType /\ b.inst \in InstanceType
  BY StoreAssumption DEF Entry
<1>2. y \in InstanceType /\ Moves(b.wf, b.inst, y, t) /\ (b.inst.archived => y.archived)
  <2>1. CASE \E s \in Steps : \E i, act : Completes(b.wf, b.inst, y, s, i, act, t)
    <3>1. Moves(b.wf, b.inst, y, t)
      BY <1>1, <2>1, CompletesMoves
    <3> QED
      BY <2>1, <3>1 DEF Completes
  <2>2. CASE Starts(b.wf, b.inst, y, t)
    BY <2>2, StartsMoves DEF Starts
  <2>3. CASE Edits(b.inst, y)
    BY <2>3, EditsMoves DEF Edits
  <2> QED
    BY <2>1, <2>2, <2>3
<1>3. e \in Entry /\ e.inst = y /\ e.notes = b.notes
  BY <1>2 DEF Entry
<1>4. \A s \in Steps : b.inst.status[s] \in Status
  BY <1>1 DEF InstanceType
<1>5. ASSUME NEW s \in Steps
      PROVE  /\ b.inst.status[s] \in Completed => y.status[s] \in Completed
             /\ b.inst.status[s] # "pending" => y.status[s] # "pending"
  BY <1>2, <1>4 DEF Moves, Status, Terminal, Completed, Active
<1> HIDE DEF e
<1>6. Grows(b, e)
  BY <1>2, <1>3, <1>5 DEF Grows
<1> QED
  BY <1>3, <1>6 DEF e

\* The links that a change sends are those of gates that are no longer pending.
LEMMA SentLinks ==
    ASSUME NEW id \in Ids, NEW b, NEW e, Sends(id, b, e)
    PROVE  \A j \in Ids, s \in Steps : <<j, s>> \in links' =>
              \/ <<j, s>> \in links
              \/ j = id /\ e.inst.status[s] # "pending"
BY DEF Sends, Fires, Active

LEMMA SaveEffect ==
    ASSUME Inv, up, NEW id \in Ids, NEW e \in Entry, NEW done, Save(id, e, done),
           id \notin created \/ (mem[id] # Absent /\ Grows(mem[id], e)),
           created' = created \cup {id}, Confirms(id, e, done),
           \A j \in Ids, s \in Steps : <<j, s>> \in links' =>
              \/ <<j, s>> \in links
              \/ j = id /\ e.inst.status[s] # "pending"
    PROVE  Effect
<1>1. StoreType
  BY DEF Inv
<1>2. /\ up' = up /\ deleted' = deleted /\ now' = now
      /\ mem' = [mem EXCEPT ![id] = e]
      /\ \/ /\ disk' = [disk EXCEPT ![id] = e]
            /\ acked' = [acked EXCEPT ![id] = Facts(e)]
            /\ redeemed' = [redeemed EXCEPT ![id] =
                 [s \in Steps |-> redeemed[id][s] + (IF s \in done THEN 1 ELSE 0)]]
            /\ faults' = faults
         \/ /\ faults' = faults + 1
            /\ disk' = disk /\ acked' = acked /\ redeemed' = redeemed
  BY DEF Save
<1>3. /\ faults' \in Nat /\ (faults' = 0 => faults = 0)
      /\ faults' = faults + 1 => faults' # 0
  BY <1>1, <1>2 DEF StoreType
<1>4. StoreType'
  <2>1. Facts(e) \in SUBSET AllFacts
    BY FactsType
  <2>2. acked' \in [Ids -> SUBSET AllFacts]
    BY <1>1, <1>2, <2>1 DEF StoreType
  <2>3. redeemed' \in [Ids -> [Steps -> Nat]]
    <3>1. [s \in Steps |-> redeemed[id][s] + (IF s \in done THEN 1 ELSE 0)] \in [Steps -> Nat]
      BY <1>1 DEF StoreType
    <3> QED
      BY <1>1, <1>2, <3>1 DEF StoreType
  <2> QED
    BY <1>1, <1>2, <1>3, <2>2, <2>3, ZenonT(40) DEF StoreType
<1>5. WrittenAs(id, e, done)
  BY <1>1, <1>2, <1>3 DEF StoreType, WrittenAs
<1>6. ASSUME NEW j \in Ids, j # id PROVE Kept(j)
  BY <1>1, <1>2, <1>6 DEF StoreType, Kept, NoNewLinks
<1> QED
  BY <1>3, <1>4, <1>5, <1>6 DEF Effect, Written

LEMMA NewEffect ==
    ASSUME Inv, up, NEW id \in Ids, id \notin created, NEW w \in Workflows, New(id, w)
    PROVE  Effect
<1> DEFINE e == [wf |-> w, inst |-> NewInstance(w, now), notes |-> {}]
           b == [e EXCEPT !.inst = Unstarted(w, now)]
<1>1. created' = created \cup {id} /\ Sends(id, b, e) /\ Save(id, e, {})
  BY DEF New
<1>2. now \in Nat /\ w \in WorkflowType
  BY StoreAssumption DEF Inv, StoreType
<1>3. e \in Entry
  BY <1>2, NewInstanceType DEF Entry
<1> HIDE DEF e, b
<1>4. Confirms(id, e, {})
  BY DEF Confirms
<1> QED
  BY <1>1, <1>3, <1>4, SentLinks, SaveEffect

LEMMA UpdateEffect ==
    ASSUME Inv, NEW id \in Ids, Loaded(id), NEW y, NEW done, Update(id, y, done),
           \/ \E s \in Steps : \E i, act : Completes(mem[id].wf, mem[id].inst, y, s, i, act, now)
           \/ Starts(mem[id].wf, mem[id].inst, y, now)
           \/ Edits(mem[id].inst, y),
           \A s \in done : /\ mem[id].inst.status[s] \notin Completed
                           /\ y.status[s] \in Completed
    PROVE  Effect
<1> DEFINE e == [mem[id] EXCEPT !.inst = y]
<1>1. up /\ mem[id] # Absent /\ id \in created
  BY DEF Loaded, Inv, NotYetCreated
<1>2. mem[id] \in Entry /\ now \in Nat
  BY <1>1, InFlightType DEF Inv
<1>3. e \in Entry /\ Grows(mem[id], e)
  BY <1>2, EngineGrows
<1>4. Sends(id, mem[id], e) /\ Save(id, e, done) /\ created' = created \cup {id}
  BY <1>1 DEF Update
<1>5. e.inst = y
  BY <1>2 DEF Entry
<1> HIDE DEF e
<1>6. Confirms(id, e, done)
  BY <1>1, <1>5 DEF Confirms
<1> QED
  BY <1>1, <1>3, <1>4, <1>6, SentLinks, SaveEffect

LEMMA AnnotateEffect ==
    ASSUME Inv, NEW id \in Ids, NEW note \in Notes, Annotate(id, note)
    PROVE  Effect
<1> DEFINE e == [mem[id] EXCEPT !.notes = @ \cup {note}]
<1>1. up /\ mem[id] # Absent /\ id \in created
  BY DEF Annotate, Loaded, Inv, NotYetCreated
<1>2. mem[id] \in Entry
  BY <1>1, InFlightType DEF Inv
<1>3. e \in Entry /\ e.inst = mem[id].inst /\ e.notes = mem[id].notes \cup {note}
  BY <1>2 DEF Entry
<1>4. Save(id, e, {}) /\ created' = created \cup {id} /\ links' = links
  BY <1>1 DEF Annotate
<1> HIDE DEF e
<1>5. Grows(mem[id], e)
  BY <1>3 DEF Grows
<1>6. Confirms(id, e, {})
  BY DEF Confirms
<1> QED
  BY <1>1, <1>3, <1>4, <1>5, <1>6, SaveEffect

LEMMA AnnotateRefusedEffect ==
    ASSUME Inv, NEW id \in Ids, AnnotateRefused(id)
    PROVE  Effect
<1> DEFINE e == [mem[id] EXCEPT !.notes = @ \cup {"properties"}]
<1>1. mem[id] # Absent /\ mem[id] \in Entry /\ "properties" \in Notes /\ StoreType
  BY InFlightType DEF AnnotateRefused, Loaded, Inv
<1>2. e \in Entry /\ e.inst = mem[id].inst /\ mem[id].notes \subseteq e.notes
  BY <1>1 DEF Entry
<1>3. Grows(mem[id], e)
  BY <1>2 DEF Grows
<1>4. /\ mem' = [mem EXCEPT ![id] = e]
      /\ UNCHANGED <<up, disk, created, now, faults, acked, deleted, redeemed, links>>
  BY DEF AnnotateRefused, clockVars, worldVars
<1> HIDE DEF e
<1>5. StoreType'
  BY <1>1, <1>2, <1>4 DEF StoreType
<1>6. Noted(id)
  BY <1>1, <1>2, <1>3, <1>4 DEF StoreType, Noted, NoNewLinks
<1>7. ASSUME NEW j \in Ids, j # id PROVE Kept(j)
  BY <1>1, <1>4, <1>7 DEF StoreType, Kept, NoNewLinks
<1> QED
  BY <1>4, <1>5, <1>6, <1>7 DEF Effect

LEMMA DeleteEffect ==
    ASSUME Inv, NEW id \in Ids, DeleteInstance(id)
    PROVE  Effect
<1>1. StoreType
  BY DEF Inv
<1>2. /\ up /\ up' = up /\ created' = created /\ now' = now
      /\ redeemed' = redeemed /\ links' = links
      /\ mem' = [mem EXCEPT ![id] = Absent]
      /\ \/ /\ disk[id] # Absent /\ faults' = faults
            /\ disk' = [disk EXCEPT ![id] = Absent]
            /\ acked' = [acked EXCEPT ![id] = {}]
            /\ deleted' = deleted \cup {id}
         \/ /\ faults' = faults + (IF disk[id] = Absent THEN 0 ELSE 1)
            /\ disk' = disk /\ acked' = acked /\ deleted' = deleted
  BY DEF DeleteInstance
<1>3. faults' \in Nat /\ (faults' = 0 => faults = 0)
  BY <1>1, <1>2 DEF StoreType
<1>4. StoreType'
  BY <1>1, <1>2, <1>3 DEF StoreType
<1>5. Dropped(id)
  <2>1. disk[id] # Absent => id \in created
    BY DEF Inv, NotYetCreated
  <2>2. disk[id] = Absent => acked[id] = {}
    BY DEF Inv, AckedIsDurable, Facts
  <2>3. disk' = disk /\ disk[id] # Absent => faults' # 0
    BY <1>1, <1>2 DEF StoreType
  <2> QED
    BY <1>1, <1>2, <2>1, <2>2, <2>3 DEF StoreType, Dropped, NoNewLinks
<1>6. ASSUME NEW j \in Ids, j # id PROVE Kept(j)
  BY <1>1, <1>2, <1>6 DEF StoreType, Kept, NoNewLinks
<1> QED
  BY <1>2, <1>3, <1>4, <1>5, <1>6 DEF Effect

LEMMA CountZero ==
    ASSUME NEW S \in SUBSET Ids
    PROVE  Cardinality(S) \in Nat /\ (Cardinality(S) = 0 <=> S = {})
BY StoreAssumption, FS_Subset, FS_CardinalityType, FS_EmptySet

LEMMA FullResetEffect ==
    ASSUME Inv, FullReset
    PROVE  Effect
<1>1. StoreType
  BY DEF Inv
<1>2. PICK left \in SUBSET {id \in Ids : disk[id] # Absent} :
         /\ faults' = faults + Cardinality(left)
         /\ disk' = [id \in Ids |-> IF id \in left THEN disk[id] ELSE Absent]
         /\ deleted' = deleted \cup (created \ left)
  BY DEF FullReset
<1>3. /\ up /\ up' = up /\ created' = created /\ now' = now
      /\ redeemed' = redeemed /\ links' = links
      /\ mem' = [id \in Ids |-> Absent] /\ acked' = [id \in Ids |-> {}]
  BY DEF FullReset
<1>4. Cardinality(left) \in Nat /\ (Cardinality(left) = 0 <=> left = {})
  BY CountZero
<1>5. faults' \in Nat /\ (faults' = 0 => faults = 0) /\ (faults' = 0 => left = {})
  BY <1>1, <1>2, <1>4 DEF StoreType
<1>6. StoreType'
  BY <1>1, <1>2, <1>3, <1>5 DEF StoreType
<1>7. ASSUME NEW id \in Ids PROVE Dropped(id)
  BY <1>2, <1>3, <1>5 DEF Dropped, NoNewLinks
<1> QED
  BY <1>3, <1>5, <1>6, <1>7 DEF Effect

LEMMA NothingConfirmed ==
    ASSUME StoreType, NEW id \in Ids
    PROVE  redeemed[id] = [s \in Steps |-> redeemed[id][s] + IF s \in {} THEN 1 ELSE 0]
<1>1. redeemed[id] \in [Steps -> Nat]
  BY DEF StoreType
<1>2. \A s \in Steps : redeemed[id][s] = redeemed[id][s] + IF s \in {} THEN 1 ELSE 0
  BY <1>1
<1> QED
  BY <1>1, <1>2

\* A reordering places the instances of S and writes those of W.
PlacedEntry(id) == [mem[id] EXCEPT !.notes = @ \cup {"position"}]

Reordered(S, W) ==
    /\ mem' = [id \in Ids |-> IF id \in S THEN PlacedEntry(id) ELSE mem[id]]
    /\ disk' = [id \in Ids |-> IF id \in W THEN PlacedEntry(id) ELSE disk[id]]
    /\ \/ acked' = acked
       \/ /\ W = S
          /\ acked' = [id \in Ids |-> IF id \in S THEN Facts(PlacedEntry(id)) ELSE acked[id]]
    /\ faults' \in Nat /\ (faults' = 0 => faults = 0 /\ W = S)

LEMMA ReorderedEffect ==
    ASSUME Inv, ReorderInstances,
           NEW S \in SUBSET {id \in Ids : mem[id] # Absent}, NEW W \in SUBSET S,
           Reordered(S, W)
    PROVE  Effect
<1>1. StoreType
  BY DEF Inv
<1>2. /\ up /\ up' = up /\ created' = created /\ now' = now /\ deleted' = deleted
      /\ redeemed' = redeemed /\ links' = links /\ "position" \in Notes
  BY DEF ReorderInstances
<1>3. ASSUME NEW id \in S
      PROVE  /\ id \in Ids /\ mem[id] # Absent /\ id \in created
             /\ PlacedEntry(id) \in Entry /\ Grows(mem[id], PlacedEntry(id))
  <2> DEFINE e == PlacedEntry(id)
  <2>1. mem[id] \in Entry /\ id \in created
    BY InFlightType DEF Inv, NotYetCreated
  <2>2. e \in Entry /\ e.inst = mem[id].inst /\ e.notes = mem[id].notes \cup {"position"}
    BY <1>2, <2>1 DEF Entry, PlacedEntry
  <2> HIDE DEF e
  <2>3. Grows(mem[id], e)
    BY <2>2 DEF Grows
  <2> QED
    BY <2>1, <2>2, <2>3 DEF e
<1>4. ASSUME NEW id \in Ids
      PROVE  /\ mem'[id] = IF id \in S THEN PlacedEntry(id) ELSE mem[id]
             /\ disk'[id] = IF id \in W THEN PlacedEntry(id) ELSE disk[id]
             /\ acked'[id] = acked[id]
                \/ (id \in W /\ acked'[id] = Facts(PlacedEntry(id)))
  BY DEF Reordered
<1>5. StoreType'
  <2>1. mem' \in [Ids -> Entry \cup {Absent}]
    BY <1>1, <1>3 DEF StoreType, Reordered
  <2>2. disk' \in [Ids -> Entry \cup {Absent}]
    BY <1>1, <1>3 DEF StoreType, Reordered
  <2>3. \A id \in S : Facts(PlacedEntry(id)) \in SUBSET AllFacts
    BY <1>3, FactsType
  <2>4. acked' \in [Ids -> SUBSET AllFacts]
    BY <1>1, <2>3 DEF StoreType, Reordered
  <2>5. faults' \in Nat
    BY DEF Reordered
  <2> QED
    BY <1>1, <1>2, <2>1, <2>2, <2>4, <2>5 DEF StoreType
<1>6. ASSUME NEW id \in S PROVE Written(id)
  <2>1. id \in W \/ faults' # 0
    BY DEF Reordered
  <2>2. WrittenAs(id, PlacedEntry(id), {})
    BY <1>1, <1>2, <1>3, <1>4, <2>1, NothingConfirmed DEF WrittenAs
  <2> QED
    BY <2>2 DEF Written, Confirms
<1>7. ASSUME NEW id \in Ids, id \notin S PROVE Kept(id)
  BY <1>2, <1>4, <1>7 DEF Kept, NoNewLinks
<1> QED
  BY <1>2, <1>5, <1>6, <1>7 DEF Effect, Reordered

LEMMA ReorderEffect ==
    ASSUME Inv, ReorderInstances
    PROVE  Effect
<1>1. faults \in Nat
  BY DEF Inv, StoreType
<1>2. \E S \in SUBSET {id \in Ids : mem[id] # Absent} : \E W \in SUBSET S : Reordered(S, W)
  <2>1. ASSUME NEW S \in SUBSET {id \in Ids : mem[id] # Absent},
               mem' = [id \in Ids |-> IF id \in S THEN PlacedEntry(id) ELSE mem[id]],
               disk' = [id \in Ids |-> IF id \in S THEN PlacedEntry(id) ELSE disk[id]],
               acked' = [id \in Ids |-> IF id \in S THEN Facts(PlacedEntry(id))
                                                    ELSE acked[id]],
               faults' = faults
        PROVE  Reordered(S, S)
    BY <1>1, <2>1 DEF Reordered
  <2>2. ASSUME NEW S, NEW W,
               mem' = [id \in Ids |-> IF id \in S THEN PlacedEntry(id) ELSE mem[id]],
               disk' = [id \in Ids |-> IF id \in W THEN PlacedEntry(id) ELSE disk[id]],
               acked' = acked, faults' = faults + 1
        PROVE  Reordered(S, W)
    BY <1>1, <2>2 DEF Reordered
  <2> DEFINE Placed(S) == [id \in Ids |-> IF id \in S
                             THEN [mem[id] EXCEPT !.notes = @ \cup {"position"}]
                             ELSE mem[id]]
             Put(S) == [id \in Ids |-> IF id \in S THEN Placed(S)[id] ELSE disk[id]]
  <2>6. ASSUME NEW S \in SUBSET Ids
        PROVE  /\ Placed(S) = [id \in Ids |-> IF id \in S THEN PlacedEntry(id) ELSE mem[id]]
               /\ Put(S) = [id \in Ids |-> IF id \in S THEN PlacedEntry(id) ELSE disk[id]]
               /\ [id \in Ids |-> IF id \in S THEN Facts(Placed(S)[id]) ELSE acked[id]]
                    = [id \in Ids |-> IF id \in S THEN Facts(PlacedEntry(id)) ELSE acked[id]]
    <3>1. \A id \in S : Placed(S)[id] = PlacedEntry(id)
      BY DEF PlacedEntry
    <3>2. Placed(S) = [id \in Ids |-> IF id \in S THEN PlacedEntry(id) ELSE mem[id]]
      BY DEF PlacedEntry
    <3> HIDE DEF Placed
    <3> QED
      BY <3>1, <3>2
  <2>7. PICK listed \in SUBSET {id \in Ids : mem[id] # Absent} :
           \/ /\ mem' = Placed(listed)
              /\ disk' = Put(listed)
              /\ acked' = [id \in Ids |-> IF id \in listed THEN Facts(Placed(listed)[id])
                                                           ELSE acked[id]]
              /\ faults' = faults
           \/ \E last \in listed : \E saved \in SUBSET (listed \ {last}) :
                 /\ faults < MaxFaults
                 /\ faults' = faults + 1
                 /\ mem' = Placed(saved \cup {last})
                 /\ disk' = Put(saved)
                 /\ acked' = acked
    BY Zenon DEF ReorderInstances
  <2> HIDE DEF Placed, Put
  <2>3. \/ /\ mem' = [id \in Ids |-> IF id \in listed THEN PlacedEntry(id) ELSE mem[id]]
           /\ disk' = [id \in Ids |-> IF id \in listed THEN PlacedEntry(id) ELSE disk[id]]
           /\ acked' = [id \in Ids |-> IF id \in listed THEN Facts(PlacedEntry(id))
                                                        ELSE acked[id]]
           /\ faults' = faults
        \/ \E last \in listed : \E saved \in SUBSET (listed \ {last}) :
              /\ faults' = faults + 1 /\ acked' = acked
              /\ mem' = [id \in Ids |-> IF id \in saved \cup {last} THEN PlacedEntry(id)
                                                                    ELSE mem[id]]
              /\ disk' = [id \in Ids |-> IF id \in saved THEN PlacedEntry(id)
                                                         ELSE disk[id]]
    <3>1. CASE \E last \in listed : \E saved \in SUBSET (listed \ {last}) :
                 /\ faults < MaxFaults
                 /\ faults' = faults + 1
                 /\ mem' = Placed(saved \cup {last})
                 /\ disk' = Put(saved)
                 /\ acked' = acked
      <4>1. PICK last \in listed :
                 \E saved \in SUBSET (listed \ {last}) :
                 /\ faults < MaxFaults
                 /\ faults' = faults + 1
                 /\ mem' = Placed(saved \cup {last})
                 /\ disk' = Put(saved)
                 /\ acked' = acked
        BY <3>1
      <4>2. PICK saved \in SUBSET (listed \ {last}) :
                 /\ faults' = faults + 1
                 /\ mem' = Placed(saved \cup {last})
                 /\ disk' = Put(saved)
                 /\ acked' = acked
        BY <4>1
      <4>3. saved \in SUBSET Ids /\ saved \cup {last} \in SUBSET Ids
        OBVIOUS
      <4>4. /\ mem' = [id \in Ids |-> IF id \in saved \cup {last} THEN PlacedEntry(id)
                                                                  ELSE mem[id]]
            /\ disk' = [id \in Ids |-> IF id \in saved THEN PlacedEntry(id)
                                                       ELSE disk[id]]
        BY <2>6, <4>2, <4>3
      <4> QED
        BY <4>2, <4>4
    <3>2. listed \in SUBSET Ids
      OBVIOUS
    <3> QED
      BY <2>6, <2>7, <3>1, <3>2
  <2>4. CASE \E last \in listed : \E saved \in SUBSET (listed \ {last}) :
                 /\ faults' = faults + 1 /\ acked' = acked
                 /\ mem' = [id \in Ids |-> IF id \in saved \cup {last} THEN PlacedEntry(id)
                                                                       ELSE mem[id]]
                 /\ disk' = [id \in Ids |-> IF id \in saved THEN PlacedEntry(id)
                                                            ELSE disk[id]]
    <3>1. PICK last \in listed, saved \in SUBSET listed :
                 /\ faults' = faults + 1 /\ acked' = acked
                 /\ mem' = [id \in Ids |-> IF id \in saved \cup {last} THEN PlacedEntry(id)
                                                                       ELSE mem[id]]
                 /\ disk' = [id \in Ids |-> IF id \in saved THEN PlacedEntry(id)
                                                            ELSE disk[id]]
      BY <2>4
    <3>2. Reordered(saved \cup {last}, saved)
      BY <2>2, <3>1
    <3>3. /\ saved \cup {last} \in SUBSET {id \in Ids : mem[id] # Absent}
          /\ saved \in SUBSET (saved \cup {last})
      OBVIOUS
    <3> QED
      BY <3>2, <3>3
  <2>5. CASE /\ mem' = [id \in Ids |-> IF id \in listed THEN PlacedEntry(id) ELSE mem[id]]
             /\ disk' = [id \in Ids |-> IF id \in listed THEN PlacedEntry(id) ELSE disk[id]]
             /\ acked' = [id \in Ids |-> IF id \in listed THEN Facts(PlacedEntry(id))
                                                          ELSE acked[id]]
             /\ faults' = faults
    <3>1. Reordered(listed, listed)
      BY <2>1, <2>5
    <3>2. listed \in SUBSET listed
      OBVIOUS
    <3> QED
      BY <3>1, <3>2
  <2> QED
    BY <2>3, <2>4, <2>5
<1> QED
  BY <1>2, ReorderedEffect

LEMMA TickEffect ==
    ASSUME Inv, SchedulerTick
    PROVE  Effect
<1> DEFINE After(id) == IF mem[id] = Absent THEN Absent
                        ELSE [mem[id] EXCEPT !.inst = Tick(mem[id].wf, @, now)]
           changed == {id \in Ids : mem'[id] # mem[id]}
           Sent(id) ==
             {s \in Steps : Fires(mem[id].wf, mem[id].inst, mem'[id].inst, s, "link")}
<1>1. StoreType
  BY DEF Inv
<1>2. /\ up /\ up' = up /\ created' = created /\ now' = now /\ deleted' = deleted
      /\ redeemed' = redeemed /\ acked' = acked
      /\ mem' = [id \in Ids |-> After(id)]
      /\ links' = links \cup UNION {{<<id, s>> : s \in Sent(id)} : id \in changed}
  BY DEF SchedulerTick
<1>3. PICK failed \in SUBSET changed :
         /\ faults' = faults + Cardinality(failed)
         /\ disk' = [id \in Ids |-> IF id \in changed \ failed
                                    THEN mem'[id] ELSE disk[id]]
  BY DEF SchedulerTick
<1>4. Cardinality(failed) \in Nat /\ (Cardinality(failed) = 0 <=> failed = {})
  BY CountZero
<1>5. faults' \in Nat /\ (faults' = 0 => faults = 0) /\ (faults' = 0 => failed = {})
  BY <1>1, <1>3, <1>4 DEF StoreType
<1>6. ASSUME NEW id \in Ids, mem[id] # Absent
      PROVE  After(id) \in Entry /\ Grows(mem[id], After(id)) /\ id \in created
  <2>1. Starts(mem[id].wf, mem[id].inst, Tick(mem[id].wf, mem[id].inst, now), now)
    BY <1>1, <1>6, InFlightType, TickStarts
  <2>2. mem[id] \in Entry /\ now \in Nat /\ id \in created
    BY <1>1, <1>6, InFlightType DEF Inv, NotYetCreated
  <2> QED
    BY <1>6, <2>1, <2>2, EngineGrows
<1>7. \A id \in changed : mem[id] # Absent
  BY <1>2
<1>8. ASSUME NEW id \in Ids, NEW s \in Steps, <<id, s>> \in links', <<id, s>> \notin links
      PROVE  id \in changed /\ After(id).inst.status[s] # "pending"
  <2>1. PICK j \in changed : <<id, s>> \in {<<j, r>> : r \in Sent(j)}
    BY <1>2, <1>8
  <2>2. j = id /\ s \in Sent(j)
    BY <2>1
  <2>3. mem'[id].inst.status[s] # "pending" /\ mem'[id] = After(id)
    BY <1>2, <2>1, <2>2 DEF Fires, Active
  <2> QED
    BY <2>1, <2>2, <2>3
<1>9. ASSUME NEW id \in Ids
      PROVE  /\ mem'[id] = After(id)
             /\ disk'[id] = IF id \in changed \ failed THEN After(id) ELSE disk[id]
             /\ After(id) \in Entry \cup {Absent}
  BY <1>2, <1>3, <1>6
<1> HIDE DEF After, Sent
<1>10. StoreType'
  BY <1>1, <1>2, <1>3, <1>5, <1>9 DEF StoreType
<1>11. ASSUME NEW id \in Ids, id \in changed PROVE Written(id)
  <2>1. WrittenAs(id, After(id), {})
    BY <1>1, <1>2, <1>5, <1>6, <1>7, <1>8, <1>9, <1>11, NothingConfirmed DEF WrittenAs
  <2> QED
    BY <2>1 DEF Written, Confirms
<1>12. ASSUME NEW id \in Ids, id \notin changed PROVE Kept(id)
  BY <1>2, <1>8, <1>9, <1>12 DEF Kept, NoNewLinks
<1> QED
  BY <1>2, <1>5, <1>10, <1>11, <1>12 DEF Effect

-----------------------------------------------------------------------------
(* The calls that go through the engine, and the environment. *)

LEMMA CallEffect ==
    ASSUME Inv, NEW id \in Ids,
           \/ CreateInstance(id) \/ (\E src \in Ids : CloneInstance(src, id))
           \/ AdvanceInstance(id) \/ AnswerInstance(id) \/ RedeemToken(id)
           \/ ArchiveInstance(id)
    PROVE  Effect
<1>1. CASE CreateInstance(id)
  BY <1>1, NewEffect DEF CreateInstance
<1>2. CASE \E src \in Ids : CloneInstance(src, id)
  <2>1. PICK src \in Ids : Loaded(src) /\ id \notin created /\ New(id, mem[src].wf)
    BY <1>2 DEF CloneInstance
  <2>2. mem[src].wf \in Workflows /\ up
    BY <2>1, InFlightType DEF Loaded, Inv
  <2> QED
    BY <2>1, <2>2, NewEffect
<1>3. ASSUME Loaded(id)
      PROVE  /\ mem[id].wf \in WorkflowType /\ mem[id].inst \in InstanceType
             /\ now \in Nat
  BY <1>3, InFlightType DEF Loaded, Inv
<1>4. CASE AdvanceInstance(id)
  <2>1. PICK s \in Steps :
          /\ CanAdvance(mem[id].wf, mem[id].inst, s)
          /\ Update(id, AdvanceStep(mem[id].wf, mem[id].inst, s, now), {})
    BY <1>4 DEF AdvanceInstance
  <2>2. Loaded(id)
    BY <1>4 DEF AdvanceInstance
  <2>3. Completes(mem[id].wf, mem[id].inst,
                  AdvanceStep(mem[id].wf, mem[id].inst, s, now), s, 0, "complete", now)
    BY <1>3, <2>1, <2>2, AdvanceCompletes
  <2> QED
    BY <2>1, <2>2, <2>3, UpdateEffect
<1>5. CASE AnswerInstance(id)
  <2>1. PICK s \in Steps : \E i \in DOMAIN mem[id].wf.ask[s] :
          /\ CanAnswer(mem[id].wf, mem[id].inst, s, i)
          /\ Update(id, AnswerAsk(mem[id].wf, mem[id].inst, s, i, now), {})
    BY <1>5 DEF AnswerInstance
  <2>2. PICK i \in DOMAIN mem[id].wf.ask[s] :
          /\ CanAnswer(mem[id].wf, mem[id].inst, s, i)
          /\ Update(id, AnswerAsk(mem[id].wf, mem[id].inst, s, i, now), {})
    BY <2>1
  <2>3. Loaded(id)
    BY <1>5 DEF AnswerInstance
  <2>4. Completes(mem[id].wf, mem[id].inst,
                  AnswerAsk(mem[id].wf, mem[id].inst, s, i, now), s, i, "ask", now)
    BY <1>3, <2>2, <2>3, AnswerCompletes
  <2> QED
    BY <2>2, <2>3, <2>4, UpdateEffect
<1>6. CASE RedeemToken(id)
  <2>1. PICK s \in Steps : \E i \in DOMAIN mem[id].wf.ask[s] \cup {0} :
          /\ CanRedeem(mem[id].wf, mem[id].inst, s, i, now)
          /\ Update(id, RedeemGate(mem[id].wf, mem[id].inst, s, i, now), {s})
    BY <1>6 DEF RedeemToken
  <2>2. PICK i \in DOMAIN mem[id].wf.ask[s] \cup {0} :
          /\ CanRedeem(mem[id].wf, mem[id].inst, s, i, now)
          /\ Update(id, RedeemGate(mem[id].wf, mem[id].inst, s, i, now), {s})
    BY <2>1
  <2>3. Loaded(id)
    BY <1>6 DEF RedeemToken
  <2>4. Completes(mem[id].wf, mem[id].inst,
                  RedeemGate(mem[id].wf, mem[id].inst, s, i, now), s, i, "gate", now)
    BY <1>3, <2>2, <2>3, RedeemCompletes
  <2>5. /\ mem[id].inst.status[s] \notin Completed
        /\ RedeemGate(mem[id].wf, mem[id].inst, s, i, now).status[s] \in Completed
    BY <2>2, <2>4 DEF CanRedeem, LinkValid, Completed, Completes
  <2> QED
    BY <2>2, <2>3, <2>4, <2>5, UpdateEffect
<1>7. CASE ArchiveInstance(id)
  <2>1. /\ Loaded(id)
        /\ Update(id, [mem[id].inst EXCEPT !.archived = TRUE], {})
    BY <1>7 DEF ArchiveInstance
  <2>2. Edits(mem[id].inst, [mem[id].inst EXCEPT !.archived = TRUE])
    BY <1>3, <2>1, ArchiveEdits
  <2> QED
    BY <2>1, <2>2, UpdateEffect
<1> QED
  BY <1>1, <1>2, <1>4, <1>5, <1>6, <1>7

LEMMA EnvironmentEffect ==
    ASSUME Inv, Crash \/ Restart \/ TimePasses \/ UNCHANGED vars
    PROVE  Effect
<1>1. StoreType
  BY DEF Inv
<1>2. CASE Crash
  <2>1. StoreType' /\ created' = created /\ faults' = faults
    BY <1>1, <1>2 DEF Crash, StoreType, worldVars
  <2>2. ASSUME NEW id \in Ids PROVE Dropped(id)
    BY <1>1, <1>2 DEF Crash, StoreType, worldVars, Dropped, NoNewLinks
  <2> QED
    BY <2>1, <2>2 DEF Effect
<1>3. CASE Restart
  <2>1. StoreType' /\ created' = created /\ faults' = faults
    BY <1>1, <1>3 DEF Restart, StoreType, clockVars, worldVars
  <2>2. ASSUME NEW id \in Ids PROVE ReadBack(id)
    BY <1>3 DEF Restart, clockVars, worldVars, ReadBack, NoNewLinks
  <2> QED
    BY <2>1, <2>2 DEF Effect
<1>4. CASE TimePasses \/ UNCHANGED vars
  <2>1. StoreType' /\ created' = created /\ faults' = faults
    BY <1>1, <1>4 DEF TimePasses, StoreType, vars, fileVars, clockVars, worldVars
  <2>2. ASSUME NEW id \in Ids PROVE Kept(id)
    BY <1>4 DEF TimePasses, vars, fileVars, clockVars, worldVars, Kept, NoNewLinks
  <2> QED
    BY <2>1, <2>2 DEF Effect
<1> QED
  BY <1>2, <1>3, <1>4

LEMMA NextEffect ==
    ASSUME Inv, [Next]_vars
    PROVE  Effect
<1>1. ASSUME NEW id \in Ids,
             \/ CreateInstance(id) \/ (\E src \in Ids : CloneInstance(src, id))
             \/ AdvanceInstance(id) \/ AnswerInstance(id) \/ RedeemToken(id)
             \/ (\E note \in Notes : Annotate(id, note)) \/ AnnotateRefused(id)
             \/ ArchiveInstance(id) \/ DeleteInstance(id)
      PROVE  Effect
  BY <1>1, CallEffect, AnnotateEffect, AnnotateRefusedEffect, DeleteEffect
<1>2. CASE \/ ReorderInstances \/ FullReset \/ SchedulerTick
  BY <1>2, ReorderEffect, FullResetEffect, TickEffect
<1>3. CASE Crash \/ Restart \/ TimePasses \/ UNCHANGED vars
  BY <1>3, EnvironmentEffect
<1> QED
  BY <1>1, <1>2, <1>3 DEF Next

-----------------------------------------------------------------------------
(* The theorems. *)

LEMMA InvInit == Init => Inv
<1> SUFFICES ASSUME Init PROVE Inv
  OBVIOUS
<1>1. StoreType
  BY DEF Init, StoreType
<1>2. NotYetCreated /\ RedeemedCompleted /\ RedeemedOnce
  BY DEF Init, NotYetCreated, RedeemedCompleted, RedeemedOnce
<1>3. AckedIsDurable /\ AckedInMemory /\ DeletedIsFinal
  BY DEF Init, AckedIsDurable, AckedInMemory, DeletedIsFinal
<1>4. InStep
  BY DEF Init, InStep, Alike
<1> QED
  BY <1>1, <1>2, <1>3, <1>4 DEF Inv

LEMMA InvNext == Inv /\ [Next]_vars => Inv'
<1> SUFFICES ASSUME Inv, [Next]_vars PROVE Inv'
  OBVIOUS
<1>1. Effect
  BY NextEffect
<1> QED
  BY <1>1, AckedStep, DeletedStep, RedeemedStep, InStepStep DEF Inv, Effect

LEMMA Invariance == Spec => []Inv
BY InvInit, InvNext, PTL DEF Spec

\* What a successful reply told is on disk, and no later call, failed write, tick
\* of the scheduler or crash undoes it (Store.save before every nil error).
THEOREM RepliesAreDurable == Spec => []AckedIsDurable
<1>1. Inv => AckedIsDurable
  BY DEF Inv
<1> QED
  BY <1>1, Invariance, PTL

\* An instance whose deletion was acknowledged, by DeleteInstance or by FullReset
\* for the files it removed, is never seen again, in memory or on disk.
THEOREM DeletionsAreFinal == Spec => []DeletedIsFinal
<1>1. Inv => DeletedIsFinal
  BY DEF Inv
<1> QED
  BY <1>1, Invariance, PTL

\* RedeemToken confirms the link of a gate at most once, in this life of the
\* process or in a later one.
THEOREM LinksRedeemedOnce == Spec => []RedeemedOnce
<1>1. Inv => RedeemedOnce
  BY DEF Inv
<1> QED
  BY <1>1, Invariance, PTL

\* As long as no write has failed, the link that the engine's callbacks sent leads
\* to a gate that is open or decided, after any number of crashes.
THEOREM SentLinksLead == Spec => []LinksLead
<1>1. Inv => LinksLead
  BY DEF Inv, InStep, LinksLead, Alike
<1> QED
  BY <1>1, Invariance, PTL
=============================================================================
