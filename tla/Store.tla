-------------------------------- MODULE Store -------------------------------
(***************************************************************************)
(* The instance store (internal/store/store.go): several instances in      *)
(* memory, one JSON file for each on disk, a scheduler, and a process that *)
(* may die and be started again.                                           *)
(*                                                                         *)
(* A call holds the store's lock from its first check to its reply, so a   *)
(* call is one action.  It changes memory first and then saves, and the    *)
(* save may fail: the reply is then an error, but memory keeps the change. *)
(* save writes a temporary file and renames it, so a file is never half    *)
(* written.  A crash between the change and the save is a failed save      *)
(* followed by Crash.                                                      *)
(*                                                                         *)
(* The checklist calls (ToggleListItem, CheckAllListItems, AddListItem)    *)
(* are in module Instance; their path to disk is that of Annotate.         *)
(***************************************************************************)
EXTENDS Engine, FiniteSets

CONSTANTS
    Ids,        \* identities of instances, one creation each
    Workflows,  \* the definitions that are loaded
    Notes,      \* kinds of edits that no step depends on, see NoteAllowed
    MaxTime,    \* bound: the clock stops there
    MaxFaults,  \* bound: writes and removals of files that fail
    MaxCrashes  \* bound: deaths of the process

ASSUME StoreAssumption ==
    /\ Steps # {} /\ IsFiniteSet(Ids)
    /\ Workflows \subseteq WorkflowType
    /\ Notes \subseteq {"comment", "stepComment", "properties", "vars", "position"}
    /\ MaxTime \in Nat /\ MaxFaults \in Nat /\ MaxCrashes \in Nat

VARIABLES
    up,       \* the process is running
    mem,      \* mem[id]: the entry of s.instances, Absent if there is none
    disk,     \* disk[id]: the file of the instance, Absent if there is none
    now,      \* the clock
    created,  \* the ids already given
    faults,   \* failed writes and removals so far
    crashes,  \* deaths so far
    \* What the outside world has seen:
    acked,    \* acked[id]: the facts that successful replies told
    deleted,  \* ids whose file an acknowledged deletion or reset has removed
    redeemed, \* redeemed[id][s]: successful redemptions of the gate s
    links     \* <<id, s>>: the link of gate s has been sent

fileVars == <<up, mem, disk, created>>
clockVars == <<now, faults, crashes>>
worldVars == <<acked, deleted, redeemed, links>>
vars == <<fileVars, clockVars, worldVars>>

Absent == [absent |-> TRUE]

Entry == [wf : Workflows, inst : InstanceType, notes : SUBSET Notes]

Loaded(id) == up /\ mem[id] # Absent

\* What a reply may tell about an instance: a step is completed, a note is
\* written, the instance is archived.
Facts(entry) ==
    IF entry = Absent THEN {}
    ELSE {<<"completed", s>> : s \in {t \in Steps : entry.inst.status[t] \in Completed}}
         \cup {<<"noted", n>> : n \in entry.notes}
         \cup (IF entry.inst.archived THEN {<<"archived", "instance">>} ELSE {})

-----------------------------------------------------------------------------
(* Saving *)

\* The links that the change of an entry sends, before it is saved.
Sends(id, before, after) ==
    links' = links \cup
       {<<id, s>> : s \in {t \in Steps : Fires(after.wf, before.inst, after.inst, t, "link")}}

\* Mutants: the reply does not say that the save failed; the call works on a
\* copy of the entry and saves that.
SaveUnreported(id, entry, done) ==
    /\ mem' = [mem EXCEPT ![id] = entry]
    /\ \/ /\ disk' = [disk EXCEPT ![id] = entry]
          /\ UNCHANGED faults
       \/ /\ faults < MaxFaults /\ faults' = faults + 1
          /\ UNCHANGED disk
    /\ acked' = [acked EXCEPT ![id] = Facts(entry)]
    /\ UNCHANGED <<up, now, crashes, deleted, redeemed>>

SaveCopy(id, entry, done) ==
    /\ disk' = [disk EXCEPT ![id] = entry]
    /\ UNCHANGED <<mem, faults, acked, up, now, crashes, deleted, redeemed>>

\* The call puts entry in memory and tries to save it; done lists the gates
\* whose redemption the reply confirms.
Save(id, entry, done) ==
    /\ mem' = [mem EXCEPT ![id] = entry]
    /\ \/ /\ disk' = [disk EXCEPT ![id] = entry]
          /\ acked' = [acked EXCEPT ![id] = Facts(entry)]
          /\ redeemed' = [redeemed EXCEPT ![id] =
               [s \in Steps |-> @[s] + (IF s \in done THEN 1 ELSE 0)]]
          /\ UNCHANGED faults
       \/ /\ faults < MaxFaults
          /\ faults' = faults + 1
          /\ UNCHANGED <<disk, acked, redeemed>>
    /\ UNCHANGED <<up, now, crashes, deleted>>

\* A new entry, as CreateInstance and CloneInstance make it.
New(id, w) ==
    LET entry == [wf |-> w, inst |-> NewInstance(w, now), notes |-> {}]
    IN  /\ created' = created \cup {id}
        /\ Sends(id, [entry EXCEPT !.inst = Unstarted(w, now)], entry)
        /\ Save(id, entry, {})

\* An entry of which the engine has made the instance after.
Update(id, after, done) ==
    LET entry == [mem[id] EXCEPT !.inst = after]
    IN  /\ Sends(id, mem[id], entry)
        /\ Save(id, entry, done)
        /\ UNCHANGED created

-----------------------------------------------------------------------------
(* Calls *)

Init ==
    /\ up = TRUE
    /\ mem = [id \in Ids |-> Absent]
    /\ disk = mem
    /\ now = 0
    /\ created = {} /\ deleted = {} /\ links = {}
    /\ faults = 0 /\ crashes = 0
    /\ acked = [id \in Ids |-> {}]
    /\ redeemed = [id \in Ids |-> [s \in Steps |-> 0]]

CreateInstance(id) ==
    /\ up /\ id \notin created
    /\ \E w \in Workflows : New(id, w)

\* The clone starts afresh from the definition of its source.
CloneInstance(src, id) ==
    /\ Loaded(src) /\ id \notin created
    /\ New(id, mem[src].wf)

AdvanceInstance(id) ==
    /\ Loaded(id) /\ ~mem[id].inst.archived
    /\ \E s \in Steps :
          /\ CanAdvance(mem[id].wf, mem[id].inst, s)
          /\ Update(id, AdvanceStep(mem[id].wf, mem[id].inst, s, now), {})

AnswerInstance(id) ==
    /\ Loaded(id) /\ ~mem[id].inst.archived
    /\ \E s \in Steps : \E i \in DOMAIN mem[id].wf.ask[s] :
          /\ CanAnswer(mem[id].wf, mem[id].inst, s, i)
          /\ Update(id, AnswerAsk(mem[id].wf, mem[id].inst, s, i, now), {})

\* The token finds its instance, archived or not.
RedeemToken(id) ==
    /\ Loaded(id)
    /\ \E s \in Steps : \E i \in DOMAIN mem[id].wf.ask[s] \cup {0} :
          /\ CanRedeem(mem[id].wf, mem[id].inst, s, i, now)
          /\ Update(id, RedeemGate(mem[id].wf, mem[id].inst, s, i, now), {s})

\* UpdateInstance ("properties") and AddStepComment refuse an archived instance,
\* AddComment also a completed one; ApplyVars refuses none.
NoteAllowed(entry, note) ==
    \/ note = "vars"
    \/ ~entry.inst.archived /\ (note = "comment" => entry.inst.state # "done")

Annotate(id, note) ==
    /\ Loaded(id) /\ note # "position" /\ NoteAllowed(mem[id], note)
    /\ Save(id, [mem[id] EXCEPT !.notes = @ \cup {note}], {})
    /\ UNCHANGED <<created, links>>

\* UpdateInstance with a priority that there is not: an error, after the title was
\* changed in memory, where the next save of the instance finds it.
AnnotateRefused(id) ==
    /\ Loaded(id) /\ "properties" \in Notes /\ NoteAllowed(mem[id], "properties")
    /\ mem' = [mem EXCEPT ![id].notes = @ \cup {"properties"}]
    /\ UNCHANGED <<up, disk, created, clockVars, worldVars>>

\* ReorderInstances places and saves the listed instances one after the other;
\* a save that fails, that of last, ends the call with the rest unplaced.
ReorderInstances ==
    /\ up /\ "position" \in Notes
    /\ \E listed \in SUBSET {id \in Ids : mem[id] # Absent} :
       LET Placed(S) == [id \in Ids |-> IF id \in S
                          THEN [mem[id] EXCEPT !.notes = @ \cup {"position"}]
                          ELSE mem[id]]
           Written(S) == [id \in Ids |-> IF id \in S THEN Placed(S)[id] ELSE disk[id]]
       IN  \/ /\ mem' = Placed(listed)
              /\ disk' = Written(listed)
              /\ acked' = [id \in Ids |-> IF id \in listed THEN Facts(Placed(listed)[id])
                                                         ELSE acked[id]]
              /\ UNCHANGED faults
           \/ \E last \in listed : \E saved \in SUBSET (listed \ {last}) :
                 /\ faults < MaxFaults
                 /\ faults' = faults + 1
                 /\ mem' = Placed(saved \cup {last})
                 /\ disk' = Written(saved)
                 /\ UNCHANGED acked
    /\ UNCHANGED <<up, created, now, crashes, deleted, redeemed, links>>

ArchiveInstance(id) ==
    /\ Loaded(id) /\ ~mem[id].inst.archived
    /\ Update(id, [mem[id].inst EXCEPT !.archived = TRUE], {})

\* Mutant: the error of removing the file is not returned.
DeleteUnreported(id) ==
    /\ up
    /\ mem' = [mem EXCEPT ![id] = Absent]
    /\ \/ /\ disk' = [disk EXCEPT ![id] = Absent]
          /\ UNCHANGED faults
       \/ /\ faults < MaxFaults /\ faults' = faults + 1
          /\ UNCHANGED disk
    /\ acked' = [acked EXCEPT ![id] = {}]
    /\ deleted' = deleted \cup {id}
    /\ UNCHANGED <<up, created, now, crashes, redeemed, links>>

\* Memory forgets the instance; the reply is that of removing the file, which
\* is not there when the instance was never saved.
DeleteInstance(id) ==
    /\ up
    /\ mem' = [mem EXCEPT ![id] = Absent]
    /\ \/ /\ disk[id] # Absent
          /\ disk' = [disk EXCEPT ![id] = Absent]
          /\ acked' = [acked EXCEPT ![id] = {}]
          /\ deleted' = deleted \cup {id}
          /\ UNCHANGED faults
       \/ /\ disk[id] # Absent => faults < MaxFaults
          /\ faults' = faults + (IF disk[id] = Absent THEN 0 ELSE 1)
          /\ UNCHANGED <<disk, acked, deleted>>
    /\ UNCHANGED <<up, created, now, crashes, redeemed, links>>

\* The reply is a success whatever becomes of the files in left.
FullReset ==
    /\ up
    /\ \E left \in SUBSET {id \in Ids : disk[id] # Absent} :
          /\ faults + Cardinality(left) <= MaxFaults
          /\ faults' = faults + Cardinality(left)
          /\ disk' = [id \in Ids |-> IF id \in left THEN disk[id] ELSE Absent]
          /\ deleted' = deleted \cup (created \ left)
    /\ mem' = [id \in Ids |-> Absent]
    /\ acked' = [id \in Ids |-> {}]
    /\ UNCHANGED <<up, created, now, crashes, redeemed, links>>

\* A round of runScheduler: ticks every instance that is not done, saves those
\* that changed, and only logs the saves that fail.
SchedulerTick ==
    /\ up
    /\ mem' = [id \in Ids |->
                 IF mem[id] = Absent THEN Absent
                 ELSE [mem[id] EXCEPT !.inst = Tick(mem[id].wf, @, now)]]
    /\ LET changed == {id \in Ids : mem'[id] # mem[id]}
           Fired(id) ==
             {s \in Steps : Fires(mem[id].wf, mem[id].inst, mem'[id].inst, s, "link")}
       IN  /\ links' = links \cup
                UNION {{<<id, s>> : s \in Fired(id)} : id \in changed}
           /\ \E failed \in SUBSET changed :
                /\ faults + Cardinality(failed) <= MaxFaults
                /\ faults' = faults + Cardinality(failed)
                /\ disk' = [id \in Ids |-> IF id \in changed \ failed
                                           THEN mem'[id] ELSE disk[id]]
    /\ UNCHANGED <<up, created, now, crashes, acked, deleted, redeemed>>

-----------------------------------------------------------------------------
(* The environment *)

Crash ==
    /\ up /\ crashes < MaxCrashes
    /\ up' = FALSE
    /\ crashes' = crashes + 1
    /\ mem' = [id \in Ids |-> Absent]
    /\ UNCHANGED <<disk, created, now, faults, worldVars>>

\* New: loadInstances reads every file.
Restart ==
    /\ ~up
    /\ up' = TRUE
    /\ mem' = disk
    /\ UNCHANGED <<disk, created, clockVars, worldVars>>

TimePasses ==
    /\ now < MaxTime
    /\ now' = now + 1
    /\ UNCHANGED <<fileVars, faults, crashes, worldVars>>

Next ==
    \/ \E id \in Ids :
          \/ CreateInstance(id) \/ (\E src \in Ids : CloneInstance(src, id))
          \/ AdvanceInstance(id) \/ AnswerInstance(id) \/ RedeemToken(id)
          \/ (\E note \in Notes : Annotate(id, note)) \/ AnnotateRefused(id)
          \/ ArchiveInstance(id) \/ DeleteInstance(id)
    \/ ReorderInstances \/ FullReset \/ SchedulerTick
    \/ Crash \/ Restart \/ TimePasses

Spec == Init /\ [][Next]_vars

\* A dead process is started again (by its supervisor); a running one ticks.
FairSpec ==
    Spec /\ WF_vars(Restart) /\ WF_vars(SchedulerTick) /\ WF_vars(TimePasses)

-----------------------------------------------------------------------------
(* Safety *)

\* What a successful reply told is on disk, and stays there through later calls,
\* failed saves and crashes.
AckedIsDurable == \A id \in Ids : acked[id] \subseteq Facts(disk[id])

\* A one-time link is confirmed once (README "one-time token"), across crashes.
RedeemedOnce == \A id \in Ids, s \in Steps : redeemed[id][s] <= 1

\* A deletion that was acknowledged is final, and so is a full reset but for the
\* files that it could not remove: no later call and no restart, no tick of the
\* scheduler and no link brings the instance back.
DeletedIsFinal ==
    \A id \in deleted : mem[id] = Absent /\ disk[id] = Absent

\* README "The recipient opens /approve/{token}": the gate of a link that was sent
\* is open or was decided, after a crash too.  The link goes out before the
\* save, so this is lost when the save fails.
LinksLead ==
    up /\ faults = 0 =>
       \A id \in Ids, s \in Steps :
          <<id, s>> \in links /\ mem[id] # Absent
             => mem[id].inst.status[s] # "pending"

-----------------------------------------------------------------------------
(* Liveness *)

\* A scheduled step whose needs are met on disk starts in the end, through
\* crashes and failed saves, unless the instance is deleted: again and again there
\* is a moment at which no step that is due on disk is left pending.
Due(id, s) ==
    /\ disk[id] # Absent
    /\ disk[id].inst.status[s] = "pending"
    /\ NeedsSatisfied(disk[id].wf, disk[id].inst, s)
    /\ disk[id].inst.scheduleAt[s] <= MaxTime

StartedOrGone(id, s) ==
    up /\ (mem[id] = Absent \/ mem[id].inst.status[s] # "pending")

ScheduleSurvivesCrash ==
    []<>(\A id \in Ids, s \in Steps : Due(id, s) => StartedOrGone(id, s))
=============================================================================
