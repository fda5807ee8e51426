--------------------------------- MODULE Vars -------------------------------
(***************************************************************************)
(* Workflow variables (engine.ApplyVars, the createInstance handler): an   *)
(* instance is created, saved and started with the placeholders of its     *)
(* definition, and a second call substitutes what the user entered.        *)
(*                                                                         *)
(* The definition is copied (wfCopy := *wf), but not its slices: the       *)
(* notify list of a step is one array, shared by the definition and all    *)
(* the instances made from it, until the file is loaded again or the       *)
(* instance is read back from disk.  One step with one notify field that   *)
(* names a variable stands for all of them.                                *)
(***************************************************************************)
EXTENDS Integers, FiniteSets

CONSTANTS
    InstanceIds,    \* identities of instances
    Values,         \* what a user may enter for the variable
    Placeholder,    \* the text of the definition
    MaxReloads,     \* bound: hot reloads
    MaxFailedSaves, \* bound: failed saves
    MaxCrashes      \* bound: deaths of the process

ASSUME VarsAssumption ==
    /\ Placeholder \notin Values
    /\ MaxReloads \in Nat /\ MaxFailedSaves \in Nat /\ MaxCrashes \in Nat

VARIABLES
    array,     \* array[a]: the notify field in the array of the a-th load
    latest,    \* the load that the definitions are from
    inst,      \* inst[i]: in memory, Absent if there is none
    disk,      \* disk[i]: on disk, Absent if there is none
    asked,     \* asked[i]: the value entered for i, which ApplyVars is to apply
    failedSaves, crashes

allVars == <<array, latest, inst, disk, asked, failedSaves, crashes>>

Absent == [absent |-> TRUE]
Texts == Values \cup {Placeholder}
Loads == 0 .. MaxReloads
Own == -1   \* the instance has an array of its own

\* The note, the array of the notify field, and the field if the array is its own.
Instance == [note : Texts, in : Loads \cup {Own}, own : Texts]
Saved == [note : Texts, notify : Texts]

Notify(i) == IF inst[i].in = Own THEN inst[i].own ELSE array[inst[i].in]

Substituted(t, v) == IF t = Placeholder THEN v ELSE t

VarsInit ==
    /\ array = [a \in Loads |-> Placeholder]
    /\ latest = 0
    /\ inst = [i \in InstanceIds |-> Absent] /\ disk = [i \in InstanceIds |-> Absent]
    /\ asked = [i \in InstanceIds |-> Absent]
    /\ failedSaves = 0 /\ crashes = 0

-----------------------------------------------------------------------------
\* json.Marshal follows the slice: the file gets what the array holds now.
Save(i) ==
    \/ /\ disk' = [disk EXCEPT ![i] =
             [note |-> inst'[i].note, notify |-> Notify(i)']]
       /\ UNCHANGED failedSaves
    \/ /\ failedSaves < MaxFailedSaves
       /\ failedSaves' = failedSaves + 1
       /\ UNCHANGED disk

\* The new instance points to the list of its definition.
Make(i) ==
    /\ inst[i] = Absent /\ disk[i] = Absent
    /\ inst' = [inst EXCEPT ![i] =
                  [note |-> Placeholder, in |-> latest, own |-> Placeholder]]
    /\ UNCHANGED <<array, latest, crashes>>
    /\ Save(i)

\* The handler calls ApplyVars next, but not if the save failed.
CreateInstance(i) ==
    /\ Make(i)
    /\ \E v \in Values :
          asked' = IF failedSaves' = failedSaves THEN [asked EXCEPT ![i] = v] ELSE asked

\* A clone is asked for no value.
CloneInstance(src, i) == inst[src] # Absent /\ Make(i) /\ UNCHANGED asked

\* Mutant: the notify list is left out.
ApplyToNote(i) ==
    /\ asked[i] # Absent
    /\ asked' = [asked EXCEPT ![i] = Absent]
    /\ inst' = [inst EXCEPT ![i].note = Substituted(@, asked[i])]
    /\ UNCHANGED <<array, latest, crashes>>
    /\ Save(i)

ApplyVars(i) ==
    /\ asked[i] # Absent
    /\ asked' = [asked EXCEPT ![i] = Absent]
    /\ LET a == inst[i].in
       IN  /\ inst' = [inst EXCEPT ![i].note = Substituted(@, asked[i]),
                                   ![i].own = Substituted(@, asked[i])]
           /\ array' = IF a = Own THEN array
                       ELSE [array EXCEPT ![a] = Substituted(@, asked[i])]
    /\ UNCHANGED <<latest, crashes>>
    /\ Save(i)

\* A reload parses the file again: new arrays for the instances to come.
HotReload ==
    /\ latest < MaxReloads
    /\ latest' = latest + 1
    /\ UNCHANGED <<array, inst, disk, asked, failedSaves, crashes>>

\* The instances come back from their files, each with lists of its own; the
\* handlers are gone.
ServerRestarts ==
    /\ crashes < MaxCrashes
    /\ crashes' = crashes + 1
    /\ inst' = [i \in InstanceIds |-> IF disk[i] = Absent THEN Absent
                  ELSE [note |-> disk[i].note, in |-> Own, own |-> disk[i].notify]]
    /\ array' = [a \in Loads |-> Placeholder]
    /\ asked' = [i \in InstanceIds |-> Absent]
    /\ UNCHANGED <<latest, disk, failedSaves>>

VarsNext ==
    \/ \E i \in InstanceIds :
          \/ CreateInstance(i) \/ (\E src \in InstanceIds : CloneInstance(src, i))
          \/ ApplyVars(i)
    \/ HotReload \/ ServerRestarts

VarsSpec == VarsInit /\ [][VarsNext]_allVars

-----------------------------------------------------------------------------
(* Properties *)

\* An instance that shows its own value in the note has no placeholder left in
\* the notify list either, in memory and in its file, after any crash.
NoPlaceholderLeft ==
    \A i \in InstanceIds :
       /\ inst[i] # Absent /\ inst[i].note # Placeholder => Notify(i) # Placeholder
       /\ disk[i] # Absent /\ disk[i].note # Placeholder => disk[i].notify # Placeholder

-----------------------------------------------------------------------------
(* What the documentation says and the code does not do *)

\* README "Variable values are entered when creating a new instance and
\* substituted throughout": the value of the note is that of the notify list.
SubstitutedThroughout ==
    \A i \in InstanceIds : inst[i] # Absent /\ inst[i].note # Placeholder
       => Notify(i) = inst[i].note
=============================================================================
