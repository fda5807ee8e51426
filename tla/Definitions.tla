----------------------------- MODULE Definitions ----------------------------
(***************************************************************************)
(* The workflow files and the definitions the store keeps of them          *)
(* (internal/store/store.go: New, watchWorkflows, loadDefinitions), and    *)
(* what CreateInstance and CloneInstance find under a name.                *)
(*                                                                         *)
(* The store's lock is held for a whole reload, but not by whoever edits   *)
(* the files: a reload lists the directory and then reads file after file  *)
(* while they may change, and the goroutine that watches the directory is  *)
(* started after the first load.                                           *)
(***************************************************************************)
EXTENDS Integers, Sequences, FiniteSets

CONSTANTS
    Files,      \* the names a file may have, numbered in the order of ReadDir
    Titles,     \* the names a workflow may be given in its file
    Ids,        \* identities of instances
    NoWorkflow, \* what Parse or DetectCycles refuses
    MaxEdits,   \* bound: changes of files
    MaxFaults   \* bound: files, or the directory, that cannot be read though they are there

ASSUME DefinitionsAssumption ==
    /\ Files \in SUBSET Nat /\ IsFiniteSet(Files)
    /\ MaxEdits \in Nat /\ MaxFaults \in Nat
    /\ NoWorkflow \notin Titles

VARIABLES
    text,       \* text[f]: what file f holds, Absent if there is no such file
    defs,       \* defs[n]: the definition under name n, Absent if there is none
    toRead,     \* the files that a running reload has yet to read
    loading,    \* a reload holds the lock
    watching,   \* the watcher is on the directory
    event,      \* the watcher has an event to receive
    debounce,   \* the timer of 300 ms is set
    instances,  \* instances[i]: the name and the definition it was made from
    edits, faults,
    missed      \* observer: a change nobody watched, or a fault cut a reload short

vars == <<text, defs, toRead, loading, watching, event, debounce, instances,
          edits, faults, missed>>

Absent == [absent |-> TRUE]

\* A file holds a workflow and its version: no two edits are alike.
Content == [title : Titles \cup {NoWorkflow}, version : 0 .. MaxEdits]

\* The names in defs: the title, then title-1, title-2 and so on.
DefNames == Titles \X (0 .. Cardinality(Files) - 1)
Definition == [file : Files, version : 0 .. MaxEdits]

None == [n \in DefNames |-> Absent]

\* The definition of f goes under the first name that is free.  The code looks among
\* texts: a title that reads like a title with its suffix is left out of Titles.
Register(known, f, content) ==
    IF content.title = NoWorkflow THEN known
    ELSE LET taken == {k \in 0 .. Cardinality(Files) - 1 :
                         known[<<content.title, k>>] # Absent}
             free == CHOOSE k \in 0 .. Cardinality(taken) :
                        k \notin taken /\ \A j \in 0 .. k - 1 : j \in taken
         IN  [known EXCEPT ![<<content.title, free>>] =
                [file |-> f, version |-> content.version]]

Present == {f \in Files : text[f] # Absent}
First(S) == CHOOSE f \in S : \A g \in S : f <= g

\* What a load makes of the files as they are now, if nothing disturbs it.
Loaded[S \in SUBSET Files] ==
    IF S = {} THEN None
    ELSE LET last == CHOOSE f \in S : \A g \in S : g <= f
         IN  Register(Loaded[S \ {last}], last, text[last])

Current == ~loading /\ defs = Loaded[Present]

Init ==
    /\ text \in [Files -> {Absent} \cup [title : Titles, version : {0}]]
    /\ defs = Loaded[Present]
    /\ toRead = {} /\ loading = FALSE
    /\ watching = FALSE /\ event = FALSE /\ debounce = FALSE
    /\ instances = [i \in Ids |-> Absent]
    /\ edits = 0 /\ faults = 0 /\ missed = FALSE

-----------------------------------------------------------------------------
(* The directory *)

\* Somebody saves, replaces or removes a file, whatever the server is doing.
Edit(f) ==
    /\ edits < MaxEdits
    /\ edits' = edits + 1
    /\ \E content \in {Absent} \cup [title : Titles \cup {NoWorkflow}, version : {edits'}] :
          text' = [text EXCEPT ![f] = content]
    /\ text' # text
    /\ event' = watching
    /\ missed' = (missed \/ ~watching)
    /\ UNCHANGED <<defs, toRead, loading, watching, debounce, instances, faults>>

-----------------------------------------------------------------------------
(* watchWorkflows *)

WatcherStarts ==
    /\ ~watching
    /\ watching' = TRUE
    /\ UNCHANGED <<text, defs, toRead, loading, event, debounce, instances,
                   edits, faults, missed>>

\* Each event sets the timer anew.
EventArrives ==
    /\ event /\ ~loading
    /\ event' = FALSE
    /\ debounce' = TRUE
    /\ UNCHANGED <<text, defs, toRead, loading, watching, instances, edits,
                   faults, missed>>

\* Mutant: the definitions of before are kept.
ReloadKeeps ==
    /\ debounce /\ ~loading
    /\ debounce' = FALSE
    /\ loading' = TRUE
    /\ toRead' = Present
    /\ UNCHANGED <<text, defs, watching, event, instances, edits, faults, missed>>

\* The definitions are dropped and the directory is listed.
ReloadBegins ==
    /\ debounce /\ ~loading
    /\ debounce' = FALSE
    /\ loading' = TRUE
    /\ defs' = None
    /\ toRead' = Present
    /\ UNCHANGED <<text, watching, event, instances, edits, faults, missed>>

\* The definitions are dropped, and then the directory cannot be listed.
ListingFails ==
    /\ debounce /\ ~loading
    /\ faults < MaxFaults
    /\ faults' = faults + 1
    /\ debounce' = FALSE
    /\ defs' = None
    /\ missed' = TRUE
    /\ UNCHANGED <<text, toRead, loading, watching, event, instances, edits>>

ReadsFile ==
    /\ loading /\ toRead # {}
    /\ LET f == First(toRead)
       IN  /\ text[f] # Absent
           /\ defs' = Register(defs, f, text[f])
           /\ toRead' = toRead \ {f}
    /\ UNCHANGED <<text, loading, watching, event, debounce, instances, edits,
                   faults, missed>>

\* A listed file is gone, or cannot be read: the reload ends where it is.
ReloadFails ==
    /\ loading /\ toRead # {}
    /\ \/ /\ text[First(toRead)] = Absent
          /\ UNCHANGED <<faults, missed>>
       \/ /\ text[First(toRead)] # Absent /\ faults < MaxFaults
          /\ faults' = faults + 1
          /\ missed' = TRUE
    /\ loading' = FALSE
    /\ toRead' = {}
    /\ UNCHANGED <<text, defs, watching, event, debounce, instances, edits>>

\* Mutant: events that came in during the reload are dropped at its end.
ReloadDrains ==
    /\ loading /\ toRead = {}
    /\ loading' = FALSE
    /\ event' = FALSE
    /\ UNCHANGED <<text, defs, toRead, watching, debounce, instances, edits,
                   faults, missed>>

ReloadEnds ==
    /\ loading /\ toRead = {}
    /\ loading' = FALSE
    /\ UNCHANGED <<text, defs, toRead, watching, event, debounce, instances,
                   edits, faults, missed>>

-----------------------------------------------------------------------------
(* Calls, which wait for a reload to end *)

Make(i, n) ==
    /\ ~loading
    /\ instances[i] = Absent /\ defs[n] # Absent
    /\ instances' = [instances EXCEPT ![i] = [name |-> n, from |-> defs[n]]]
    /\ UNCHANGED <<text, defs, toRead, loading, watching, event, debounce, edits,
                   faults, missed>>

CreateInstance(i) == \E n \in DefNames : Make(i, n)

\* The clone is made from what its source's workflow name means now.
CloneInstance(src, i) ==
    instances[src] # Absent /\ Make(i, instances[src].name)

Next ==
    \/ \E f \in Files : Edit(f)
    \/ WatcherStarts \/ EventArrives
    \/ ReloadBegins \/ ListingFails \/ ReadsFile \/ ReloadFails \/ ReloadEnds
    \/ \E i \in Ids : CreateInstance(i) \/ (\E src \in Ids : CloneInstance(src, i))

Spec == Init /\ [][Next]_vars

\* The goroutine runs, and so does the timer; a reload that has begun goes on.
\* Nobody has to edit a file or make an instance.
FairSpec ==
    /\ Spec
    /\ WF_vars(WatcherStarts) /\ WF_vars(EventArrives)
    /\ WF_vars(ReloadBegins \/ ListingFails)
    /\ WF_vars(ReadsFile \/ ReloadFails) /\ WF_vars(ReloadEnds)

-----------------------------------------------------------------------------
(* Properties *)

\* Duplicate titles are told apart by their suffixes: no file is registered
\* twice, and the files of one title have the suffixes in their order, with no
\* gap, whatever was edited while they were read.
SuffixesInOrder ==
    \A n \in DefNames : defs[n] # Absent =>
       /\ \A m \in DefNames \ {n} : defs[m] # Absent => defs[m].file # defs[n].file
       /\ \A k \in 0 .. n[2] - 1 :
             /\ defs[<<n[1], k>>] # Absent
             /\ defs[<<n[1], k>>].file < defs[n].file

\* A change that the definitions do not show has an event, a timer or a reload
\* on its way, also if it came in the middle of a reload or ended it.
ChangeNotLost ==
    missed \/ Current \/ event \/ debounce \/ loading

\* README "hot-reloaded on save": once nobody edits any more, the definitions are
\* those of the files, if the watcher saw the edits and the files can be read.
HotReloaded == <>[](missed \/ Current)

=============================================================================
