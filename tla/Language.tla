------------------------------ MODULE Language ------------------------------
(***************************************************************************)
(* The workflow language (internal/dsl/parser.go): Parse reads a document  *)
(* line by line, DetectCycles then searches the needs of its steps, and    *)
(* what both accept is handed over to the engine.                          *)
(*                                                                         *)
(* A line is a keyword and the tokens after it.  The tokenizer is left     *)
(* out: a token is what it returns, Arrow and Comma are the tokens "->"    *)
(* and ",".  Blank lines and comments change nothing and are no lines.     *)
(***************************************************************************)
EXTENDS Integers, FiniteSets, SequencesExt

CONSTANTS
    StepNames,  \* names that the documents give to steps
    NoName,     \* a name that no document gives
    Lines,      \* the lines that a document is made of
    MaxLines    \* bound: lines of a document

VARIABLES
    doc,        \* the lines read; forgotten once the document is accepted
    parser,     \* what Parse has built, and its currentSection and currentStep
    phase,      \* where the document is on its way to the engine
    visited,    \* DetectCycles: the names visited
    stack       \* DetectCycles: the names under visit, and their next need

languageVars == <<doc, parser, phase, visited, stack>>

Arrow == "->"
Comma == ","
Sentinel == "__ask_target__"

Phases == {"reading", "refused", "searching", "cyclic", "accepted"}

-----------------------------------------------------------------------------
(* The lines *)

Headers == {"label", "var", "allowed_roles"}
Texts == {"note", "schedule", "due"}
Lists == {"assign", "notify"}
Entries == {"item", "item!"}
Flags == {"gate", "ends"}
InStep == Texts \cup Lists \cup Entries \cup Flags \cup {"needs", "ask"}
NeedArgs == Headers \cup Entries \cup {"workflow", "section", "step", "schedule"}

\* The keyword of a line that is longer than the scanner's buffer of 64 KB.
Overlong == "a line of more than 64 KB"

\* The text of the tokens with spaces between: one token is its own text.
Joined(args) == IF Len(args) = 1 THEN args[1] ELSE args

\* parseNameList
NameList(args) ==
    LET Names[n \in 0..Len(args)] ==
          IF n = 0 THEN <<>>
          ELSE IF args[n] \in {Arrow, Comma} THEN Names[n - 1]
          ELSE Append(Names[n - 1], args[n])
    IN  Names[Len(args)]

\* parseAsk: a question, the arrow (which is not looked at) and the targets.
Targets(args) ==
    IF Len(args) < 3 THEN <<>> ELSE NameList(SubSeq(args, 3, Len(args)))

Tokens == UNION {ToSet(line.args) : line \in Lines}

ASSUME LanguageAssumption == Lines \subseteq [kw : STRING, args : Seq(Tokens)]

NewStep(name, section) ==
    [name |-> name, section |-> section,
     text |-> [t \in Texts |-> <<>>], list |-> [l \in Lists |-> <<>>],
     items |-> <<>>, flags |-> {}, needs |-> <<>>, ask |-> <<>>]

EmptyParser ==
    [name |-> <<>>, header |-> [h \in Headers |-> <<>>], sections |-> <<>>,
     steps |-> <<>>, current |-> 0]

\* The errors: of the scanner, and with the number of the line all the others.
Refused(p, line) ==
    \/ line.kw = Overlong
    \/ line.kw \in NeedArgs /\ line.args = <<>>
    \/ line.kw = "step" /\ p.sections = <<>>
    \/ line.kw \in InStep /\ p.current = 0
    \/ line.kw = "ask" /\ Targets(line.args) = <<>>

\* A step after one more line about it.
Directed(step, line) ==
    CASE line.kw \in Texts -> [step EXCEPT !.text[line.kw] = Joined(line.args)]
      [] line.kw \in Lists ->
           [step EXCEPT !.list[line.kw] = Append(@, Joined(line.args))]
      [] line.kw \in Entries ->
           [step EXCEPT !.items = Append(@, [text |-> Joined(line.args),
                                             required |-> line.kw = "item!"])]
      [] line.kw \in Flags -> [step EXCEPT !.flags = @ \cup {line.kw}]
      [] line.kw = "needs" -> [step EXCEPT !.needs = NameList(line.args)]
      [] line.kw = "ask" -> [step EXCEPT !.ask = Targets(line.args)]

\* Mutant: a section leaves the step before it open.
ParsedSticky(p, line) ==
    CASE line.kw = "section" ->
           [p EXCEPT !.sections = Append(@, Joined(line.args))]
      [] line.kw = "step" ->
           [p EXCEPT !.steps = Append(@, NewStep(Joined(line.args), Len(p.sections))),
                     !.current = Len(p.steps) + 1]
      [] line.kw \in InStep -> [p EXCEPT !.steps[p.current] = Directed(@, line)]
      [] OTHER -> p

\* The parser after one more line; an unknown keyword is ignored.
Parsed(p, line) ==
    CASE line.kw = "workflow" -> [p EXCEPT !.name = Joined(line.args)]
      [] line.kw \in {"label", "var"} ->
           [p EXCEPT !.header[line.kw] = Append(@, Joined(line.args))]
      [] line.kw = "allowed_roles" ->
           [p EXCEPT !.header[line.kw] = @ \o line.args]
      [] line.kw = "section" ->
           [p EXCEPT !.sections = Append(@, Joined(line.args)), !.current = 0]
      [] line.kw = "step" ->
           [p EXCEPT !.steps = Append(@, NewStep(Joined(line.args), Len(p.sections))),
                     !.current = Len(p.steps) + 1]
      [] line.kw \in InStep -> [p EXCEPT !.steps[p.current] = Directed(@, line)]
      [] OTHER -> p

-----------------------------------------------------------------------------
(* DetectCycles *)

\* deps: a later step of the same name takes the place of an earlier one.
Deps(steps) ==
    [n \in {steps[i].name : i \in DOMAIN steps} |->
       LET last == CHOOSE i \in DOMAIN steps :
                     /\ steps[i].name = n
                     /\ \A j \in DOMAIN steps : steps[j].name = n => j <= i
       IN  steps[last].needs]

deps == Deps(parser.steps)

\* A name that is no step has no needs.
NeedsOf(n) == IF n \in DOMAIN deps THEN deps[n] ELSE <<>>

\* Mutant: inStack[name] = false is missing.
InStackKept == visited

InStack == {stack[i].name : i \in DOMAIN stack}

\* The loop over the map, whose order Go leaves open.
Visits(n) ==
    /\ phase = "searching" /\ stack = <<>>
    /\ n \in DOMAIN deps \ visited
    /\ visited' = visited \cup {n}
    /\ stack' = <<[name |-> n, next |-> 1]>>
    /\ UNCHANGED <<doc, parser, phase>>

\* Mutant: visited is asked before inStack.
VisitsNeedLate ==
    /\ phase = "searching" /\ stack # <<>>
    /\ LET top == Last(stack)
           dep == NeedsOf(top.name)[top.next]
           passed == Append(Front(stack), [top EXCEPT !.next = @ + 1])
       IN /\ top.next <= Len(NeedsOf(top.name))
          /\ IF dep \in visited \cup {Sentinel}
             THEN stack' = passed /\ UNCHANGED <<visited, phase>>
             ELSE /\ stack' = Append(passed, [name |-> dep, next |-> 1])
                  /\ visited' = visited \cup {dep}
                  /\ UNCHANGED phase
    /\ UNCHANGED <<doc, parser>>

\* The loop over the needs of the name under visit.
VisitsNeed ==
    /\ phase = "searching" /\ stack # <<>>
    /\ LET top == Last(stack)
           dep == NeedsOf(top.name)[top.next]
           passed == Append(Front(stack), [top EXCEPT !.next = @ + 1])
       IN /\ top.next <= Len(NeedsOf(top.name))
          /\ IF dep \in InStack \ {Sentinel}
             THEN phase' = "cyclic" /\ UNCHANGED <<visited, stack>>
             ELSE /\ UNCHANGED phase
                  /\ IF dep \in visited \cup {Sentinel}
                     THEN stack' = passed /\ UNCHANGED visited
                     ELSE /\ stack' = Append(passed, [name |-> dep, next |-> 1])
                          /\ visited' = visited \cup {dep}
    /\ UNCHANGED <<doc, parser>>

\* All needs of a name are visited: inStack[name] = false.
LeavesName ==
    /\ phase = "searching" /\ stack # <<>>
    /\ Last(stack).next > Len(NeedsOf(Last(stack).name))
    /\ stack' = Front(stack)
    /\ UNCHANGED <<doc, parser, phase, visited>>

Accepts ==
    /\ phase = "searching" /\ stack = <<>>
    /\ DOMAIN deps \subseteq visited
    /\ phase' = "accepted"
    /\ UNCHANGED <<doc, parser, visited, stack>>

-----------------------------------------------------------------------------
(* Parse *)

LanguageInit ==
    /\ doc = <<>> /\ parser = EmptyParser /\ phase = "reading"
    /\ visited = {} /\ stack = <<>>

ReadsLine(line) ==
    /\ phase = "reading" /\ Len(doc) < MaxLines
    /\ doc' = Append(doc, line)
    /\ IF Refused(parser, line)
       THEN phase' = "refused" /\ UNCHANGED parser
       ELSE parser' = Parsed(parser, line) /\ UNCHANGED phase
    /\ UNCHANGED <<visited, stack>>

\* The end of the text; DetectCycles looks at nothing but the steps.
EndsReading ==
    /\ phase = "reading"
    /\ phase' = "searching"
    /\ doc' = <<>>
    /\ parser' = [EmptyParser EXCEPT !.steps = parser.steps]
    /\ UNCHANGED <<visited, stack>>

LanguageNext ==
    \/ \E line \in Lines : ReadsLine(line)
    \/ EndsReading
    \/ \E n \in StepNames : Visits(n)
    \/ VisitsNeed \/ LeavesName \/ Accepts

LanguageSpec == LanguageInit /\ [][LanguageNext]_languageVars

-----------------------------------------------------------------------------
(* What a document d says, read off its text as a whole *)

\* The numbers in S, the least first.
InOrder(S) ==
    [k \in 1..Cardinality(S) |->
       CHOOSE i \in S : Cardinality({j \in S : j <= i}) = k]

StepLines(d) == {i \in DOMAIN d : d[i].kw = "step"}

\* The lines from i to the end of the step that begins there.
Body(d, i) ==
    {j \in i + 1..Len(d) :
       \A k \in i + 1..j : d[k].kw \notin {"step", "section"}}

\* The lines with a keyword of kws among those at the positions I, in their order.
Picked(d, I, kws) ==
    LET at == InOrder({i \in I : d[i].kw \in kws})
    IN  [k \in DOMAIN at |-> d[at[k]]]

\* The last of a sequence, or what there is without one.
LastOr(s, none) == IF s = <<>> THEN none ELSE Last(s)

Latest(d, I, kw) == LastOr(Picked(d, I, {kw}), [args |-> <<>>]).args

Texted(lines) == [k \in DOMAIN lines |-> Joined(lines[k].args)]

Itemized(lines) ==
    [k \in DOMAIN lines |-> [text |-> Joined(lines[k].args),
                             required |-> lines[k].kw = "item!"]]

\* The step of line i; of a kind of which it has no line it has the empty text.
StepAt(d, i) ==
    LET B == Body(d, i)
    IN  [name |-> Joined(d[i].args),
         section |-> Cardinality({j \in 1..i : d[j].kw = "section"}),
         text |-> [t \in Texts |-> Joined(Latest(d, B, t))],
         list |-> [l \in Lists |-> Texted(Picked(d, B, {l}))],
         items |-> Itemized(Picked(d, B, Entries)),
         flags |-> {d[j].kw : j \in {k \in B : d[k].kw \in Flags}},
         needs |-> NameList(Latest(d, B, "needs")),
         ask |-> Targets(Latest(d, B, "ask"))]

WellFormedAt(d, i) ==
    LET line == d[i]
    IN  /\ line.kw # Overlong
        /\ line.kw \in NeedArgs => line.args # <<>>
        /\ line.kw = "step" => \E j \in 1..i : d[j].kw = "section"
        /\ line.kw \in InStep => \E j \in StepLines(d) : i \in Body(d, j)
        /\ line.kw = "ask" => Targets(line.args) # <<>>

\* Which step needs which; nobody waits for a step of the sentinel's name.
Waits == UNION {{<<m, n>> : n \in ToSet(deps[m]) \ {Sentinel}} : m \in DOMAIN deps}

\* Some steps wait for each other and for themselves.
Cyclic(edges, nodes) ==
    \E S \in SUBSET nodes :
       S # {} /\ \A m \in S : \E n \in S : <<m, n>> \in edges

-----------------------------------------------------------------------------
(* The engine's side *)

Eng == INSTANCE Engine WITH Steps <- StepNames, Items <- {}, NoStep <- NoName

Named(n) == CHOOSE i \in DOMAIN parser.steps : parser.steps[i].name = n

\* The definition as the engine reads it.  Names that the document does not
\* give are steps that wait for nothing and that nothing waits for.
WorkflowOf ==
    LET Given == DOMAIN deps
        Known(m) == IF m \in Given THEN m ELSE NoName
        Has(n, flag) == n \in Given /\ flag \in parser.steps[Named(n)].flags
    IN  [needs |-> [n \in StepNames |-> {Known(m) : m \in ToSet(NeedsOf(n))}],
         ask |-> [n \in StepNames |->
                    IF n \in Given
                    THEN LET ask == parser.steps[Named(n)].ask
                         IN  [k \in DOMAIN ask |-> Known(ask[k])]
                    ELSE <<>>],
         gate |-> [n \in StepNames |-> Has(n, "gate")],
         ends |-> [n \in StepNames |-> Has(n, "ends")],
         schedule |-> [n \in StepNames |-> Eng!NoTime],
         due |-> [n \in StepNames |-> Eng!NoTime],
         items |-> [n \in StepNames |-> {}],
         required |-> [n \in StepNames |-> {}],
         notify |-> [n \in StepNames |-> FALSE],
         assign |-> [n \in StepNames |-> FALSE]]

\* The instances that one more answer, confirmation or completion leads to.
After(wf, inst) ==
    UNION {{Eng!AdvanceStep(wf, inst, s, 0) : s \in {n \in StepNames : Eng!CanAdvance(wf, inst, n)}},
           UNION {{Eng!AnswerAsk(wf, inst, s, i, 0) :
                     i \in {k \in DOMAIN wf.ask[s] : Eng!CanAnswer(wf, inst, s, k)}} :
                  s \in StepNames},
           UNION {{Eng!RedeemGate(wf, inst, s, i, 0) :
                     i \in {k \in 1..Len(wf.ask[s]) + 1 : Eng!CanRedeem(wf, inst, s, k, 0)}} :
                  s \in StepNames}}

\* The instances that n calls lead to.
Reached(wf) ==
    LET R[n \in 0..Cardinality(StepNames)] ==
          IF n = 0 THEN {Eng!NewInstance(wf, 0)}
          ELSE UNION {After(wf, inst) : inst \in R[n - 1]}
    IN  R

-----------------------------------------------------------------------------
(* Properties *)

\* Parse, which only goes forward and keeps a current section and step, builds
\* what the document says: every line belongs to the step above it and to no step
\* of another section, the last one of a kind that is overwritten counts, and the
\* line that is refused is the first one out of its place.
ParsedAsWritten ==
    /\ phase \in {"reading", "refused"} =>
         \A i \in DOMAIN doc : WellFormedAt(doc, i) <=> phase = "reading" \/ i < Len(doc)
    /\ phase = "reading" =>
         LET at == InOrder(StepLines(doc))
         IN  /\ parser.name = Joined(Latest(doc, DOMAIN doc, "workflow"))
             /\ parser.sections = Texted(Picked(doc, DOMAIN doc, {"section"}))
             /\ parser.steps = [k \in DOMAIN at |-> StepAt(doc, at[k])]

\* "DetectCycles returns an error if the workflow contains circular needs
\* dependencies": if and only if, in whatever order Go goes through the map.
CyclesFound ==
    /\ phase = "accepted" => ~Cyclic(Waits, DOMAIN deps)
    /\ phase = "cyclic" => Cyclic(Waits, DOMAIN deps)

\* An accepted document does not "cause the engine to deadlock" (DetectCycles): no
\* order of calls and no answer leads into a dead end.  DetectCycles sees neither
\* repeated names, nor names that are no step, nor a step that waits for an answer
\* that waits for the step, nor an ask that another ask may skip.
Answers == UNION {{<<t, parser.steps[i].name>> :
                     t \in {u \in ToSet(parser.steps[i].ask) : NeedsOf(u) = <<>>}} :
                  i \in DOMAIN parser.steps}

Sensible ==
    /\ Cardinality(DOMAIN deps) = Len(parser.steps)
    /\ \A i \in DOMAIN parser.steps :
         LET step == parser.steps[i]
         IN  /\ ToSet(step.needs) \cup ToSet(step.ask) \subseteq DOMAIN deps
             /\ \A t \in ToSet(step.ask) :
                  \A j \in DOMAIN parser.steps :
                     parser.steps[j].name = t => parser.steps[j].ask = <<>>
    /\ ~Cyclic(Answers \cup Waits, DOMAIN deps) \/ Answers = {}

AcceptedFinishes ==
    phase = "accepted" /\ Sensible =>
       LET wf == WorkflowOf
           reached == Reached(wf)
       IN  \A n \in DOMAIN reached : \A inst \in reached[n] :
              inst.state = "done" \/ After(wf, inst) # {}

=============================================================================
