--------------------------- MODULE WorkflowProofs ---------------------------
(***************************************************************************)
(* Theorems about the way of a workflow into the engine: the language it   *)
(* is written in (module Language) and the files it comes from (module     *)
(* Definitions), for every number of lines, names, files and edits.        *)
(***************************************************************************)
EXTENDS Language, Definitions, FiniteSetTheorems, WellFoundedInduction, TLAPS

-----------------------------------------------------------------------------
(* The least and the greatest of a set of numbers *)

\* A set of numbers that is not empty has a least member, and a greatest if it is
\* bounded.
LEMMA LeastNumber ==
    ASSUME NEW T \in SUBSET Nat, T # {}
    PROVE  \E x \in T : \A y \in T : x <= y
<1>1. PICK x \in T : \A y \in T : ~(<<y, x>> \in OpToRel(<, Nat))
  BY WFMin, NatLessThanWellFounded
<1>2. x \in Nat /\ \A y \in T : y \in Nat /\ ~(y < x)
  BY <1>1 DEF OpToRel
<1> QED
  BY <1>2

LEMMA HighestNumber ==
    ASSUME NEW n \in Nat, NEW T \in SUBSET (1..n), T # {}
    PROVE  \E i \in T : \A j \in T : j <= i
<1> DEFINE U == {n - i : i \in T}
<1>1. \A i \in T : i \in Nat /\ n - i \in Nat /\ n - i \in U
  OBVIOUS
<1>2. U \in SUBSET Nat /\ U # {} /\ \A u \in U : \E i \in T : u = n - i
  BY <1>1
<1> HIDE DEF U
<1>3. PICK u \in U : \A w \in U : u <= w
  BY <1>2, LeastNumber
<1>4. PICK i \in T : u = n - i
  BY <1>2, <1>3
<1>5. ASSUME NEW j \in T PROVE j <= i
  BY <1>1, <1>3, <1>4
<1> QED
  BY <1>5

-----------------------------------------------------------------------------
(* The files and what a load makes of them *)

Bounded(n) == Files \subseteq 0..n

LEMMA FilesBounded == \E n \in Nat : Bounded(n)
<1> DEFINE C == Cardinality(Files)
<1>1. Files \in SUBSET Nat /\ C \in Nat
  BY DefinitionsAssumption, FS_CardinalityType
<1>2. PICK s \in Bijection(1..C, Files) : TRUE
  BY DefinitionsAssumption, FS_CardinalityType DEF ExistsBijection
<1>3. s \in [1..C -> Files] /\ \A f \in Files : \E i \in 1..C : s[i] = f
  BY <1>2 DEF Bijection, Surjection
<1> HIDE DEF C
<1> DEFINE Covered(m) == \E n \in Nat : \A i \in 1..m : s[i] <= n
           Fails == {m \in 0..C : ~Covered(m)}
<1>4. Covered(0)
  <2>1. 0 \in Nat /\ 1..0 = {}
    OBVIOUS
  <2> QED
    BY <2>1
<1>5. ASSUME NEW m \in 1..C, Covered(m - 1) PROVE Covered(m)
  <2>1. PICK n \in Nat : \A i \in 1..m - 1 : s[i] <= n
    BY <1>5
  <2>2. \A i \in 1..m : s[i] \in Nat /\ (i = m \/ i \in 1..m - 1)
    <3>1. \A i \in 1..m : i \in 1..C /\ (i = m \/ i \in 1..m - 1)
      BY <1>1
    <3> QED
      BY <1>1, <1>3, <3>1
  <2>3. m \in 1..m /\ s[m] \in Nat
    BY <2>2
  <2> DEFINE b == n + s[m]
  <2>4. b \in Nat /\ \A x \in Nat : x <= n => x <= b
    BY <2>3
  <2>5. s[m] <= b
    BY <2>3
  <2> HIDE DEF b
  <2>6. \A i \in 1..m : s[i] <= b
    BY <2>1, <2>2, <2>4, <2>5
  <2> QED
    BY <2>4, <2>6
<1> HIDE DEF Covered
<1>6. ASSUME NEW m \in Fails, \A k \in Fails : m <= k PROVE FALSE
  <2>1. m \in 1..C /\ m \in Nat /\ ~Covered(m)
    BY <1>1, <1>4, <1>6
  <2>2. m - 1 \in 0..C /\ ~(m <= m - 1)
    BY <1>1, <2>1
  <2> QED
    BY <1>5, <1>6, <2>1, <2>2
<1>7. Fails = {}
  <2>1. Fails \in SUBSET Nat
    BY <1>1
  <2> HIDE DEF Fails
  <2> QED
    BY <1>6, <2>1, LeastNumber
<1>8. Covered(C)
  <2>1. C \in 0..C
    BY <1>1
  <2> QED
    BY <1>7, <2>1
<1>9. PICK n \in Nat : \A i \in 1..C : s[i] <= n
  BY <1>8 DEF Covered
<1>10. \A f \in Files : f \in 0..n
  BY <1>1, <1>3, <1>9
<1> QED
  BY <1>10 DEF Bounded

LEMMA FirstFile ==
    ASSUME NEW S \in SUBSET Files, S # {}
    PROVE  First(S) \in S /\ \A g \in S : First(S) <= g
<1>1. \E f \in S : \A g \in S : f <= g
  BY DefinitionsAssumption, LeastNumber
<1> QED
  BY <1>1 DEF First

\* The file that is read last.
LastOf(S) == CHOOSE f \in S : \A g \in S : g <= f

LEMMA LastFile ==
    ASSUME NEW S \in SUBSET Files, NEW l \in S, \A g \in S : g <= l
    PROVE  LastOf(S) = l
<1>1. S \in SUBSET Nat
  BY DefinitionsAssumption
<1>2. LastOf(S) \in S /\ \A g \in S : g <= LastOf(S)
  BY DEF LastOf
<1>3. LastOf(S) \in Nat /\ l \in Nat /\ l <= LastOf(S) /\ LastOf(S) <= l
  BY <1>1, <1>2
<1> QED
  BY <1>3

\* Of the files below n, the load of each set of them.
Below(n) == {f \in Files : f < n}
LoadStep(g, t, S) ==
    IF S = {} THEN None ELSE Register(g[S \ {LastOf(S)}], LastOf(S), t[LastOf(S)])
Loads(g, t, n) == g = [S \in SUBSET Below(n) |-> LoadStep(g, t, S)]

LEMMA LoadsNext ==
    ASSUME NEW t, NEW n \in Nat, NEW g, Loads(g, t, n)
    PROVE  \E h : Loads(h, t, n + 1)
<1> DEFINE h == [S \in SUBSET Below(n + 1) |->
                   IF S \in SUBSET Below(n) THEN g[S]
                   ELSE Register(g[S \ {n}], n, t[n])]
<1>1. \A f \in Files : f \in Nat
  BY DefinitionsAssumption
<1>2. Below(n) \subseteq Below(n + 1) /\ Below(n + 1) \in SUBSET Files
  BY <1>1 DEF Below
<1>3. \A f \in Below(n + 1) : f \in Below(n) \/ f = n
  BY <1>1 DEF Below
<1>4. ASSUME NEW S \in SUBSET Below(n)
      PROVE  g[S] = LoadStep(g, t, S)
  BY DEF Loads
<1>5. ASSUME NEW S \in SUBSET Below(n)
      PROVE  S \ {LastOf(S)} \in SUBSET Below(n) /\ h[S \ {LastOf(S)}] = g[S \ {LastOf(S)}]
  BY <1>2
<1>6. ASSUME NEW S \in SUBSET Below(n + 1)
      PROVE  h[S] = LoadStep(h, t, S)
  <2>1. CASE S \in SUBSET Below(n)
    <3>1. h[S] = g[S]
      BY <2>1
    <3> HIDE DEF h
    <3> QED
      BY <2>1, <3>1, <1>4, <1>5 DEF LoadStep
  <2>2. CASE S \notin SUBSET Below(n)
    <3>1. n \in S /\ S # {} /\ S \in SUBSET Files
      BY <1>2, <1>3, <2>2
    <3>2. \A f \in S : f <= n
      BY <1>1, <1>2 DEF Below
    <3>3. LastOf(S) = n
      BY <3>1, <3>2, LastFile
    <3>4. S \ {n} \in SUBSET Below(n)
      BY <1>3
    <3>5. h[S \ {n}] = g[S \ {n}]
      BY <1>2, <3>4
    <3>6. h[S] = Register(g[S \ {n}], n, t[n])
      BY <2>2
    <3> HIDE DEF h
    <3> QED
      BY <3>1, <3>3, <3>5, <3>6 DEF LoadStep
  <2> QED
    BY <2>1, <2>2
<1>7. h = [S \in SUBSET Below(n + 1) |-> h[S]]
  OBVIOUS
<1> HIDE DEF h
<1>8. h = [S \in SUBSET Below(n + 1) |-> LoadStep(h, t, S)]
  BY <1>6, <1>7
<1> QED
  BY <1>8 DEF Loads

LEMMA SomeLoad ==
    ASSUME NEW t, NEW n \in Nat
    PROVE  \E g : Loads(g, t, n)
<1> DEFINE Fails == {m \in Nat : ~ \E g : Loads(g, t, m)}
<1>1. 0 \notin Fails
  <2> DEFINE g == [S \in SUBSET Below(0) |-> None]
  <2>1. Below(0) = {}
    <3>1. \A f \in Files : f \in Nat /\ ~(f < 0)
      BY DefinitionsAssumption
    <3> QED
      BY <3>1 DEF Below
  <2>2. \A S \in SUBSET Below(0) : LoadStep(g, t, S) = None
    BY <2>1 DEF LoadStep
  <2>3. Loads(g, t, 0)
    BY <2>2 DEF Loads
  <2> QED
    BY <2>3
<1>2. ASSUME NEW m \in Fails, \A k \in Fails : m <= k PROVE FALSE
  <2>1. m \in Nat /\ m # 0 /\ ~ \E g : Loads(g, t, m)
    BY <1>1, <1>2
  <2>2. m - 1 \in Nat /\ m - 1 \notin Fails /\ m - 1 + 1 = m
    BY <1>2, <2>1
  <2>3. PICK g : Loads(g, t, m - 1)
    BY <2>2
  <2> QED
    BY <2>1, <2>2, <2>3, LoadsNext
<1>3. Fails \in SUBSET Nat
  OBVIOUS
<1> HIDE DEF Fails
<1>4. Fails = {}
  BY <1>2, <1>3, LeastNumber
<1> QED
  BY <1>4 DEF Fails

\* Loaded is what its definition says.
LEMMA LoadedIs ==
    ASSUME NEW S \in SUBSET Files
    PROVE  Loaded[S] = LoadStep(Loaded, text, S)
<1> DEFINE Equation(g) == g = [T \in SUBSET Files |-> LoadStep(g, text, T)]
<1>1. \E g : Equation(g)
  <2>1. PICK n \in Nat : Bounded(n)
    BY FilesBounded
  <2>2. \A f \in Files : f < n + 1
    BY <2>1 DEF Bounded
  <2>3. Below(n + 1) = Files
    BY <2>2 DEF Below
  <2>4. PICK g : Loads(g, text, n + 1)
    BY SomeLoad
  <2> QED
    BY <2>3, <2>4 DEF Loads
<1>2. Loaded = CHOOSE g : Equation(g)
  BY Zenon DEF Loaded, LoadStep, LastOf
<1> HIDE DEF Equation
<1>3. Equation(Loaded)
  BY <1>1, <1>2, Zenon
<1> QED
  BY <1>3 DEF Equation

LEMMA LoadedStays ==
    ASSUME text' = text
    PROVE  Loaded' = Loaded
  BY Zenon DEF Loaded

-----------------------------------------------------------------------------
(* A file is registered under the first free suffix *)

DefsType == [DefNames -> {Absent} \cup Definition]
Contents == {Absent} \cup Content

SuffixRange == 0..Cardinality(Files) - 1

\* SuffixesInOrder, of the definitions d.
Ordered(d) ==
    \A n \in DefNames : d[n] # Absent =>
       /\ \A m \in DefNames \ {n} : d[m] # Absent => d[m].file # d[n].file
       /\ \A k \in 0..n[2] - 1 :
             d[<<n[1], k>>] # Absent /\ d[<<n[1], k>>].file < d[n].file

FilesIn(d, S) == \A n \in DefNames : d[n] # Absent => d[n].file \in S

Taken(d, title) == {k \in SuffixRange : d[<<title, k>>] # Absent}
Free(d, title) ==
    CHOOSE k \in 0..Cardinality(Taken(d, title)) :
       k \notin Taken(d, title) /\ \A j \in 0..k - 1 : j \in Taken(d, title)

LEMMA FreeSuffix ==
    ASSUME NEW d, NEW title
    PROVE  /\ Free(d, title) \in Nat
           /\ Free(d, title) \notin Taken(d, title)
           /\ \A j \in 0..Free(d, title) - 1 : j \in Taken(d, title)
<1> DEFINE T == Taken(d, title)
           c == Cardinality(T)
           Fits(k) == k \notin T /\ \A j \in 0..k - 1 : j \in T
<1>1. T \subseteq SuffixRange /\ Cardinality(Files) \in Nat
  BY DefinitionsAssumption, FS_CardinalityType DEF Taken
<1>2. IsFiniteSet(SuffixRange)
  BY <1>1, FS_Interval DEF SuffixRange
<1>3. IsFiniteSet(T) /\ c \in Nat
  BY <1>1, <1>2, FS_Subset, FS_CardinalityType
<1>4. ~(0..c \subseteq T)
  <2>1. Cardinality(0..c) = c + 1
    BY <1>3, FS_Interval
  <2>2. 0..c \subseteq T => Cardinality(0..c) <= c
    BY <1>3, FS_Subset
  <2> HIDE DEF c
  <2> QED
    BY <1>3, <2>1, <2>2
<1> DEFINE U == (0..c) \ T
<1>5. U \in SUBSET Nat /\ U # {}
  BY <1>4
<1>6. PICK k \in U : \A j \in U : k <= j
  <2> HIDE DEF U
  <2> QED
    BY <1>5, LeastNumber
<1>7. \A j \in 0..k - 1 : j \in T
  <2>1. \A j \in 0..k - 1 : j \in 0..c /\ ~(k <= j)
    BY <1>3, <1>6
  <2> QED
    BY <1>6, <2>1
<1>8. k \in 0..c /\ Fits(k)
  BY <1>6, <1>7
<1>9. Free(d, title) = CHOOSE i \in 0..c : Fits(i)
  BY DEF Free
<1> HIDE DEF Fits
<1>10. Free(d, title) \in 0..c /\ Fits(Free(d, title))
  BY <1>8, <1>9
<1> QED
  BY <1>10 DEF Fits

\* A new definition of a free name in the definitions d.
Put(d, name, f, version) == [d EXCEPT ![name] = [file |-> f, version |-> version]]

LEMMA RegisterIs ==
    ASSUME NEW d, NEW f, NEW content
    PROVE  \/ content.title = NoWorkflow /\ Register(d, f, content) = d
           \/ /\ content.title # NoWorkflow
              /\ Register(d, f, content) =
                   Put(d, <<content.title, Free(d, content.title)>>, f, content.version)
BY DEF Register, Put, Free, Taken, SuffixRange

LEMMA Distinct == Absent \notin Definition
<1>1. Absent = [absent |-> TRUE]
  BY DEF Absent
<1>2. ASSUME NEW x \in Definition, x = Absent PROVE FALSE
  <2>1. DOMAIN x = {"file", "version"}
    BY DEF Definition
  <2>2. DOMAIN Absent = {"absent"}
    BY DEF Absent
  <2> QED
    BY <1>2, <2>1, <2>2
<1> QED
  BY <1>2

\* Registered after all the others, a file takes the end of its title's suffixes.
LEMMA RegisterKeeps ==
    ASSUME NEW d \in DefsType, Ordered(d), NEW S \in SUBSET Files, FilesIn(d, S),
           NEW f \in Files, \A g \in S : g < f,
           NEW content \in Content
    PROVE  /\ Register(d, f, content) \in DefsType
           /\ Ordered(Register(d, f, content))
           /\ FilesIn(Register(d, f, content), S \cup {f})
<1> DEFINE t == content.title
           k == Free(d, t)
           v == content.version
           e == [file |-> f, version |-> v]
           r == Register(d, f, content)
<1>1. CASE r = d
  BY <1>1 DEF FilesIn
<1>2. CASE t \in Titles /\ r = Put(d, <<t, k>>, f, v)
  <2>1. /\ k \in Nat /\ k \notin Taken(d, t)
        /\ \A j \in 0..k - 1 : j \in Taken(d, t)
    BY FreeSuffix
  <2>2. v \in 0..MaxEdits /\ e \in Definition /\ e.file = f /\ e # Absent
    <3>1. v \in 0..MaxEdits
      BY DEF Content
    <3>2. e \in Definition /\ e.file = f
      BY <3>1 DEF Definition
    <3> QED
      BY <3>1, <3>2, Distinct
  <2>3. Files \in SUBSET Nat /\ Cardinality(Files) \in Nat
    BY DefinitionsAssumption, FS_CardinalityType
  <2>4. r = [d EXCEPT ![<<t, k>>] = e]
    BY <1>2 DEF Put
  <2> HIDE DEF r, k, t, v, e
  <2>5. CASE <<t, k>> \notin DefNames
    <3>1. r = d
      BY <2>4, <2>5 DEF DefsType
    <3> QED
      BY <1>1, <3>1
  <2>6. CASE <<t, k>> \in DefNames
    <3>1. d[<<t, k>>] = Absent
      BY <2>1, <2>6 DEF Taken, DefNames, SuffixRange
    <3>2. /\ r \in DefsType /\ r[<<t, k>>] = e
          /\ \A n \in DefNames : n # <<t, k>> => r[n] = d[n]
      BY <2>2, <2>4, <2>6 DEF DefsType
    <3>3. \A n \in DefNames : d[n] # Absent => d[n].file \in S /\ d[n].file < f /\ d[n].file # f
      <4>1. \A g \in S : g \in Nat /\ f \in Nat /\ g < f
        BY <2>3
      <4>2. \A g \in S : g # f
        BY <4>1
      <4> QED
        BY <4>1, <4>2 DEF FilesIn
    <3>4. FilesIn(r, S \cup {f})
      BY <2>2, <3>2, <3>3 DEF FilesIn
    <3>5. ASSUME NEW n \in DefNames, r[n] # Absent
          PROVE  /\ \A m \in DefNames \ {n} : r[m] # Absent => r[m].file # r[n].file
                 /\ \A j \in 0..n[2] - 1 :
                      r[<<n[1], j>>] # Absent /\ r[<<n[1], j>>].file < r[n].file
      <4>1. CASE n = <<t, k>>
        <5>1. \A m \in DefNames \ {n} : r[m] # Absent => r[m].file # r[n].file
          BY <2>2, <3>2, <3>3, <4>1
        <5>2. ASSUME NEW j \in 0..k - 1
              PROVE  r[<<t, j>>] # Absent /\ r[<<t, j>>].file < f
          <6>1. j \in Taken(d, t) /\ j # k
            BY <2>1
          <6>2. <<t, j>> \in DefNames /\ <<t, j>> # <<t, k>> /\ d[<<t, j>>] # Absent
            BY <2>6, <6>1 DEF Taken, DefNames, SuffixRange
          <6> QED
            BY <3>2, <3>3, <6>2
        <5>3. n[1] = t /\ n[2] = k
          BY <4>1
        <5> QED
          BY <2>2, <3>2, <4>1, <5>1, <5>2, <5>3
      <4>2. CASE n # <<t, k>>
        <5>1. r[n] = d[n] /\ d[n] # Absent
          BY <3>2, <3>5, <4>2
        <5>2. \A m \in DefNames \ {n} : r[m] # Absent => r[m].file # r[n].file
          <6>1. ASSUME NEW m \in DefNames \ {n}, r[m] # Absent
                PROVE  r[m].file # r[n].file
            <7>1. CASE m = <<t, k>>
              BY <2>2, <3>2, <3>3, <5>1, <7>1
            <7>2. CASE m # <<t, k>>
              BY <3>2, <5>1, <6>1, <7>2 DEF Ordered
            <7> QED
              BY <7>1, <7>2
          <6> QED
            BY <6>1
        <5>3. ASSUME NEW j \in 0..n[2] - 1
              PROVE  r[<<n[1], j>>] # Absent /\ r[<<n[1], j>>].file < r[n].file
          <6>1. d[<<n[1], j>>] # Absent /\ d[<<n[1], j>>].file < d[n].file
            BY <5>1 DEF Ordered
          <6>2. <<n[1], j>> \in DefNames
            BY <2>3 DEF DefNames
          <6>3. <<n[1], j>> # <<t, k>>
            BY <3>1, <6>1
          <6> QED
            BY <3>2, <5>1, <6>1, <6>2, <6>3
        <5> QED
          BY <5>2, <5>3
      <4> QED
        BY <4>1, <4>2
    <3>6. Ordered(r)
      BY <3>5 DEF Ordered
    <3> QED
      BY <3>2, <3>4, <3>6 DEF r
  <2> QED
    BY <2>5, <2>6 DEF r
<1>3. t \in Titles \cup {NoWorkflow}
  BY DEF Content
<1> QED
  BY <1>1, <1>2, <1>3, RegisterIs

-----------------------------------------------------------------------------
(* The invariants of the reload *)

DefsTyped ==
    /\ text \in [Files -> Contents] /\ defs \in DefsType
    /\ toRead \in SUBSET Files /\ edits \in 0..MaxEdits

\* What a reload has registered comes before what it has yet to read.
ReadInOrder ==
    loading => \A n \in DefNames : defs[n] # Absent => \A g \in toRead : defs[n].file < g

\* A reload that nothing disturbed has read the first of the files.
ReadUndisturbed ==
    loading /\ ~missed /\ ~event =>
       /\ toRead \subseteq Present
       /\ \A f \in Present \ toRead, g \in toRead : f < g
       /\ defs = Loaded[Present \ toRead]

DefsInv ==
    /\ DefsTyped /\ Ordered(defs) /\ ReadInOrder
    /\ ChangeNotLost /\ ReadUndisturbed

LEMMA NoneType ==
    None \in DefsType /\ Ordered(None) /\ FilesIn(None, {})
<1>1. \A n \in DefNames : None[n] = Absent
  BY DEF None
<1>2. None \in DefsType
  BY DEF None, DefsType
<1>3. Ordered(None) /\ FilesIn(None, {})
  BY <1>1 DEF Ordered, FilesIn
<1> QED
  BY <1>2, <1>3

\* The definitions that a load of any of the files makes.
LEMMA LoadedOrdered ==
    ASSUME text \in [Files -> Contents], NEW S \in SUBSET Present
    PROVE  Loaded[S] \in DefsType /\ Ordered(Loaded[S]) /\ FilesIn(Loaded[S], S)
<1> DEFINE Good(T) == Loaded[T] \in DefsType /\ Ordered(Loaded[T]) /\ FilesIn(Loaded[T], T)
           Fails == {n \in Nat : \E T \in SUBSET Present : T \subseteq 0..n - 1 /\ ~Good(T)}
<1>1. Present \in SUBSET Files /\ Files \in SUBSET Nat
  BY DefinitionsAssumption DEF Present
<1>2. Good({})
  BY LoadedIs, NoneType DEF LoadStep
<1>3. ASSUME NEW m \in Fails, \A k \in Fails : m <= k PROVE FALSE
  <2>1. PICK T \in SUBSET Present : T \subseteq 0..m - 1 /\ ~Good(T) /\ m \in Nat
    BY <1>3
  <2> HIDE DEF Good
  <2>2. T # {} /\ m # 0
    <3>1. T # {}
      BY <1>2, <2>1
    <3>2. m = 0 => 0..m - 1 = {}
      OBVIOUS
    <3> QED
      BY <2>1, <3>1, <3>2
  <2>3. m - 1 \in Nat /\ m - 1 \notin Fails
    BY <1>3, <2>1, <2>2
  <2>4. m - 1 \in T
    <3>1. m - 1 \notin T => T \subseteq 0..m - 1 - 1
      BY <2>1, <2>3
    <3> QED
      BY <2>1, <2>3, <3>1
  <2> DEFINE l == m - 1
             B == T \ {l}
  <2>5. \A g \in T : g <= l
    BY <2>1, <2>3
  <2>6. LastOf(T) = l
    BY <1>1, <2>1, <2>4, <2>5, LastFile
  <2>7. B \in SUBSET Present /\ B \in SUBSET Files /\ (\A g \in B : g < l) /\ l \in Files
        /\ B \subseteq 0..l - 1
    BY <1>1, <2>1, <2>3, <2>4, <2>5
  <2>8. Good(B)
    BY <2>3, <2>7
  <2>9. Loaded[T] = Register(Loaded[B], l, text[l])
    BY <1>1, <2>1, <2>2, <2>6, LoadedIs DEF LoadStep
  <2>10. text[l] \in Content
    BY <2>1, <2>4 DEF Present, Contents
  <2>11. B \cup {l} = T
    BY <2>4
  <2> HIDE DEF l, B
  <2>12. Good(T)
    BY <2>7, <2>8, <2>9, <2>10, <2>11, RegisterKeeps DEF Good
  <2> QED
    BY <2>1, <2>12
<1>4. Fails = {}
  <2>1. Fails \in SUBSET Nat
    OBVIOUS
  <2> HIDE DEF Fails
  <2> QED
    BY <1>3, <2>1, LeastNumber
<1>5. PICK n \in Nat : Bounded(n)
  BY FilesBounded
<1>6. S \subseteq 0..n + 1 - 1 /\ n + 1 \in Nat
  BY <1>1, <1>5 DEF Bounded
<1>7. Good(S)
  <2> HIDE DEF Good
  <2>1. ~Good(S) => n + 1 \in Fails
    BY <1>6
  <2> QED
    BY <1>4, <2>1
<1> QED
  BY <1>7

\* What a step that does not touch the files or the definitions keeps.
LEMMA FilesKept ==
    ASSUME DefsInv, text' = text, defs' = defs, toRead' = toRead, edits' = edits,
           loading' = loading
    PROVE  /\ DefsTyped' /\ Ordered(defs') /\ ReadInOrder'
           /\ Present' = Present /\ Loaded' = Loaded /\ Current' = Current
<1>1. Loaded' = Loaded /\ Present' = Present
  BY LoadedStays DEF Present
<1>2. DefsTyped' /\ Ordered(defs') /\ ReadInOrder'
  BY DEF DefsInv, DefsTyped, ReadInOrder
<1>3. Current' = Current
  BY <1>1 DEF Current
<1> QED
  BY <1>1, <1>2, <1>3

LEMMA DefsStart == Init => DefsInv
<1> SUFFICES ASSUME Init PROVE DefsInv
  OBVIOUS
<1>1. text \in [Files -> Contents]
  <2>1. [title : Titles, version : {0}] \subseteq Content
    BY DefinitionsAssumption DEF Content
  <2> QED
    BY <2>1 DEF Init, Contents
<1>2. /\ defs = Loaded[Present] /\ toRead = {} /\ loading = FALSE /\ edits = 0
  BY DEF Init
<1>3. defs \in DefsType /\ Ordered(defs)
  BY <1>1, <1>2, LoadedOrdered
<1>4. DefsTyped
  BY <1>1, <1>2, <1>3, DefinitionsAssumption DEF DefsTyped
<1>5. Current
  BY <1>2 DEF Current
<1> QED
  BY <1>2, <1>3, <1>4, <1>5 DEF DefsInv, ReadInOrder, ReadUndisturbed, ChangeNotLost

LEMMA EditKeeps ==
    ASSUME DefsInv, NEW f \in Files, Edit(f)
    PROVE  DefsInv'
<1>1. /\ edits < MaxEdits /\ edits' = edits + 1 /\ event' = watching
      /\ missed' = (missed \/ ~watching)
      /\ defs' = defs /\ toRead' = toRead /\ loading' = loading
  BY DEF Edit
<1>2. edits' \in 0..MaxEdits
  BY <1>1, DefinitionsAssumption DEF DefsInv, DefsTyped
<1>3. text' \in [Files -> Contents]
  <2>1. PICK content \in {Absent} \cup [title : Titles \cup {NoWorkflow}, version : {edits'}] :
           text' = [text EXCEPT ![f] = content]
    BY DEF Edit
  <2>2. content \in Contents
    BY <1>2, <2>1 DEF Contents, Content
  <2> QED
    BY <2>1, <2>2 DEF DefsInv, DefsTyped
<1>4. DefsTyped' /\ Ordered(defs') /\ ReadInOrder'
  BY <1>1, <1>2, <1>3 DEF DefsInv, DefsTyped, ReadInOrder
<1>5. missed' \/ event'
  BY <1>1
<1> QED
  BY <1>4, <1>5 DEF DefsInv, ChangeNotLost, ReadUndisturbed

LEMMA ReadsFileKeeps ==
    ASSUME DefsInv, ReadsFile
    PROVE  DefsInv'
<1> DEFINE f == First(toRead)
           S == {g \in Files : \A h \in toRead : g < h}
<1>1. /\ loading /\ toRead # {} /\ text[f] # Absent
      /\ defs' = Register(defs, f, text[f]) /\ toRead' = toRead \ {f}
      /\ text' = text /\ loading' = loading /\ event' = event /\ edits' = edits
      /\ missed' = missed /\ debounce' = debounce
  BY DEF ReadsFile
<1>2. f \in toRead /\ f \in Files /\ \A g \in toRead : f <= g
  BY <1>1, FirstFile DEF DefsInv, DefsTyped
<1>3. /\ defs \in DefsType /\ Ordered(defs) /\ toRead \in SUBSET Files
      /\ text \in [Files -> Contents] /\ Files \in SUBSET Nat
  BY DefinitionsAssumption DEF DefsInv, DefsTyped
<1>4. text[f] \in Content
  BY <1>1, <1>2, <1>3 DEF Contents
<1> HIDE DEF f
<1>5. FilesIn(defs, S)
  <2>1. ASSUME NEW n \in DefNames, defs[n] # Absent PROVE defs[n].file \in S
    <3>1. defs[n] \in Definition
      BY <1>3, <2>1 DEF DefsType
    <3>2. defs[n].file \in Files
      BY <3>1 DEF Definition
    <3> QED
      BY <1>1, <2>1, <3>2 DEF DefsInv, ReadInOrder
  <2> QED
    BY <2>1 DEF FilesIn
<1>6. S \in SUBSET Files /\ \A g \in S : g < f
  BY <1>2
<1>7. /\ defs' \in DefsType /\ Ordered(defs') /\ FilesIn(defs', S \cup {f})
  <2> HIDE DEF S
  <2> QED
    BY <1>1, <1>2, <1>3, <1>4, <1>5, <1>6, RegisterKeeps
<1>8. DefsTyped'
  BY <1>1, <1>3, <1>7 DEF DefsInv, DefsTyped
<1>9. ReadInOrder'
  <2>1. \A g \in toRead \ {f} : f \in Nat /\ g \in Nat /\ f <= g /\ f # g
    BY <1>2, <1>3
  <2>2. \A h \in S \cup {f} : \A g \in toRead \ {f} : h < g
    BY <2>1
  <2> HIDE DEF S
  <2> QED
    BY <1>1, <1>7, <2>2 DEF ReadInOrder, FilesIn
<1>10. Loaded' = Loaded /\ Present' = Present
  BY <1>1, LoadedStays DEF Present
<1>11. ASSUME ~missed, ~event
       PROVE  /\ toRead' \subseteq Present
              /\ \A h \in Present \ toRead', g \in toRead' : h < g
              /\ defs' = Loaded[Present \ toRead']
  <2> DEFINE R == Present \ toRead
             T == Present \ toRead'
  <2>1. /\ toRead \subseteq Present /\ \A h \in R, g \in toRead : h < g
        /\ defs = Loaded[R]
    BY <1>1, <1>11 DEF DefsInv, ReadUndisturbed
  <2>2. Present \subseteq Files
    BY DEF Present
  <2>3. T = R \cup {f} /\ T \ {f} = R /\ f \in T /\ T \in SUBSET Files
    BY <1>1, <1>2, <2>1, <2>2
  <2>4. \A h \in R : h \in Nat /\ f \in Nat /\ h < f
    BY <1>2, <1>3, <2>1, <2>2
  <2>5. \A h \in T : h <= f
    BY <1>3, <1>2, <2>3, <2>4
  <2>6. LastOf(T) = f
    BY <2>3, <2>5, LastFile
  <2> HIDE DEF R, T
  <2>7. Loaded[T] = Register(Loaded[R], f, text[f])
    BY <2>3, <2>6, LoadedIs DEF LoadStep
  <2>8. \A g \in toRead' : f < g /\ g \in toRead
    BY <1>1, <1>2, <1>3
  <2> QED
    BY <1>1, <2>1, <2>3, <2>7, <2>8 DEF T
<1>12. ReadUndisturbed'
  BY <1>1, <1>10, <1>11 DEF ReadUndisturbed
<1>13. ChangeNotLost'
  BY <1>1 DEF ChangeNotLost
<1> QED
  BY <1>7, <1>8, <1>9, <1>12, <1>13 DEF DefsInv

LEMMA ReloadKeepsInv ==
    ASSUME DefsInv, ReloadBegins \/ ListingFails \/ ReloadFails \/ ReloadEnds
    PROVE  DefsInv'
<1>1. Loaded' = Loaded /\ Present' = Present /\ text' = text /\ edits' = edits
      /\ event' = event
  BY LoadedStays DEF ReloadBegins, ListingFails, ReloadFails, ReloadEnds, Present
<1>2. Present \in SUBSET Files
  BY DEF Present
<1>3. CASE ReloadBegins
  <2>1. /\ defs' = None /\ toRead' = Present /\ loading' = TRUE /\ missed' = missed
    BY <1>3 DEF ReloadBegins
  <2>2. DefsTyped' /\ Ordered(defs')
    BY <1>1, <1>2, <2>1, NoneType DEF DefsInv, DefsTyped
  <2>3. ReadInOrder'
    BY <2>1 DEF ReadInOrder, None
  <2>4. Loaded[{}] = None
    BY LoadedIs DEF LoadStep
  <2>5. ReadUndisturbed'
    <3>1. Present \ Present = {}
      OBVIOUS
    <3> QED
      BY <1>1, <2>1, <2>4, <3>1 DEF ReadUndisturbed
  <2>6. ChangeNotLost'
    BY <2>1 DEF ChangeNotLost
  <2> QED
    BY <2>2, <2>3, <2>5, <2>6 DEF DefsInv
<1>4. CASE ReloadFails \/ ReloadEnds
  <2>1. defs' = defs /\ loading' = FALSE /\ toRead' = {} /\ debounce' = debounce
    BY <1>4 DEF ReloadFails, ReloadEnds
  <2>2. DefsTyped' /\ Ordered(defs') /\ ReadInOrder' /\ ReadUndisturbed'
    BY <1>1, <2>1 DEF DefsInv, DefsTyped, ReadInOrder, ReadUndisturbed
  <2>3. ChangeNotLost'
    <3>1. CASE ReloadFails
      <4>1. First(toRead) \in toRead
        BY <3>1, FirstFile DEF ReloadFails, DefsInv, DefsTyped
      <4>2. CASE text[First(toRead)] = Absent /\ missed' = missed
        <5>1. First(toRead) \notin Present
          BY <4>2 DEF Present
        <5>2. missed \/ event
          BY <3>1, <4>1, <5>1 DEF ReloadFails, DefsInv, ReadUndisturbed
        <5> QED
          BY <1>1, <4>2, <5>2 DEF ChangeNotLost
      <4> QED
        BY <3>1, <4>2 DEF ReloadFails, ChangeNotLost
    <3>2. CASE ReloadEnds
      <4>1. loading /\ toRead = {} /\ missed' = missed
        BY <3>2 DEF ReloadEnds
      <4>2. CASE ~missed /\ ~event
        <5>1. defs = Loaded[Present \ {}] /\ Present \ {} = Present
          BY <4>1, <4>2 DEF DefsInv, ReadUndisturbed
        <5>2. Current'
          BY <1>1, <2>1, <5>1 DEF Current
        <5> QED
          BY <5>2 DEF ChangeNotLost
      <4> QED
        BY <1>1, <4>1, <4>2 DEF ChangeNotLost
    <3> QED
      BY <1>4, <3>1, <3>2
  <2> QED
    BY <2>2, <2>3 DEF DefsInv
<1>5. CASE ListingFails
  <2>1. ~loading /\ defs' = None /\ toRead' = toRead /\ loading' = loading /\ missed' = TRUE
    BY <1>5 DEF ListingFails
  <2>2. DefsTyped' /\ Ordered(defs')
    BY <1>1, <2>1, NoneType DEF DefsInv, DefsTyped
  <2>3. ReadInOrder'
    BY <2>1 DEF ReadInOrder, None
  <2>4. ReadUndisturbed' /\ ChangeNotLost'
    BY <2>1 DEF ReadUndisturbed, ChangeNotLost
  <2> QED
    BY <2>2, <2>3, <2>4 DEF DefsInv
<1> QED
  BY <1>3, <1>4, <1>5

LEMMA OthersKeep ==
    ASSUME DefsInv,
           \/ WatcherStarts \/ EventArrives \/ UNCHANGED vars
           \/ \E i, n : Make(i, n)
    PROVE  DefsInv'
<1>1. /\ text' = text /\ defs' = defs /\ toRead' = toRead /\ edits' = edits
      /\ loading' = loading /\ missed' = missed
      /\ \/ event' = event /\ debounce' = debounce
         \/ ~loading /\ debounce' = TRUE
  BY DEF WatcherStarts, EventArrives, vars, Make
<1>2. /\ DefsTyped' /\ Ordered(defs') /\ ReadInOrder'
      /\ Present' = Present /\ Loaded' = Loaded /\ Current' = Current
  BY <1>1, FilesKept
<1>3. ReadUndisturbed'
  BY <1>1, <1>2 DEF DefsInv, ReadUndisturbed
<1>4. ChangeNotLost'
  BY <1>1, <1>2 DEF DefsInv, ChangeNotLost
<1> QED
  BY <1>2, <1>3, <1>4 DEF DefsInv

LEMMA DefsKept ==
    ASSUME DefsInv, [Next]_vars
    PROVE  DefsInv'
<1>1. ASSUME NEW i \in Ids,
             CreateInstance(i) \/ (\E src \in Ids : CloneInstance(src, i))
      PROVE  \E n : Make(i, n)
  BY <1>1 DEF CreateInstance, CloneInstance
<1>2. ASSUME \E i \in Ids : CreateInstance(i) \/ (\E src \in Ids : CloneInstance(src, i))
      PROVE  DefsInv'
  BY <1>1, <1>2, OthersKeep
<1> QED
  BY <1>2, EditKeeps, ReadsFileKeeps, ReloadKeepsInv, OthersKeep DEF Next

\* No file is registered twice, and the files of one title have the suffixes in
\* their order with no gap, in every state of a reload and whatever is edited in
\* the middle of it (loadDefinitions).
THEOREM SuffixesStayInOrder == Spec => []SuffixesInOrder
<1>1. DefsInv /\ [Next]_vars => DefsInv'
  BY DefsKept
<1>2. DefsInv => SuffixesInOrder
  BY DEF DefsInv, Ordered, SuffixesInOrder
<1> QED
  BY <1>1, <1>2, DefsStart, PTL DEF Spec

\* A change of the files that the definitions do not show has an event, a timer or
\* a reload on its way, unless nobody watched it or a fault cut a reload short
\* (watchWorkflows): what a reload has not read yet is still to come, or an event
\* is there.
THEOREM ChangesNotLost == Spec => []ChangeNotLost
<1>1. DefsInv /\ [Next]_vars => DefsInv'
  BY DefsKept
<1>2. DefsInv => ChangeNotLost
  BY DEF DefsInv
<1> QED
  BY <1>1, <1>2, DefsStart, PTL DEF Spec

-----------------------------------------------------------------------------
(* What the parser builds has its type *)

Words == Tokens \cup Seq(Tokens)

StepType ==
    [name : Words, section : Nat,
     text : [Texts -> Words], list : [Lists -> Seq(Words)],
     items : Seq([text : Words, required : BOOLEAN]), flags : SUBSET Flags,
     needs : Seq(Tokens), ask : Seq(Tokens)]

ParserType ==
    [name : Words, header : [Headers -> Seq(Words)], sections : Seq(Words),
     steps : Seq(StepType), current : Nat]

ParserTyped ==
    /\ parser \in ParserType /\ parser.current <= Len(parser.steps)

\* The names of the first m tokens, from those of the first m - 1.
NamesUpto(args, S, m) ==
    \E g \in [0..m -> Seq(S)] :
       g = [n \in 0..m |->
              IF n = 0 THEN <<>>
              ELSE IF args[n] \in {Arrow, Comma} THEN g[n - 1]
              ELSE Append(g[n - 1], args[n])]

LEMMA NamesNext ==
    ASSUME NEW S, NEW args \in Seq(S), NEW m \in 1..Len(args), NamesUpto(args, S, m - 1)
    PROVE  NamesUpto(args, S, m)
<1> DEFINE Last1(g, n) == IF n = 0 THEN <<>>
                          ELSE IF args[n] \in {Arrow, Comma} THEN g[n - 1]
                          ELSE Append(g[n - 1], args[n])
<1>1. PICK g \in [0..m - 1 -> Seq(S)] : g = [n \in 0..m - 1 |-> Last1(g, n)]
  BY DEF NamesUpto
<1> DEFINE new == Last1(g, m)
           h == [n \in 0..m |-> IF n = m THEN new ELSE g[n]]
<1>2. new \in Seq(S)
  BY <1>1
<1>3. h \in [0..m -> Seq(S)]
  BY <1>2
<1>4. ASSUME NEW n \in 0..m PROVE h[n] = Last1(h, n)
  <2>1. CASE n = m
    <3>1. h[n] = new /\ h[n - 1] = g[n - 1]
      BY <2>1
    <3> QED
      BY <2>1, <3>1
  <2>2. CASE n # m
    <3>1. n \in 0..m - 1 /\ h[n] = g[n] /\ (n # 0 => h[n - 1] = g[n - 1])
      BY <2>2
    <3>2. g[n] = Last1(g, n)
      BY <1>1, <3>1
    <3> QED
      BY <3>1, <3>2
  <2> QED
    BY <2>1, <2>2
<1>5. h = [n \in 0..m |-> Last1(h, n)]
  BY <1>4
<1> QED
  BY <1>3, <1>5 DEF NamesUpto

LEMMA NamesOfAll ==
    ASSUME NEW S, NEW args \in Seq(S)
    PROVE  NamesUpto(args, S, Len(args))
<1> DEFINE Fails == {m \in 0..Len(args) : ~NamesUpto(args, S, m)}
<1>1. NamesUpto(args, S, 0)
  <2> DEFINE g == [n \in 0..0 |-> <<>>]
  <2>1. g \in [0..0 -> Seq(S)]
    OBVIOUS
  <2>2. g = [n \in 0..0 |->
              IF n = 0 THEN <<>>
              ELSE IF args[n] \in {Arrow, Comma} THEN g[n - 1]
              ELSE Append(g[n - 1], args[n])]
    OBVIOUS
  <2> QED
    BY <2>1, <2>2 DEF NamesUpto
<1>2. Fails \in SUBSET Nat
  OBVIOUS
<1>3. ASSUME NEW m \in Fails, \A k \in Fails : m <= k PROVE FALSE
  <2>1. m \in 0..Len(args) /\ ~NamesUpto(args, S, m) /\ Len(args) \in Nat
    BY <1>3
  <2>2. m # 0
    BY <1>1, <2>1
  <2>3. m - 1 \in 0..Len(args) /\ m - 1 \notin Fails /\ m \in 1..Len(args)
    BY <1>3, <2>1, <2>2
  <2> QED
    BY <2>1, <2>3, NamesNext
<1> HIDE DEF Fails
<1>4. Fails = {}
  BY <1>2, <1>3, LeastNumber
<1>5. Len(args) \in 0..Len(args)
  OBVIOUS
<1> QED
  BY <1>4, <1>5 DEF Fails

LEMMA NameListType ==
    ASSUME NEW S, NEW args \in Seq(S)
    PROVE  NameList(args) \in Seq(S)
<1> DEFINE Equation(g) == g = [n \in 0..Len(args) |-> IF n = 0 THEN <<>>
                     ELSE IF args[n] \in {Arrow, Comma} THEN g[n - 1]
                     ELSE Append(g[n - 1], args[n])]
           Names == CHOOSE g : Equation(g)
<1>1. \E g : Equation(g)
  BY NamesOfAll DEF NamesUpto
<1>2. NameList(args) = Names[Len(args)]
  BY Zenon DEF NameList
<1> HIDE DEF Equation
<1>3. Equation(Names)
  BY <1>1, Zenon
<1> HIDE DEF Names
<1> USE DEF Equation
<1> DEFINE Fails == {n \in 0..Len(args) : Names[n] \notin Seq(S)}
<1>4. ASSUME NEW m \in Fails, \A k \in Fails : m <= k PROVE FALSE
  <2>1. m \in 0..Len(args) /\ Names[m] \notin Seq(S) /\ m # 0 /\ Len(args) \in Nat
    BY <1>3, <1>4
  <2>2. m - 1 \in 0..Len(args) /\ m - 1 \notin Fails
    BY <1>4, <2>1
  <2>3. Names[m - 1] \in Seq(S) /\ args[m] \in S
    BY <2>1, <2>2
  <2>4. Names[m] = IF args[m] \in {Arrow, Comma} THEN Names[m - 1]
                   ELSE Append(Names[m - 1], args[m])
    BY <1>3, <2>1
  <2> QED
    BY <2>1, <2>3, <2>4
<1>5. Fails \in SUBSET Nat
  OBVIOUS
<1> HIDE DEF Fails
<1>6. Fails = {}
  BY <1>4, <1>5, LeastNumber
<1>7. Len(args) \in 0..Len(args)
  OBVIOUS
<1> QED
  BY <1>2, <1>6, <1>7 DEF Fails

-----------------------------------------------------------------------------
(* The parser after one more line *)

LEMMA LineType ==
    ASSUME NEW line \in Lines
    PROVE  /\ line.args \in Seq(Tokens)
           /\ Joined(line.args) \in Words
           /\ NameList(line.args) \in Seq(Tokens)
           /\ Targets(line.args) \in Seq(Tokens)
<1>1. line.args \in Seq(Tokens)
  BY LanguageAssumption
<1>2. Joined(line.args) \in Words
  BY <1>1 DEF Joined, Words
<1>3. NameList(line.args) \in Seq(Tokens)
  BY <1>1, NameListType
<1>4. Targets(line.args) \in Seq(Tokens)
  <2>1. CASE Len(line.args) < 3
    BY <2>1 DEF Targets
  <2>2. CASE ~(Len(line.args) < 3)
    <3>1. SubSeq(line.args, 3, Len(line.args)) \in Seq(Tokens)
      BY <1>1, <2>2
    <3>2. Targets(line.args) = NameList(SubSeq(line.args, 3, Len(line.args)))
      BY <2>2 DEF Targets
    <3> QED
      BY <3>1, <3>2, NameListType
  <2> QED
    BY <2>1, <2>2
<1> QED
  BY <1>1, <1>2, <1>3, <1>4

LEMMA NewStepType ==
    ASSUME NEW name \in Words, NEW section \in Nat
    PROVE  NewStep(name, section) \in StepType /\ NewStep(name, section).name = name
<1>1. <<>> \in Words /\ <<>> \in Seq(Words) /\ <<>> \in Seq(Tokens)
      /\ <<>> \in Seq([text : Words, required : BOOLEAN])
  BY DEF Words
<1> QED
  BY <1>1 DEF NewStep, StepType

\* What a line about a step changes.
LEMMA DirectedField ==
    ASSUME NEW step \in StepType, NEW line \in Lines, line.kw \in InStep
    PROVE  \/ \E x \in [Texts -> Words] :
                 Directed(step, line) = [step EXCEPT !.text = x]
           \/ \E x \in [Lists -> Seq(Words)] :
                 Directed(step, line) = [step EXCEPT !.list = x]
           \/ \E x \in Seq([text : Words, required : BOOLEAN]) :
                 Directed(step, line) = [step EXCEPT !.items = x]
           \/ \E x \in SUBSET Flags : Directed(step, line) = [step EXCEPT !.flags = x]
           \/ \E x \in Seq(Tokens) : Directed(step, line) = [step EXCEPT !.needs = x]
           \/ \E x \in Seq(Tokens) : Directed(step, line) = [step EXCEPT !.ask = x]
<1>1. /\ Joined(line.args) \in Words
      /\ NameList(line.args) \in Seq(Tokens) /\ Targets(line.args) \in Seq(Tokens)
  BY LineType
<1>2. CASE line.kw \in Texts
  <2>1. [step.text EXCEPT ![line.kw] = Joined(line.args)] \in [Texts -> Words]
    BY <1>1 DEF StepType
  <2>2. Directed(step, line) = [step EXCEPT !.text[line.kw] = Joined(line.args)]
    BY <1>2 DEF Directed, Texts, Lists, Entries, Flags
  <2> QED
    BY <2>1, <2>2 DEF StepType
<1>3. CASE line.kw \in Lists
  <2>1. [step.list EXCEPT ![line.kw] = Append(@, Joined(line.args))]
          \in [Lists -> Seq(Words)]
    BY <1>1, <1>3 DEF StepType
  <2>2. Directed(step, line) =
           [step EXCEPT !.list[line.kw] = Append(@, Joined(line.args))]
    BY <1>3 DEF Directed, Texts, Lists, Entries, Flags
  <2> QED
    BY <2>1, <2>2 DEF StepType
<1>4. CASE line.kw \in Entries
  <2> DEFINE entry == [text |-> Joined(line.args), required |-> line.kw = "item!"]
  <2>1. entry \in [text : Words, required : BOOLEAN]
    BY <1>1
  <2>2. Directed(step, line) = [step EXCEPT !.items = Append(@, entry)]
    BY <1>4 DEF Directed, Texts, Lists, Entries, Flags
  <2> HIDE DEF entry
  <2>3. Append(step.items, entry) \in Seq([text : Words, required : BOOLEAN])
    BY <2>1 DEF StepType
  <2> QED
    BY <2>2, <2>3
<1>5. CASE line.kw \in Flags
  <2>1. Directed(step, line) = [step EXCEPT !.flags = @ \cup {line.kw}]
    BY <1>5 DEF Directed, Texts, Lists, Entries, Flags
  <2>2. step.flags \cup {line.kw} \in SUBSET Flags
    BY <1>5 DEF StepType
  <2> QED
    BY <2>1, <2>2
<1>6. CASE line.kw = "needs"
  <2>1. Directed(step, line) = [step EXCEPT !.needs = NameList(line.args)]
    BY <1>6 DEF Directed, Texts, Lists, Entries, Flags
  <2> QED
    BY <1>1, <2>1
<1>7. CASE line.kw = "ask"
  <2>1. Directed(step, line) = [step EXCEPT !.ask = Targets(line.args)]
    BY <1>7 DEF Directed, Texts, Lists, Entries, Flags
  <2> QED
    BY <1>1, <2>1
<1> QED
  BY <1>2, <1>3, <1>4, <1>5, <1>6, <1>7 DEF InStep

LEMMA DirectedType ==
    ASSUME NEW step \in StepType, NEW line \in Lines, line.kw \in InStep
    PROVE  Directed(step, line) \in StepType /\ Directed(step, line).name = step.name
<1> DEFINE d == Directed(step, line)
<1>1. ASSUME NEW x \in [Texts -> Words], d = [step EXCEPT !.text = x]
      PROVE  d \in StepType /\ d.name = step.name
  BY <1>1 DEF StepType
<1>2. ASSUME NEW x \in [Lists -> Seq(Words)], d = [step EXCEPT !.list = x]
      PROVE  d \in StepType /\ d.name = step.name
  BY <1>2 DEF StepType
<1>3. ASSUME NEW x \in Seq([text : Words, required : BOOLEAN]), d = [step EXCEPT !.items = x]
      PROVE  d \in StepType /\ d.name = step.name
  BY <1>3 DEF StepType
<1>4. ASSUME NEW x \in SUBSET Flags, d = [step EXCEPT !.flags = x]
      PROVE  d \in StepType /\ d.name = step.name
  BY <1>4 DEF StepType
<1>5. ASSUME NEW x \in Seq(Tokens), d = [step EXCEPT !.needs = x]
      PROVE  d \in StepType /\ d.name = step.name
  BY <1>5 DEF StepType
<1>6. ASSUME NEW x \in Seq(Tokens), d = [step EXCEPT !.ask = x]
      PROVE  d \in StepType /\ d.name = step.name
  BY <1>6 DEF StepType
<1> QED
  BY <1>1, <1>2, <1>3, <1>4, <1>5, <1>6, DirectedField

LEMMA EmptyParserTyped ==
    ASSUME NEW steps \in Seq(StepType)
    PROVE  /\ [EmptyParser EXCEPT !.steps = steps] \in ParserType
           /\ [EmptyParser EXCEPT !.steps = steps].steps = steps
           /\ [EmptyParser EXCEPT !.steps = steps].current = 0
<1>1. <<>> \in Words /\ <<>> \in Seq(Words)
  BY DEF Words
<1> QED
  BY <1>1 DEF EmptyParser, ParserType

\* What a line changes, in the parser.
LEMMA ParsedField ==
    ASSUME parser \in ParserType, NEW line \in Lines
    PROVE  LET p == Parsed(parser, line) IN
           \/ p = parser
           \/ \E x \in Words : p = [parser EXCEPT !.name = x]
           \/ \E x \in [Headers -> Seq(Words)] : p = [parser EXCEPT !.header = x]
           \/ /\ line.kw = "section"
              /\ \E x \in Seq(Words) : p = [parser EXCEPT !.sections = x, !.current = 0]
           \/ /\ line.kw = "step"
              /\ p = [parser EXCEPT !.steps = Append(@, NewStep(Joined(line.args), Len(parser.sections))),
                                    !.current = Len(parser.steps) + 1]
           \/ /\ line.kw \in InStep
              /\ p = [parser EXCEPT !.steps[parser.current] = Directed(@, line)]
<1> USE DEF InStep, Headers, Texts, Lists, Entries, Flags
<1> DEFINE p == Parsed(parser, line)
           word == Joined(line.args)
<1>1. word \in Words /\ line.args \in Seq(Words)
  BY LineType DEF Words
<1>2. CASE line.kw = "workflow"
  <2>1. p = [parser EXCEPT !.name = word]
    BY <1>2 DEF Parsed
  <2> QED
    BY <1>1, <2>1
<1>3. CASE line.kw \in {"label", "var"}
  <2>1. p = [parser EXCEPT !.header[line.kw] = Append(@, word)]
    BY <1>3 DEF Parsed
  <2> HIDE DEF word, p
  <2>2. [parser.header EXCEPT ![line.kw] = Append(@, word)] \in [Headers -> Seq(Words)]
    BY <1>1, <1>3 DEF ParserType
  <2>3. p = [parser EXCEPT !.header = [parser.header EXCEPT ![line.kw] = Append(@, word)]]
    BY <2>1
  <2> QED
    BY <2>2, <2>3 DEF p
<1>4. CASE line.kw = "allowed_roles"
  <2>1. p = [parser EXCEPT !.header[line.kw] = @ \o line.args]
    BY <1>4 DEF Parsed
  <2> HIDE DEF p
  <2>2. [parser.header EXCEPT ![line.kw] = @ \o line.args] \in [Headers -> Seq(Words)]
    BY <1>1, <1>4 DEF ParserType
  <2>3. p = [parser EXCEPT !.header = [parser.header EXCEPT ![line.kw] = @ \o line.args]]
    BY <2>1
  <2> QED
    BY <2>2, <2>3 DEF p
<1>5. CASE line.kw = "section"
  <2>1. p = [parser EXCEPT !.sections = Append(@, word), !.current = 0]
    BY <1>5 DEF Parsed
  <2> HIDE DEF word
  <2>2. Append(parser.sections, word) \in Seq(Words)
    BY <1>1 DEF ParserType
  <2> QED
    BY <1>5, <2>1, <2>2
<1>6. CASE line.kw = "step"
  BY <1>6 DEF Parsed
<1>7. CASE line.kw \in InStep
  BY <1>7 DEF Parsed
<1>8. CASE /\ line.kw \notin {"workflow", "label", "var", "allowed_roles", "section", "step"}
           /\ line.kw \notin InStep
  BY <1>8 DEF Parsed
<1> QED
  BY <1>2, <1>3, <1>4, <1>5, <1>6, <1>7, <1>8

WithSections(q, sections) == [q EXCEPT !.sections = sections, !.current = 0]
WithSteps(q, steps, current) == [q EXCEPT !.steps = steps, !.current = current]

LEMMA WithSectionsType ==
    ASSUME NEW q \in ParserType, NEW sections \in Seq(Words)
    PROVE  /\ WithSections(q, sections) \in ParserType
           /\ WithSections(q, sections).steps = q.steps
           /\ WithSections(q, sections).current = 0
<1>1. WithSections(q, sections) \in ParserType
  BY DEF WithSections, ParserType
<1>2. WithSections(q, sections).steps = q.steps
  BY DEF WithSections, ParserType
<1>3. WithSections(q, sections).current = 0
  BY DEF WithSections, ParserType
<1> QED
  BY <1>1, <1>2, <1>3

LEMMA WithStepsType ==
    ASSUME NEW q \in ParserType, NEW steps \in Seq(StepType), NEW current \in Nat
    PROVE  /\ WithSteps(q, steps, current) \in ParserType
           /\ WithSteps(q, steps, current).steps = steps
           /\ WithSteps(q, steps, current).current = current
<1>1. WithSteps(q, steps, current) \in ParserType
  BY DEF WithSteps, ParserType
<1>2. WithSteps(q, steps, current).steps = steps
  BY DEF WithSteps, ParserType
<1>3. WithSteps(q, steps, current).current = current
  BY DEF WithSteps, ParserType
<1> QED
  BY <1>1, <1>2, <1>3

LEMMA ParsedType ==
    ASSUME ParserTyped, NEW line \in Lines, ~Refused(parser, line),
           NEW p, p = Parsed(parser, line)
    PROVE  p \in ParserType /\ p.current <= Len(p.steps)
<1> DEFINE word == Joined(line.args)
<1>1. word \in Words /\ line.args \in Seq(Tokens)
  BY LineType
<1>2. /\ parser \in ParserType /\ parser.current \in Nat
      /\ parser.current <= Len(parser.steps)
      /\ parser.steps \in Seq(StepType) /\ parser.sections \in Seq(Words)
  BY DEF ParserTyped, ParserType
<1> HIDE DEF word
<1> DEFINE Goal == p \in ParserType /\ p.current <= Len(p.steps)
<1>3. ASSUME \/ p = parser
             \/ \E x \in Words : p = [parser EXCEPT !.name = x]
             \/ \E x \in [Headers -> Seq(Words)] : p = [parser EXCEPT !.header = x]
             \/ \E x \in Seq(Words) : p = [parser EXCEPT !.sections = x, !.current = 0]
      PROVE  Goal
  <2>1. ASSUME NEW x \in Words, p = [parser EXCEPT !.name = x] PROVE Goal
    BY <1>2, <2>1 DEF ParserType
  <2>2. ASSUME NEW x \in [Headers -> Seq(Words)], p = [parser EXCEPT !.header = x] PROVE Goal
    BY <1>2, <2>2 DEF ParserType
  <2>3. ASSUME NEW x \in Seq(Words), p = [parser EXCEPT !.sections = x, !.current = 0]
        PROVE  Goal
    <3>1. p = WithSections(parser, x)
      BY <2>3 DEF WithSections
    <3>2. p.steps = parser.steps /\ p.current = 0 /\ p \in ParserType
      BY <1>2, <3>1, WithSectionsType
    <3> QED
      BY <1>2, <3>2
  <2>4. CASE p = parser
    BY <1>2, <2>4
  <2> QED
    BY <1>3, <2>1, <2>2, <2>3, <2>4
<1>4. CASE /\ line.kw = "step"
           /\ p = [parser EXCEPT !.steps = Append(@, NewStep(Joined(line.args), Len(parser.sections))),
                                 !.current = Len(parser.steps) + 1]
  <2> DEFINE step == NewStep(word, Len(parser.sections))
  <2>3. step \in StepType
    BY <1>1, <1>2, NewStepType
  <2> DEFINE steps == Append(parser.steps, step)
             current == Len(parser.steps) + 1
  <2>4. p = WithSteps(parser, steps, current)
    BY <1>4 DEF word, WithSteps
  <2> HIDE DEF step
  <2>5. steps \in Seq(StepType) /\ current \in Nat /\ current <= Len(steps)
    BY <1>2, <2>3
  <2> HIDE DEF steps, current
  <2>6. p \in ParserType /\ p.steps = steps /\ p.current = current
    <3>1. parser \in ParserType /\ steps \in Seq(StepType) /\ current \in Nat
      BY <1>2, <2>5
    <3>2. /\ WithSteps(parser, steps, current) \in ParserType
          /\ WithSteps(parser, steps, current).steps = steps
          /\ WithSteps(parser, steps, current).current = current
      BY <3>1, WithStepsType
    <3> QED
      BY <2>4, <3>2
  <2> QED
    BY <2>5, <2>6
<1>5. CASE /\ line.kw \in InStep
           /\ p = [parser EXCEPT !.steps[parser.current] = Directed(@, line)]
  <2> DEFINE step == Directed(parser.steps[parser.current], line)
  <2>1. parser.current \in 1..Len(parser.steps)
    BY <1>2, <1>5 DEF Refused
  <2>2. step \in StepType
    BY <1>2, <1>5, <2>1, DirectedType
  <2> DEFINE steps == [parser.steps EXCEPT ![parser.current] = step]
  <2>3. p = [parser EXCEPT !.steps = steps]
    BY <1>2, <1>5 DEF ParserType
  <2> HIDE DEF step
  <2>4. steps \in Seq(StepType) /\ Len(steps) = Len(parser.steps)
    BY <1>2, <2>1, <2>2
  <2> HIDE DEF steps
  <2>5. p \in ParserType
    BY <1>2, <2>3, <2>4 DEF ParserType
  <2>6. p.steps = steps
    BY <1>2, <2>3 DEF ParserType
  <2>7. p.current = parser.current
    BY <1>2, <2>3 DEF ParserType
  <2> QED
    BY <1>2, <2>4, <2>5, <2>6, <2>7
<1> QED
  BY <1>2, <1>3, <1>4, <1>5, ParsedField

-----------------------------------------------------------------------------
(* What the search leaves behind *)

LEMMA DepsType ==
    ASSUME ParserTyped
    PROVE  /\ \A n \in DOMAIN deps : deps[n] \in Seq(Tokens)
           /\ \A n \in DOMAIN deps : n \in Words
<1> DEFINE steps == parser.steps
           Last1(n, i) == /\ steps[i].name = n
                          /\ \A j \in DOMAIN steps : steps[j].name = n => j <= i
<1>1. /\ steps \in Seq(StepType) /\ DOMAIN steps = 1..Len(steps) /\ Len(steps) \in Nat
      /\ \A i \in DOMAIN steps : steps[i] \in StepType
  BY DEF ParserTyped, ParserType
<1> HIDE DEF steps
<1>2. deps = [n \in {steps[i].name : i \in DOMAIN steps} |->
                steps[CHOOSE i \in DOMAIN steps : Last1(n, i)].needs]
  BY DEF deps, Deps, steps
<1>3. ASSUME NEW n \in {steps[i].name : i \in DOMAIN steps}
      PROVE  \E i \in DOMAIN steps : Last1(n, i)
  <2> DEFINE T == {i \in DOMAIN steps : steps[i].name = n}
  <2>1. T # {} /\ T \in SUBSET (1..Len(steps))
    BY <1>1
  <2>2. PICK i \in T : \A j \in T : j <= i
    BY <1>1, <2>1, HighestNumber
  <2> QED
    BY <2>2
<1> HIDE DEF Last1
<1>4. ASSUME NEW n \in DOMAIN deps
      PROVE  deps[n] \in Seq(Tokens) /\ n \in Words
  <2>1. PICK k \in DOMAIN steps : n = steps[k].name
    BY <1>2, <1>4
  <2>2. (CHOOSE i \in DOMAIN steps : Last1(n, i)) \in DOMAIN steps
    BY <1>3, <2>1
  <2>3. deps[n] = steps[CHOOSE i \in DOMAIN steps : Last1(n, i)].needs
    BY <1>2, <1>4
  <2>4. \A s \in StepType : s.needs \in Seq(Tokens) /\ s.name \in Words
    BY DEF StepType
  <2> QED
    BY <1>1, <2>1, <2>2, <2>3, <2>4
<1> QED
  BY <1>4

\* NeedsOf, of the definitions d.
NeedsIn(d, n) == IF n \in DOMAIN d THEN d[n] ELSE <<>>

LEMMA NeedsType ==
    ASSUME ParserTyped, NEW n
    PROVE  /\ NeedsIn(deps, n) \in Seq(Tokens)
           /\ Len(NeedsIn(deps, n)) \in Nat
           /\ NeedsIn(deps, n) # <<>> => n \in DOMAIN deps
           /\ \A k \in 1..Len(NeedsIn(deps, n)) :
                 NeedsIn(deps, n)[k] \in Words /\ n \in DOMAIN deps
<1>1. NeedsIn(deps, n) \in Seq(Tokens)
  BY DepsType DEF NeedsIn
<1>2. NeedsIn(deps, n) # <<>> => n \in DOMAIN deps
  BY DEF NeedsIn
<1>3. \A k \in 1..Len(NeedsIn(deps, n)) : NeedsIn(deps, n)[k] \in Words /\ NeedsIn(deps, n) # <<>>
  BY <1>1 DEF Words
<1> QED
  BY <1>1, <1>2, <1>3

Needs(m, n) == n # Sentinel /\ \E k \in 1..Len(NeedsIn(deps, m)) : n = NeedsIn(deps, m)[k]

LEMMA WaitsFor ==
    ASSUME ParserTyped, NEW m, NEW n
    PROVE  <<m, n>> \in Waits <=> Needs(m, n)
<1>1. \A s \in Seq(Tokens) : DOMAIN s = 1..Len(s)
  OBVIOUS
<1>2. <<m, n>> \in Waits <=>
         m \in DOMAIN deps /\ n # Sentinel /\ \E i \in DOMAIN deps[m] : n = deps[m][i]
  BY DEF Waits, ToSet
<1>3. CASE m \in DOMAIN deps
  <2>1. NeedsIn(deps, m) = deps[m] /\ DOMAIN deps[m] = 1..Len(deps[m])
    BY <1>1, <1>3, DepsType DEF NeedsIn
  <2> QED
    BY <1>2, <1>3, <2>1 DEF Needs
<1>4. CASE m \notin DOMAIN deps
  <2>1. NeedsIn(deps, m) = <<>> /\ Len(<<>>) = 0
    BY <1>4 DEF NeedsIn
  <2> QED
    BY <1>2, <1>4, <2>1 DEF Needs
<1> QED
  BY <1>3, <1>4

\* The names that the search has left.
Finished == visited \ InStack

Frame == [name : Words, next : Nat \ {0}]

SearchTyped ==
    /\ stack \in Seq(Frame) /\ InStack \subseteq visited
    /\ \A i \in 1..Len(stack) : /\ stack[i].next <= Len(NeedsIn(deps, stack[i].name)) + 1
                                /\ i > 1 => stack[i].name # Sentinel

\* No name is under visit twice, and each needs the one above it.
StackIsPath ==
    /\ \A i, j \in 1..Len(stack) : stack[i].name = stack[j].name => i = j
    /\ \A i \in 1..Len(stack) - 1 :
          /\ stack[i].next > 1
          /\ NeedsIn(deps, stack[i].name)[stack[i].next - 1] = stack[i + 1].name

\* Of a name under visit, the needs that were passed are left or the one above it.
PassedAreLeft ==
    \A i \in 1..Len(stack) : \A k \in 1..stack[i].next - 1 :
       \/ i < Len(stack) /\ k = stack[i].next - 1
       \/ NeedsIn(deps, stack[i].name)[k] \in Finished \cup {Sentinel}

\* What was left needs only what was left, and in no circle.
LeftIsClosed ==
    \A m \in Finished : \A k \in 1..Len(NeedsIn(deps, m)) :
       NeedsIn(deps, m)[k] \in Finished \cup {Sentinel}
LeftIsAcyclic ==
    \A S \in SUBSET Finished : S # {} => \E m \in S : \A n \in S : ~Needs(m, n)

Searched ==
    /\ phase \in {"reading", "refused"} => stack = <<>> /\ visited = {}
    /\ phase = "accepted" => stack = <<>> /\ DOMAIN deps \subseteq visited
    /\ phase = "cyclic" => Cyclic(Waits, DOMAIN deps)

SearchInv ==
    /\ ParserTyped /\ SearchTyped /\ StackIsPath /\ PassedAreLeft
    /\ LeftIsClosed /\ LeftIsAcyclic /\ Searched

LEMMA SameNeeds ==
    ASSUME parser' = parser
    PROVE  /\ deps' = deps /\ Waits' = Waits
           /\ \A m, n : Needs(m, n)' = Needs(m, n)
           /\ ParserTyped => ParserTyped'
<1>1. deps' = deps
  BY DEF deps
<1> QED
  BY <1>1 DEF Waits, Needs, ParserTyped

LEMMA NothingSearched ==
    ASSUME ParserTyped, stack = <<>>, visited = {}, phase \notin {"accepted", "cyclic"}
    PROVE  SearchInv
<1>1. InStack = {} /\ Finished = {} /\ Len(stack) = 0
  BY DEF InStack, Finished
<1>2. SearchTyped /\ StackIsPath /\ PassedAreLeft
  BY <1>1 DEF SearchTyped, StackIsPath, PassedAreLeft
<1> QED
  BY <1>1, <1>2 DEF SearchInv, LeftIsClosed, LeftIsAcyclic, Searched

\* The top of the stack, and what is below it.
LEMMA StackTop ==
    ASSUME SearchTyped, stack # <<>>
    PROVE  /\ Len(stack) \in Nat \ {0}
           /\ Last(stack) = stack[Len(stack)] /\ Last(stack) \in Frame
           /\ Front(stack) \in Seq(Frame) /\ Len(Front(stack)) = Len(stack) - 1
           /\ \A i \in 1..Len(stack) - 1 : Front(stack)[i] = stack[i]
<1>1. stack \in Seq(Frame) /\ Len(stack) \in Nat \ {0}
  BY DEF SearchTyped
<1>2. Last(stack) = stack[Len(stack)] /\ Last(stack) \in Frame
  BY <1>1 DEF Last
<1>3. Front(stack) = SubSeq(stack, 1, Len(stack) - 1)
  BY DEF Front
<1>4. Front(stack) \in Seq(Frame) /\ Len(Front(stack)) = Len(stack) - 1
  <2>1. Len(stack) - 1 \in 0..Len(stack)
    BY <1>1
  <2> DEFINE s == stack
  <2>2. s \in Seq(Frame)
    BY <1>1
  <2> HIDE DEF s
  <2>3. \A l \in 0..Len(s) : SubSeq(s, 1, l) \in Seq(Frame) /\ Len(SubSeq(s, 1, l)) = l
    BY <2>2
  <2>4. /\ SubSeq(s, 1, Len(s) - 1) \in Seq(Frame)
        /\ Len(SubSeq(s, 1, Len(s) - 1)) = Len(s) - 1
    BY <2>1, <2>3 DEF s
  <2> QED
    BY <1>3, <2>4 DEF s
<1>5. \A i \in 1..Len(stack) - 1 : Front(stack)[i] = stack[i]
  BY <1>1, <1>3
<1> QED
  BY <1>1, <1>2, <1>4, <1>5

LEMMA SameLeft ==
    ASSUME parser' = parser, Finished' = Finished, LeftIsClosed, LeftIsAcyclic
    PROVE  LeftIsClosed' /\ LeftIsAcyclic'
<1>1. deps' = deps /\ \A m, n : Needs(m, n)' = Needs(m, n)
  BY SameNeeds
<1>2. LeftIsClosed'
  BY <1>1 DEF LeftIsClosed
<1>3. LeftIsAcyclic'
  BY <1>1 DEF LeftIsAcyclic
<1> QED
  BY <1>2, <1>3

LEMMA VisitsKeeps ==
    ASSUME SearchInv, NEW n, Visits(n)
    PROVE  SearchInv'
<1>1. /\ stack = <<>> /\ n \in DOMAIN deps /\ n \notin visited
      /\ visited' = visited \cup {n} /\ stack' = <<[name |-> n, next |-> 1]>>
      /\ parser' = parser /\ phase' = "searching"
  BY DEF Visits
<1>2. n \in Words
  BY <1>1, DepsType DEF SearchInv
<1>3. deps' = deps /\ \A m : Len(NeedsIn(deps, m)) \in Nat
  BY <1>1, SameNeeds, NeedsType DEF SearchInv
<1>4. InStack = {} /\ InStack' = {n} /\ Len(stack') = 1
      /\ stack'[1] = [name |-> n, next |-> 1] /\ DOMAIN stack' = {1}
  BY <1>1 DEF InStack
<1>5. Finished' = Finished
  BY <1>1, <1>4 DEF Finished
<1>6. LeftIsClosed' /\ LeftIsAcyclic'
  BY <1>1, <1>5, SameLeft DEF SearchInv
<1>7. SearchTyped'
  <2>1. [name |-> n, next |-> 1] \in Frame
    BY <1>2 DEF Frame
  <2>2. stack' \in Seq(Frame)
    BY <1>1, <2>1
  <2>3. \A i \in 1..Len(stack') : i = 1
    BY <1>4
  <2>4. 1 <= Len(NeedsIn(deps', n)) + 1
    BY <1>3
  <2>5. \A i \in 1..Len(stack') : /\ stack'[i].next <= Len(NeedsIn(deps', stack'[i].name)) + 1
                                  /\ i > 1 => stack'[i].name # Sentinel
    BY <1>2, <1>4, <2>3, <2>4
  <2>6. (InStack \subseteq visited)'
    BY <1>1, <1>4
  <2> QED
    BY <2>2, <2>5, <2>6 DEF SearchTyped
<1>8. StackIsPath'
  BY <1>4 DEF StackIsPath
<1>9. PassedAreLeft'
  BY <1>4 DEF PassedAreLeft
<1>10. ParserTyped'
  BY <1>1, SameNeeds DEF SearchInv
<1>11. Searched'
  BY <1>1 DEF Searched
<1> QED
  BY <1>6, <1>7, <1>8, <1>9, <1>10, <1>11 DEF SearchInv

\* The name at the top with its next need passed, and the rest as it was.
Passed == Append(Front(stack), [Last(stack) EXCEPT !.next = @ + 1])

LEMMA PassedStack ==
    ASSUME SearchTyped, stack # <<>>
    PROVE  /\ Passed \in Seq(Frame) /\ Len(Passed) = Len(stack)
           /\ \A i \in 1..Len(stack) - 1 : Passed[i] = stack[i]
           /\ Passed[Len(stack)].name = stack[Len(stack)].name
           /\ Passed[Len(stack)].next = stack[Len(stack)].next + 1
           /\ \A i \in 1..Len(stack) : Passed[i].name = stack[i].name
<1> DEFINE top == [Last(stack) EXCEPT !.next = @ + 1]
           below == Front(stack)
           L == Len(stack)
<1>1. top \in Frame /\ top.name = stack[L].name /\ top.next = stack[L].next + 1
  BY StackTop DEF Frame
<1>2. /\ below \in Seq(Frame) /\ Len(below) = L - 1 /\ L \in Nat \ {0}
      /\ \A i \in 1..L - 1 : below[i] = stack[i]
  BY StackTop
<1>3. Passed = Append(below, top)
  BY DEF Passed
<1> HIDE DEF top, below, L
<1>4. /\ Passed \in Seq(Frame) /\ Len(Passed) = L /\ Passed[L] = top
      /\ \A i \in 1..L - 1 : Passed[i] = stack[i]
  BY <1>1, <1>2, <1>3
<1>5. \A i \in 1..L : Passed[i].name = stack[i].name
  BY <1>1, <1>2, <1>4
<1> QED
  BY <1>1, <1>4, <1>5 DEF L

\* The needs of the name at the top, all but those that are not passed.
LEMMA TopPassed ==
    ASSUME SearchTyped, PassedAreLeft, stack # <<>>
    PROVE  \A k \in 1..Last(stack).next - 1 :
              NeedsIn(deps, Last(stack).name)[k] \in Finished \cup {Sentinel}
<1>1. Len(stack) \in 1..Len(stack) /\ Last(stack) = stack[Len(stack)]
      /\ ~(Len(stack) < Len(stack))
  BY StackTop
<1> QED
  BY <1>1 DEF PassedAreLeft

LEMMA BelowTop ==
    ASSUME NEW l \in Nat \ {0}, NEW i \in 1..l, i # l
    PROVE  i \in 1..l - 1 /\ i + 1 \in 1..l
  OBVIOUS

\* What a need of the name at the top is.
LEMMA TopNeed ==
    ASSUME SearchInv, stack # <<>>, Last(stack).next <= Len(NeedsIn(deps, Last(stack).name)),
           NEW dep, dep = NeedsIn(deps, Last(stack).name)[Last(stack).next]
    PROVE  /\ dep \in Words
           /\ Last(stack).next \in 1..Len(NeedsIn(deps, Last(stack).name))
<1>1. Last(stack) \in Frame
  BY StackTop DEF SearchInv
<1>2. Last(stack).next \in Nat \ {0}
  BY <1>1 DEF Frame
<1>3. Len(NeedsIn(deps, Last(stack).name)) \in Nat
  BY NeedsType DEF SearchInv
<1>4. Last(stack).next \in 1..Len(NeedsIn(deps, Last(stack).name))
  BY <1>2, <1>3
<1> QED
  BY <1>4, NeedsType DEF SearchInv

\* A need that is under visit closes a circle on the stack.
LEMMA CircleOnStack ==
    ASSUME SearchInv, stack # <<>>, Last(stack).next <= Len(NeedsIn(deps, Last(stack).name)),
           NeedsIn(deps, Last(stack).name)[Last(stack).next] \in InStack \ {Sentinel}
    PROVE  Cyclic(Waits, DOMAIN deps)
<1> DEFINE L == Len(stack)
           dep == NeedsIn(deps, Last(stack).name)[Last(stack).next]
<1>1. /\ ParserTyped /\ SearchTyped /\ StackIsPath
      /\ stack \in Seq(Frame) /\ L \in Nat \ {0} /\ Last(stack) = stack[L]
      /\ DOMAIN stack = 1..L
  BY StackTop DEF SearchInv, SearchTyped
<1>2. PICK j \in 1..L : stack[j].name = dep
  BY <1>1 DEF InStack
<1> DEFINE S == {stack[i].name : i \in j..L}
<1>3. ASSUME NEW i \in j..L
      PROVE  /\ stack[i].name \in DOMAIN deps
             /\ \E n \in S : <<stack[i].name, n>> \in Waits
  <2>1. i \in 1..L /\ stack[i] \in Frame
    BY <1>1
  <2>2. /\ stack[i].next \in Nat \ {0}
        /\ stack[i].next <= Len(NeedsIn(deps, stack[i].name)) + 1
        /\ Len(NeedsIn(deps, stack[i].name)) \in Nat
    BY <1>1, <2>1, NeedsType DEF Frame, SearchTyped
  <2>3. \E k \in 1..Len(NeedsIn(deps, stack[i].name)) :
           NeedsIn(deps, stack[i].name)[k] \in S \ {Sentinel}
    <3>1. CASE i = L
      <4>1. Last(stack).next \in 1..Len(NeedsIn(deps, Last(stack).name))
        BY TopNeed
      <4>2. dep \in S \ {Sentinel}
        BY <1>1, <1>2
      <4> QED
        BY <1>1, <3>1, <4>1, <4>2
    <3>2. CASE i # L
      <4>1. i \in 1..L - 1 /\ i + 1 \in j..L
        <5>1. i \in 1..L - 1 /\ i + 1 \in 1..L
          BY <1>1, <2>1, <3>2, BelowTop
        <5> QED
          BY <5>1
      <4>2. /\ stack[i].next > 1
            /\ NeedsIn(deps, stack[i].name)[stack[i].next - 1] = stack[i + 1].name
        BY <1>1, <4>1 DEF StackIsPath
      <4>3. stack[i].next - 1 \in 1..Len(NeedsIn(deps, stack[i].name))
        BY <2>2, <4>2
      <4>4. stack[i + 1].name \in S \ {Sentinel}
        BY <1>1, <4>1 DEF SearchTyped
      <4> QED
        BY <4>2, <4>3, <4>4
    <3> QED
      BY <3>1, <3>2
  <2> HIDE DEF S
  <2> QED
    BY <1>1, <2>3, WaitsFor, NeedsType DEF Needs
<1>4. S \in SUBSET DOMAIN deps /\ \A m \in S : \E n \in S : <<m, n>> \in Waits
  BY <1>3
<1>5. S # {}
  <2>1. L \in j..L
    BY <1>1
  <2> QED
    BY <2>1
<1> QED
  BY <1>4, <1>5 DEF Cyclic

\* The needs of VisitsNeed, in three cases.
LEMMA VisitsNeedCases ==
    ASSUME VisitsNeed, NEW dep, dep = NeedsIn(deps, Last(stack).name)[Last(stack).next]
    PROVE  /\ phase = "searching" /\ stack # <<>> /\ parser' = parser
           /\ Last(stack).next <= Len(NeedsIn(deps, Last(stack).name))
           /\ \/ /\ dep \in InStack \ {Sentinel} /\ phase' = "cyclic"
                 /\ visited' = visited /\ stack' = stack
              \/ /\ dep \notin InStack \ {Sentinel} /\ phase' = phase
                 /\ dep \in visited \cup {Sentinel}
                 /\ stack' = Passed /\ visited' = visited
              \/ /\ dep \notin InStack \ {Sentinel} /\ phase' = phase
                 /\ dep \notin visited \cup {Sentinel}
                 /\ stack' = Append(Passed, [name |-> dep, next |-> 1])
                 /\ visited' = visited \cup {dep}
<1>1. \A n : NeedsOf(n) = NeedsIn(deps, n)
  BY DEF NeedsOf, NeedsIn
<1> QED
  BY <1>1 DEF VisitsNeed, Passed

LEMMA CyclicKeeps ==
    ASSUME SearchInv, VisitsNeed, phase' = "cyclic", visited' = visited, stack' = stack,
           NeedsIn(deps, Last(stack).name)[Last(stack).next] \in InStack \ {Sentinel}
    PROVE  SearchInv'
<1>1. parser' = parser /\ Cyclic(Waits, DOMAIN deps)
  BY VisitsNeedCases, CircleOnStack
<1>2. deps' = deps /\ Waits' = Waits /\ ParserTyped'
      /\ \A m, n : Needs(m, n)' = Needs(m, n)
  BY <1>1, SameNeeds DEF SearchInv
<1>3. InStack' = InStack
  BY DEF InStack
<1>4. Finished' = Finished
  BY <1>3 DEF Finished
<1>5. SearchTyped' /\ StackIsPath' /\ PassedAreLeft'
  BY <1>2, <1>3, <1>4 DEF SearchInv, SearchTyped, StackIsPath, PassedAreLeft
<1>6. LeftIsClosed' /\ LeftIsAcyclic'
  BY <1>1, <1>4, SameLeft DEF SearchInv
<1>7. Searched'
  BY <1>1, <1>2 DEF Searched, Cyclic
<1> QED
  BY <1>2, <1>5, <1>6, <1>7 DEF SearchInv

LEMMA PassedKeeps ==
    ASSUME SearchInv, VisitsNeed, NEW dep,
           dep = NeedsIn(deps, Last(stack).name)[Last(stack).next],
           dep \notin InStack \ {Sentinel}, dep \in visited \cup {Sentinel},
           phase' = phase, stack' = Passed, visited' = visited
    PROVE  SearchInv'
<1> DEFINE L == Len(stack)
<1>1. /\ parser' = parser /\ phase = "searching" /\ stack # <<>>
      /\ Last(stack).next <= Len(NeedsIn(deps, Last(stack).name))
  BY VisitsNeedCases
<1>2. deps' = deps /\ ParserTyped'
  BY <1>1, SameNeeds DEF SearchInv
<1>3. /\ stack' \in Seq(Frame) /\ Len(stack') = L
      /\ \A i \in 1..L - 1 : stack'[i] = stack[i]
      /\ \A i \in 1..L : stack'[i].name = stack[i].name
      /\ stack'[L].next = stack[L].next + 1
  BY <1>1, PassedStack DEF SearchInv
<1>4. /\ L \in Nat \ {0} /\ Last(stack) = stack[L] /\ stack \in Seq(Frame)
      /\ DOMAIN stack = 1..L /\ DOMAIN stack' = 1..L
      /\ Last(stack).next \in 1..Len(NeedsIn(deps, Last(stack).name))
      /\ Len(NeedsIn(deps, Last(stack).name)) \in Nat
  BY <1>1, <1>3, StackTop, TopNeed, NeedsType DEF SearchInv, SearchTyped
<1>5. InStack' = InStack
  <2> HIDE DEF L
  <2>1. {stack'[i].name : i \in 1..L} = {stack[i].name : i \in 1..L}
    BY <1>3
  <2> QED
    BY <1>4, <2>1 DEF InStack
<1>6. Finished' = Finished /\ dep \in Finished \cup {Sentinel}
  BY <1>5 DEF Finished
<1>7. LeftIsClosed' /\ LeftIsAcyclic'
  BY <1>1, <1>6, SameLeft DEF SearchInv
<1>8. SearchTyped'
  <2>1. ASSUME NEW i \in 1..L
        PROVE  /\ stack'[i].next <= Len(NeedsIn(deps', stack'[i].name)) + 1
               /\ i > 1 => stack'[i].name # Sentinel
    <3>1. CASE i = L
      BY <1>2, <1>3, <1>4, <3>1 DEF SearchInv, SearchTyped
    <3>2. CASE i # L
      <4>1. i \in 1..L - 1
        BY <1>4, <3>2, BelowTop
      <4> QED
        BY <1>2, <1>3, <4>1 DEF SearchInv, SearchTyped
    <3> QED
      BY <3>1, <3>2
  <2> QED
    BY <1>3, <1>5, <2>1 DEF SearchInv, SearchTyped
<1>9. StackIsPath'
  <2>1. \A i \in 1..L - 1 : i \in 1..L /\ i + 1 \in 1..L
    BY <1>4
  <2>2. ASSUME NEW i \in 1..L, NEW j \in 1..L, stack'[i].name = stack'[j].name
        PROVE  i = j
    BY <1>3, <2>2 DEF SearchInv, StackIsPath
  <2>3. ASSUME NEW i \in 1..L - 1
        PROVE  /\ stack'[i].next > 1
               /\ NeedsIn(deps', stack'[i].name)[stack'[i].next - 1] = stack'[i + 1].name
    <3>1. stack'[i] = stack[i] /\ stack'[i + 1].name = stack[i + 1].name
      BY <1>3, <2>1
    <3> QED
      BY <1>2, <3>1 DEF SearchInv, StackIsPath
  <2> QED
    BY <1>3, <2>2, <2>3 DEF StackIsPath
<1>10. PassedAreLeft'
  <2>1. ASSUME NEW i \in 1..L, NEW k \in 1..stack'[i].next - 1
        PROVE  \/ i < L /\ k = stack'[i].next - 1
               \/ NeedsIn(deps', stack'[i].name)[k] \in Finished \cup {Sentinel}
    <3>1. CASE i = L
      <4>1. k \in 1..Last(stack).next - 1 \/ k = Last(stack).next
        BY <1>3, <1>4, <3>1
      <4>2. stack'[i].name = Last(stack).name
        BY <1>3, <1>4, <3>1
      <4> QED
        BY <1>1, <1>2, <1>6, <4>1, <4>2, TopPassed DEF SearchInv
    <3>2. CASE i # L
      <4>1. i \in 1..L - 1
        BY <1>4, <3>2, BelowTop
      <4>2. stack'[i] = stack[i]
        BY <1>3, <4>1
      <4> QED
        BY <1>2, <4>2 DEF SearchInv, PassedAreLeft
    <3> QED
      BY <3>1, <3>2
  <2> QED
    BY <1>3, <1>6, <2>1 DEF PassedAreLeft
<1>11. Searched'
  BY <1>1 DEF Searched
<1> QED
  BY <1>2, <1>7, <1>8, <1>9, <1>10, <1>11 DEF SearchInv

LEMMA NextNeed ==
    ASSUME NEW l \in Nat, NEW n \in 1..l, NEW x, x = n + 1
    PROVE  /\ n \in Nat \ {0} /\ x - 1 = n /\ x > 1 /\ x <= l + 1
           /\ \A k \in 1..x - 1 : k \in 1..n - 1 \/ k = x - 1
  OBVIOUS

LEMMA PushedKeeps ==
    ASSUME SearchInv, VisitsNeed, NEW dep,
           dep = NeedsIn(deps, Last(stack).name)[Last(stack).next],
           dep \notin InStack \ {Sentinel}, dep \notin visited \cup {Sentinel},
           phase' = phase,
           stack' = Append(Passed, [name |-> dep, next |-> 1]),
           visited' = visited \cup {dep}
    PROVE  SearchInv'
<1> DEFINE L == Len(stack)
           new == [name |-> dep, next |-> 1]
<1>1. /\ parser' = parser /\ phase = "searching" /\ stack # <<>>
      /\ Last(stack).next <= Len(NeedsIn(deps, Last(stack).name))
  BY VisitsNeedCases
<1>2. deps' = deps /\ ParserTyped'
  BY <1>1, SameNeeds DEF SearchInv
<1>3. /\ Passed \in Seq(Frame) /\ Len(Passed) = L
      /\ \A i \in 1..L - 1 : Passed[i] = stack[i]
      /\ \A i \in 1..L : Passed[i].name = stack[i].name
      /\ Passed[L].next = stack[L].next + 1
  BY <1>1, PassedStack DEF SearchInv
<1>4. /\ L \in Nat \ {0} /\ Last(stack) = stack[L] /\ stack \in Seq(Frame)
      /\ DOMAIN stack = 1..L
      /\ Last(stack).next \in 1..Len(NeedsIn(deps, Last(stack).name))
      /\ Len(NeedsIn(deps, Last(stack).name)) \in Nat
      /\ dep \in Words
  BY <1>1, <1>3, StackTop, TopNeed, NeedsType DEF SearchInv, SearchTyped
<1>5. new \in Frame /\ new.name = dep /\ new.next = 1
  BY <1>4 DEF Frame
<1> HIDE DEF L, new
<1>6. stack' = Append(Passed, new)
  BY DEF new
<1>7. /\ stack' \in Seq(Frame) /\ Len(stack') = L + 1 /\ stack'[L + 1] = new
      /\ DOMAIN stack' = 1..L + 1
      /\ \A i \in 1..L : stack'[i] = Passed[i]
  BY <1>3, <1>4, <1>5, <1>6
<1>8. ASSUME NEW i \in 1..L + 1 PROVE i \in 1..L \/ i = L + 1
  BY <1>4
<1>9. /\ \A i \in 1..L : stack'[i].name = stack[i].name
      /\ \A i \in 1..L - 1 : i \in 1..L /\ stack'[i] = stack[i]
      /\ stack'[L].next = stack[L].next + 1 /\ L \in 1..L
  BY <1>3, <1>4, <1>7
<1>17. /\ Last(stack).next \in Nat \ {0} /\ stack'[L].name = Last(stack).name
       /\ stack'[L].next - 1 = Last(stack).next /\ stack'[L].next > 1
       /\ stack'[L].next <= Len(NeedsIn(deps, Last(stack).name)) + 1
       /\ \A k \in 1..stack'[L].next - 1 :
             k \in 1..Last(stack).next - 1 \/ k = stack'[L].next - 1
  <2>1. stack'[L].next = Last(stack).next + 1 /\ stack'[L].name = Last(stack).name
    BY <1>4, <1>9
  <2>2. /\ Len(NeedsIn(deps, Last(stack).name)) \in Nat
        /\ Last(stack).next \in 1..Len(NeedsIn(deps, Last(stack).name))
    BY <1>4
  <2> DEFINE l == Len(NeedsIn(deps, Last(stack).name))
             n == Last(stack).next
             x == stack'[L].next
  <2>3. l \in Nat /\ n \in 1..l /\ x = n + 1
    BY <2>1, <2>2
  <2> HIDE DEF l, n, x
  <2>4. /\ n \in Nat \ {0} /\ x - 1 = n /\ x > 1 /\ x <= l + 1
        /\ \A k \in 1..x - 1 : k \in 1..n - 1 \/ k = x - 1
    BY <2>3, NextNeed
  <2> QED
    BY <2>1, <2>4 DEF l, n, x
<1>10. InStack' = InStack \cup {dep}
  <2>1. InStack = {stack[i].name : i \in 1..L} /\ InStack' = {stack'[i].name : i \in 1..L + 1}
    BY <1>4, <1>7 DEF InStack
  <2>2. L + 1 \in 1..L + 1 /\ \A i \in 1..L : i \in 1..L + 1
    BY <1>4
  <2>3. \A i \in 1..L + 1 : stack'[i].name \in InStack \cup {dep}
    BY <1>5, <1>7, <1>8, <1>9, <2>1
  <2>4. \A i \in 1..L : stack[i].name \in InStack'
    BY <1>9, <2>1, <2>2
  <2>5. dep \in InStack'
    BY <1>5, <1>7, <2>1, <2>2
  <2>6. InStack' \subseteq InStack \cup {dep}
    BY <2>1, <2>3
  <2>7. InStack \subseteq InStack'
    BY <2>1, <2>4
  <2> QED
    BY <2>5, <2>6, <2>7
<1>11. Finished' = Finished
  BY <1>10 DEF Finished
<1>12. LeftIsClosed' /\ LeftIsAcyclic'
  BY <1>1, <1>11, SameLeft DEF SearchInv
<1>13. SearchTyped'
  <2>1. ASSUME NEW i \in 1..L + 1
        PROVE  /\ stack'[i].next <= Len(NeedsIn(deps', stack'[i].name)) + 1
               /\ i > 1 => stack'[i].name # Sentinel
    <3>1. CASE i = L
      BY <1>2, <1>4, <1>9, <1>17, <3>1 DEF SearchInv, SearchTyped, L
    <3>2. CASE i \in 1..L /\ i # L
      <4>1. i \in 1..L - 1
        BY <1>4, <3>2, BelowTop
      <4> QED
        BY <1>2, <1>9, <3>2, <4>1 DEF SearchInv, SearchTyped, L
    <3>3. CASE i = L + 1
      <4>1. Len(NeedsIn(deps, dep)) \in Nat
        BY NeedsType DEF SearchInv
      <4> QED
        BY <1>2, <1>5, <1>7, <3>3, <4>1
    <3> QED
      BY <1>8, <3>1, <3>2, <3>3
  <2>2. InStack' \subseteq visited'
    BY <1>10 DEF SearchInv, SearchTyped
  <2> QED
    BY <1>7, <2>1, <2>2 DEF SearchTyped
<1>14. StackIsPath'
  <2>1. ASSUME NEW i \in 1..L + 1, NEW j \in 1..L + 1, stack'[i].name = stack'[j].name
        PROVE  i = j
    <3>1. \A l \in 1..L : stack'[l].name # dep
      <4>1. dep \notin InStack
        OBVIOUS
      <4> QED
        BY <1>4, <1>9, <4>1 DEF InStack
    <3>2. CASE i \in 1..L /\ j \in 1..L
      BY <1>9, <2>1, <3>2 DEF SearchInv, StackIsPath, L
    <3> QED
      BY <1>5, <1>7, <1>8, <2>1, <3>1, <3>2
  <2>2. ASSUME NEW i \in 1..L
        PROVE  /\ stack'[i].next > 1
               /\ NeedsIn(deps', stack'[i].name)[stack'[i].next - 1] = stack'[i + 1].name
    <3>1. CASE i = L
      <4>1. stack'[i].name = Last(stack).name
        BY <1>17, <3>1
      <4>2. stack'[i].next > 1 /\ stack'[i].next - 1 = Last(stack).next
        BY <1>17, <3>1
      <4>3. stack'[i + 1].name = dep
        BY <1>5, <1>7, <3>1
      <4> QED
        BY <1>2, <4>1, <4>2, <4>3
    <3>2. CASE i # L
      <4>1. i \in 1..L - 1 /\ i + 1 \in 1..L
        BY <1>4, <3>2, BelowTop
      <4>2. /\ stack[i].next > 1
            /\ NeedsIn(deps, stack[i].name)[stack[i].next - 1] = stack[i + 1].name
        BY <4>1 DEF SearchInv, StackIsPath, L
      <4>3. stack'[i] = stack[i] /\ stack'[i + 1].name = stack[i + 1].name
        BY <1>9, <4>1
      <4> QED
        BY <1>2, <4>2, <4>3
    <3> QED
      BY <3>1, <3>2
  <2>3. Len(stack') - 1 = L
    BY <1>4, <1>7
  <2> QED
    BY <1>7, <2>1, <2>2, <2>3 DEF StackIsPath
<1>15. PassedAreLeft'
  <2>1. ASSUME NEW i \in 1..L + 1, NEW k \in 1..stack'[i].next - 1
        PROVE  \/ i < L + 1 /\ k = stack'[i].next - 1
               \/ NeedsIn(deps', stack'[i].name)[k] \in Finished \cup {Sentinel}
    <3>1. CASE i = L
      <4>1. stack'[i].name = Last(stack).name /\ stack'[i].next - 1 = Last(stack).next
        BY <1>17, <3>1
      <4>2. k \in 1..Last(stack).next - 1 \/ k = stack'[i].next - 1
        BY <1>17, <3>1
      <4>3. i < L + 1
        BY <1>4, <3>1
      <4> QED
        BY <1>1, <1>2, <4>1, <4>2, <4>3, TopPassed DEF SearchInv
    <3>2. CASE i \in 1..L /\ i # L
      <4>1. i \in 1..L - 1 /\ i < L + 1
        BY <1>4, <3>2, BelowTop
      <4>2. stack'[i] = stack[i]
        BY <1>9, <4>1
      <4> QED
        BY <1>2, <3>2, <4>1, <4>2 DEF SearchInv, PassedAreLeft, L
    <3>3. CASE i = L + 1
      BY <1>5, <1>7, <3>3
    <3> QED
      BY <1>8, <3>1, <3>2, <3>3
  <2> QED
    BY <1>7, <1>11, <2>1 DEF PassedAreLeft
<1>16. Searched'
  BY <1>1 DEF Searched
<1> QED
  BY <1>2, <1>12, <1>13, <1>14, <1>15, <1>16 DEF SearchInv

LEMMA LeavesKeeps ==
    ASSUME SearchInv, LeavesName
    PROVE  SearchInv'
<1> DEFINE L == Len(stack)
           t == Last(stack).name
<1>1. /\ parser' = parser /\ phase = "searching" /\ phase' = phase /\ stack # <<>>
      /\ Last(stack).next > Len(NeedsIn(deps, t))
      /\ stack' = Front(stack) /\ visited' = visited
  BY DEF LeavesName, NeedsOf, NeedsIn
<1>2. /\ deps' = deps /\ ParserTyped'
      /\ \A m, n : Needs(m, n)' = Needs(m, n)
  BY <1>1, SameNeeds DEF SearchInv
<1>3. /\ L \in Nat \ {0} /\ Last(stack) = stack[L] /\ stack \in Seq(Frame)
      /\ Last(stack) \in Frame /\ DOMAIN stack = 1..L
      /\ Len(NeedsIn(deps, t)) \in Nat /\ SearchTyped
  BY <1>1, StackTop, NeedsType DEF SearchInv, SearchTyped
<1>4. /\ stack' \in Seq(Frame) /\ Len(stack') = L - 1 /\ DOMAIN stack' = 1..L - 1
      /\ \A i \in 1..L - 1 : i \in 1..L /\ i # L /\ stack'[i] = stack[i]
  <2>1. /\ stack' \in Seq(Frame) /\ Len(stack') = L - 1
        /\ \A i \in 1..L - 1 : stack'[i] = stack[i]
    BY <1>1, <1>3, StackTop
  <2>2. DOMAIN stack' = 1..Len(stack')
    BY <2>1
  <2> HIDE DEF L
  <2>3. \A i \in 1..L - 1 : i \in 1..L /\ i # L
    BY <1>3
  <2> QED
    BY <2>1, <2>2, <2>3
<1> HIDE DEF L
<1>5. InStack' = InStack \ {t} /\ t \in InStack
  <2>1. InStack = {stack[i].name : i \in 1..L} /\ InStack' = {stack'[i].name : i \in 1..L - 1}
    BY <1>3, <1>4 DEF InStack
  <2>2. L \in 1..L /\ \A i \in 1..L : i \in 1..L - 1 \/ i = L
    BY <1>3
  <2>3. \A i \in 1..L - 1 : stack[i].name # t
    BY <1>3, <1>4, <2>2 DEF SearchInv, StackIsPath, L
  <2> QED
    BY <1>3, <1>4, <2>1, <2>2, <2>3
<1>6. Finished' = Finished \cup {t} /\ t \notin Finished
  BY <1>1, <1>3, <1>5 DEF Finished, SearchTyped
<1>7. \A k \in 1..Len(NeedsIn(deps, t)) : NeedsIn(deps, t)[k] \in Finished \cup {Sentinel}
  <2>1. Last(stack).next \in Nat
    BY <1>3 DEF Frame
  <2>2. \A k \in 1..Len(NeedsIn(deps, t)) : k \in 1..Last(stack).next - 1
    BY <1>1, <1>3, <2>1
  <2> QED
    BY <1>1, <2>2, TopPassed DEF SearchInv
<1>8. SearchTyped'
  BY <1>1, <1>2, <1>3, <1>4, <1>5 DEF SearchTyped, L
<1>9. StackIsPath'
  <2>1. ASSUME NEW i \in 1..L - 1, NEW j \in 1..L - 1, stack'[i].name = stack'[j].name
        PROVE  i = j
    BY <1>4, <2>1 DEF SearchInv, StackIsPath, L
  <2>2. \A i \in 1..Len(stack') - 1 : i \in 1..L - 1 /\ i + 1 \in 1..L - 1
    BY <1>3, <1>4
  <2> QED
    BY <1>2, <1>4, <2>1, <2>2 DEF SearchInv, StackIsPath, L
<1>10. PassedAreLeft'
  <2>1. ASSUME NEW i \in 1..L - 1, NEW k \in 1..stack[i].next - 1
        PROVE  \/ NeedsIn(deps, stack[i].name)[k] \in Finished' \cup {Sentinel}
               \/ i < L - 1 /\ k = stack[i].next - 1
    <3>1. CASE i < L /\ k = stack[i].next - 1
      <4>1. NeedsIn(deps, stack[i].name)[k] = stack[i + 1].name
        BY <3>1 DEF SearchInv, StackIsPath, L
      <4>2. i + 1 = L \/ i < L - 1
        BY <1>3
      <4> QED
        BY <1>3, <1>6, <3>1, <4>1, <4>2
    <3>2. CASE NeedsIn(deps, stack[i].name)[k] \in Finished \cup {Sentinel}
      BY <1>6, <3>2
    <3> QED
      BY <1>4, <3>1, <3>2 DEF SearchInv, PassedAreLeft, L
  <2> QED
    BY <1>2, <1>4, <2>1 DEF PassedAreLeft
<1>11. LeftIsClosed'
  <2>1. \A m \in Finished \cup {t} : \A k \in 1..Len(NeedsIn(deps, m)) :
           NeedsIn(deps, m)[k] \in Finished \cup {Sentinel}
    BY <1>7 DEF SearchInv, LeftIsClosed
  <2> QED
    BY <1>2, <1>6, <2>1 DEF LeftIsClosed
<1>12. LeftIsAcyclic'
  <2>1. \A m \in Finished \cup {t} : ~Needs(m, t)
    BY <1>5, <1>6, <1>7 DEF SearchInv, LeftIsClosed, Needs
  <2>2. ASSUME NEW S \in SUBSET (Finished \cup {t}), S # {}
        PROVE  \E m \in S : \A n \in S : ~Needs(m, n)
    <3>1. CASE S \subseteq {t}
      BY <2>1, <2>2, <3>1
    <3>2. CASE ~(S \subseteq {t})
      <4>1. S \ {t} \in SUBSET Finished /\ S \ {t} # {}
        BY <3>2
      <4>2. PICK m \in S \ {t} : \A n \in S \ {t} : ~Needs(m, n)
        BY <4>1 DEF SearchInv, LeftIsAcyclic
      <4> QED
        BY <2>1, <4>2
    <3> QED
      BY <3>1, <3>2
  <2> QED
    BY <1>2, <1>6, <2>2 DEF LeftIsAcyclic
<1>13. Searched'
  BY <1>1 DEF Searched
<1> QED
  BY <1>2, <1>8, <1>9, <1>10, <1>11, <1>12, <1>13 DEF SearchInv

LEMMA AcceptsKeeps ==
    ASSUME SearchInv, Accepts
    PROVE  SearchInv'
<1>1. /\ parser' = parser /\ stack' = stack /\ visited' = visited /\ phase' = "accepted"
      /\ stack = <<>> /\ DOMAIN deps \subseteq visited
  BY DEF Accepts
<1>2. deps' = deps /\ ParserTyped'
  BY <1>1, SameNeeds DEF SearchInv
<1>3. InStack' = InStack
  BY <1>1 DEF InStack
<1>4. Finished' = Finished
  BY <1>1, <1>3 DEF Finished
<1>5. LeftIsClosed' /\ LeftIsAcyclic'
  BY <1>1, <1>4, SameLeft DEF SearchInv
<1>6. SearchTyped' /\ StackIsPath' /\ PassedAreLeft'
  BY <1>1, <1>2, <1>3, <1>4 DEF SearchInv, SearchTyped, StackIsPath, PassedAreLeft
<1>7. Searched'
  BY <1>1, <1>2 DEF Searched
<1> QED
  BY <1>2, <1>5, <1>6, <1>7 DEF SearchInv

LEMMA ReadingKeeps ==
    ASSUME SearchInv, EndsReading \/ \E line \in Lines : ReadsLine(line)
    PROVE  SearchInv'
<1>1. /\ ParserTyped /\ stack = <<>> /\ visited = {}
      /\ stack' = stack /\ visited' = visited /\ phase' \notin {"accepted", "cyclic"}
  BY DEF SearchInv, Searched, EndsReading, ReadsLine
<1>2. ParserTyped'
  <2>1. CASE EndsReading
    <3>1. parser.steps \in Seq(StepType)
      BY <1>1 DEF ParserTyped, ParserType
    <3>2. parser' = [EmptyParser EXCEPT !.steps = parser.steps]
      BY <2>1 DEF EndsReading
    <3>3. parser' \in ParserType /\ parser'.steps = parser.steps /\ parser'.current = 0
      BY <3>1, <3>2, EmptyParserTyped
    <3>4. 0 <= Len(parser.steps)
      BY <3>1
    <3> QED
      BY <3>1, <3>3, <3>4 DEF ParserTyped
  <2>2. ASSUME NEW line \in Lines, ReadsLine(line)
        PROVE  ParserTyped'
    <3>1. CASE Refused(parser, line)
      BY <1>1, <2>2, <3>1 DEF ReadsLine, ParserTyped
    <3>2. CASE ~Refused(parser, line)
      <4>1. parser' = Parsed(parser, line)
        BY <2>2, <3>2 DEF ReadsLine
      <4> QED
        BY <1>1, <3>2, <4>1, ParsedType DEF ParserTyped
    <3> QED
      BY <3>1, <3>2
  <2> QED
    BY <2>1, <2>2
<1>3. InStack' = {} /\ Finished' = {} /\ Len(stack') = 0 /\ stack' = <<>> /\ visited' = {}
  BY <1>1 DEF InStack, Finished
<1>4. SearchTyped' /\ StackIsPath' /\ PassedAreLeft'
  BY <1>3 DEF SearchTyped, StackIsPath, PassedAreLeft
<1>5. LeftIsClosed' /\ LeftIsAcyclic' /\ Searched'
  BY <1>1, <1>3 DEF LeftIsClosed, LeftIsAcyclic, Searched
<1> QED
  BY <1>2, <1>4, <1>5 DEF SearchInv

LEMMA NothingVisitedYet == LanguageInit => SearchInv
<1> SUFFICES ASSUME LanguageInit PROVE SearchInv
  OBVIOUS
<1>1. <<>> \in Seq(StepType) /\ <<>> \in Words /\ <<>> \in Seq(Words)
  BY DEF Words
<1>2. EmptyParser \in ParserType /\ EmptyParser.steps = <<>> /\ EmptyParser.current = 0
  BY <1>1 DEF EmptyParser, ParserType
<1>3. ParserTyped
  BY <1>2 DEF LanguageInit, ParserTyped
<1> QED
  BY <1>3, NothingSearched DEF LanguageInit

LEMMA NothingLost ==
    ASSUME SearchInv, [LanguageNext]_languageVars
    PROVE  SearchInv'
<1>1. ASSUME VisitsNeed PROVE SearchInv'
  <2> DEFINE dep == NeedsIn(deps, Last(stack).name)[Last(stack).next]
  <2>1. CASE dep \in InStack \ {Sentinel}
    BY <1>1, <2>1, VisitsNeedCases, CyclicKeeps
  <2>2. CASE dep \notin InStack \ {Sentinel} /\ dep \in visited \cup {Sentinel}
    BY <1>1, <2>2, VisitsNeedCases, PassedKeeps
  <2>3. CASE dep \notin InStack \ {Sentinel} /\ dep \notin visited \cup {Sentinel}
    BY <1>1, <2>3, VisitsNeedCases, PushedKeeps
  <2> QED
    BY <2>1, <2>2, <2>3
<1>2. ASSUME UNCHANGED languageVars PROVE SearchInv'
  <2>1. /\ parser' = parser /\ stack' = stack /\ visited' = visited /\ phase' = phase
    BY <1>2 DEF languageVars
  <2>2. deps' = deps /\ Waits' = Waits /\ ParserTyped' /\ InStack' = InStack
        /\ \A m, n : Needs(m, n)' = Needs(m, n)
    BY <2>1, SameNeeds DEF SearchInv, InStack
  <2>3. Finished' = Finished
    BY <2>1, <2>2 DEF Finished
  <2>4. LeftIsClosed' /\ LeftIsAcyclic'
    BY <2>1, <2>3, SameLeft DEF SearchInv
  <2>5. SearchTyped' /\ StackIsPath' /\ PassedAreLeft'
    BY <2>1, <2>2, <2>3 DEF SearchInv, SearchTyped, StackIsPath, PassedAreLeft
  <2>6. Searched'
    BY <2>1, <2>2 DEF SearchInv, Searched, Cyclic
  <2> QED
    BY <2>2, <2>4, <2>5, <2>6 DEF SearchInv
<1> QED
  BY <1>1, <1>2, VisitsKeeps, LeavesKeeps, AcceptsKeeps, ReadingKeeps DEF LanguageNext

LEMMA FoundIfThere == SearchInv => CyclesFound
<1> SUFFICES ASSUME SearchInv PROVE CyclesFound
  OBVIOUS
<1>1. ASSUME phase = "accepted", NEW S \in SUBSET DOMAIN deps, S # {},
             \A m \in S : \E n \in S : <<m, n>> \in Waits
      PROVE  FALSE
  <2>1. S \in SUBSET Finished
    BY <1>1 DEF SearchInv, Searched, Finished, InStack
  <2>2. PICK m \in S : \A n \in S : ~Needs(m, n)
    BY <1>1, <2>1 DEF SearchInv, LeftIsAcyclic
  <2> QED
    BY <1>1, <2>2, WaitsFor DEF SearchInv, Needs
<1> QED
  BY <1>1 DEF SearchInv, Searched, CyclesFound, Cyclic

\* DetectCycles accepts a document if and only if no steps wait for each other in a
\* circle, in whatever order the map is gone through: every need of a name that was
\* left is left too, and the names that were left contain no circle.
THEOREM CyclesAreFound == LanguageSpec => []CyclesFound
<1>1. SearchInv /\ [LanguageNext]_languageVars => SearchInv'
  BY NothingLost
<1> QED
  BY <1>1, NothingVisitedYet, FoundIfThere, PTL DEF LanguageSpec

-----------------------------------------------------------------------------
(* Numbers in their order *)

\* A number above the others comes last and moves none of them.
LEMMA InOrderNext ==
    ASSUME NEW n \in Nat, NEW S \in SUBSET (1..n), NEW x, x = n + 1
    PROVE  /\ Cardinality(S) \in Nat /\ Cardinality(S \cup {x}) = Cardinality(S) + 1
           /\ \A k \in 1..Cardinality(S) : InOrder(S \cup {x})[k] = InOrder(S)[k]
           /\ InOrder(S \cup {x})[Cardinality(S) + 1] = x
<1> DEFINE c == Cardinality(S)
           T == S \cup {x}
           count(R, i) == Cardinality({j \in R : j <= i})
<1>1. IsFiniteSet(S) /\ x \notin S /\ x \in Nat /\ \A i \in S : i \in Nat /\ i < x
  <2>1. IsFiniteSet(1..n)
    BY FS_Interval
  <2>2. IsFiniteSet(S)
    BY <2>1, FS_Subset
  <2>3. x \notin S /\ x \in Nat /\ \A i \in S : i \in Nat /\ i < x
    OBVIOUS
  <2> QED
    BY <2>2, <2>3
<1>2. c \in Nat /\ Cardinality(T) = c + 1
  BY <1>1, FS_CardinalityType, FS_AddElement
<1>3. ASSUME NEW i \in S
      PROVE  count(T, i) = count(S, i) /\ count(S, i) \in Nat /\ count(S, i) <= c
  <2>1. {j \in T : j <= i} = {j \in S : j <= i}
    BY <1>1
  <2>2. IsFiniteSet({j \in S : j <= i}) /\ Cardinality({j \in S : j <= i}) <= c
    BY <1>1, FS_Subset
  <2> QED
    BY <2>1, <2>2, FS_CardinalityType
<1>4. count(T, x) = c + 1
  <2>1. \A j \in T : j <= x
    BY <1>1
  <2> HIDE DEF T
  <2>2. {j \in T : j <= x} = T
    BY <2>1
  <2> QED
    BY <1>2, <2>2
<1> HIDE DEF count
<1>5. ASSUME NEW k \in 1..c
      PROVE  (CHOOSE i \in T : count(T, i) = k) = (CHOOSE i \in S : count(S, i) = k)
  <2>1. \A i : i \in T /\ count(T, i) = k <=> i \in S /\ count(S, i) = k
    <3>1. k # c + 1
      BY <1>2
    <3> QED
      BY <1>3, <1>4, <3>1
  <2> HIDE DEF T
  <2> QED
    BY <2>1, Zenon
<1>6. (CHOOSE i \in T : count(T, i) = c + 1) = x
  <2>1. \A i \in S : count(T, i) # c + 1
    BY <1>2, <1>3
  <2>2. \A i : i \in T /\ count(T, i) = c + 1 <=> i = x
    BY <1>4, <2>1
  <2> HIDE DEF T
  <2> QED
    BY <2>2
<1>7. \A R : InOrder(R) = [k \in 1..Cardinality(R) |-> CHOOSE i \in R : count(R, i) = k]
  BY DEF InOrder, count
<1> HIDE DEF c, T
<1>8. c + 1 \in 1..Cardinality(T) /\ \A k \in 1..c : k \in 1..Cardinality(T)
  BY <1>2
<1>9. InOrder(T)[c + 1] = x
  BY <1>6, <1>7, <1>8
<1>10. ASSUME NEW k \in 1..c PROVE InOrder(T)[k] = InOrder(S)[k]
  <2>1. InOrder(S)[k] = CHOOSE i \in S : count(S, i) = k
    BY <1>7 DEF c
  <2>2. InOrder(T)[k] = CHOOSE i \in T : count(T, i) = k
    BY <1>7, <1>8
  <2> QED
    BY <1>5, <2>1, <2>2
<1> QED
  BY <1>2, <1>9, <1>10 DEF c, T

LEMMA InOrderMore ==
    ASSUME NEW l \in Nat, NEW S \in SUBSET (1..l)
    PROVE  /\ Cardinality(S \cup {l + 1}) = Cardinality(S) + 1
           /\ \A k \in 1..Cardinality(S) : InOrder(S \cup {l + 1})[k] = InOrder(S)[k]
           /\ InOrder(S \cup {l + 1})[Cardinality(S) + 1] = l + 1
BY InOrderNext

\* InOrder is a sequence of the numbers and leaves none out.
LEMMA InOrderType ==
    ASSUME NEW n \in Nat, NEW S \in SUBSET (1..n)
    PROVE  /\ InOrder(S) \in Seq(S) /\ Len(InOrder(S)) = Cardinality(S)
           /\ Cardinality(S) \in Nat
           /\ \A j \in S : \E k \in 1..Cardinality(S) : InOrder(S)[k] = j
<1> DEFINE c(R) == Cardinality(R)
           Good(R) == /\ \A k \in 1..c(R) : InOrder(R)[k] \in R
                      /\ \A j \in R : \E k \in 1..c(R) : InOrder(R)[k] = j
           Fails == {m \in Nat : \E R \in SUBSET (1..m) : ~Good(R)}
<1>1. ASSUME NEW m \in Fails, \A k \in Fails : m <= k PROVE FALSE
  <2>1. m \in Nat
    BY <1>1
  <2>2. PICK R \in SUBSET (1..m) : ~Good(R)
    BY <1>1
  <2>3. m # 0
    <3>1. SUFFICES ASSUME m = 0 PROVE FALSE
      OBVIOUS
    <3>2. R = {}
      BY <3>1
    <3>3. c({}) = 0
      BY FS_EmptySet
    <3> QED
      BY <2>2, <3>2, <3>3
  <2> DEFINE l == m - 1
  <2>4. l \in Nat /\ l \notin Fails /\ m = l + 1
    BY <1>1, <2>1, <2>3
  <2> HIDE DEF l
  <2>5. \A Q \in SUBSET (1..l) : Good(Q)
    BY <2>4
  <2>6. m \in R
    <3>1. m \notin R => R \in SUBSET (1..l)
      BY <2>4
    <3> QED
      BY <2>2, <2>5, <3>1
  <2> DEFINE Q == R \ {m}
  <2>7. Q \in SUBSET (1..l) /\ R = Q \cup {m}
    BY <2>4, <2>6
  <2> HIDE DEF Q
  <2>8. /\ c(Q) \in Nat /\ c(R) = c(Q) + 1
        /\ \A k \in 1..c(Q) : InOrder(R)[k] = InOrder(Q)[k]
        /\ InOrder(R)[c(Q) + 1] = m
    BY <2>4, <2>7, InOrderNext
  <2>9. Good(Q)
    BY <2>5, <2>7
  <2> HIDE DEF c
  <2>10. Good(R)
    <3>1. ASSUME NEW k \in 1..c(R) PROVE InOrder(R)[k] \in R
      <4>1. k \in 1..c(Q) \/ k = c(Q) + 1
        BY <2>8
      <4> QED
        BY <2>7, <2>8, <2>9, <4>1
    <3>2. ASSUME NEW j \in R PROVE \E k \in 1..c(R) : InOrder(R)[k] = j
      <4>1. c(Q) + 1 \in 1..c(R) /\ \A k \in 1..c(Q) : k \in 1..c(R)
        BY <2>8
      <4> QED
        BY <2>7, <2>8, <2>9, <4>1
    <3> QED
      BY <3>1, <3>2
  <2> QED
    BY <2>2, <2>10
<1>2. Fails = {}
  <2>1. Fails \in SUBSET Nat
    OBVIOUS
  <2> HIDE DEF Fails
  <2> QED
    BY <1>1, <2>1, LeastNumber
<1>3. Good(S)
  <2> HIDE DEF Good
  <2>1. ~Good(S) => n \in Fails
    OBVIOUS
  <2> QED
    BY <1>2, <2>1
<1>4. c(S) \in Nat
  BY InOrderNext
<1>5. InOrder(S) \in Seq(S) /\ Len(InOrder(S)) = c(S)
  <2> DEFINE at == InOrder(S)
             m == c(S)
  <2>1. at = [k \in 1..m |-> at[k]]
    BY DEF InOrder
  <2>2. m \in Nat /\ \A k \in 1..m : at[k] \in S
    BY <1>3, <1>4
  <2> HIDE DEF at, m
  <2>3. at \in Seq(S) /\ Len(at) = m
    BY <2>1, <2>2
  <2> QED
    BY <2>3 DEF at, m
<1> QED
  BY <1>3, <1>4, <1>5

-----------------------------------------------------------------------------
(* A document with one line more *)

\* A sequence is Append(s, x) if it is s and then x.
LEMMA AppendIs ==
    ASSUME NEW S, NEW s \in Seq(S), NEW x \in S, NEW t \in Seq(S),
           Len(t) = Len(s) + 1,
           \A k \in 1..Len(s) : t[k] = s[k], t[Len(s) + 1] = x
    PROVE  t = Append(s, x)
<1> DEFINE u == Append(s, x)
<1>1. /\ u \in Seq(S) /\ Len(u) = Len(t) /\ Len(s) \in Nat
      /\ \A k \in 1..Len(s) : u[k] = s[k]
      /\ u[Len(s) + 1] = x
  OBVIOUS
<1> HIDE DEF u
<1>2. \A k \in 1..Len(t) : u[k] = t[k]
  <2>1. \A k \in 1..Len(t) : k \in 1..Len(s) \/ k = Len(s) + 1
    BY <1>1
  <2> QED
    BY <1>1, <2>1
<1>3. u = t
  <2>1. \A r \in Seq(S) : r = [k \in 1..Len(r) |-> r[k]]
    OBVIOUS
  <2> QED
    BY <1>1, <1>2, <2>1
<1> QED
  BY <1>3 DEF u

\* A document e that is d with a line x after it.
Longer(d, x, e) ==
    /\ d \in Seq(Lines) /\ x \in Lines /\ e \in Seq(Lines)
    /\ Len(d) \in Nat /\ Len(e) = Len(d) + 1
    /\ \A i \in 1..Len(d) : e[i] = d[i] /\ d[i] \in Lines
    /\ e[Len(d) + 1] = x

LEMMA AppendIsLonger ==
    ASSUME NEW d \in Seq(Lines), NEW x \in Lines
    PROVE  Longer(d, x, Append(d, x))
<1>1. Append(d, x) \in Seq(Lines) /\ Len(d) \in Nat /\ Len(Append(d, x)) = Len(d) + 1
  OBVIOUS
<1>2. \A i \in 1..Len(d) : Append(d, x)[i] = d[i] /\ d[i] \in Lines
  OBVIOUS
<1>3. Append(d, x)[Len(d) + 1] = x
  OBVIOUS
<1> QED
  BY <1>1, <1>2, <1>3 DEF Longer

At(d, I, kws) == {i \in I : d[i].kw \in kws}

\* What is picked from d, and with the next line from e.
PickedOn(d, x, e, I) ==
    \A kws : /\ Picked(d, I, kws) \in Seq(Lines)
             /\ Len(Picked(d, I, kws)) = Cardinality(At(d, I, kws))
             /\ Picked(e, I, kws) = Picked(d, I, kws)
             /\ Picked(e, I \cup {Len(d) + 1}, kws) =
                   IF x.kw \in kws THEN Append(Picked(d, I, kws), x) ELSE Picked(d, I, kws)

\* The line is picked or not; what was picked stays.
LEMMA PickedNext ==
    ASSUME NEW d, NEW x, NEW e, Longer(d, x, e), NEW I \in SUBSET (1..Len(d))
    PROVE  PickedOn(d, x, e, I)
<1> SUFFICES ASSUME NEW kws
             PROVE  /\ Picked(d, I, kws) \in Seq(Lines)
                    /\ Len(Picked(d, I, kws)) = Cardinality(At(d, I, kws))
                    /\ Picked(e, I, kws) = Picked(d, I, kws)
                    /\ Picked(e, I \cup {Len(d) + 1}, kws) =
                          IF x.kw \in kws THEN Append(Picked(d, I, kws), x)
                          ELSE Picked(d, I, kws)
  BY DEF PickedOn
<1> DEFINE A == At(d, I, kws)
           at == InOrder(A)
           c == Cardinality(A)
           l == Len(d)
           p == Picked(d, I, kws)
<1>1. /\ l \in Nat /\ x \in Lines /\ e[l + 1] = x
      /\ \A i \in 1..l : e[i] = d[i] /\ d[i] \in Lines /\ i # l + 1
  BY DEF Longer
<1>2. A \in SUBSET (1..l)
  BY DEF At
<1>3. c \in Nat /\ DOMAIN at = 1..c /\ \A k \in 1..c : at[k] \in 1..l
  <2>1. at \in Seq(A) /\ Len(at) = c /\ c \in Nat
    BY <1>1, <1>2, InOrderType
  <2> HIDE DEF at, c
  <2> QED
    BY <1>2, <2>1
<1>4. At(e, I, kws) = A
  BY <1>1 DEF At
<1>5. \A f, J : Picked(f, J, kws) = [k \in DOMAIN InOrder(At(f, J, kws)) |-> f[InOrder(At(f, J, kws))[k]]]
  BY DEF Picked, At
<1>6. p = [k \in 1..c |-> d[at[k]]] /\ Picked(e, I, kws) = [k \in 1..c |-> e[at[k]]]
  BY <1>3, <1>4, <1>5
<1> HIDE DEF at, p, l
<1>7. p \in Seq(Lines) /\ Len(p) = c /\ Picked(e, I, kws) = p
  <2>1. \A k \in 1..c : d[at[k]] \in Lines /\ e[at[k]] = d[at[k]]
    BY <1>1, <1>3
  <2>2. Picked(e, I, kws) = p
    BY <1>6, <2>1
  <2> HIDE DEF c
  <2>3. p \in Seq(Lines) /\ Len(p) = c
    BY <1>3, <1>6, <2>1
  <2> QED
    BY <2>2, <2>3
<1> DEFINE q == Picked(e, I \cup {l + 1}, kws)
<1>8. CASE x.kw \notin kws
  <2>1. At(e, I \cup {l + 1}, kws) = A
    BY <1>1, <1>4, <1>8 DEF At
  <2>2. q = Picked(e, I, kws)
    BY <1>4, <1>5, <2>1
  <2> QED
    BY <1>7, <1>8, <2>2 DEF l, p
<1>9. CASE x.kw \in kws
  <2>1. At(e, I \cup {l + 1}, kws) = A \cup {l + 1}
    BY <1>1, <1>4, <1>9 DEF At
  <2> DEFINE bt == InOrder(A \cup {l + 1})
  <2>2. /\ Cardinality(A \cup {l + 1}) = c + 1
        /\ \A k \in 1..c : bt[k] = at[k]
        /\ bt[c + 1] = l + 1
    <3>1. l \in Nat /\ A \in SUBSET (1..l)
      BY <1>1, <1>2
    <3> HIDE DEF A
    <3>2. /\ Cardinality(A \cup {l + 1}) = Cardinality(A) + 1
          /\ \A k \in 1..Cardinality(A) : InOrder(A \cup {l + 1})[k] = InOrder(A)[k]
          /\ InOrder(A \cup {l + 1})[Cardinality(A) + 1] = l + 1
      BY <3>1, InOrderMore
    <3> QED
      BY <3>2 DEF at
  <2>3. DOMAIN bt = 1..c + 1
    BY <2>2 DEF InOrder
  <2> HIDE DEF bt, c
  <2>4. q = [k \in 1..c + 1 |-> e[bt[k]]]
    <3>1. q = [k \in DOMAIN bt |-> e[bt[k]]]
      BY <2>1 DEF bt, Picked, At
    <3> QED
      BY <2>3, <3>1
  <2> HIDE DEF q
  <2>5. \A k \in 1..c : q[k] = p[k]
    <3>1. \A k \in 1..c : q[k] = e[at[k]]
      BY <1>3, <2>2, <2>4
    <3>2. \A k \in 1..c : p[k] = d[at[k]]
      BY <1>6
    <3> QED
      BY <1>1, <1>3, <3>1, <3>2
  <2>6. q[c + 1] = x
    BY <1>1, <1>3, <2>2, <2>4
  <2>7. q \in Seq(Lines) /\ Len(q) = Len(p) + 1
    <3>1. \A k \in 1..c : p[k] \in Lines
      BY <1>7
    <3>2. \A k \in 1..c + 1 : k \in 1..c \/ k = c + 1
      BY <1>3
    <3>3. \A k \in 1..c + 1 : q[k] \in Lines
      BY <1>1, <2>5, <2>6, <3>1, <3>2
    <3>4. q \in [1..c + 1 -> Lines] /\ c + 1 \in Nat
      BY <1>3, <2>4, <3>3
    <3> QED
      BY <1>7, <3>4
  <2>8. q = Append(p, x)
    BY <1>1, <1>7, <2>5, <2>6, <2>7, AppendIs
  <2> QED
    BY <1>7, <1>9, <2>8 DEF l, p, q, c
<1> QED
  BY <1>8, <1>9

\* What the last line of a kind says, in d and in e.
LatestOn(d, x, e, I) ==
    \A kw : /\ Latest(e, I, kw) = Latest(d, I, kw)
            /\ Latest(e, I \cup {Len(d) + 1}, kw) =
                  IF x.kw = kw THEN x.args ELSE Latest(d, I, kw)

\* The last line of a kind is the new one or the one it was.
LEMMA LatestNext ==
    ASSUME NEW d, NEW x, NEW e, Longer(d, x, e), NEW I \in SUBSET (1..Len(d))
    PROVE  LatestOn(d, x, e, I)
<1> SUFFICES ASSUME NEW kw
             PROVE  /\ Latest(e, I, kw) = Latest(d, I, kw)
                    /\ Latest(e, I \cup {Len(d) + 1}, kw) =
                          IF x.kw = kw THEN x.args ELSE Latest(d, I, kw)
  BY DEF LatestOn
<1> DEFINE p == Picked(d, I, {kw})
           J == I \cup {Len(d) + 1}
<1>1. /\ p \in Seq(Lines) /\ x \in Lines /\ Picked(e, I, {kw}) = p
      /\ Picked(e, J, {kw}) = IF x.kw = kw THEN Append(p, x) ELSE p
  <2> DEFINE kws == {kw}
  <2>1. x.kw \in kws <=> x.kw = kw
    OBVIOUS
  <2> HIDE DEF kws, p, J
  <2>2. PickedOn(d, x, e, I)
    BY PickedNext
  <2>3. x \in Lines
    BY DEF Longer
  <2> QED
    BY <2>1, <2>2, <2>3 DEF kws, p, J, PickedOn
<1> HIDE DEF p, J
<1>2. Append(p, x) # <<>> /\ Last(Append(p, x)) = x
  <2>1. Append(p, x) \in Seq(Lines) /\ Len(Append(p, x)) = Len(p) + 1
        /\ Append(p, x)[Len(p) + 1] = x /\ Len(p) \in Nat
    BY <1>1
  <2>2. Len(<<>>) = 0
    OBVIOUS
  <2> QED
    BY <2>1, <2>2 DEF Last
<1>3. Latest(e, I, kw) = Latest(d, I, kw)
  BY <1>1 DEF Latest, p
<1>4. Latest(e, J, kw) = IF x.kw = kw THEN x.args ELSE Latest(d, I, kw)
  BY <1>1, <1>2 DEF Latest, LastOr, p
<1> QED
  BY <1>3, <1>4 DEF J

LEMMA TextedNext ==
    ASSUME NEW lines \in Seq(Lines), NEW x \in Lines
    PROVE  /\ Len(Texted(lines)) = Len(lines)
           /\ Texted(Append(lines, x)) = Append(Texted(lines), Joined(x.args))
           /\ Itemized(Append(lines, x)) =
                 Append(Itemized(lines),
                        [text |-> Joined(x.args), required |-> x.kw = "item!"])
<1> DEFINE longer == Append(lines, x)
           n == Len(lines)
           item(line) == [text |-> Joined(line.args), required |-> line.kw = "item!"]
<1>1. /\ n \in Nat /\ DOMAIN lines = 1..n /\ DOMAIN longer = 1..n + 1
      /\ longer[n + 1] = x
      /\ \A k \in 1..n : longer[k] = lines[k] /\ lines[k] \in Lines /\ k \in 1..n + 1
      /\ n + 1 \in 1..n + 1
  OBVIOUS
<1> HIDE DEF longer, n
<1> DEFINE s == Texted(lines)
           t == Texted(longer)
           u == Itemized(lines)
           v == Itemized(longer)
<1>2. \A line \in Lines : Joined(line.args) \in Words
  BY LineType
<1>3. s = [k \in 1..n |-> Joined(lines[k].args)] /\ t = [k \in 1..n + 1 |-> Joined(longer[k].args)]
  BY <1>1 DEF Texted
<1>4. u = [k \in 1..n |-> item(lines[k])] /\ v = [k \in 1..n + 1 |-> item(longer[k])]
  BY <1>1 DEF Itemized
<1> HIDE DEF s, t, u, v
<1>5. s \in Seq(Words) /\ Len(s) = n
  BY <1>1, <1>2, <1>3
<1>6. t = Append(s, Joined(x.args))
  <2>1. \A k \in 1..n : t[k] = s[k]
    BY <1>1, <1>3
  <2>3. t \in Seq(Words) /\ Len(t) = n + 1
    BY <1>1, <1>2, <1>3
  <2>2. t[n + 1] = Joined(x.args)
    BY <1>1, <1>3
  <2> QED
    BY <1>2, <1>5, <2>1, <2>2, <2>3, AppendIs
<1> DEFINE X == [text : Words, required : BOOLEAN]
<1>7. \A line \in Lines : item(line) \in X
  BY <1>2
<1> HIDE DEF item, X
<1>8. u \in Seq(X) /\ Len(u) = n
  BY <1>1, <1>4, <1>7
<1>9. v = Append(u, item(x))
  <2>1. \A k \in 1..n : v[k] = u[k]
    BY <1>1, <1>4
  <2>3. v \in Seq(X) /\ Len(v) = n + 1
    BY <1>1, <1>4, <1>7
  <2>2. v[n + 1] = item(x)
    BY <1>1, <1>4
  <2> QED
    BY <1>7, <1>8, <2>1, <2>2, <2>3, AppendIs
<1> QED
  BY <1>5, <1>6, <1>9 DEF s, t, u, v, n, longer, item

-----------------------------------------------------------------------------
(* A step after the next line *)

Marks == {"step", "section"}

\* No step and no section follows line i.
StillOpen(d, i) == \A k \in i + 1..Len(d) : d[k].kw \notin Marks

\* The body of a step lies in the document and ends at the next mark.
LEMMA BodyIs ==
    ASSUME NEW d \in Seq(Lines), NEW i \in 1..Len(d)
    PROVE  /\ Body(d, i) \in SUBSET (1..Len(d))
           /\ Body(d, i) = {j \in i + 1..Len(d) : \A k \in i + 1..j : d[k].kw \notin Marks}
<1>1. Body(d, i) = {j \in i + 1..Len(d) : \A k \in i + 1..j : d[k].kw \notin Marks}
  BY DEF Body, Marks
<1>2. Len(d) \in Nat /\ \A j \in i + 1..Len(d) : j \in 1..Len(d)
  OBVIOUS
<1> QED
  BY <1>1, <1>2

\* A step stays open until the next step or section.
LEMMA OpenNext ==
    ASSUME NEW d, NEW x, NEW e, Longer(d, x, e), NEW i \in 1..Len(d)
    PROVE  /\ StillOpen(e, i) <=> StillOpen(d, i) /\ x.kw \notin Marks
           /\ StillOpen(e, Len(d) + 1)
<1> DEFINE l == Len(d)
<1>1. /\ l \in Nat /\ Len(e) = l + 1 /\ e[l + 1] = x
      /\ \A k \in 1..l : e[k] = d[k]
  BY DEF Longer
<1>2. /\ \A k \in i + 1..l : k \in 1..l /\ k \in i + 1..l + 1
      /\ \A k \in i + 1..l + 1 : k \in i + 1..l \/ k = l + 1
      /\ l + 1 \in i + 1..l + 1 /\ i \in 1..l
  BY <1>1
<1>3. StillOpen(d, i) <=> \A k \in i + 1..l : d[k].kw \notin Marks
  BY DEF StillOpen
<1>4. StillOpen(e, i) <=> \A k \in i + 1..l + 1 : e[k].kw \notin Marks
  BY <1>1 DEF StillOpen
<1>5. StillOpen(e, l + 1)
  <2>1. \A k : k \notin l + 1 + 1..l + 1
    BY <1>1
  <2> QED
    BY <1>1, <2>1 DEF StillOpen
<1> HIDE DEF l
<1>6. StillOpen(e, i) <=> StillOpen(d, i) /\ x.kw \notin Marks
  BY <1>1, <1>2, <1>3, <1>4
<1> QED
  BY <1>5, <1>6 DEF l

\* The new line is about a step exactly if it leaves the step open.
LEMMA BodyNext ==
    ASSUME NEW d, NEW x, NEW e, Longer(d, x, e), NEW i \in 1..Len(d)
    PROVE  /\ StillOpen(e, i) => Body(e, i) = Body(d, i) \cup {Len(d) + 1}
           /\ ~StillOpen(e, i) => Body(e, i) = Body(d, i)
<1> DEFINE l == Len(d)
           clear(f, j) == \A k \in i + 1..j : f[k].kw \notin Marks
<1>1. /\ l \in Nat /\ Len(e) = l + 1 /\ i \in 1..l /\ i \in 1..l + 1
      /\ \A k \in 1..l : e[k] = d[k]
      /\ d \in Seq(Lines) /\ e \in Seq(Lines)
  BY DEF Longer
<1>2. Body(d, i) = {j \in i + 1..l : clear(d, j)}
  BY <1>1, BodyIs
<1>3. Body(e, i) = {j \in i + 1..l + 1 : clear(e, j)}
  BY <1>1, BodyIs
<1>4. StillOpen(e, i) <=> clear(e, l + 1)
  BY <1>1 DEF StillOpen
<1>5. ASSUME NEW j \in i + 1..l PROVE clear(e, j) <=> clear(d, j)
  <2>1. \A k \in i + 1..j : k \in 1..l
    BY <1>1
  <2> QED
    BY <1>1, <2>1
<1> HIDE DEF clear, l
<1>6. /\ \A j \in i + 1..l + 1 : j \in i + 1..l \/ j = l + 1
      /\ \A j \in i + 1..l : j \in i + 1..l + 1
      /\ l + 1 \in i + 1..l + 1 /\ l + 1 \notin i + 1..l
  BY <1>1
<1>7. CASE StillOpen(e, i)
  BY <1>2, <1>3, <1>4, <1>5, <1>6, <1>7 DEF l
<1>8. CASE ~StillOpen(e, i)
  BY <1>2, <1>3, <1>4, <1>5, <1>6, <1>8 DEF l
<1> QED
  BY <1>7, <1>8

LEMMA NoBodyYet ==
    ASSUME NEW d, NEW x, NEW e, Longer(d, x, e)
    PROVE  Body(e, Len(d) + 1) = {}
<1>1. Len(d) \in Nat /\ Len(e) = Len(d) + 1
  BY DEF Longer
<1>2. \A k : k \notin Len(d) + 1 + 1..Len(e)
  BY <1>1
<1> QED
  BY <1>2 DEF Body

\* StepAt, with the lines B about the step.
StepWith(d, i, B) ==
    [name |-> Joined(d[i].args),
     section |-> Cardinality({j \in 1..i : d[j].kw = "section"}),
     text |-> [t \in Texts |-> Joined(Latest(d, B, t))],
     list |-> [l \in Lists |-> Texted(Picked(d, B, {l}))],
     items |-> Itemized(Picked(d, B, Entries)),
     flags |-> {d[j].kw : j \in {k \in B : d[k].kw \in Flags}},
     needs |-> NameList(Latest(d, B, "needs")),
     ask |-> Targets(Latest(d, B, "ask"))]

LEMMA StepAtIs == \A d, i : StepAt(d, i) = StepWith(d, i, Body(d, i))
BY DEF StepAt, StepWith

\* Nothing changes for a step that does not get the line.
LEMMA StepStays ==
    ASSUME NEW d, NEW x, NEW e, Longer(d, x, e), NEW i \in 1..Len(d), NEW B \in SUBSET (1..Len(d))
    PROVE  StepWith(e, i, B) = StepWith(d, i, B)
<1>1. \A k \in 1..Len(d) : e[k] = d[k]
  BY DEF Longer
<1>2. \A j \in 1..i : e[j] = d[j]
  <2>1. \A j \in 1..i : j \in 1..Len(d)
    BY DEF Longer
  <2> QED
    BY <1>1, <2>1
<1>3. {j \in 1..i : e[j].kw = "section"} = {j \in 1..i : d[j].kw = "section"}
  BY <1>2
<1>4. {e[j].kw : j \in {k \in B : e[k].kw \in Flags}} = {d[j].kw : j \in {k \in B : d[k].kw \in Flags}}
  BY <1>1
<1>5. \A kw : Latest(e, B, kw) = Latest(d, B, kw)
  <2>1. LatestOn(d, x, e, B)
    BY LatestNext
  <2> QED
    BY <2>1 DEF LatestOn
<1>6. ASSUME NEW kws PROVE Picked(e, B, kws) = Picked(d, B, kws)
  <2>1. PickedOn(d, x, e, B)
    BY PickedNext
  <2> QED
    BY <2>1 DEF PickedOn
<1>7. [t \in Texts |-> Joined(Latest(e, B, t))] = [t \in Texts |-> Joined(Latest(d, B, t))]
  BY <1>5
<1>8. [l \in Lists |-> Texted(Picked(e, B, {l}))] = [l \in Lists |-> Texted(Picked(d, B, {l}))]
  <2>1. \A l \in Lists : Texted(Picked(e, B, {l})) = Texted(Picked(d, B, {l}))
    BY <1>6
  <2> QED
    BY <2>1
<1>9. e[i] = d[i]
  BY <1>1
<1> QED
  BY <1>3, <1>4, <1>5, <1>6, <1>7, <1>8, <1>9 DEF StepWith

LEMMA NothingPicked ==
    \A d : /\ \A kws : Picked(d, {}, kws) = <<>>
           /\ \A kw : Latest(d, {}, kw) = <<>>
<1>1. InOrder({}) = <<>>
  <2>1. Cardinality({}) = 0
    BY FS_EmptySet
  <2>2. 1..0 = {}
    OBVIOUS
  <2> QED
    BY <2>1, <2>2 DEF InOrder
<1>2. ASSUME NEW d, NEW kws PROVE Picked(d, {}, kws) = <<>>
  <2>1. {i \in {} : d[i].kw \in kws} = {}
    OBVIOUS
  <2>2. DOMAIN <<>> = {}
    OBVIOUS
  <2> QED
    BY <1>1, <2>1, <2>2 DEF Picked
<1>3. ASSUME NEW d, NEW kw PROVE Latest(d, {}, kw) = <<>>
  BY <1>2 DEF Latest, LastOr
<1> QED
  BY <1>2, <1>3

\* A line that begins a step says nothing but its name and section.
LEMMA StepBegins ==
    ASSUME NEW d, NEW x, NEW e, Longer(d, x, e), x.kw = "step"
    PROVE  StepWith(e, Len(d) + 1, {}) =
              NewStep(Joined(x.args), Cardinality(At(d, 1..Len(d), {"section"})))
<1> DEFINE l == Len(d)
<1>1. /\ l \in Nat /\ e[l + 1] = x
      /\ \A k \in 1..l : e[k] = d[k]
  BY DEF Longer
<1>2. {j \in 1..l + 1 : e[j].kw = "section"} = At(d, 1..l, {"section"})
  <2>1. \A j : j \in 1..l + 1 <=> j \in 1..l \/ j = l + 1
    BY <1>1
  <2> HIDE DEF l
  <2> QED
    BY <1>1, <2>1 DEF At
<1>3. NameList(<<>>) = <<>> /\ Targets(<<>>) = <<>> /\ Joined(<<>>) = <<>>
  <2>1. <<>> \in Seq({}) /\ Len(<<>>) = 0
    OBVIOUS
  <2>2. NameList(<<>>) \in Seq({})
    BY <2>1, NameListType
  <2>3. \A s \in Seq({}) : s = <<>>
    <3>1. SUFFICES ASSUME NEW s \in Seq({}) PROVE s = <<>>
      OBVIOUS
    <3>2. Len(s) = 0
      <4>1. Len(s) \in Nat /\ \A k \in 1..Len(s) : s[k] \in {}
        OBVIOUS
      <4>2. 1 \notin 1..Len(s)
        BY <4>1
      <4> QED
        BY <4>1, <4>2
    <3> QED
      BY <3>2
  <2> QED
    BY <2>1, <2>2, <2>3 DEF Targets, Joined
<1>4. Texted(<<>>) = <<>> /\ Itemized(<<>>) = <<>>
  <2>1. DOMAIN <<>> = {}
    OBVIOUS
  <2> QED
    BY <2>1 DEF Texted, Itemized
<1>5. {e[j].kw : j \in {k \in {} : e[k].kw \in Flags}} = {}
  OBVIOUS
<1> HIDE DEF l
<1>6. StepWith(e, l + 1, {}) = NewStep(Joined(x.args), Cardinality(At(d, 1..l, {"section"})))
  BY <1>1, <1>2, <1>3, <1>4, <1>5, NothingPicked DEF StepWith, NewStep
<1> QED
  BY <1>6 DEF l

\* The step that gets the line changes as Directed says.
LEMMA StepGrows ==
    ASSUME NEW d, NEW x, NEW e, Longer(d, x, e), NEW i \in 1..Len(d), NEW B \in SUBSET (1..Len(d))
    PROVE  StepWith(e, i, B \cup {Len(d) + 1}) =
              IF x.kw \in InStep THEN Directed(StepWith(d, i, B), x) ELSE StepWith(d, i, B)
<1> DEFINE s == StepWith(d, i, B)
           b == StepWith(e, i, B)
           C == B \cup {Len(d) + 1}
           r == StepWith(e, i, C)
           word == Joined(x.args)
           item == [text |-> word, required |-> x.kw = "item!"]
<1>1. LatestOn(d, x, e, B) /\ PickedOn(d, x, e, B)
  BY LatestNext, PickedNext
<1>2. x \in Lines /\ e[Len(d) + 1] = x /\ \A k \in 1..Len(d) : e[k] = d[k]
  BY DEF Longer
<1>3. b = s
  BY StepStays
<1>4. r.name = s.name /\ r.section = s.section
  <2>1. r.name = b.name /\ r.section = b.section
    BY DEF StepWith
  <2> QED
    BY <1>3, <2>1
<1> HIDE DEF C, b
<1>5. r.text = [t \in Texts |-> IF x.kw = t THEN word ELSE s.text[t]]
  <2>1. r.text = [t \in Texts |-> Joined(Latest(e, C, t))]
        /\ s.text = [t \in Texts |-> Joined(Latest(d, B, t))]
    BY DEF StepWith
  <2>2. \A t : Latest(e, C, t) = IF x.kw = t THEN x.args ELSE Latest(d, B, t)
    BY <1>1 DEF LatestOn, C
  <2> HIDE DEF r, s
  <2> QED
    BY <2>1, <2>2
<1>6. r.list = [l \in Lists |-> IF x.kw = l THEN Append(s.list[l], word) ELSE s.list[l]]
  <2>1. r.list = [l \in Lists |-> Texted(Picked(e, C, {l}))]
        /\ s.list = [l \in Lists |-> Texted(Picked(d, B, {l}))]
    BY DEF StepWith
  <2>2. ASSUME NEW l
        PROVE  Texted(Picked(e, C, {l})) =
                  IF x.kw = l THEN Append(Texted(Picked(d, B, {l})), word)
                  ELSE Texted(Picked(d, B, {l}))
    <3> DEFINE p == Picked(d, B, {l})
    <3>1. Picked(e, C, {l}) = IF x.kw \in {l} THEN Append(p, x) ELSE p
      BY <1>1 DEF PickedOn, C
    <3>2. p \in Seq(Lines)
      BY <1>1 DEF PickedOn
    <3> HIDE DEF p
    <3>3. Texted(Append(p, x)) = Append(Texted(p), word)
      BY <1>2, <3>2, TextedNext
    <3> QED
      BY <3>1, <3>3 DEF p
  <2> HIDE DEF r, s, word
  <2>3. \A l \in Lists : s.list[l] = Texted(Picked(d, B, {l}))
    BY <2>1
  <2>4. \A l \in Lists : Texted(Picked(e, C, {l})) =
                            IF x.kw = l THEN Append(s.list[l], word) ELSE s.list[l]
    BY <2>2, <2>3
  <2> QED
    BY <2>1, <2>4
<1>7. r.items = IF x.kw \in Entries THEN Append(s.items, item) ELSE s.items
  <2>1. r.items = Itemized(Picked(e, C, Entries)) /\ s.items = Itemized(Picked(d, B, Entries))
    BY DEF StepWith
  <2> DEFINE p == Picked(d, B, Entries)
  <2>2. Picked(e, C, Entries) = IF x.kw \in Entries THEN Append(p, x) ELSE p
    BY <1>1 DEF PickedOn, C
  <2>3. p \in Seq(Lines)
    BY <1>1 DEF PickedOn
  <2> HIDE DEF p, r, s
  <2>4. Itemized(Append(p, x)) = Append(Itemized(p), item)
    BY <1>2, <2>3, TextedNext
  <2> HIDE DEF item
  <2> QED
    BY <2>1, <2>2, <2>4 DEF p
<1>8. r.flags = IF x.kw \in Flags THEN s.flags \cup {x.kw} ELSE s.flags
  <2>1. r.flags = {e[j].kw : j \in {k \in C : e[k].kw \in Flags}}
        /\ s.flags = {d[j].kw : j \in {k \in B : d[k].kw \in Flags}}
    BY DEF StepWith
  <2>2. \A j : j \in C <=> j \in B \/ j = Len(d) + 1
    BY DEF C
  <2>3. \A j \in B : e[j] = d[j]
    BY <1>2
  <2>4. \A f : f \in r.flags <=> \E j \in C : e[j].kw \in Flags /\ f = e[j].kw
    BY <2>1
  <2>5. \A f : f \in s.flags <=> \E j \in B : d[j].kw \in Flags /\ f = d[j].kw
    BY <2>1
  <2> HIDE DEF r, s
  <2>6. ASSUME NEW f
        PROVE  f \in r.flags <=> f \in s.flags \/ (x.kw \in Flags /\ f = x.kw)
    <3>1. (\E j \in C : e[j].kw \in Flags /\ f = e[j].kw)
             <=> \/ \E j \in B : e[j].kw \in Flags /\ f = e[j].kw
                 \/ e[Len(d) + 1].kw \in Flags /\ f = e[Len(d) + 1].kw
      BY <2>2, Zenon
    <3>2. (\E j \in B : e[j].kw \in Flags /\ f = e[j].kw)
             <=> \E j \in B : d[j].kw \in Flags /\ f = d[j].kw
      BY <2>3
    <3> QED
      BY <1>2, <2>4, <2>5, <3>1, <3>2, Zenon
  <2> DEFINE R == r.flags
             S == s.flags
  <2>7. \A f : f \in R <=> f \in S \/ (x.kw \in Flags /\ f = x.kw)
    BY <2>6
  <2> HIDE DEF R, S
  <2>8. CASE x.kw \in Flags
    <3>1. R = S \cup {x.kw}
      BY <2>7, <2>8
    <3> QED
      BY <2>8, <3>1 DEF R, S
  <2>9. CASE x.kw \notin Flags
    <3>1. R = S
      BY <2>7, <2>9
    <3> QED
      BY <2>9, <3>1 DEF R, S
  <2> QED
    BY <2>8, <2>9
<1>9. /\ r.needs = IF x.kw = "needs" THEN NameList(x.args) ELSE s.needs
      /\ r.ask = IF x.kw = "ask" THEN Targets(x.args) ELSE s.ask
  <2>1. /\ r.needs = NameList(Latest(e, C, "needs")) /\ s.needs = NameList(Latest(d, B, "needs"))
        /\ r.ask = Targets(Latest(e, C, "ask")) /\ s.ask = Targets(Latest(d, B, "ask"))
    BY DEF StepWith
  <2>2. \A t : Latest(e, C, t) = IF x.kw = t THEN x.args ELSE Latest(d, B, t)
    BY <1>1 DEF LatestOn, C
  <2> HIDE DEF r, s
  <2> QED
    BY <2>1, <2>2
<1> DEFINE Rec(u) == u = [name |-> u.name, section |-> u.section, text |-> u.text, list |-> u.list,
                          items |-> u.items, flags |-> u.flags, needs |-> u.needs, ask |-> u.ask]
<1>10. Rec(r) /\ Rec(s)
  BY DEF StepWith
<1>11. s.text = [t \in Texts |-> s.text[t]] /\ s.list = [l \in Lists |-> s.list[l]]
  BY DEF StepWith
<1> HIDE DEF r, s, word, item
<1>12. /\ x.kw \notin Texts => r.text = s.text
       /\ x.kw \notin Lists => r.list = s.list
  BY <1>5, <1>6, <1>11
<1>13. CASE x.kw \notin InStep
  <2>1. /\ x.kw \notin Texts /\ x.kw \notin Lists /\ x.kw \notin Entries /\ x.kw \notin Flags
        /\ x.kw # "needs" /\ x.kw # "ask"
    BY <1>13 DEF InStep
  <2> QED
    BY <1>4, <1>7, <1>8, <1>9, <1>10, <1>12, <1>13, <2>1 DEF r, s, C
<1>14. CASE x.kw \in Texts
  <2>1. /\ x.kw \notin Lists /\ x.kw \notin Entries /\ x.kw \notin Flags
        /\ x.kw # "needs" /\ x.kw # "ask" /\ x.kw \in InStep
    BY <1>14 DEF Texts, Lists, Entries, Flags, InStep
  <2>2. r.text = [s.text EXCEPT ![x.kw] = word]
    BY <1>5, <1>11, <1>14
  <2>3. Directed(s, x) = [s EXCEPT !.text[x.kw] = word]
    BY <1>14, <2>1 DEF Directed, word
  <2>4. r = [s EXCEPT !.text[x.kw] = word]
    BY <1>4, <1>7, <1>8, <1>9, <1>10, <1>12, <2>1, <2>2
  <2> QED
    BY <2>1, <2>3, <2>4 DEF r, s, C
<1>15. CASE x.kw \in Lists
  <2>1. /\ x.kw \notin Texts /\ x.kw \notin Entries /\ x.kw \notin Flags
        /\ x.kw # "needs" /\ x.kw # "ask" /\ x.kw \in InStep
    BY <1>15 DEF Texts, Lists, Entries, Flags, InStep
  <2>2. r.list = [s.list EXCEPT ![x.kw] = Append(@, word)]
    BY <1>6, <1>11, <1>15
  <2>3. Directed(s, x) = [s EXCEPT !.list[x.kw] = Append(@, word)]
    BY <1>15, <2>1 DEF Directed, word
  <2>4. r = [s EXCEPT !.list[x.kw] = Append(@, word)]
    BY <1>4, <1>7, <1>8, <1>9, <1>10, <1>12, <2>1, <2>2
  <2> QED
    BY <2>1, <2>3, <2>4 DEF r, s, C
<1>16. CASE x.kw \in Entries
  <2>1. /\ x.kw \notin Texts /\ x.kw \notin Lists /\ x.kw \notin Flags
        /\ x.kw # "needs" /\ x.kw # "ask" /\ x.kw \in InStep
    BY <1>16 DEF Texts, Lists, Entries, Flags, InStep
  <2>2. Directed(s, x) = [s EXCEPT !.items = Append(@, item)]
    BY <1>16, <2>1 DEF Directed, word, item
  <2>3. r = [s EXCEPT !.items = Append(@, item)]
    BY <1>4, <1>7, <1>8, <1>9, <1>10, <1>12, <1>16, <2>1
  <2> QED
    BY <2>1, <2>2, <2>3 DEF r, s, C
<1>17. CASE x.kw \in Flags
  <2>1. /\ x.kw \notin Texts /\ x.kw \notin Lists /\ x.kw \notin Entries
        /\ x.kw # "needs" /\ x.kw # "ask" /\ x.kw \in InStep
    BY <1>17 DEF Texts, Lists, Entries, Flags, InStep
  <2>2. Directed(s, x) = [s EXCEPT !.flags = @ \cup {x.kw}]
    BY <1>17, <2>1 DEF Directed
  <2>3. r = [s EXCEPT !.flags = @ \cup {x.kw}]
    BY <1>4, <1>7, <1>8, <1>9, <1>10, <1>12, <1>17, <2>1
  <2> QED
    BY <2>1, <2>2, <2>3 DEF r, s, C
<1>18. CASE x.kw \in {"needs", "ask"}
  <2>1. /\ x.kw \notin Texts /\ x.kw \notin Lists /\ x.kw \notin Entries /\ x.kw \notin Flags
        /\ x.kw \in InStep
    BY <1>18 DEF Texts, Lists, Entries, Flags, InStep
  <2>2. Directed(s, x) = IF x.kw = "needs" THEN [s EXCEPT !.needs = NameList(x.args)]
                         ELSE [s EXCEPT !.ask = Targets(x.args)]
    BY <1>18, <2>1 DEF Directed
  <2>3. r = IF x.kw = "needs" THEN [s EXCEPT !.needs = NameList(x.args)]
            ELSE [s EXCEPT !.ask = Targets(x.args)]
    <3>1. CASE x.kw = "needs"
      BY <1>4, <1>7, <1>8, <1>9, <1>10, <1>12, <2>1, <3>1
    <3>2. CASE x.kw = "ask"
      BY <1>4, <1>7, <1>8, <1>9, <1>10, <1>12, <2>1, <3>2
    <3> QED
      BY <1>18, <3>1, <3>2
  <2> QED
    BY <2>1, <2>2, <2>3 DEF r, s, C
<1> QED
  BY <1>13, <1>14, <1>15, <1>16, <1>17, <1>18 DEF InStep

LEMMA StepNext ==
    ASSUME NEW d, NEW x, NEW e, Longer(d, x, e), NEW i \in 1..Len(d)
    PROVE  StepAt(e, i) = IF StillOpen(d, i) /\ x.kw \in InStep
                          THEN Directed(StepAt(d, i), x) ELSE StepAt(d, i)
<1> DEFINE B == Body(d, i)
<1>1. B \in SUBSET (1..Len(d))
  BY BodyIs DEF Longer
<1>2. StepAt(d, i) = StepWith(d, i, B) /\ StepAt(e, i) = StepWith(e, i, Body(e, i))
  BY StepAtIs
<1> HIDE DEF B
<1>3. x.kw \in InStep => x.kw \notin Marks
  BY DEF InStep, Marks, Texts, Lists, Entries, Flags
<1>4. CASE StillOpen(e, i)
  <2>1. StillOpen(d, i)
    BY <1>4, OpenNext
  <2>2. Body(e, i) = B \cup {Len(d) + 1}
    BY <1>4, BodyNext DEF B
  <2>3. StepWith(e, i, B \cup {Len(d) + 1}) =
           IF x.kw \in InStep THEN Directed(StepWith(d, i, B), x) ELSE StepWith(d, i, B)
    BY <1>1, StepGrows
  <2> QED
    BY <1>2, <2>1, <2>2, <2>3
<1>5. CASE ~StillOpen(e, i)
  <2>1. ~(StillOpen(d, i) /\ x.kw \in InStep)
    BY <1>3, <1>5, OpenNext
  <2>2. Body(e, i) = B
    BY <1>5, BodyNext DEF B
  <2>3. StepWith(e, i, B) = StepWith(d, i, B)
    BY <1>1, StepStays
  <2> QED
    BY <1>2, <2>1, <2>2, <2>3
<1> QED
  BY <1>4, <1>5

-----------------------------------------------------------------------------
(* The parser has what is written *)

StepsOf(d) ==
    [k \in DOMAIN InOrder(StepLines(d)) |-> StepAt(d, InOrder(StepLines(d))[k])]

\* The parser p has what the document d says, and goes on with the step that is open.
Written(d, p) ==
    /\ p.name = Joined(Latest(d, DOMAIN d, "workflow"))
    /\ p.sections = Texted(Picked(d, DOMAIN d, {"section"}))
    /\ p.steps = StepsOf(d)
    /\ p.current \in 0..Cardinality(StepLines(d))
    /\ \A k \in 1..Cardinality(StepLines(d)) :
          StillOpen(d, InOrder(StepLines(d))[k]) <=> k = p.current

\* The lines that begin a step, in their order.
LEMMA StepLinesAre ==
    ASSUME NEW d \in Seq(Lines), NEW c, c = Cardinality(StepLines(d)),
           NEW at, at = InOrder(StepLines(d))
    PROVE  /\ StepLines(d) \in SUBSET (1..Len(d)) /\ c \in Nat /\ DOMAIN at = 1..c
           /\ \A k \in 1..c : at[k] \in StepLines(d) /\ at[k] \in 1..Len(d)
           /\ \A j \in StepLines(d) : \E k \in 1..c : at[k] = j
<1> DEFINE S == StepLines(d)
<1>1. Len(d) \in Nat /\ S \in SUBSET (1..Len(d))
  BY DEF StepLines
<1> HIDE DEF S
<1>2. /\ InOrder(S) \in Seq(S) /\ Len(InOrder(S)) = Cardinality(S)
      /\ Cardinality(S) \in Nat
      /\ \A j \in S : \E k \in 1..Cardinality(S) : InOrder(S)[k] = j
  BY <1>1, InOrderType
<1>3. at \in Seq(S) /\ Len(at) = c /\ c \in Nat /\ \A j \in S : \E k \in 1..c : at[k] = j
  BY <1>2 DEF S
<1>4. DOMAIN at = 1..c /\ \A k \in 1..c : at[k] \in S
  BY <1>3
<1> QED
  BY <1>1, <1>3, <1>4 DEF S

LEMMA StepLinesNext ==
    ASSUME NEW d, NEW x, NEW e, Longer(d, x, e)
    PROVE  StepLines(e) = IF x.kw = "step" THEN StepLines(d) \cup {Len(d) + 1} ELSE StepLines(d)
<1>1. /\ Len(d) \in Nat /\ DOMAIN d = 1..Len(d) /\ DOMAIN e = 1..Len(d) + 1
      /\ e[Len(d) + 1] = x /\ \A i \in 1..Len(d) : e[i] = d[i]
  BY DEF Longer
<1>2. \A i : i \in 1..Len(d) + 1 <=> i \in 1..Len(d) \/ i = Len(d) + 1
  BY <1>1
<1> QED
  BY <1>1, <1>2 DEF StepLines

\* What one line changes in the parser, field by field.
LEMMA ParsedFields ==
    ASSUME NEW p \in ParserType, NEW x \in Lines, NEW q, q = Parsed(p, x)
    PROVE  /\ q.name = IF x.kw = "workflow" THEN Joined(x.args) ELSE p.name
           /\ q.sections = IF x.kw = "section" THEN Append(p.sections, Joined(x.args))
                           ELSE p.sections
           /\ q.steps =
                 IF x.kw = "step"
                 THEN Append(p.steps, NewStep(Joined(x.args), Len(p.sections)))
                 ELSE IF x.kw \in InStep THEN [p.steps EXCEPT ![p.current] = Directed(@, x)]
                 ELSE p.steps
           /\ q.current = IF x.kw = "section" THEN 0
                          ELSE IF x.kw = "step" THEN Len(p.steps) + 1 ELSE p.current
<1>1. CASE x.kw = "workflow"
  <2>1. x.kw \notin InStep
    BY <1>1 DEF InStep, Texts, Lists, Entries, Flags
  <2>2. q = [p EXCEPT !.name = Joined(x.args)]
    BY <1>1, <2>1 DEF Parsed
  <2> QED
    BY <1>1, <2>1, <2>2 DEF ParserType
<1>2. CASE x.kw \in Headers
  <2>1. x.kw \notin InStep /\ x.kw \notin {"workflow", "section", "step"}
    BY <1>2 DEF InStep, Headers, Texts, Lists, Entries, Flags
  <2>2. \E h : q = [p EXCEPT !.header = h]
    <3>1. CASE x.kw \in {"label", "var"}
      <4>1. q = [p EXCEPT !.header[x.kw] = Append(@, Joined(x.args))]
        BY <2>1, <3>1 DEF Parsed
      <4> QED
        BY <4>1
    <3>2. CASE x.kw = "allowed_roles"
      <4>1. q = [p EXCEPT !.header[x.kw] = @ \o x.args]
        BY <2>1, <3>2 DEF Parsed
      <4> QED
        BY <4>1
    <3> QED
      BY <1>2, <3>1, <3>2 DEF Headers
  <2> QED
    BY <2>1, <2>2 DEF ParserType
<1>3. CASE x.kw = "section"
  <2>1. x.kw \notin InStep
    BY <1>3 DEF InStep, Texts, Lists, Entries, Flags
  <2>2. q = [p EXCEPT !.sections = Append(@, Joined(x.args)), !.current = 0]
    BY <1>3, <2>1 DEF Parsed
  <2> QED
    BY <1>3, <2>1, <2>2 DEF ParserType
<1>4. CASE x.kw = "step"
  <2>1. x.kw \notin InStep
    BY <1>4 DEF InStep, Texts, Lists, Entries, Flags
  <2>2. q = [p EXCEPT !.steps = Append(@, NewStep(Joined(x.args), Len(p.sections))),
                      !.current = Len(p.steps) + 1]
    BY <1>4, <2>1 DEF Parsed
  <2> QED
    BY <1>4, <2>1, <2>2 DEF ParserType
<1>5. CASE x.kw \in InStep
  <2>1. x.kw \notin Headers /\ x.kw \notin {"workflow", "section", "step"}
    BY <1>5 DEF InStep, Headers, Texts, Lists, Entries, Flags
  <2>2. q = [p EXCEPT !.steps[p.current] = Directed(@, x)]
    BY <1>5, <2>1 DEF Parsed, Headers
  <2> QED
    BY <1>5, <2>1, <2>2 DEF ParserType
<1>6. CASE /\ x.kw \notin Headers /\ x.kw \notin InStep
           /\ x.kw \notin {"workflow", "section", "step"}
  <2>1. q = p
    BY <1>6 DEF Parsed, Headers
  <2> QED
    BY <1>6, <2>1
<1> QED
  BY <1>1, <1>2, <1>3, <1>4, <1>5, <1>6

\* The name and the sections of the longer document.
LEMMA HeadNext ==
    ASSUME NEW d, NEW x, NEW e, Longer(d, x, e)
    PROVE  /\ Joined(Latest(e, DOMAIN e, "workflow")) =
                 IF x.kw = "workflow" THEN Joined(x.args) ELSE Joined(Latest(d, DOMAIN d, "workflow"))
           /\ Texted(Picked(e, DOMAIN e, {"section"})) =
                 IF x.kw = "section"
                 THEN Append(Texted(Picked(d, DOMAIN d, {"section"})), Joined(x.args))
                 ELSE Texted(Picked(d, DOMAIN d, {"section"}))
           /\ Len(Texted(Picked(d, DOMAIN d, {"section"}))) =
                 Cardinality(At(d, 1..Len(d), {"section"}))
<1> DEFINE I == 1..Len(d)
           p == Picked(d, I, {"section"})
<1>1. x \in Lines /\ DOMAIN d = I /\ DOMAIN e = I \cup {Len(d) + 1}
  <2>1. Len(d) \in Nat /\ DOMAIN d = 1..Len(d) /\ DOMAIN e = 1..Len(d) + 1 /\ x \in Lines
    BY DEF Longer
  <2>2. \A i : i \in 1..Len(d) + 1 <=> i \in 1..Len(d) \/ i = Len(d) + 1
    BY <2>1
  <2> QED
    BY <2>1, <2>2
<1>2. LatestOn(d, x, e, I) /\ PickedOn(d, x, e, I)
  BY LatestNext, PickedNext
<1> HIDE DEF I
<1>3. Latest(e, DOMAIN e, "workflow") = IF x.kw = "workflow" THEN x.args ELSE Latest(d, I, "workflow")
  BY <1>1, <1>2 DEF LatestOn
<1>4. /\ p \in Seq(Lines) /\ Len(p) = Cardinality(At(d, I, {"section"}))
      /\ Picked(e, DOMAIN e, {"section"}) = IF x.kw \in {"section"} THEN Append(p, x) ELSE p
  BY <1>1, <1>2 DEF PickedOn
<1> HIDE DEF p
<1>5. Len(Texted(p)) = Len(p) /\ Texted(Append(p, x)) = Append(Texted(p), Joined(x.args))
  BY <1>1, <1>4, TextedNext
<1>6. Texted(Picked(e, DOMAIN e, {"section"})) =
         IF x.kw = "section" THEN Append(Texted(p), Joined(x.args)) ELSE Texted(p)
  BY <1>4, <1>5
<1> QED
  BY <1>1, <1>3, <1>4, <1>5, <1>6 DEF p, I

LEMMA HeadOf ==
    ASSUME NEW d, NEW x, NEW e, Longer(d, x, e), NEW p \in ParserType,
           Written(d, p), NEW q, q = Parsed(p, x)
    PROVE  /\ q.name = Joined(Latest(e, DOMAIN e, "workflow"))
           /\ q.sections = Texted(Picked(e, DOMAIN e, {"section"}))
<1>1. x \in Lines
  BY DEF Longer
<1>2. /\ q.name = IF x.kw = "workflow" THEN Joined(x.args) ELSE p.name
      /\ q.sections = IF x.kw = "section" THEN Append(p.sections, Joined(x.args))
                      ELSE p.sections
  BY <1>1, ParsedFields
<1>3. /\ p.name = Joined(Latest(d, DOMAIN d, "workflow"))
      /\ p.sections = Texted(Picked(d, DOMAIN d, {"section"}))
  BY DEF Written
<1> QED
  BY <1>2, <1>3, HeadNext

\* The parser that has what is written has it after one more line that is accepted.
LEMMA WrittenNext ==
    ASSUME NEW d, NEW x, NEW e, Longer(d, x, e), NEW p \in ParserType,
           Written(d, p), ~Refused(p, x), NEW q \in ParserType, q = Parsed(p, x)
    PROVE  Written(e, q)
<1> DEFINE l == Len(d)
           c == Cardinality(StepLines(d))
           at == InOrder(StepLines(d))
           bt == InOrder(StepLines(e))
           step == NewStep(Joined(x.args), Len(p.sections))
<1>1. x \in Lines /\ l \in Nat /\ d \in Seq(Lines) /\ e \in Seq(Lines)
      /\ p.steps \in Seq(StepType) /\ q.steps \in Seq(StepType)
  BY DEF Longer, ParserType
<1>2. /\ StepLines(d) \in SUBSET (1..l) /\ c \in Nat /\ DOMAIN at = 1..c
      /\ \A k \in 1..c : at[k] \in StepLines(d) /\ at[k] \in 1..l
  BY <1>1, StepLinesAre
<1>3. q.name = Joined(Latest(e, DOMAIN e, "workflow"))
      /\ q.sections = Texted(Picked(e, DOMAIN e, {"section"}))
  BY <1>1, HeadOf
<1>5. Len(p.sections) = Cardinality(At(d, 1..l, {"section"}))
  BY HeadNext DEF Written
<1>6. /\ p.steps = [k \in 1..c |-> StepAt(d, at[k])]
      /\ p.current \in 0..c
      /\ \A k \in 1..c : StillOpen(d, at[k]) <=> k = p.current
  BY <1>2 DEF Written, StepsOf
<1>7. Len(p.steps) = c
  BY <1>1, <1>2, <1>6
<1>8. \A k \in 1..c : StepAt(e, at[k]) = IF k = p.current /\ x.kw \in InStep
                                       THEN Directed(p.steps[k], x) ELSE p.steps[k]
  BY <1>2, <1>6, StepNext
<1>9. \A k \in 1..c : StillOpen(e, at[k]) <=> k = p.current /\ x.kw \notin Marks
  BY <1>2, <1>6, OpenNext
<1>10. ASSUME q.steps = StepsOf(e), q.current \in 0..Cardinality(StepLines(e)),
              \A k \in 1..Cardinality(StepLines(e)) : StillOpen(e, bt[k]) <=> k = q.current
       PROVE  Written(e, q)
  BY <1>3, <1>10 DEF Written
<1>11. StepsOf(e) = [k \in DOMAIN bt |-> StepAt(e, bt[k])]
  BY DEF StepsOf
<1>12. /\ q.steps = IF x.kw = "step" THEN Append(p.steps, step)
                    ELSE IF x.kw \in InStep
                    THEN [p.steps EXCEPT ![p.current] = Directed(@, x)] ELSE p.steps
       /\ q.current = IF x.kw = "section" THEN 0
                      ELSE IF x.kw = "step" THEN c + 1 ELSE p.current
  BY <1>1, <1>7, ParsedFields
<1>13. x.kw \in InStep => x.kw \notin Marks /\ x.kw # "step"
  BY DEF InStep, Marks, Texts, Lists, Entries, Flags
<1>14. CASE x.kw = "step"
  <2>1. StepLines(e) = StepLines(d) \cup {l + 1}
    BY <1>14, StepLinesNext
  <2>2. /\ Cardinality(StepLines(e)) = c + 1
        /\ \A k \in 1..c : bt[k] = at[k]
        /\ bt[c + 1] = l + 1
    <3>1. StepLines(d) \in SUBSET (1..l) /\ l \in Nat
      BY <1>1, <1>2
    <3>2. /\ Cardinality(StepLines(d) \cup {l + 1}) = Cardinality(StepLines(d)) + 1
          /\ \A k \in 1..Cardinality(StepLines(d)) :
                InOrder(StepLines(d) \cup {l + 1})[k] = InOrder(StepLines(d))[k]
          /\ InOrder(StepLines(d) \cup {l + 1})[Cardinality(StepLines(d)) + 1] = l + 1
      <4> HIDE DEF l
      <4> QED
        BY <3>1, InOrderMore
    <3> QED
      BY <2>1, <3>2
  <2>3. DOMAIN bt = 1..c + 1
    BY <2>2 DEF InOrder
  <2>4. StepAt(e, l + 1) = step /\ StillOpen(e, l + 1)
    <3>1. StepWith(e, l + 1, {}) = step
      BY <1>5, <1>14, StepBegins
    <3>2. Body(e, l + 1) = {}
      BY NoBodyYet
    <3>3. StillOpen(e, l + 1)
      <4>1. Len(e) = l + 1 /\ \A k : k \notin l + 1 + 1..l + 1
        BY <1>1 DEF Longer
      <4> QED
        BY <4>1 DEF StillOpen
    <3> QED
      BY <3>1, <3>2, <3>3, StepAtIs
  <2>5. step \in StepType
    <3>1. Joined(x.args) \in Words /\ Len(p.sections) \in Nat
      BY <1>1, LineType DEF ParserType
    <3> QED
      BY <3>1, NewStepType
  <2>6. x.kw \notin InStep /\ x.kw \in Marks
    BY <1>14 DEF InStep, Marks, Texts, Lists, Entries, Flags
  <2>7. q.steps = Append(p.steps, step) /\ q.current = c + 1
    BY <1>12, <1>14
  <2> DEFINE r == StepsOf(e)
             s == p.steps
  <2>8. /\ r = [k \in 1..c + 1 |-> StepAt(e, bt[k])]
        /\ s \in Seq(StepType) /\ Len(s) = c
    BY <1>1, <1>7, <1>11, <2>3
  <2> HIDE DEF l, c, at, bt, step, r, s
  <2>9. \A k \in 1..c + 1 : k \in 1..c \/ k = c + 1
    BY <1>2
  <2>10. (\A k \in 1..c : r[k] = s[k]) /\ r[c + 1] = step
    <3>1. \A k \in 1..c : k \in 1..c + 1 /\ r[k] = StepAt(e, at[k])
      BY <1>2, <2>2, <2>8
    <3>2. c + 1 \in 1..c + 1
      BY <1>2
    <3> QED
      BY <1>8, <2>2, <2>4, <2>6, <2>8, <3>1, <3>2 DEF s
  <2>11. r \in Seq(StepType) /\ Len(r) = Len(s) + 1
    <3>1. \A k \in 1..c + 1 : r[k] \in StepType
      <4>1. \A k \in 1..c : s[k] \in StepType
        BY <2>8
      <4> QED
        BY <2>5, <2>9, <2>10, <4>1
    <3>2. r \in [1..c + 1 -> StepType] /\ c + 1 \in Nat
      BY <1>2, <2>8, <3>1
    <3> QED
      BY <2>8, <3>2
  <2>12. r = Append(s, step)
    BY <2>5, <2>8, <2>10, <2>11, AppendIs
  <2>13. \A k \in 1..c + 1 : StillOpen(e, bt[k]) <=> k = c + 1
    <3>1. c + 1 \notin 1..c
      BY <1>2
    <3> QED
      BY <1>9, <2>2, <2>4, <2>6, <2>9, <3>1
  <2>14. c + 1 \in 0..c + 1
    BY <1>2
  <2> QED
    BY <1>10, <2>2, <2>7, <2>12, <2>13, <2>14 DEF r, s
<1>15. CASE x.kw # "step"
  <2>1. StepLines(e) = StepLines(d)
    BY <1>15, StepLinesNext
  <2>2. bt = at /\ Cardinality(StepLines(e)) = c
    BY <2>1
  <2> HIDE DEF l, c, at, bt, step
  <2>3. StepsOf(e) = [k \in 1..c |-> StepAt(e, at[k])]
    BY <1>2, <1>11, <2>2
  <2>4. q.steps = StepsOf(e)
    <3>1. CASE x.kw \in InStep
      <4>1. q.steps = [p.steps EXCEPT ![p.current] = Directed(@, x)]
        BY <1>12, <1>15, <3>1
      <4>2. p.steps = [k \in 1..c |-> p.steps[k]]
        BY <1>6
      <4>3. q.steps = [k \in 1..c |-> IF k = p.current THEN Directed(p.steps[k], x) ELSE p.steps[k]]
        BY <4>1, <4>2
      <4> QED
        BY <1>8, <2>3, <3>1, <4>3
    <3>2. CASE x.kw \notin InStep
      <4>1. q.steps = p.steps
        BY <1>12, <1>15, <3>2
      <4>2. p.steps = [k \in 1..c |-> p.steps[k]]
        BY <1>6
      <4>3. \A k \in 1..c : StepAt(e, at[k]) = p.steps[k]
        BY <1>8, <3>2
      <4> QED
        BY <2>3, <4>1, <4>2, <4>3
    <3> QED
      BY <3>1, <3>2
  <2>5. q.current = IF x.kw = "section" THEN 0 ELSE p.current
    BY <1>12, <1>15
  <2>6. x.kw \in Marks <=> x.kw = "section"
    BY <1>15 DEF Marks
  <2>7. q.current \in 0..c
    BY <1>2, <1>6, <2>5
  <2>8. \A k \in 1..c : StillOpen(e, at[k]) <=> k = q.current
    <3>1. 0 \notin 1..c
      BY <1>2
    <3> QED
      BY <1>9, <2>5, <2>6, <3>1
  <2> QED
    BY <1>10, <2>2, <2>4, <2>7, <2>8
<1> QED
  BY <1>14, <1>15

\* The next line does not change which of the lines before it are in their places.
LEMMA WellFormedStays ==
    ASSUME NEW d, NEW x, NEW e, Longer(d, x, e), NEW i \in 1..Len(d)
    PROVE  WellFormedAt(e, i) <=> WellFormedAt(d, i)
<1> DEFINE l == Len(d)
<1>1. /\ l \in Nat /\ l + 1 \notin 1..l /\ i # l + 1
      /\ \A k \in 1..l : e[k] = d[k]
      /\ \A j \in 1..i : j \in 1..l
  BY DEF Longer
<1>2. \A j \in StepLines(d) : j \in 1..l
  BY DEF StepLines, Longer
<1>3. ASSUME NEW j \in StepLines(d) PROVE i \in Body(e, j) <=> i \in Body(d, j)
  <2>1. j \in 1..Len(d)
    BY <1>2
  <2>2. Body(e, j) = Body(d, j) \cup {l + 1} \/ Body(e, j) = Body(d, j)
    BY <2>1, BodyNext
  <2> QED
    BY <1>1, <2>2
<1>4. Body(e, l + 1) = {}
  BY NoBodyYet
<1>5. \A j : j \in StepLines(e) => j \in StepLines(d) \/ j = l + 1
  BY StepLinesNext
<1>6. \A j \in StepLines(d) : j \in StepLines(e)
  BY StepLinesNext
<1> HIDE DEF l
<1>7. (\E j \in StepLines(e) : i \in Body(e, j)) <=> \E j \in StepLines(d) : i \in Body(d, j)
  BY <1>3, <1>4, <1>5, <1>6
<1>8. e[i] = d[i] /\ ((\E j \in 1..i : e[j].kw = "section") <=> \E j \in 1..i : d[j].kw = "section")
  BY <1>1 DEF l
<1> QED
  BY <1>7, <1>8 DEF WellFormedAt

\* The parser refuses exactly the line that is out of its place.
LEMMA RefusedIfMisplaced ==
    ASSUME NEW d, NEW x, NEW e, Longer(d, x, e), NEW p \in ParserType, Written(d, p)
    PROVE  WellFormedAt(e, Len(d) + 1) <=> ~Refused(p, x)
<1> DEFINE l == Len(d)
           c == Cardinality(StepLines(d))
           at == InOrder(StepLines(d))
<1>1. /\ l \in Nat /\ d \in Seq(Lines) /\ e \in Seq(Lines) /\ Len(e) = l + 1
      /\ e[l + 1] = x /\ \A k \in 1..l : e[k] = d[k]
  BY DEF Longer
<1>2. /\ c \in Nat
      /\ \A k \in 1..c : at[k] \in StepLines(d) /\ at[k] \in 1..l
      /\ \A j \in StepLines(d) : j \in 1..l /\ \E k \in 1..c : at[k] = j
  BY <1>1, StepLinesAre
<1>3. /\ p.current \in 0..c
      /\ \A k \in 1..c : StillOpen(d, at[k]) <=> k = p.current
  BY DEF Written
<1>4. x.kw = "step" => ((\E j \in 1..l + 1 : e[j].kw = "section") <=> p.sections # <<>>)
  <2> DEFINE S == At(d, 1..l, {"section"})
  <2>1. p.sections \in Seq(Words) /\ Len(p.sections) = Cardinality(S)
    BY HeadNext DEF Written, ParserType
  <2>2. S # {} <=> \E j \in 1..l : d[j].kw = "section"
    BY DEF At
  <2>3. S = {} <=> Cardinality(S) = 0
    <3>1. IsFiniteSet(1..l) /\ S \in SUBSET (1..l)
      BY <1>1, FS_Interval DEF At
    <3> HIDE DEF S
    <3>2. IsFiniteSet(S)
      BY <3>1, FS_Subset
    <3> QED
      BY <3>2, FS_EmptySet
  <2>4. p.sections = <<>> <=> Len(p.sections) = 0
    BY <2>1
  <2>5. \A j : j \in 1..l + 1 <=> j \in 1..l \/ j = l + 1
    BY <1>1
  <2> HIDE DEF S
  <2> QED
    BY <1>1, <2>1, <2>2, <2>3, <2>4, <2>5
<1>5. x.kw \in InStep => ((\E j \in StepLines(e) : l + 1 \in Body(e, j)) <=> p.current # 0)
  <2> SUFFICES ASSUME x.kw \in InStep
               PROVE  (\E j \in StepLines(e) : l + 1 \in Body(e, j)) <=> p.current # 0
    OBVIOUS
  <2>1. x.kw # "step" /\ x.kw \notin Marks
    BY DEF InStep, Marks, Texts, Lists, Entries, Flags
  <2>2. StepLines(e) = StepLines(d)
    BY <2>1, StepLinesNext
  <2>3. ASSUME NEW j \in StepLines(d) PROVE l + 1 \in Body(e, j) <=> StillOpen(d, j)
    <3>1. j \in 1..Len(d)
      BY <1>2
    <3>2. StillOpen(e, j) <=> StillOpen(d, j)
      BY <2>1, <3>1, OpenNext
    <3>3. l + 1 \notin Body(d, j)
      <4>1. Body(d, j) \in SUBSET (1..l)
        BY <1>1, <3>1, BodyIs
      <4> QED
        BY <1>1, <4>1
    <3>4. /\ StillOpen(e, j) => Body(e, j) = Body(d, j) \cup {l + 1}
          /\ ~StillOpen(e, j) => Body(e, j) = Body(d, j)
      BY <3>1, BodyNext
    <3> QED
      BY <3>2, <3>3, <3>4
  <2> HIDE DEF l, c, at
  <2>4. (\E j \in StepLines(d) : StillOpen(d, j)) <=> \E k \in 1..c : k = p.current
    BY <1>2, <1>3
  <2>5. (\E k \in 1..c : k = p.current) <=> p.current # 0
    BY <1>2, <1>3
  <2> QED
    BY <2>2, <2>3, <2>4, <2>5
<1>6. WellFormedAt(e, l + 1) <=>
         /\ x.kw # Overlong
         /\ x.kw \in NeedArgs => x.args # <<>>
         /\ x.kw = "step" => \E j \in 1..l + 1 : e[j].kw = "section"
         /\ x.kw \in InStep => \E j \in StepLines(e) : l + 1 \in Body(e, j)
         /\ x.kw = "ask" => Targets(x.args) # <<>>
  BY <1>1 DEF WellFormedAt
<1> HIDE DEF l
<1>7. WellFormedAt(e, l + 1) <=> ~Refused(p, x)
  BY <1>4, <1>5, <1>6 DEF Refused
<1> QED
  BY <1>7 DEF l

-----------------------------------------------------------------------------
(* The document and its parser *)

Placed == \A i \in DOMAIN doc : WellFormedAt(doc, i) <=> phase = "reading" \/ i < Len(doc)

DocInv ==
    /\ doc \in Seq(Lines)
    /\ phase \in {"reading", "refused"} => Placed
    /\ phase = "reading" => Written(doc, parser)

LEMMA NothingWritten == Written(<<>>, EmptyParser)
<1> DEFINE d == <<>>
<1>1. DOMAIN d = {} /\ Joined(<<>>) = <<>> /\ Texted(<<>>) = <<>>
  BY DEF Joined, Texted
<1>2. StepLines(d) = {}
  BY <1>1 DEF StepLines
<1>3. Cardinality({}) = 0 /\ 1..0 = {}
  BY FS_EmptySet
<1>4. StepsOf(d) = <<>>
  <2>1. DOMAIN InOrder({}) = {}
    BY <1>3 DEF InOrder
  <2> QED
    BY <1>2, <2>1 DEF StepsOf
<1> HIDE DEF d
<1>5. Latest(d, DOMAIN d, "workflow") = <<>> /\ Picked(d, DOMAIN d, {"section"}) = <<>>
  BY <1>1, NothingPicked
<1>6. /\ EmptyParser.name = <<>> /\ EmptyParser.sections = <<>>
      /\ EmptyParser.steps = <<>> /\ EmptyParser.current = 0
  BY DEF EmptyParser
<1>7. Written(d, EmptyParser)
  <2>1. \A k \in 1..Cardinality(StepLines(d)) : FALSE
    BY <1>2, <1>3
  <2>2. EmptyParser.current \in 0..Cardinality(StepLines(d))
    BY <1>2, <1>3, <1>6
  <2> QED
    BY <1>1, <1>4, <1>5, <1>6, <2>1, <2>2 DEF Written
<1> QED
  BY <1>7 DEF d

LEMMA LineRead ==
    ASSUME DocInv, ParserTyped, ParserTyped', NEW line \in Lines, ReadsLine(line)
    PROVE  DocInv'
<1> DEFINE l == Len(doc)
<1>1. /\ phase = "reading" /\ doc' = Append(doc, line) /\ doc \in Seq(Lines)
      /\ Placed /\ Written(doc, parser)
      /\ parser \in ParserType /\ parser' \in ParserType
  BY DEF DocInv, ReadsLine, ParserTyped
<1>2. Longer(doc, line, doc')
  BY <1>1, AppendIsLonger
<1>3. /\ l \in Nat /\ DOMAIN doc = 1..l /\ doc' \in Seq(Lines)
      /\ DOMAIN doc' = 1..l + 1 /\ Len(doc') = l + 1
  BY <1>2 DEF Longer
<1>4. \A i \in 1..l : WellFormedAt(doc', i) <=> WellFormedAt(doc, i)
  BY <1>2, WellFormedStays
<1>5. WellFormedAt(doc', l + 1) <=> ~Refused(parser, line)
  BY <1>1, <1>2, RefusedIfMisplaced
<1>6. phase' = (IF Refused(parser, line) THEN "refused" ELSE "reading")
  BY <1>1 DEF ReadsLine
<1> HIDE DEF l
<1>7. \A i \in 1..l : WellFormedAt(doc', i)
  BY <1>1, <1>3, <1>4 DEF Placed
<1>8. Placed'
  <2>1. SUFFICES ASSUME NEW i \in DOMAIN doc'
                 PROVE  WellFormedAt(doc', i) <=> phase' = "reading" \/ i < Len(doc')
    BY DEF Placed
  <2>2. CASE i \in 1..l
    <3>1. i < l + 1
      BY <1>3, <2>2
    <3> QED
      BY <1>3, <1>7, <2>2, <3>1
  <2>3. CASE i = l + 1
    BY <1>3, <1>5, <1>6, <2>3
  <2> QED
    BY <1>3, <2>2, <2>3
<1>9. ASSUME phase' = "reading" PROVE Written(doc', parser')
  <2>1. ~Refused(parser, line)
    BY <1>6, <1>9
  <2>2. parser' = Parsed(parser, line)
    BY <2>1 DEF ReadsLine
  <2> QED
    BY <1>1, <1>2, <2>1, <2>2, WrittenNext
<1> QED
  BY <1>3, <1>8, <1>9 DEF DocInv

LEMMA DocKept ==
    ASSUME DocInv, SearchInv, SearchInv', [LanguageNext]_languageVars
    PROVE  DocInv'
<1>1. ParserTyped /\ ParserTyped'
  BY DEF SearchInv
<1>2. ASSUME NEW line \in Lines, ReadsLine(line) PROVE DocInv'
  BY <1>1, <1>2, LineRead
<1>3. ASSUME EndsReading PROVE DocInv'
  BY <1>3 DEF EndsReading, DocInv
<1>4. ASSUME \/ \E n \in StepNames : Visits(n)
             \/ VisitsNeed \/ LeavesName \/ Accepts
      PROVE  DocInv'
  <2>1. doc' = doc /\ phase' \in {"searching", "cyclic", "accepted"}
    <3>1. ASSUME VisitsNeed PROVE doc' = doc /\ phase' \in {"searching", "cyclic"}
      BY <3>1 DEF VisitsNeed
    <3> QED
      BY <1>4, <3>1 DEF Visits, LeavesName, Accepts
  <2> QED
    BY <2>1 DEF DocInv
<1>5. ASSUME UNCHANGED languageVars PROVE DocInv'
  <2>1. doc' = doc /\ phase' = phase /\ parser' = parser
    BY <1>5 DEF languageVars
  <2> QED
    BY <2>1 DEF DocInv, Placed
<1> QED
  BY <1>2, <1>3, <1>4, <1>5 DEF LanguageNext

\* Parse builds exactly what the document says as a whole, though it goes through it
\* once and only forward, and refuses the first line that is out of its place: the
\* step that is current is the one whose lines have not ended yet, and one line more
\* changes nothing but it.
THEOREM ReadAsWritten == LanguageSpec => []ParsedAsWritten
<1>1. LanguageInit => SearchInv /\ DocInv
  <2> SUFFICES ASSUME LanguageInit PROVE SearchInv /\ DocInv
    OBVIOUS
  <2>1. doc = <<>> /\ parser = EmptyParser /\ doc \in Seq(Lines) /\ DOMAIN doc = {}
    BY DEF LanguageInit
  <2> QED
    BY <2>1, NothingVisitedYet, NothingWritten DEF DocInv, Placed
<1>2. SearchInv /\ DocInv /\ [LanguageNext]_languageVars => (SearchInv /\ DocInv)'
  BY NothingLost, DocKept
<1>3. DocInv => ParsedAsWritten
  BY DEF DocInv, Placed, Written, StepsOf, ParsedAsWritten
<1> QED
  BY <1>1, <1>2, <1>3, PTL DEF LanguageSpec
=============================================================================
