--------------------------- MODULE MachObjectProofs ---------------------------
(***************************************************************************)
(* What the tables of a Mach-O object hold, for every object, every set of *)
(* clients and any number of loads.  A call is a composition of a few      *)
(* operators on the object; each is shown to keep ObjInv and to forget     *)
(* nothing (Step), and a call inherits both from its parts.                *)
(***************************************************************************)
EXTENDS MachObject, TLAPS, WellFoundedInduction

Lists == {"dependencies", "commands"}
Singles == {"uuid", "version", "symbols"}

(* A program, and a source that a stream in memory never loses. *)
Context ==
    /\ program \in Programs
    /\ there \in BOOLEAN
    /\ ~program.onDisk => there

(* The names a segment is looked up by. *)
AskedNames == SegmentNames \cup {kSEGMENT_TEXT, kSEGMENT_DWARF}

Object ==
    [done : SUBSET Units, found : [ListUnits -> Seq(LoadCommand)],
     segs : Maps(AskedNames, CSegment \cup {NULL}), symtab : BOOLEAN, lines : BOOLEAN]

(* What a list unit collected. *)
FoundOK(o) ==
    /\ \A u \in ListUnits : \A i \in DOMAIN o.found[u] : o.found[u][i].cmd \in Wanted[u]
    /\ \A u \in Singles :
          o.found[u] \in {<<>>} \cup {<<file[i]>> : i \in {j \in DOMAIN file : Counts(u, j)}}
    /\ "uuid" \in o.done <=> o.found.uuid # <<>>
    /\ o.symtab => o.found.symbols # <<>>

(* A segment under its name. *)
SegmentFaithful(s, n) ==
    /\ n \in SegmentNames /\ s.at = FirstOf(n)
    /\ s.loaded => SectionsOf(n) \subseteq DOMAIN s.secs
    /\ DOMAIN s.secs \subseteq SectionsOf(n) \cup DebugSections
    /\ \A c \in DOMAIN s.secs :
          s.secs[c] # NULL => s.loaded /\ c \in SectionsOf(n)

(* A stream in memory is there for every call: the map is complete once it
   was loaded, and a NULL stands for what the file does not have. *)
InMemory(o) ==
    /\ "segments" \in o.done => SegmentNames \subseteq DOMAIN o.segs
    /\ \A n \in DOMAIN o.segs :
          IF o.segs[n] = NULL THEN n \notin SegmentNames
          ELSE \A c \in DOMAIN o.segs[n].secs :
                  o.segs[n].secs[c] = NULL => c \notin SectionsOf(n)
    /\ (program.calls \cap Untested = {} /\ HasAll) =>
          \A n \in DOMAIN o.segs :
             /\ o.segs[n] # NULL
             /\ \A c \in DOMAIN o.segs[n].secs : o.segs[n].secs[c] # NULL

SegmentsOK(o) ==
    /\ \A n \in DOMAIN o.segs : o.segs[n] # NULL => SegmentFaithful(o.segs[n], n)
    /\ (\E n \in DOMAIN o.segs : o.segs[n] # NULL) => SegmentNames \subseteq DOMAIN o.segs
    /\ ~program.onDisk => InMemory(o)

ObjInv(o) == o \in Object /\ FoundOK(o) /\ SegmentsOK(o)

(* How often a list was appended: once for the lazy read, once per load. *)
ListedOK(o, l) ==
    \A u \in Lists :
        \E k \in 0 .. l + (IF u \in o.done THEN 1 ELSE 0) : o.found[u] = Repeated(Hits(u), k)

IInv ==
    /\ Context
    /\ ObjInv(obj)
    /\ loads \in 0 .. MaxLoads
    /\ ListedOK(obj, loads)
    /\ agg \in BOOLEAN \cup {NULL}
    /\ AggregatorBacked
    /\ FaultsExplained

-------------------------------------------------------------------------------
(* The least element of a set of numbers; a property that fails somewhere
   fails at the least place. *)
LEMMA LeastNatural ==
    ASSUME NEW T, T \subseteq Nat, T # {}
    PROVE  \E x \in T : \A y \in T : x <= y
<1> DEFINE R == {p \in Nat \X Nat : p[1] < p[2]}
<1>1. OpToRel(<, Nat) = R
  BY Zenon DEF OpToRel
<1>2. IsWellFoundedOn(R, Nat)
  BY NatLessThanWellFounded, <1>1, Zenon
<1>3. PICK x \in T : \A y \in T : <<y, x>> \notin R
  BY WFMin, <1>2
<1>4. ASSUME NEW y \in T, y < x PROVE FALSE
  <2>1. <<y, x>> \in R
    BY <1>4
  <2> QED BY <1>3, <2>1
<1> QED
  BY <1>4

PickedAt(walk, kinds, f, k) ==
    IF k = 0 THEN <<>>
    ELSE IF walk[k].cmd \in kinds THEN Append(f[k - 1], walk[k]) ELSE f[k - 1]

(* Picked is what its recursive definition says: such a function exists. *)
LEMMA PickedUnfolds ==
    ASSUME NEW walk, NEW kinds, Len(walk) \in Nat
    PROVE  \E f : /\ f = [k \in 0 .. Len(walk) |-> PickedAt(walk, kinds, f, k)]
                  /\ Picked(walk, kinds) = f[Len(walk)]
<1> DEFINE Has(n) == \E f : f = [k \in 0 .. n |-> PickedAt(walk, kinds, f, k)]
           Without == {n \in Nat : ~Has(n)}
<1>1. Has(0)
  <2>1. PICK f : f = [k \in 0 .. 0 |-> <<>>]
    OBVIOUS
  <2>2. f = [k \in 0 .. 0 |-> PickedAt(walk, kinds, f, k)]
    BY <2>1 DEF PickedAt
  <2> QED BY <2>2
<1>2. ASSUME NEW n \in Nat, Has(n) PROVE Has(n + 1)
  <2>1. PICK f : f = [k \in 0 .. n |-> PickedAt(walk, kinds, f, k)]
    BY <1>2
  <2> DEFINE g == [k \in 0 .. n + 1 |->
                      IF k = n + 1 THEN PickedAt(walk, kinds, f, k) ELSE f[k]]
  <2>2. \A k \in 0 .. n + 1 : PickedAt(walk, kinds, g, k) = PickedAt(walk, kinds, f, k)
    BY DEF PickedAt
  <2>3. \A k \in 0 .. n : f[k] = PickedAt(walk, kinds, f, k)
    BY <2>1
  <2>4. \A k \in 0 .. n + 1 : g[k] = PickedAt(walk, kinds, g, k)
    BY <2>2, <2>3
  <2>5. g = [k \in 0 .. n + 1 |-> g[k]]
    OBVIOUS
  <2>6. g = [k \in 0 .. n + 1 |-> PickedAt(walk, kinds, g, k)]
    BY <2>4, <2>5
  <2> QED BY <2>6
<1>3. \A n \in Nat : Has(n)
  <2> SUFFICES ASSUME Without # {} PROVE FALSE
    OBVIOUS
  <2>1. PICK n \in Without : \A m \in Without : n <= m
    BY LeastNatural
  <2> HIDE DEF Has
  <2>2. n # 0
    BY <1>1
  <2>3. n - 1 \in Nat /\ n - 1 \notin Without
    BY <2>1, <2>2
  <2> QED BY <1>2, <2>3
<1> DEFINE h == CHOOSE f : f = [k \in 0 .. Len(walk) |-> PickedAt(walk, kinds, f, k)]
<1>4. h = [k \in 0 .. Len(walk) |-> PickedAt(walk, kinds, h, k)]
  BY <1>3
<1>5. Picked(walk, kinds) = h[Len(walk)]
  BY Zenon DEF Picked, PickedAt
<1> QED
  BY <1>4, <1>5

(* The i-th command is the first of some kinds among the first k, the last. *)
Among(walk, kinds, k) == {j \in 1 .. k : walk[j].cmd \in kinds}
FirstAmong(walk, kinds, k, i) ==
    i \in Among(walk, kinds, k) /\ \A j \in Among(walk, kinds, k) : i <= j
LastAmong(walk, kinds, k, i) ==
    i \in Among(walk, kinds, k) /\ \A j \in Among(walk, kinds, k) : j <= i

PickedRight(walk, kinds, k, hits) ==
    /\ hits \in Seq(LoadCommand)
    /\ \A i \in 1 .. Len(hits) : hits[i].cmd \in kinds
    /\ hits = <<>> <=> Among(walk, kinds, k) = {}
    /\ hits # <<>> =>
          /\ \E i \in 1 .. k : FirstAmong(walk, kinds, k, i) /\ hits[1] = walk[i]
          /\ \E i \in 1 .. k : LastAmong(walk, kinds, k, i) /\ hits[Len(hits)] = walk[i]

(* What is picked are commands of those kinds, from the first to the last. *)
LEMMA PickedIsRight ==
    ASSUME NEW walk \in Seq(LoadCommand), NEW kinds
    PROVE  PickedRight(walk, kinds, Len(walk), Picked(walk, kinds))
<1>1. PICK f : /\ f = [k \in 0 .. Len(walk) |-> PickedAt(walk, kinds, f, k)]
               /\ Picked(walk, kinds) = f[Len(walk)]
  <2>1. Len(walk) \in Nat
    OBVIOUS
  <2> QED BY <2>1, PickedUnfolds
<1>0. \A k \in 0 .. Len(walk) : f[k] = PickedAt(walk, kinds, f, k)
  BY <1>1
<1> DEFINE Wrong == {k \in 0 .. Len(walk) : ~PickedRight(walk, kinds, k, f[k])}
<1>2. f[0] = <<>>
  <2>1. f[0] = PickedAt(walk, kinds, f, 0)
    BY <1>0
  <2> QED BY <2>1 DEF PickedAt
<1>3. PickedRight(walk, kinds, 0, f[0])
  BY <1>2 DEF PickedRight, Among
<1>4. ASSUME NEW k \in 1 .. Len(walk), PickedRight(walk, kinds, k - 1, f[k - 1])
      PROVE  PickedRight(walk, kinds, k, f[k])
  <2> DEFINE c == walk[k]
             old == f[k - 1]
             A == Among(walk, kinds, k - 1)
  <2>a. f[k] = PickedAt(walk, kinds, f, k) /\ k # 0
    BY <1>0
  <2>0. /\ old \in Seq(LoadCommand) /\ c \in LoadCommand
        /\ \A i \in 1 .. Len(old) : old[i].cmd \in kinds
        /\ old = <<>> <=> A = {}
        /\ old # <<>> =>
            /\ \E i \in 1 .. k - 1 : FirstAmong(walk, kinds, k - 1, i) /\ old[1] = walk[i]
            /\ \E i \in 1 .. k - 1 : LastAmong(walk, kinds, k - 1, i) /\ old[Len(old)] = walk[i]
    BY <1>4 DEF PickedRight
  <2>1. CASE c.cmd \in kinds
    <3>1. f[k] = Append(old, c)
      BY <2>a, <2>1 DEF PickedAt
    <3>2. /\ f[k] \in Seq(LoadCommand) /\ Len(f[k]) = Len(old) + 1
          /\ \A i \in 1 .. Len(old) : f[k][i] = old[i]
          /\ f[k][Len(old) + 1] = c
          /\ Len(old) \in Nat
      <4> HIDE DEF old, c
      <4> QED BY <2>0, <3>1
    <3>3. Among(walk, kinds, k) = A \cup {k}
      BY <2>1 DEF Among
    <3>4. LastAmong(walk, kinds, k, k) /\ f[k][Len(f[k])] = walk[k]
      BY <3>2, <3>3 DEF LastAmong, Among
    <3>5. \E i \in 1 .. k : FirstAmong(walk, kinds, k, i) /\ f[k][1] = walk[i]
      <4>1. CASE old = <<>>
        <5>1. FirstAmong(walk, kinds, k, k)
          BY <2>0, <3>3, <4>1 DEF FirstAmong
        <5>2. f[k][1] = walk[k]
          BY <3>2, <4>1
        <5> QED BY <5>1, <5>2
      <4>2. CASE old # <<>>
        <5>1. PICK i \in 1 .. k - 1 : FirstAmong(walk, kinds, k - 1, i) /\ old[1] = walk[i]
          BY <2>0, <4>2
        <5>2. FirstAmong(walk, kinds, k, i)
          BY <3>3, <5>1 DEF FirstAmong
        <5>3. Len(old) >= 1
          BY <2>0, <4>2
        <5>4. f[k][1] = walk[i]
          BY <3>2, <5>1, <5>3
        <5> QED BY <5>2, <5>4
      <4> QED BY <4>1, <4>2
    <3>6. \A i \in 1 .. Len(f[k]) : f[k][i].cmd \in kinds
      <4> TAKE i \in 1 .. Len(f[k])
      <4>1. i \in 1 .. Len(old) \/ i = Len(old) + 1
        BY <3>2
      <4> QED BY <2>0, <2>1, <3>2, <4>1
    <3>7. f[k] # <<>> /\ Among(walk, kinds, k) # {}
      BY <3>2, <3>3
    <3> QED BY <3>2, <3>4, <3>5, <3>6, <3>7 DEF PickedRight
  <2>2. CASE c.cmd \notin kinds
    <3>1. f[k] = old
      BY <2>a, <2>2 DEF PickedAt
    <3>2. Among(walk, kinds, k) = A
      BY <2>2 DEF Among
    <3>3. \A i : /\ FirstAmong(walk, kinds, k, i) <=> FirstAmong(walk, kinds, k - 1, i)
                 /\ LastAmong(walk, kinds, k, i) <=> LastAmong(walk, kinds, k - 1, i)
      BY <3>2 DEF FirstAmong, LastAmong
    <3> QED BY <2>0, <3>1, <3>2, <3>3 DEF PickedRight
  <2> QED BY <2>1, <2>2
<1>5. Wrong = {}
  <2> SUFFICES ASSUME Wrong # {} PROVE FALSE
    OBVIOUS
  <2>0. Wrong \subseteq Nat
    OBVIOUS
  <2>1. PICK k \in Wrong : \A m \in Wrong : k <= m
    <3> HIDE DEF Wrong
    <3> QED BY <2>0, LeastNatural
  <2>2. k # 0
    BY <1>3, <2>1
  <2>3. k - 1 \in 0 .. Len(walk) /\ k - 1 \notin Wrong
    BY <2>1, <2>2
  <2>4. PickedRight(walk, kinds, k - 1, f[k - 1])
    BY <2>3
  <2> QED BY <1>4, <2>1, <2>2, <2>4
<1>6. PickedRight(walk, kinds, Len(walk), f[Len(walk)])
  <2>1. Len(walk) \in 0 .. Len(walk)
    OBVIOUS
  <2> QED BY <1>5, <2>1
<1> QED
  BY <1>1, <1>6

-------------------------------------------------------------------------------
(* Maps, by their elements. *)
LEMMA MapsIntro ==
    ASSUME NEW K, NEW V, NEW S \in SUBSET K, NEW f \in [S -> V]
    PROVE  f \in Maps(K, V)
  BY DEF Maps

(* A map, by its keys and values. *)
LEMMA MapsElim ==
    ASSUME NEW K, NEW V, NEW f \in Maps(K, V)
    PROVE  DOMAIN f \subseteq K /\ f \in [DOMAIN f -> V] /\ \A k \in DOMAIN f : f[k] \in V
<1>1. PICK S \in SUBSET K : f \in [S -> V]
  BY DEF Maps
<1> QED
  BY <1>1

(* What a program's file is: the first command of a segment's name exists, and
   its sections have names. *)
LEMMA FileTyped ==
    ASSUME Context
    PROVE  /\ file \in Seq(LoadCommand)
           /\ Segments \subseteq 1 .. Len(file)
           /\ \A i \in Segments : file[i].name \in SegmentNames
                                  /\ file[i].sections \subseteq SectionNames
                                  /\ file[i].sections \subseteq Sections
           /\ file = <<>> => SegmentNames = {}
<1>1. file \in Seq(LoadCommand)
  BY ProgramsAssumption DEF Context, file
<1>2. Segments \subseteq 1 .. Len(file)
  BY <1>1 DEF Segments
<1>3. ASSUME NEW i \in Segments
      PROVE  /\ file[i].name \in SegmentNames
             /\ file[i].sections \subseteq SectionNames
             /\ file[i].sections \subseteq Sections
  <2>1. file[i] \in LoadCommand /\ file[i].cmd = "SEGMENT"
    BY <1>1, <1>2 DEF Segments
  <2>2. file[i].sections \subseteq SectionNames
    <3>1. file[i].sections \subseteq SectionsIn(file)
      BY DEF SectionsIn, Segments
    <3>2. SectionsIn(file) \subseteq SectionNames
      BY DEF SectionNames, Context, file
    <3> QED BY <3>1, <3>2
  <2> QED
    BY <2>2 DEF SegmentNames, Sections
<1>4. file = <<>> => SegmentNames = {}
  BY <1>2 DEF SegmentNames
<1> QED
  BY <1>1, <1>2, <1>3, <1>4 DEF SegmentNames

(* The first command of a name exists, and its sections are of the file. *)
LEMMA FirstOfIsFirst ==
    ASSUME Context, NEW n \in SegmentNames
    PROVE  /\ FirstOf(n) \in Segments /\ file[FirstOf(n)].name = n
           /\ FirstOf(n) \in Nat
           /\ SectionsOf(n) = file[FirstOf(n)].sections
           /\ SectionsOf(n) \subseteq SectionNames /\ SectionsOf(n) \subseteq Sections
<1> DEFINE T == {i \in Segments : file[i].name = n}
<1>1. T \subseteq Nat /\ T # {}
  <2>1. Len(file) \in Nat
    BY FileTyped
  <2> QED BY <2>1, FileTyped DEF SegmentNames
<1>2. PICK x \in T : \A y \in T : x <= y
  <2> HIDE DEF T
  <2> QED BY <1>1, LeastNatural
<1>3. FirstOf(n) \in Segments /\ file[FirstOf(n)].name = n
  BY <1>2 DEF FirstOf
<1> QED
  BY <1>1, <1>3, FileTyped DEF SectionsOf

(* A segment that was just inserted is right and knows no section. *)
LEMMA NewSegmentFaithful ==
    ASSUME Context, NEW n \in SegmentNames
    PROVE  /\ NewSegment(FirstOf(n)) \in CSegment
           /\ SegmentFaithful(NewSegment(FirstOf(n)), n)
           /\ DOMAIN NewSegment(FirstOf(n)).secs = {}
<1>1. DOMAIN <<>> = {} /\ <<>> \in [{} -> BOOLEAN \cup {NULL}]
  OBVIOUS
<1>2. <<>> \in Maps(SectionNames, BOOLEAN \cup {NULL})
  BY <1>1, MapsIntro
<1>3. NewSegment(FirstOf(n)) \in CSegment
  BY <1>2, FirstOfIsFirst DEF NewSegment, CSegment
<1> QED
  BY <1>1, <1>3 DEF NewSegment, SegmentFaithful

(* The segments of an object, by their parts. *)
LEMMA SegmentTyped ==
    ASSUME NEW s \in CSegment
    PROVE  /\ s # NULL
           /\ s.at \in Nat /\ s.loaded \in BOOLEAN
           /\ s.secs \in Maps(SectionNames, BOOLEAN \cup {NULL})
           /\ s.secs \in [DOMAIN s.secs -> BOOLEAN \cup {NULL}]
           /\ DOMAIN s.secs \subseteq SectionNames
           /\ \A c \in DOMAIN s.secs : s.secs[c] \in BOOLEAN \cup {NULL}
<1>1. s.secs \in Maps(SectionNames, BOOLEAN \cup {NULL})
  BY DEF CSegment
<1> QED
  BY <1>1, MapsElim, NULLAssumption DEF CSegment

(* An object, by its parts. *)
LEMMA ObjectTyped ==
    ASSUME NEW o \in Object
    PROVE  /\ o.done \in SUBSET Units /\ o.found \in [ListUnits -> Seq(LoadCommand)]
           /\ o.segs \in Maps(AskedNames, CSegment \cup {NULL})
           /\ o.segs \in [DOMAIN o.segs -> CSegment \cup {NULL}]
           /\ DOMAIN o.segs \subseteq AskedNames
           /\ \A n \in DOMAIN o.segs : o.segs[n] \in CSegment \cup {NULL}
           /\ o.symtab \in BOOLEAN /\ o.lines \in BOOLEAN
<1>1. o.segs \in Maps(AskedNames, CSegment \cup {NULL})
  BY DEF Object
<1> QED
  BY <1>1, MapsElim DEF Object

-------------------------------------------------------------------------------
(* What a call leaves of an object: nothing is forgotten ... *)
Grown(s, t) == Len(s) <= Len(t) /\ \A i \in 1 .. Len(s) : t[i] = s[i]

Keeps(o, p) ==
    /\ \A u \in ListUnits : Grown(o.found[u], p.found[u])
    /\ DOMAIN o.segs \subseteq DOMAIN p.segs
    /\ \A n \in DOMAIN o.segs : o.segs[n] # NULL => KeptSegment(o.segs[n], p.segs[n])

(* ... and a list is appended when its unit is read, which happens once. *)
Lazily(o, p) ==
    \A u \in Lists :
        \/ p.found[u] = o.found[u] /\ (u \in p.done <=> u \in o.done)
        \/ p.found[u] = o.found[u] /\ u \in p.done
        \/ u \notin o.done /\ u \in p.done /\ p.found[u] = o.found[u] \o Hits(u)

Step(o, p) == ObjInv(p) /\ Keeps(o, p) /\ Lazily(o, p)

(* A call that changes nothing is a step. *)
LEMMA StepReflexive ==
    ASSUME NEW o, ObjInv(o)
    PROVE  Step(o, o)
<1>1. ASSUME NEW n \in DOMAIN o.segs, o.segs[n] # NULL
      PROVE  KeptSegment(o.segs[n], o.segs[n])
  BY <1>1 DEF KeptSegment
<1> QED
  BY <1>1 DEF Step, Keeps, Lazily, Grown, ObjInv, Object

(* What two calls in a row leave, both left. *)
LEMMA KeepsTransitive ==
    ASSUME NEW o, NEW p, NEW q, ObjInv(o), ObjInv(p), ObjInv(q), Keeps(o, p), Keeps(p, q)
    PROVE  Keeps(o, q)
<1>1. /\ o.found \in [ListUnits -> Seq(LoadCommand)]
      /\ p.found \in [ListUnits -> Seq(LoadCommand)]
      /\ q.found \in [ListUnits -> Seq(LoadCommand)]
  BY DEF ObjInv, Object
<1>2. ASSUME NEW u \in ListUnits PROVE Grown(o.found[u], q.found[u])
  <2>1. Grown(o.found[u], p.found[u]) /\ Grown(p.found[u], q.found[u])
    BY DEF Keeps
  <2>2. /\ o.found[u] \in Seq(LoadCommand) /\ p.found[u] \in Seq(LoadCommand)
        /\ q.found[u] \in Seq(LoadCommand)
    BY <1>1
  <2> QED BY SMTT(20), <2>1, <2>2 DEF Grown
<1>3. ASSUME NEW n \in DOMAIN o.segs, o.segs[n] # NULL
      PROVE  KeptSegment(o.segs[n], q.segs[n])
  <2>1. KeptSegment(o.segs[n], p.segs[n]) /\ p.segs[n] # NULL
    BY <1>3 DEF Keeps, KeptSegment
  <2>2. KeptSegment(p.segs[n], q.segs[n])
    BY <2>1 DEF Keeps
  <2>3. o.segs[n] \in CSegment /\ p.segs[n] \in CSegment /\ q.segs[n] \in CSegment \cup {NULL}
    BY <1>3, <2>1, ObjectTyped DEF ObjInv, Keeps
  <2>4. o.segs[n].loaded \in BOOLEAN /\ p.segs[n].loaded \in BOOLEAN
    BY <2>3, SegmentTyped
  <2>5. /\ \A c \in DOMAIN o.segs[n].secs : o.segs[n].secs[c] \in BOOLEAN \cup {NULL}
        /\ \A c \in DOMAIN p.segs[n].secs : p.segs[n].secs[c] \in BOOLEAN \cup {NULL}
    BY <2>3, SegmentTyped
  <2> QED BY <2>1, <2>2, <2>4, <2>5 DEF KeptSegment
<1> QED
  BY <1>2, <1>3 DEF Keeps

(* Two steps in a row are a step. *)
LEMMA StepTransitive ==
    ASSUME NEW o, NEW p, NEW q, ObjInv(o), Step(o, p), Step(p, q)
    PROVE  Step(o, q)
<1>4. Keeps(o, q)
  BY KeepsTransitive DEF Step
<1>5. Lazily(o, q)
  BY DEF Step, Lazily
<1> QED
  BY <1>4, <1>5 DEF Step

-------------------------------------------------------------------------------
(* A segment that is there is replaced by one that holds more. *)
InMemorySegment(s, n) ==
    /\ \A c \in DOMAIN s.secs : s.secs[c] = NULL => c \notin SectionsOf(n)
    /\ (program.calls \cap Untested = {} /\ HasAll) =>
          \A c \in DOMAIN s.secs : s.secs[c] # NULL

(* The step from an object to the one whose segment holds more. *)
LEMMA SegmentReplaced ==
    ASSUME NEW o, ObjInv(o), NEW n \in DOMAIN o.segs, o.segs[n] # NULL,
           NEW s \in CSegment, SegmentFaithful(s, n), KeptSegment(o.segs[n], s),
           ~program.onDisk => InMemorySegment(s, n)
    PROVE  Step(o, [o EXCEPT !.segs[n] = s])
<1> DEFINE p == [o EXCEPT !.segs[n] = s]
<1>1. o \in Object /\ s # NULL
  BY SegmentTyped DEF ObjInv
<1>2. /\ p.done = o.done /\ p.found = o.found /\ p.symtab = o.symtab /\ p.lines = o.lines
      /\ p.segs = [o.segs EXCEPT ![n] = s]
  BY <1>1 DEF Object
<1>3. /\ DOMAIN p.segs = DOMAIN o.segs /\ p.segs[n] = s
      /\ \A m \in DOMAIN o.segs : m # n => p.segs[m] = o.segs[m]
  BY <1>1, <1>2, ObjectTyped
<1>4. p \in Object
  <2>1. p.segs \in [DOMAIN o.segs -> CSegment \cup {NULL}]
    BY <1>1, <1>2, ObjectTyped
  <2>2. p.segs \in Maps(AskedNames, CSegment \cup {NULL})
    BY <1>1, <2>1, ObjectTyped, MapsIntro
  <2> QED BY <1>1, <1>2, <2>2 DEF Object
<1> HIDE DEF p
<1>5. FoundOK(p)
  BY <1>2 DEF ObjInv, FoundOK
<1>6. SegmentsOK(p)
  <2>1. \A m \in DOMAIN p.segs : p.segs[m] # NULL => SegmentFaithful(p.segs[m], m)
    BY <1>3 DEF ObjInv, SegmentsOK
  <2>2. SegmentNames \subseteq DOMAIN p.segs
    BY <1>3 DEF ObjInv, SegmentsOK
  <2>3. ASSUME ~program.onDisk PROVE InMemory(p)
    <3>1. InMemory(o) /\ InMemorySegment(s, n)
      BY <2>3 DEF ObjInv, SegmentsOK
    <3> QED BY <1>1, <1>2, <1>3, <3>1 DEF InMemory, InMemorySegment
  <2> QED BY <1>3, <2>1, <2>2, <2>3 DEF ObjInv, SegmentsOK
<1>7. Keeps(o, p)
  <2>1. ASSUME NEW m \in DOMAIN o.segs, o.segs[m] # NULL
        PROVE  KeptSegment(o.segs[m], p.segs[m])
    <3>1. CASE m = n
      BY <1>3, <3>1
    <3>2. CASE m # n
      BY <1>3, <2>1, <3>2 DEF KeptSegment
    <3> QED BY <3>1, <3>2
  <2>2. \A u \in ListUnits : Grown(o.found[u], p.found[u])
    BY <1>1, <1>2 DEF Grown, Object
  <2> QED BY <1>2, <1>3, <2>1, <2>2 DEF Keeps
<1>8. Lazily(o, p)
  BY <1>2 DEF Lazily
<1> QED
  BY <1>4, <1>5, <1>6, <1>7, <1>8 DEF Step, ObjInv, p

(* CSegment::preload lists the sections of the file, as unread. *)
LEMMA TouchedKeeps ==
    ASSUME Context, NEW o, ObjInv(o), NEW n \in DOMAIN o.segs, o.segs[n] # NULL
    PROVE  /\ Step(o, Touched(o, n))
           /\ Touched(o, n).segs[n] = Preloaded(o.segs[n])
           /\ Touched(o, n).segs[n] # NULL
           /\ DOMAIN Touched(o, n).segs = DOMAIN o.segs
           /\ \A m \in DOMAIN o.segs : m # n => Touched(o, n).segs[m] = o.segs[m]
           /\ there => Touched(o, n).segs[n].loaded
           /\ Touched(o, n).done = o.done /\ Touched(o, n).found = o.found
<1> DEFINE s == o.segs[n]
           t == Preloaded(s)
<1>1. s \in CSegment /\ SegmentFaithful(s, n) /\ n \in SegmentNames
  BY ObjectTyped DEF ObjInv, SegmentsOK, SegmentFaithful
<1>2. /\ s.loaded \in BOOLEAN /\ s.secs \in [DOMAIN s.secs -> BOOLEAN \cup {NULL}]
      /\ DOMAIN s.secs \subseteq SectionNames
  BY <1>1, SegmentTyped
<1>3. /\ t \in CSegment /\ t.at = s.at
      /\ there => t.loaded
      /\ s.loaded => t.loaded
      /\ DOMAIN s.secs \subseteq DOMAIN t.secs
      /\ \A c \in DOMAIN s.secs : t.secs[c] = s.secs[c]
      /\ \A c \in DOMAIN t.secs \ DOMAIN s.secs : t.secs[c] = FALSE /\ c \in SectionsOf(n)
      /\ t.loaded => SectionsOf(n) \subseteq DOMAIN t.secs
      /\ t.secs # s.secs => t.loaded
  <2>1. CASE s.loaded \/ ~there
    <3>1. t = s
      BY <2>1 DEF Preloaded
    <3> QED BY <1>1, <2>1, <3>1 DEF SegmentFaithful, Context
  <2>2. CASE ~(s.loaded \/ ~there)
    <3> DEFINE w == WithSections(s)
    <3>1. file[s.at].sections = SectionsOf(n) /\ SectionsOf(n) \subseteq SectionNames
      BY <1>1, FirstOfIsFirst DEF SegmentFaithful
    <3>2. w = [c \in DOMAIN s.secs \cup SectionsOf(n) |->
                  IF c \in DOMAIN s.secs THEN s.secs[c] ELSE FALSE]
      BY <3>1 DEF WithSections
    <3>3. w \in [DOMAIN s.secs \cup SectionsOf(n) -> BOOLEAN \cup {NULL}]
      BY <1>2, <3>2
    <3>4. w \in Maps(SectionNames, BOOLEAN \cup {NULL})
      BY <1>2, <3>1, <3>3, MapsIntro
    <3>5. t = [s EXCEPT !.loaded = TRUE, !.secs = w]
      BY <2>2 DEF Preloaded
    <3> HIDE DEF w
    <3>6. t \in CSegment /\ t.at = s.at /\ t.loaded = TRUE /\ t.secs = w
      BY <1>1, <3>4, <3>5 DEF CSegment
    <3> QED BY <1>2, <3>2, <3>6
  <2> QED BY <2>1, <2>2
<1> HIDE DEF t
<1>4. SegmentFaithful(t, n)
  <2>1. \A c \in DOMAIN t.secs : t.secs[c] # NULL => t.loaded /\ c \in SectionsOf(n)
    BY <1>1, <1>2, <1>3 DEF SegmentFaithful
  <2> QED BY <1>1, <1>3, <2>1 DEF SegmentFaithful
<1>5. KeptSegment(s, t)
  BY <1>3, SegmentTyped DEF KeptSegment
<1>6. ASSUME ~program.onDisk PROVE InMemorySegment(t, n)
  <2>1. InMemory(o)
    BY <1>6 DEF ObjInv, SegmentsOK
  <2> QED BY ZenonT(30), <1>3, <2>1, NULLAssumption DEF InMemory, InMemorySegment
<1>7. Touched(o, n) = [o EXCEPT !.segs[n] = t]
  BY DEF Touched, t
<1>8. Step(o, Touched(o, n))
  BY <1>3, <1>4, <1>5, <1>6, <1>7, SegmentReplaced
<1>9. /\ Touched(o, n).segs = [o.segs EXCEPT ![n] = t]
      /\ Touched(o, n).done = o.done /\ Touched(o, n).found = o.found
  BY <1>7 DEF ObjInv, Object
<1>10. /\ DOMAIN Touched(o, n).segs = DOMAIN o.segs /\ Touched(o, n).segs[n] = t
       /\ \A m \in DOMAIN o.segs : m # n => Touched(o, n).segs[m] = o.segs[m]
  BY <1>9, ObjectTyped DEF ObjInv
<1> QED
  BY <1>3, <1>8, <1>9, <1>10, SegmentTyped DEF t

(* CSection::preload marks a section that is there. *)
LEMMA SectionReadKeeps ==
    ASSUME Context, NEW o, ObjInv(o), NEW n \in DOMAIN o.segs, o.segs[n] # NULL,
           NEW c \in DOMAIN o.segs[n].secs, o.segs[n].secs[c] # NULL
    PROVE  Step(o, [o EXCEPT !.segs[n] = SectionRead(@, c)])
<1> DEFINE s == o.segs[n]
           t == SectionRead(s, c)
<1>1. s \in CSegment /\ SegmentFaithful(s, n)
  BY ObjectTyped DEF ObjInv, SegmentsOK
<1>2. /\ s.secs \in [DOMAIN s.secs -> BOOLEAN \cup {NULL}] /\ s.loaded \in BOOLEAN
      /\ DOMAIN s.secs \subseteq SectionNames
  BY <1>1, SegmentTyped
<1> DEFINE w == [s.secs EXCEPT ![c] = @ \/ there]
<1>3. /\ w \in [DOMAIN s.secs -> BOOLEAN \cup {NULL}]
      /\ \A d \in DOMAIN s.secs : d # c => w[d] = s.secs[d]
      /\ w[c] \in BOOLEAN /\ (s.secs[c] => w[c])
  BY <1>2
<1>4. w \in Maps(SectionNames, BOOLEAN \cup {NULL})
  BY <1>2, <1>3, MapsIntro
<1>5. t = [s EXCEPT !.secs = w]
  BY <1>1 DEF SectionRead, CSegment
<1> HIDE DEF w
<1>6. t \in CSegment /\ t.at = s.at /\ t.loaded = s.loaded /\ t.secs = w
  BY <1>1, <1>4, <1>5 DEF CSegment
<1> HIDE DEF t
<1>7. SegmentFaithful(t, n)
  BY <1>1, <1>3, <1>6 DEF SegmentFaithful
<1>8. KeptSegment(s, t)
  BY <1>3, <1>6, SegmentTyped, NULLAssumption DEF KeptSegment
<1>9. ASSUME ~program.onDisk PROVE InMemorySegment(t, n)
  <2>1. InMemory(o)
    BY <1>9 DEF ObjInv, SegmentsOK
  <2> QED BY <1>3, <1>6, <2>1, NULLAssumption DEF InMemory, InMemorySegment
<1>10. [o EXCEPT !.segs[n] = SectionRead(@, c)] = [o EXCEPT !.segs[n] = t]
  BY DEF t
<1> QED
  BY <1>6, <1>7, <1>8, <1>9, <1>10, SegmentReplaced

(* What an aggregator looks up adds NULLs for sections the file does not
   have, or for all while it cannot be read. *)
LEMMA DebugSectionsKept ==
    ASSUME Context, NEW o, ObjInv(o), NEW n \in DOMAIN o.segs, o.segs[n] # NULL,
           n = kSEGMENT_DWARF, there => o.segs[n].loaded
    PROVE  /\ Step(o, [o EXCEPT !.segs[n] = WithDebugSections(@)])
           /\ SegmentFaithful(WithDebugSections(o.segs[n]), n)
<1> DEFINE s == o.segs[n]
           t == WithDebugSections(s)
           w == [c \in DOMAIN s.secs \cup DebugSections |->
                   IF c \in DOMAIN s.secs THEN s.secs[c] ELSE NULL]
<1>1. s \in CSegment /\ SegmentFaithful(s, n)
  BY ObjectTyped DEF ObjInv, SegmentsOK
<1>2. /\ s.secs \in [DOMAIN s.secs -> BOOLEAN \cup {NULL}] /\ s.loaded \in BOOLEAN
      /\ DOMAIN s.secs \subseteq SectionNames
  BY <1>1, SegmentTyped
<1>3. /\ w \in [DOMAIN s.secs \cup DebugSections -> BOOLEAN \cup {NULL}]
      /\ \A c \in DOMAIN s.secs : w[c] = s.secs[c]
      /\ \A c \in DebugSections \ DOMAIN s.secs : w[c] = NULL
  BY <1>2
<1>4. w \in Maps(SectionNames, BOOLEAN \cup {NULL})
  <2>1. DOMAIN s.secs \cup DebugSections \subseteq SectionNames
    BY <1>2 DEF SectionNames
  <2> QED BY <1>3, <2>1, MapsIntro
<1>5. t = [s EXCEPT !.secs = w]
  BY <1>1 DEF WithDebugSections, CSegment
<1>5a. DOMAIN w = DOMAIN s.secs \cup DebugSections
  BY <1>3
<1> HIDE DEF w
<1>6. t \in CSegment /\ t.at = s.at /\ t.loaded = s.loaded /\ t.secs = w
  BY <1>1, <1>4, <1>5 DEF CSegment
<1> HIDE DEF t
<1>7. SegmentFaithful(t, n)
  BY <1>1, <1>3, <1>5a, <1>6 DEF SegmentFaithful
<1>8. KeptSegment(s, t)
  BY <1>3, <1>5a, <1>6, SegmentTyped DEF KeptSegment
<1>9. ASSUME ~program.onDisk PROVE InMemorySegment(t, n)
  <2>1. InMemory(o) /\ s.loaded
    BY <1>9 DEF ObjInv, SegmentsOK, Context
  <2>2. SectionsOf(n) \subseteq DOMAIN s.secs /\ n \in SegmentNames
    BY <1>1, <2>1 DEF SegmentFaithful
  <2>3. HasAll => DebugSections \subseteq DOMAIN s.secs
    BY <2>2 DEF HasAll
  <2> QED BY <1>3, <1>5a, <1>6, <2>1, <2>2, <2>3 DEF InMemory, InMemorySegment
<1>10. [o EXCEPT !.segs[n] = WithDebugSections(@)] = [o EXCEPT !.segs[n] = t]
  BY DEF t
<1> QED
  BY <1>6, <1>7, <1>8, <1>9, <1>10, SegmentReplaced DEF t

-------------------------------------------------------------------------------
(* Units that only become complete. *)
Marked(o, d, b) == [o EXCEPT !.done = @ \cup {d}, !.lines = b]

(* Marking the header or the line tables as read is a step. *)
LEMMA MarkedKeeps ==
    ASSUME NEW o, ObjInv(o), NEW d \in {"info", "dwarf"}, NEW b \in BOOLEAN
    PROVE  LET p == Marked(o, d, b) IN
           /\ Step(o, p) /\ p.segs = o.segs /\ p.found = o.found
           /\ p.done = o.done \cup {d} /\ p.symtab = o.symtab
<1> DEFINE p == Marked(o, d, b)
<1>1. o \in Object /\ d \in Units
  BY DEF ObjInv, Units
<1>2. /\ p.done = o.done \cup {d} /\ p.found = o.found /\ p.segs = o.segs
      /\ p.symtab = o.symtab /\ p \in Object
  BY <1>1 DEF Object, Marked
<1> HIDE DEF p
<1>3. FoundOK(p)
  BY <1>2 DEF ObjInv, FoundOK
<1>4. SegmentsOK(p)
  BY <1>2 DEF ObjInv, SegmentsOK, InMemory
<1>5. Keeps(o, p) /\ Lazily(o, p)
  <2>1. Step(o, o)
    BY StepReflexive
  <2> QED BY <1>2, <2>1 DEF Step, Keeps, Lazily, Lists
<1> QED
  BY <1>2, <1>3, <1>4, <1>5 DEF Step, ObjInv, p

(* Reading the header is a step and touches nothing else. *)
LEMMA InfoLoadedKeeps ==
    ASSUME Context, NEW o, ObjInv(o)
    PROVE  /\ Step(o, InfoLoaded(o))
           /\ InfoLoaded(o).segs = o.segs /\ InfoLoaded(o).found = o.found
           /\ InfoLoaded(o).symtab = o.symtab
           /\ InfoLoaded(o).done \subseteq o.done \cup {"info"}
           /\ o.done \subseteq InfoLoaded(o).done
           /\ there /\ file # <<>> => "info" \in InfoLoaded(o).done
<1>1. CASE there /\ file # <<>>
  <2>1. o.lines \in BOOLEAN
    BY DEF ObjInv, Object
  <2>2. InfoLoaded(o) = Marked(o, "info", o.lines)
    BY <1>1, <2>1 DEF InfoLoaded, Marked, ObjInv, Object
  <2> QED BY <1>1, <2>1, <2>2, MarkedKeeps
<1>2. CASE ~(there /\ file # <<>>)
  BY <1>2, StepReflexive DEF InfoLoaded
<1> QED
  BY <1>1, <1>2

(* CSymbolTable::preload is a step. *)
LEMMA SymbolsReadKeeps ==
    ASSUME Context, NEW o, ObjInv(o)
    PROVE  Step(o, SymbolsRead(o))
<1> DEFINE p == SymbolsRead(o)
<1>1. /\ p.done = o.done /\ p.found = o.found /\ p.segs = o.segs
      /\ p.symtab = (o.symtab \/ (there /\ o.found.symbols # <<>>)) /\ p \in Object
  BY DEF SymbolsRead, ObjInv, Object
<1> HIDE DEF p
<1>2. FoundOK(p) /\ SegmentsOK(p)
  BY <1>1 DEF ObjInv, FoundOK, SegmentsOK, InMemory
<1>3. Keeps(o, p) /\ Lazily(o, p)
  <2>1. Step(o, o)
    BY StepReflexive
  <2> QED BY <1>1, <2>1 DEF Step, Keeps, Lazily
<1> QED
  BY <1>1, <1>2, <1>3 DEF Step, ObjInv, p

(* The segments: map::insert adds what the file has and keeps what is there. *)
LEMMA SegmentsLoadedKeeps ==
    ASSUME Context, NEW o, ObjInv(o)
    PROVE  /\ Step(o, SegmentsLoaded(o))
           /\ "segments" \in SegmentsLoaded(o).done
           /\ SegmentsLoaded(o).found = o.found
<1> DEFINE i == InfoLoaded(o)
           names == IF Walk(i) = <<>> THEN {} ELSE SegmentNames
           g == [n \in DOMAIN o.segs \cup names |->
                   IF n \in DOMAIN o.segs THEN o.segs[n] ELSE NewSegment(FirstOf(n))]
           p == SegmentsLoaded(o)
<1>1. /\ ObjInv(i) /\ Step(o, i) /\ i.segs = o.segs /\ i.found = o.found
      /\ there /\ file # <<>> => "info" \in i.done
  BY InfoLoadedKeeps DEF Step
<1>2. names \subseteq SegmentNames /\ SegmentNames \subseteq AskedNames
      /\ (names = {} \/ names = SegmentNames)
  BY DEF AskedNames
<1>3. there => names = SegmentNames
  BY <1>1, FileTyped DEF Walk
<1>4. o \in Object /\ o.segs \in [DOMAIN o.segs -> CSegment \cup {NULL}]
      /\ DOMAIN o.segs \subseteq AskedNames
  BY ObjectTyped DEF ObjInv
<1> HIDE DEF i, names
<1>5. /\ g \in [DOMAIN o.segs \cup names -> CSegment \cup {NULL}]
      /\ \A n \in DOMAIN o.segs : g[n] = o.segs[n]
      /\ \A n \in names \ DOMAIN o.segs : g[n] = NewSegment(FirstOf(n))
  BY <1>2, <1>4, NewSegmentFaithful
<1>5a. DOMAIN g = DOMAIN o.segs \cup names
  OBVIOUS
<1>6. g \in Maps(AskedNames, CSegment \cup {NULL})
  BY <1>2, <1>4, <1>5, MapsIntro
<1>7. p = [i EXCEPT !.done = @ \cup {"segments"}, !.segs = g]
  BY <1>1 DEF SegmentsLoaded, ObjInv, Object, i, names
<1> HIDE DEF g, p
<1>8. /\ p \in Object /\ p.segs = g /\ p.found = i.found /\ p.symtab = i.symtab
      /\ p.done = i.done \cup {"segments"}
  BY <1>1, <1>6, <1>7 DEF ObjInv, Object, Units
<1>9. FoundOK(p)
  BY <1>1, <1>8 DEF ObjInv, FoundOK
<1>10. SegmentsOK(p)
  <2>1. SegmentsOK(o)
    BY DEF ObjInv
  <2>2. ASSUME NEW n \in DOMAIN g, g[n] # NULL PROVE SegmentFaithful(g[n], n)
    <3>1. CASE n \in DOMAIN o.segs
      BY <1>5, <2>1, <2>2, <3>1 DEF SegmentsOK
    <3>2. CASE n \notin DOMAIN o.segs
      BY <1>2, <1>5, <1>5a, <3>2, NewSegmentFaithful
    <3> QED BY <3>1, <3>2
  <2>3. ASSUME NEW n \in DOMAIN g, g[n] # NULL PROVE SegmentNames \subseteq DOMAIN g
    <3>1. CASE n \in DOMAIN o.segs
      BY <1>5, <1>5a, <2>1, <2>3, <3>1 DEF SegmentsOK
    <3>2. CASE n \notin DOMAIN o.segs
      BY <1>2, <1>5a, <3>2
    <3> QED BY <3>1, <3>2
  <2>4. ASSUME ~program.onDisk PROVE InMemory(p)
    <3>1. InMemory(o) /\ names = SegmentNames
      BY <1>3, <2>1, <2>4 DEF SegmentsOK, Context
    <3>2. ASSUME NEW n \in DOMAIN g \ DOMAIN o.segs
          PROVE  g[n] # NULL /\ DOMAIN g[n].secs = {}
      BY <1>2, <1>5, <1>5a, NewSegmentFaithful, SegmentTyped
    <3>3. ASSUME NEW n \in DOMAIN g
          PROVE  /\ g[n] = NULL => n \notin SegmentNames
                 /\ g[n] # NULL => InMemorySegment(g[n], n)
                 /\ (program.calls \cap Untested = {} /\ HasAll) => g[n] # NULL
      <4>1. CASE n \in DOMAIN o.segs
        BY <1>5, <3>1, <4>1 DEF InMemory, InMemorySegment
      <4>2. CASE n \notin DOMAIN o.segs
        BY <3>2, <4>2 DEF InMemorySegment
      <4> QED BY <4>1, <4>2
    <3> QED BY <1>5a, <1>8, <3>1, <3>3 DEF InMemory, InMemorySegment
  <2> QED BY <1>8, <2>2, <2>3, <2>4 DEF SegmentsOK
<1>11. Keeps(o, p)
  <2>1. Step(o, o)
    BY StepReflexive
  <2>2. p.found = o.found
    BY <1>1, <1>8
  <2> QED BY <1>5, <1>5a, <1>8, <2>1, <2>2 DEF Step, Keeps
<1>12. Lazily(o, p)
  BY <1>1, <1>8, InfoLoadedKeeps DEF Lazily, Lists, i
<1> QED
  BY <1>1, <1>8, <1>9, <1>10, <1>11, <1>12 DEF Step, ObjInv, p

(* So is the unit that loads the segments once. *)
LEMMA SegmentsReadyKeeps ==
    ASSUME Context, NEW o, ObjInv(o)
    PROVE  /\ Step(o, SegmentsReady(o))
           /\ "segments" \in SegmentsReady(o).done
           /\ SegmentsReady(o).found = o.found
  BY SegmentsLoadedKeeps, StepReflexive DEF SegmentsReady

(* getSegment leaves a NULL under a name that is not there. *)
LEMMA LookedUpKeeps ==
    ASSUME Context, NEW o, ObjInv(o), "segments" \in o.done,
           NEW n \in {kSEGMENT_TEXT, kSEGMENT_DWARF}, program.calls \cap Untested # {}
    PROVE  /\ Step(o, SegmentLookedUp(o, n))
           /\ n \in DOMAIN SegmentLookedUp(o, n).segs
<1>1. CASE HasSegment(o, n)
  BY <1>1, StepReflexive DEF SegmentLookedUp, HasSegment
<1>2. CASE ~HasSegment(o, n)
  <2> DEFINE g == [m \in DOMAIN o.segs \cup {n} |-> IF m = n THEN NULL ELSE o.segs[m]]
             p == SegmentLookedUp(o, n)
  <2>1. n \notin DOMAIN o.segs /\ n \in AskedNames
    BY <1>2 DEF HasSegment, AskedNames
  <2>2. o \in Object /\ o.segs \in [DOMAIN o.segs -> CSegment \cup {NULL}]
        /\ DOMAIN o.segs \subseteq AskedNames
    BY ObjectTyped DEF ObjInv
  <2>3. /\ g \in [DOMAIN o.segs \cup {n} -> CSegment \cup {NULL}]
        /\ \A m \in DOMAIN o.segs : g[m] = o.segs[m]
        /\ g[n] = NULL
    BY <2>1, <2>2
  <2>3a. DOMAIN g = DOMAIN o.segs \cup {n}
    OBVIOUS
  <2>4. g \in Maps(AskedNames, CSegment \cup {NULL})
    BY <2>1, <2>2, <2>3, MapsIntro
  <2>5. p = [o EXCEPT !.segs = g]
    BY <1>2 DEF SegmentLookedUp, ObjInv, Object
  <2> HIDE DEF g, p
  <2>6. /\ p \in Object /\ p.segs = g /\ p.found = o.found /\ p.symtab = o.symtab
        /\ p.done = o.done
    BY <2>2, <2>4, <2>5 DEF Object
  <2>7. FoundOK(p)
    BY <2>6 DEF ObjInv, FoundOK
  <2>8. SegmentsOK(p)
    <3>1. SegmentsOK(o)
      BY DEF ObjInv
    <3>2. ~program.onDisk => InMemory(p)
      BY <2>1, <2>3, <2>3a, <2>6, <3>1 DEF SegmentsOK, InMemory
    <3> QED BY <2>3, <2>3a, <2>6, <3>1, <3>2 DEF SegmentsOK
  <2>9. Keeps(o, p) /\ Lazily(o, p)
    <3>1. Step(o, o)
      BY StepReflexive
    <3> QED BY <2>3, <2>3a, <2>6, <3>1 DEF Step, Keeps, Lazily
  <2> QED BY <2>3a, <2>6, <2>7, <2>8, <2>9 DEF Step, ObjInv, p
<1> QED
  BY <1>1, <1>2

-------------------------------------------------------------------------------
(* The list units.  What a walk that finds the file's commands, or none, adds
   to a unit is right, and for a unit that keeps one command, the same one. *)
LEMMA HitsRight ==
    ASSUME Context, NEW u \in ListUnits
    PROVE  /\ Hits(u) \in Seq(LoadCommand)
           /\ \A i \in 1 .. Len(Hits(u)) : Hits(u)[i].cmd \in Wanted[u]
           /\ Picked(<<>>, Wanted[u]) = <<>>
           /\ \A i \in DOMAIN file : file[i].cmd \in Wanted[u] => Hits(u) # <<>>
           /\ Hits(u) # <<>> /\ u \in Singles =>
                 \E i \in DOMAIN file : Counts(u, i) /\ Collected(u, <<>>, Hits(u)) = <<file[i]>>
<1> DEFINE h == Hits(u)
           W == Wanted[u]
<1>1. file \in Seq(LoadCommand) /\ DOMAIN file = 1 .. Len(file)
  BY FileTyped
<1>2. PickedRight(file, W, Len(file), h)
  BY <1>1, PickedIsRight DEF Hits
<1>3. Picked(<<>>, W) = <<>>
  <2>1. PickedRight(<<>>, W, Len(<<>>), Picked(<<>>, W))
    <3>1. <<>> \in Seq(LoadCommand)
      OBVIOUS
    <3> HIDE DEF W
    <3> QED BY <3>1, PickedIsRight
  <2>2. Among(<<>>, W, Len(<<>>)) = {}
    BY DEF Among
  <2> QED BY <2>1, <2>2 DEF PickedRight
<1> HIDE DEF h
<1>4. \A i \in DOMAIN file : file[i].cmd \in W => h # <<>>
  BY <1>1, <1>2 DEF PickedRight, Among
<1>5. ASSUME h # <<>>, u \in Singles
      PROVE  \E i \in DOMAIN file : Counts(u, i) /\ Collected(u, <<>>, h) = <<file[i]>>
  <2>1. CASE u = "symbols"
    <3>1. PICK i \in 1 .. Len(file) : LastAmong(file, W, Len(file), i) /\ h[Len(h)] = file[i]
      BY <1>2, <1>5 DEF PickedRight
    <3>2. Counts(u, i)
      BY <1>1, <2>1, <3>1 DEF Counts, LastAmong, Among
    <3>3. Collected(u, <<>>, h) = <<h[Len(h)]>>
      BY <1>5, <2>1 DEF Collected
    <3> QED BY <1>1, <3>1, <3>2, <3>3
  <2>2. CASE u # "symbols"
    <3>1. PICK i \in 1 .. Len(file) : FirstAmong(file, W, Len(file), i) /\ h[1] = file[i]
      BY <1>2, <1>5 DEF PickedRight
    <3>2. Counts(u, i)
      BY <1>1, <2>2, <3>1 DEF Counts, FirstAmong, Among
    <3>3. Collected(u, <<>>, h) = <<h[1]>>
      BY <1>5, <2>2 DEF Collected, Singles
    <3> QED BY <1>1, <3>1, <3>2, <3>3
  <2> QED BY <2>1, <2>2
<1> QED
  BY <1>2, <1>3, <1>4, <1>5 DEF PickedRight, h

(* At most one command counts for a unit that keeps one. *)
LEMMA CountsUnique ==
    ASSUME Context, NEW u, NEW i \in DOMAIN file, NEW j \in DOMAIN file, Counts(u, i), Counts(u, j)
    PROVE  i = j
<1>1. DOMAIN file = 1 .. Len(file)
  BY FileTyped
<1> QED
  BY <1>1 DEF Counts

(* What is collected: nothing new, or all the file has. *)
LEMMA CollectedRight ==
    ASSUME Context, NEW o, ObjInv(o), NEW u \in ListUnits,
           NEW hits \in {<<>>, Hits(u)}
    PROVE  LET c == Collected(u, o.found[u], hits) IN
           /\ c \in Seq(LoadCommand)
           /\ \A i \in DOMAIN c : c[i].cmd \in Wanted[u]
           /\ Grown(o.found[u], c)
           /\ u \in Lists => c = o.found[u] \o hits
           /\ u \in Singles =>
                 /\ c \in {<<>>} \cup {<<file[i]>> : i \in {j \in DOMAIN file : Counts(u, j)}}
                 /\ c = <<>> <=> o.found[u] = <<>> /\ hits = <<>>
<1> DEFINE old == o.found[u]
           c == Collected(u, old, hits)
<1>1. /\ old \in Seq(LoadCommand)
      /\ \A i \in 1 .. Len(old) : old[i].cmd \in Wanted[u]
      /\ u \in Singles =>
            old \in {<<>>} \cup {<<file[i]>> : i \in {j \in DOMAIN file : Counts(u, j)}}
  <2>1. old \in Seq(LoadCommand)
    BY DEF ObjInv, Object
  <2>2. DOMAIN old = 1 .. Len(old)
    BY <2>1
  <2> QED BY <2>1, <2>2 DEF ObjInv, FoundOK
<1>2. /\ hits \in Seq(LoadCommand)
      /\ \A i \in 1 .. Len(hits) : hits[i].cmd \in Wanted[u]
  <2>1. CASE hits = <<>>
    BY <2>1
  <2>2. CASE hits = Hits(u)
    BY <2>2, HitsRight
  <2> QED BY <2>1, <2>2
<1>3. u \in Lists \/ u \in Singles
  BY DEF ListUnits, Wanted, Lists, Singles
<1> HIDE DEF old
<1>4. CASE u \in Lists
  <2>1. c = old \o hits
    BY <1>4 DEF Collected, Lists
  <2>2. /\ c \in Seq(LoadCommand) /\ Len(c) = Len(old) + Len(hits)
        /\ Len(old) \in Nat /\ Len(hits) \in Nat
        /\ \A i \in 1 .. Len(old) : c[i] = old[i]
        /\ \A i \in Len(old) + 1 .. Len(c) : c[i] = hits[i - Len(old)]
    <3> HIDE DEF c
    <3> QED BY <1>1, <1>2, <2>1
  <2>3. \A i \in DOMAIN c : c[i].cmd \in Wanted[u]
    <3> HIDE DEF c
    <3> TAKE i \in DOMAIN c
    <3>1. i \in 1 .. Len(old) \/ (i \in Len(old) + 1 .. Len(c) /\ i - Len(old) \in 1 .. Len(hits))
      BY <2>2
    <3> QED BY <1>1, <1>2, <2>2, <3>1
  <2>4. Grown(old, c)
    BY <2>2 DEF Grown
  <2>5. u \notin Singles
    BY <1>4 DEF Lists, Singles
  <2> QED BY <2>1, <2>2, <2>3, <2>4, <2>5 DEF old
<1>5. CASE u \in Singles
  <2>0. u \notin Lists
    BY <1>5 DEF Lists, Singles
  <2>1. CASE hits = <<>>
    <3>1. c = old
      BY <2>0, <2>1 DEF Collected, Lists
    <3>2. DOMAIN old = 1 .. Len(old) /\ Grown(old, old)
      BY <1>1 DEF Grown
    <3> QED BY <1>1, <1>5, <2>0, <2>1, <3>1, <3>2 DEF old
  <2>2. CASE hits # <<>>
    <3>1. hits = Hits(u) /\ Hits(u) # <<>>
      BY <2>2
    <3>2. PICK i \in DOMAIN file : Counts(u, i) /\ Collected(u, <<>>, hits) = <<file[i]>>
      BY <1>5, <3>1, HitsRight
    <3>3. c = <<file[i]>>
      BY <2>0, <2>2, <3>2 DEF Collected, Lists
    <3>4. old = <<>> \/ old = c
      BY <1>1, <1>5, <3>2, <3>3, CountsUnique
    <3>5. file[i] \in LoadCommand /\ file[i].cmd \in Wanted[u]
      BY <3>2, FileTyped DEF Counts
    <3>6. Grown(old, c) /\ c \in Seq(LoadCommand) /\ DOMAIN c = {1} /\ c[1] = file[i] /\ c # <<>>
      <4> HIDE DEF c
      <4>1. c \in Seq(LoadCommand) /\ Len(c) = 1 /\ DOMAIN c = {1} /\ c[1] = file[i] /\ c # <<>>
        BY <3>3, <3>5
      <4>2. Grown(old, c)
        <5>1. CASE old = <<>>
          <6>1. Len(old) = 0
            BY <5>1
          <6> QED BY <4>1, <6>1 DEF Grown
        <5>2. CASE old = c
          <6>1. Grown(c, c)
            BY <4>1 DEF Grown
          <6> QED BY <5>2, <6>1
        <5> QED BY <3>4, <5>1, <5>2
      <4> QED BY <4>1, <4>2
    <3> QED BY <1>5, <2>0, <2>2, <3>2, <3>3, <3>5, <3>6 DEF old
  <2> QED BY <2>1, <2>2
<1> QED
  BY <1>3, <1>4, <1>5

(* _load of a list unit, the first time or with the source there. *)
LEMMA UnitLoadedKeeps ==
    ASSUME Context, NEW o, ObjInv(o), NEW u \in ListUnits,
           u \notin o.done \/ (there /\ file # <<>>)
    PROVE  LET p == UnitLoaded(o, u) IN
           /\ ObjInv(p) /\ Keeps(o, p)
           /\ u \in Lists => u \in p.done /\ p.found[u] \in {o.found[u], o.found[u] \o Hits(u)}
           /\ \A v \in Lists \ {u} :
                 p.found[v] = o.found[v] /\ (v \in p.done <=> v \in o.done)
           /\ p.segs = o.segs
           /\ "segments" \in p.done <=> "segments" \in o.done
<1> DEFINE i == InfoLoaded(o)
           hits == Picked(Walk(i), Wanted[u])
           c == Collected(u, o.found[u], hits)
           p == UnitLoaded(o, u)
<1>1. /\ ObjInv(i) /\ Step(o, i) /\ i.segs = o.segs /\ i.found = o.found /\ i.symtab = o.symtab
      /\ there /\ file # <<>> => "info" \in i.done
      /\ i.done \subseteq o.done \cup {"info"} /\ o.done \subseteq i.done
  BY InfoLoadedKeeps DEF Step
<1>2. /\ hits \in {<<>>, Hits(u)}
      /\ there /\ file # <<>> => hits = Hits(u)
  <2>1. Walk(i) = file \/ Walk(i) = <<>>
    BY DEF Walk
  <2>2. there /\ file # <<>> => Walk(i) = file
    BY <1>1 DEF Walk
  <2> QED BY <2>1, <2>2, HitsRight DEF Hits
<1> HIDE DEF hits, i
<1>3. /\ c \in Seq(LoadCommand)
      /\ \A j \in DOMAIN c : c[j].cmd \in Wanted[u]
      /\ Grown(o.found[u], c)
      /\ u \in Lists => c = o.found[u] \o hits
      /\ u \in Singles =>
            /\ c \in {<<>>} \cup {<<file[j]>> : j \in {k \in DOMAIN file : Counts(u, k)}}
            /\ c = <<>> <=> o.found[u] = <<>> /\ hits = <<>>
  BY <1>2, CollectedRight
<1> HIDE DEF c
<1> DEFINE done == IF u = "uuid" /\ hits = <<>> THEN i.done \ {u} ELSE i.done \cup {u}
<1>4. /\ p = [i EXCEPT !.found = [i.found EXCEPT ![u] = c], !.done = done,
                      !.symtab = @ /\ ~(u = "symbols" /\ hits # <<>>)]
  BY <1>1 DEF UnitLoaded, ObjInv, Object, hits, i, c
<1>5. /\ p \in Object /\ p.done = done /\ p.segs = o.segs
      /\ p.found = [o.found EXCEPT ![u] = c]
      /\ p.symtab = (o.symtab /\ ~(u = "symbols" /\ hits # <<>>))
  <2>1. u \in Units
    BY DEF Units
  <2>2. i \in Object /\ o \in Object
    BY <1>1 DEF ObjInv
  <2>3. done \in SUBSET Units
    BY <2>1, <2>2 DEF Object
  <2>4. [i.found EXCEPT ![u] = c] \in [ListUnits -> Seq(LoadCommand)]
    BY <1>3, <2>2 DEF Object
  <2> HIDE DEF done
  <2> QED BY <1>1, <1>4, <2>2, <2>3, <2>4 DEF Object
<1> HIDE DEF p, done
<1>6. /\ p.found[u] = c /\ \A v \in ListUnits \ {u} : p.found[v] = o.found[v]
      /\ o.found \in [ListUnits -> Seq(LoadCommand)]
  BY <1>5 DEF ObjInv, Object
<1>7. \A v : v \notin {u, "info"} => (v \in p.done <=> v \in o.done)
  BY <1>1, <1>5 DEF done
<1>8. FoundOK(p)
  <2>1. \A v \in ListUnits : \A j \in DOMAIN p.found[v] : p.found[v][j].cmd \in Wanted[v]
    BY <1>3, <1>6 DEF ObjInv, FoundOK
  <2>2. \A v \in Singles :
           p.found[v] \in {<<>>} \cup {<<file[j]>> : j \in {k \in DOMAIN file : Counts(v, k)}}
    <3>1. Singles \subseteq ListUnits
      BY DEF Singles, ListUnits, Wanted
    <3> QED BY <1>3, <1>6, <3>1 DEF ObjInv, FoundOK
  <2>3. "uuid" \in p.done <=> p.found.uuid # <<>>
    <3>1. CASE u = "uuid"
      <4>1. "uuid" \in p.done <=> hits # <<>>
        BY <1>5, <3>1 DEF done
      <4>2. hits = <<>> => o.found[u] = <<>>
        <5>1. CASE u \notin o.done
          BY <3>1, <5>1 DEF ObjInv, FoundOK
        <5>2. CASE there /\ file # <<>>
          BY <1>2, <3>1, <5>2, HitsRight DEF ObjInv, FoundOK, Singles, Counts
        <5> QED BY <5>1, <5>2
      <4> QED BY <1>3, <1>6, <3>1, <4>1, <4>2 DEF Singles
    <3>2. CASE u # "uuid"
      <4>1. "uuid" \in ListUnits
        BY DEF ListUnits, Wanted
      <4> QED BY <1>6, <1>7, <3>2, <4>1 DEF ObjInv, FoundOK
    <3> QED BY <3>1, <3>2
  <2>4. p.symtab => p.found.symbols # <<>>
    <3>1. "symbols" \in ListUnits /\ "symbols" \in Singles
      BY DEF ListUnits, Wanted, Singles
    <3>2. o.symtab => o.found.symbols # <<>>
      BY DEF ObjInv, FoundOK
    <3> QED BY <1>3, <1>5, <1>6, <3>1, <3>2
  <2> QED BY <2>1, <2>2, <2>3, <2>4 DEF FoundOK
<1>9. "segments" \in p.done <=> "segments" \in o.done
  <2>1. "segments" \notin {u, "info"}
    BY DEF ListUnits, Wanted
  <2> QED BY <1>7, <2>1
<1>10. SegmentsOK(p)
  BY <1>5, <1>9 DEF ObjInv, SegmentsOK, InMemory
<1>11. Keeps(o, p)
  <2>1. \A v \in ListUnits : Grown(o.found[v], p.found[v])
    BY <1>3, <1>6 DEF Grown
  <2>2. Step(o, o)
    BY StepReflexive
  <2> QED BY <1>5, <2>1, <2>2 DEF Step, Keeps
<1>12. u \in Lists => u \in p.done /\ p.found[u] \in {o.found[u], o.found[u] \o Hits(u)}
  <2>1. o.found[u] \o <<>> = o.found[u]
    BY <1>6
  <2> QED BY <1>2, <1>3, <1>5, <1>6, <2>1 DEF Lists, done
<1>13. \A v \in Lists \ {u} : p.found[v] = o.found[v] /\ (v \in p.done <=> v \in o.done)
  BY <1>6, <1>7 DEF Lists, ListUnits, Wanted
<1> QED
  BY <1>5, <1>8, <1>9, <1>10, <1>11, <1>12, <1>13 DEF ObjInv, p

(* A list unit that is asked for, loaded or not. *)
LEMMA UnitReadyKeeps ==
    ASSUME Context, NEW o, ObjInv(o), NEW u \in ListUnits
    PROVE  Step(o, UnitReady(o, u))
<1>1. CASE u \in o.done
  BY <1>1, StepReflexive DEF UnitReady
<1>2. CASE u \notin o.done
  <2>1. UnitReady(o, u) = UnitLoaded(o, u)
    BY <1>2 DEF UnitReady
  <2> QED BY SMTT(20), <1>2, <2>1, UnitLoadedKeeps DEF Step, Lazily
<1> QED
  BY <1>1, <1>2

-------------------------------------------------------------------------------
(* hasDebugLines, and the line table unit. *)
LEMMA DwarfTouchedKeeps ==
    ASSUME Context, NEW o, ObjInv(o)
    PROVE  Step(o, DwarfTouched(o)) /\ DwarfTouched(o).found = o.found
<1> DEFINE s == SegmentsReady(o)
<1>1. Step(o, s) /\ ObjInv(s) /\ s.found = o.found
  BY SegmentsReadyKeeps DEF Step
<1> HIDE DEF s
<1>2. CASE HasSegment(s, kSEGMENT_DWARF) /\ s.segs[kSEGMENT_DWARF] # NULL
  <2>1. DwarfTouched(o) = Touched(s, kSEGMENT_DWARF)
    BY <1>2 DEF DwarfTouched, s
  <2>2. kSEGMENT_DWARF \in DOMAIN s.segs /\ s.segs[kSEGMENT_DWARF] # NULL
    BY <1>2 DEF HasSegment
  <2>3. Step(s, Touched(s, kSEGMENT_DWARF)) /\ Touched(s, kSEGMENT_DWARF).found = s.found
    BY <1>1, <2>2, TouchedKeeps
  <2> QED BY <1>1, <2>1, <2>3, StepTransitive
<1>3. CASE ~(HasSegment(s, kSEGMENT_DWARF) /\ s.segs[kSEGMENT_DWARF] # NULL)
  <2>1. DwarfTouched(o) = s
    BY <1>3 DEF DwarfTouched, s
  <2> QED BY <1>1, <2>1
<1> QED
  BY <1>2, <1>3

(* The line table unit: the section read, the unit complete. *)
LEMMA DwarfLoadedKeeps ==
    ASSUME Context, NEW o, ObjInv(o)
    PROVE  Step(o, DwarfLoaded(o)) /\ DwarfLoaded(o).found = o.found
<1> DEFINE t == DwarfTouched(o)
<1>1. Step(o, t) /\ ObjInv(t) /\ t.lines \in BOOLEAN /\ t.found = o.found
  BY DwarfTouchedKeeps DEF Step, ObjInv, Object
<1> HIDE DEF t
<1>2. CASE ~HasLineStream(t)
  <2>1. DwarfLoaded(o) = Marked(t, "dwarf", t.lines)
    BY <1>1, <1>2 DEF DwarfLoaded, Marked, t, Step, ObjInv, Object
  <2>2. Step(t, Marked(t, "dwarf", t.lines)) /\ Marked(t, "dwarf", t.lines).found = t.found
    BY <1>1, MarkedKeeps
  <2> QED BY <1>1, <2>1, <2>2, StepTransitive
<1>3. CASE HasLineStream(t)
  <2> DEFINE m == Marked(t, "dwarf", TRUE)
  <2>1. DwarfLoaded(o) =
           [m EXCEPT !.segs[kSEGMENT_DWARF] = SectionRead(@, kSECTION_DEBUG_LINE)]
    BY <1>1, <1>3 DEF DwarfLoaded, Marked, t, Step, ObjInv, Object
  <2>2. Step(t, m) /\ ObjInv(m) /\ m.segs = t.segs /\ m.found = t.found
    BY <1>1, MarkedKeeps DEF Step
  <2> HIDE DEF m
  <2>3. /\ kSEGMENT_DWARF \in DOMAIN m.segs /\ m.segs[kSEGMENT_DWARF] # NULL
        /\ kSECTION_DEBUG_LINE \in DOMAIN m.segs[kSEGMENT_DWARF].secs
        /\ m.segs[kSEGMENT_DWARF].secs[kSECTION_DEBUG_LINE] # NULL
    BY <1>3, <2>2 DEF HasLineStream, HasDebugLines, HasSegment, HasSection
  <2>4. Step(m, DwarfLoaded(o))
    BY <2>1, <2>2, <2>3, SectionReadKeeps
  <2>5. DwarfLoaded(o).found = m.found
    BY <2>1, <2>2 DEF ObjInv, Object
  <2> QED BY <1>1, <2>2, <2>4, <2>5, StepTransitive
<1> QED
  BY <1>2, <1>3

-------------------------------------------------------------------------------
(* A NULL that is dereferenced, and what it may stand for. *)
Absent(n, c) == n \notin SegmentNames \/ (c # NULL /\ c \notin SectionsOf(n))

Explained(o, n, c) ==
    /\ ~program.onDisk =>
          (program.calls \cap Untested # {} \/ ~HasAll) /\ Absent(n, c)
    /\ there => Absent(n, c) \/ o.segs[n] = NULL \/ (c # NULL /\ o.segs[n].secs[c] = NULL)

(* A NULL found in the tables, or met while the file is away, is explained. *)
LEMMA NullExplained ==
    ASSUME Context, NEW o, ObjInv(o), NEW n, NEW c,
           \/ ~there
           \/ n \in DOMAIN o.segs /\ o.segs[n] = NULL
           \/ /\ n \in DOMAIN o.segs /\ o.segs[n] # NULL
              /\ c \in DOMAIN o.segs[n].secs /\ o.segs[n].secs[c] = NULL
    PROVE  Explained(o, n, c)
<1>1. CASE ~there
  BY <1>1 DEF Explained, Context
<1>2. CASE n \in DOMAIN o.segs /\ o.segs[n] = NULL
  BY <1>2 DEF Explained, Absent, ObjInv, SegmentsOK, InMemory
<1>3. CASE /\ n \in DOMAIN o.segs /\ o.segs[n] # NULL
           /\ c \in DOMAIN o.segs[n].secs /\ o.segs[n].secs[c] = NULL
  <2>1. o.segs[n] \in CSegment
    BY <1>3, ObjectTyped DEF ObjInv
  <2>2. c # NULL
    BY <1>3, <2>1, SegmentTyped, NULLAssumption
  <2> QED BY <1>3, <2>2 DEF Explained, Absent, ObjInv, SegmentsOK, InMemory
<1> QED
  BY <1>1, <1>2, <1>3

(* A call that left an object as it should: the tables kept, and if it ran
   into a NULL, one that is explained. *)
Answered(o) ==
    /\ Step(o, obj')
    /\ UNCHANGED <<program, there, loads>>
    /\ fault' = fault \/ \E n, c : fault' = <<n, c>> /\ Explained(obj', n, c)

(* A call that returns what a step made of the object. *)
LEMMA ReturnsAnswered ==
    ASSUME NEW o, NEW p, Step(o, p), Returns(p)
    PROVE  Answered(o)
  BY DEF Answered, Returns

(* A call that faults on an explained NULL. *)
LEMMA FaultsAnswered ==
    ASSUME NEW o, NEW p, NEW n, NEW c, Step(o, p), Faults(p, n, c), Explained(p, n, c)
    PROVE  Answered(o)
  BY DEF Answered, Faults

(* hasDebugLines and getDebugLines, whichever way they end. *)
LEMMA LinesAnswered ==
    ASSUME Context, NEW o, ObjInv(o), AsksForLines(o)
    PROVE  Answered(o)
<1> DEFINE t == DwarfTouched(o)
<1>1. Step(o, t) /\ ObjInv(t)
  BY DwarfTouchedKeeps DEF Step
<1>2. Step(t, DwarfLoaded(t))
  BY <1>1, DwarfLoadedKeeps
<1>3. Step(o, DwarfLoaded(t))
  BY <1>1, <1>2, StepTransitive
<1>4. \/ Returns(t)
      \/ ~there /\ Faults(t, kSEGMENT_DWARF, kSECTION_DEBUG_LINE)
      \/ Returns(DwarfLoaded(t))
  BY DEF AsksForLines
<1> HIDE DEF t
<1>5. ~there => Explained(t, kSEGMENT_DWARF, kSECTION_DEBUG_LINE)
  BY <1>1, NullExplained
<1> QED
  BY <1>1, <1>3, <1>4, <1>5, ReturnsAnswered, FaultsAnswered

-------------------------------------------------------------------------------
(* One lemma per call. *)
LEMMA ReadHeaderAnswered ==
    ASSUME IInv, ReadHeader
    PROVE  Answered(obj) /\ agg' = agg
<1>1. Step(obj, InfoLoaded(obj))
  BY InfoLoadedKeeps DEF IInv
<1>2. Returns(InfoLoaded(obj)) /\ agg' = agg
  BY DEF ReadHeader
<1> QED
  BY <1>1, <1>2, ReturnsAnswered

(* The getters of one unit. *)
LEMMA QueryAnswered ==
    ASSUME IInv, NEW u \in ListUnits, Query(u)
    PROVE  Answered(obj) /\ agg' = agg
<1>1. Step(obj, UnitReady(obj, u))
  BY UnitReadyKeeps DEF IInv
<1>2. Returns(UnitReady(obj, u)) /\ agg' = agg
  BY DEF Query
<1> QED
  BY <1>1, <1>2, ReturnsAnswered

(* CFATW::debug_lines. *)
LEMMA GetDebugLinesAnswered ==
    ASSUME IInv, GetDebugLines
    PROVE  Answered(obj) /\ agg' = agg
<1>1. AsksForLines(obj) /\ agg' = agg
  BY DEF GetDebugLines
<1> QED
  BY <1>1, LinesAnswered DEF IInv

(* CFATW::GetSymbols and GetSymbolNameAt, which may go on to ask for lines. *)
LEMMA LookUpSymbolsAnswered ==
    ASSUME IInv, NEW resolved \in BOOLEAN, LookUpSymbols(resolved)
    PROVE  Answered(obj) /\ agg' = agg
<1> DEFINE o0 == UnitReady(obj, "symbols")
           o1 == SegmentsReady(o0)
           o2 == SegmentLookedUp(o1, kSEGMENT_TEXT)
           o3 == SymbolsRead(Touched(o2, kSEGMENT_TEXT))
<1>0. Context /\ ObjInv(obj)
  BY DEF IInv
<1>1. Step(obj, o0) /\ ObjInv(o0)
  <2>1. "symbols" \in ListUnits
    BY DEF ListUnits, Wanted
  <2> QED BY <1>0, <2>1, UnitReadyKeeps DEF Step
<1>2. Step(obj, o1) /\ ObjInv(o1) /\ "segments" \in o1.done
  <2>1. Step(o0, o1) /\ "segments" \in o1.done
    BY <1>0, <1>1, SegmentsReadyKeeps
  <2> QED BY <1>0, <1>1, <2>1, StepTransitive DEF Step
<1>3. Step(obj, o2) /\ ObjInv(o2) /\ kSEGMENT_TEXT \in DOMAIN o2.segs
  <2>1. program.calls \cap Untested # {}
    BY DEF LookUpSymbols, Made, Untested
  <2>2. Step(o1, o2) /\ kSEGMENT_TEXT \in DOMAIN o2.segs
    BY <1>0, <1>2, <2>1, LookedUpKeeps
  <2> QED BY <1>0, <1>2, <2>2, StepTransitive DEF Step
<1>4. /\ agg' = agg
      /\ \/ o2.segs[kSEGMENT_TEXT] = NULL /\ Returns(o2)
         \/ o2.segs[kSEGMENT_TEXT] # NULL /\ (AsksForLines(o3) \/ Returns(o3))
  BY DEF LookUpSymbols
<1>5. CASE o2.segs[kSEGMENT_TEXT] = NULL /\ Returns(o2)
  BY <1>3, <1>4, <1>5, ReturnsAnswered
<1>6. CASE o2.segs[kSEGMENT_TEXT] # NULL /\ (AsksForLines(o3) \/ Returns(o3))
  <2>1. Step(o2, Touched(o2, kSEGMENT_TEXT)) /\ ObjInv(Touched(o2, kSEGMENT_TEXT))
    <3> HIDE DEF o2
    <3> QED BY <1>0, <1>3, <1>6, TouchedKeeps DEF Step
  <2>2. Step(Touched(o2, kSEGMENT_TEXT), o3)
    BY <1>0, <2>1, SymbolsReadKeeps
  <2>3. Step(obj, o3) /\ ObjInv(o3)
    <3>1. Step(obj, Touched(o2, kSEGMENT_TEXT))
      BY <1>0, <1>3, <2>1, StepTransitive
    <3> QED BY <1>0, <2>2, <3>1, StepTransitive DEF Step
  <2> HIDE DEF o3
  <2>4. CASE Returns(o3)
    BY <1>4, <2>3, <2>4, ReturnsAnswered
  <2>5. CASE AsksForLines(o3)
    <3>1. Answered(o3)
      BY <1>0, <2>3, <2>5, LinesAnswered
    <3>2. Step(obj, obj')
      BY <1>0, <2>3, <3>1, StepTransitive DEF Answered
    <3> QED BY <1>4, <3>1, <3>2 DEF Answered
  <2> QED BY <1>6, <2>4, <2>5
<1> QED
  BY <1>4, <1>5, <1>6

(* CFATW::HasDebugInformation, which leaves a NULL where there is no segment. *)
LEMMA HasDebugInformationAnswered ==
    ASSUME IInv, HasDebugInformation
    PROVE  Answered(obj) /\ agg' = agg
<1> DEFINE o0 == SegmentsReady(obj)
           o1 == SegmentLookedUp(o0, kSEGMENT_DWARF)
<1>0. Context /\ ObjInv(obj)
  BY DEF IInv
<1>1. Step(obj, o0) /\ ObjInv(o0) /\ "segments" \in o0.done
  BY <1>0, SegmentsReadyKeeps DEF Step
<1>2. Step(obj, o1) /\ ObjInv(o1) /\ kSEGMENT_DWARF \in DOMAIN o1.segs
  <2>1. program.calls \cap Untested # {}
    BY DEF HasDebugInformation, Made, Untested
  <2>2. Step(o0, o1) /\ kSEGMENT_DWARF \in DOMAIN o1.segs
    BY <1>0, <1>1, <2>1, LookedUpKeeps
  <2> QED BY <1>0, <1>1, <2>2, StepTransitive DEF Step
<1>3. agg' = agg /\ Returns(IF o1.segs[kSEGMENT_DWARF] = NULL THEN o1
                            ELSE Touched(o1, kSEGMENT_DWARF))
  BY DEF HasDebugInformation
<1> HIDE DEF o1
<1>4. CASE o1.segs[kSEGMENT_DWARF] = NULL
  BY <1>2, <1>3, <1>4, ReturnsAnswered
<1>5. CASE o1.segs[kSEGMENT_DWARF] # NULL
  <2>1. Step(o1, Touched(o1, kSEGMENT_DWARF))
    BY <1>0, <1>2, <1>5, TouchedKeeps
  <2>2. Step(obj, Touched(o1, kSEGMENT_DWARF))
    BY <1>0, <1>2, <2>1, StepTransitive
  <2> QED BY <1>3, <1>5, <2>2, ReturnsAnswered
<1> QED
  BY <1>4, <1>5

(* CFATW::DumpDebugLines: a NULL segment where it looked untested, and a NULL
   stream only while the file is away. *)
LEMMA DumpDebugLinesAnswered ==
    ASSUME IInv, NEW rows \in BOOLEAN, DumpDebugLines(rows)
    PROVE  Answered(obj) /\ agg' = agg
<1> DEFINE o0 == SegmentsReady(obj)
           o1 == SegmentLookedUp(o0, kSEGMENT_DWARF)
           o2 == Touched(o1, kSEGMENT_DWARF)
           o3 == [o2 EXCEPT !.segs[kSEGMENT_DWARF] = SectionRead(@, kSECTION_DEBUG_LINE)]
           shown == SectionPresent(o2, kSEGMENT_DWARF, kSECTION_DEBUG_LINE)
<1>0. Context /\ ObjInv(obj)
  BY DEF IInv
<1>1. Step(obj, o0) /\ ObjInv(o0) /\ "segments" \in o0.done
  BY <1>0, SegmentsReadyKeeps DEF Step
<1>2. Step(obj, o1) /\ ObjInv(o1) /\ kSEGMENT_DWARF \in DOMAIN o1.segs
  <2>1. program.calls \cap Untested # {}
    BY DEF DumpDebugLines, Made, Untested
  <2>2. Step(o0, o1) /\ kSEGMENT_DWARF \in DOMAIN o1.segs
    BY <1>0, <1>1, <2>1, LookedUpKeeps
  <2> QED BY <1>0, <1>1, <2>2, StepTransitive DEF Step
<1>3. /\ agg' = agg
      /\ IF o1.segs[kSEGMENT_DWARF] = NULL THEN Returns(o1)
         ELSE IF ~shown THEN Returns(o2)
         ELSE IF ~there THEN Faults(o3, kSEGMENT_DWARF, kSECTION_DEBUG_LINE)
         ELSE Returns(IF rows THEN SymbolsRead(UnitReady(o3, "symbols")) ELSE o3)
  BY DEF DumpDebugLines
<1> HIDE DEF o0, o1
<1>4. CASE o1.segs[kSEGMENT_DWARF] = NULL
  BY <1>2, <1>3, <1>4, ReturnsAnswered
<1>5. CASE o1.segs[kSEGMENT_DWARF] # NULL
  <2>1. /\ Step(o1, o2) /\ ObjInv(o2)
        /\ kSEGMENT_DWARF \in DOMAIN o2.segs /\ o2.segs[kSEGMENT_DWARF] # NULL
    BY <1>0, <1>2, <1>5, TouchedKeeps DEF Step
  <2>2. Step(obj, o2)
    BY <1>0, <1>2, <2>1, StepTransitive
  <2> HIDE DEF o2
  <2>3. CASE ~shown
    BY <1>3, <1>5, <2>2, <2>3, ReturnsAnswered
  <2>4. CASE shown
    <3>1. Step(o2, o3) /\ ObjInv(o3)
      <4>1. /\ kSECTION_DEBUG_LINE \in DOMAIN o2.segs[kSEGMENT_DWARF].secs
            /\ o2.segs[kSEGMENT_DWARF].secs[kSECTION_DEBUG_LINE] # NULL
        BY <2>4 DEF SectionPresent, HasSection
      <4> QED BY <1>0, <2>1, <4>1, SectionReadKeeps DEF Step
    <3> HIDE DEF o3
    <3>2. Step(obj, o3)
      BY <1>0, <2>2, <3>1, StepTransitive
    <3>3. CASE ~there
      <4>1. Explained(o3, kSEGMENT_DWARF, kSECTION_DEBUG_LINE)
        BY <1>0, <3>1, <3>3, NullExplained
      <4> QED BY <1>3, <1>5, <2>4, <3>2, <3>3, <4>1, FaultsAnswered
    <3>4. CASE there /\ ~rows
      BY <1>3, <1>5, <2>4, <3>2, <3>4, ReturnsAnswered
    <3>5. CASE there /\ rows
      <4>1. Step(o3, UnitReady(o3, "symbols")) /\ ObjInv(UnitReady(o3, "symbols"))
        <5>1. "symbols" \in ListUnits
          BY DEF ListUnits, Wanted
        <5> QED BY <1>0, <3>1, <5>1, UnitReadyKeeps DEF Step
      <4>2. Step(UnitReady(o3, "symbols"), SymbolsRead(UnitReady(o3, "symbols")))
        BY <1>0, <4>1, SymbolsReadKeeps
      <4>3. Step(obj, UnitReady(o3, "symbols"))
        BY <1>0, <3>2, <4>1, StepTransitive
      <4>4. Step(obj, SymbolsRead(UnitReady(o3, "symbols")))
        BY <1>0, <4>2, <4>3, StepTransitive
      <4> QED BY <1>3, <1>5, <2>4, <3>5, <4>4, ReturnsAnswered
    <3> QED BY <3>3, <3>4, <3>5
  <2> QED BY <2>3, <2>4
<1> QED
  BY <1>4, <1>5

(* new CMachOW: an aggregator that is valid is backed by the tables. *)
LEMMA NewMachOWAnswered ==
    ASSUME IInv, NewMachOW
    PROVE  /\ Answered(obj)
           /\ \/ agg' = agg
              \/ agg' \in BOOLEAN /\ (agg' = TRUE => AggregatorBacked')
<1> DEFINE o1 == SegmentsReady(obj)
           t == Touched(o1, kSEGMENT_DWARF)
           s == WithDebugSections(Preloaded(o1.segs[kSEGMENT_DWARF]))
           o2 == [o1 EXCEPT !.segs[kSEGMENT_DWARF] = WithDebugSections(Preloaded(@))]
<1>0. Context /\ ObjInv(obj)
  BY DEF IInv
<1>1. Step(obj, o1) /\ ObjInv(o1)
  BY <1>0, SegmentsReadyKeeps DEF Step
<1>2. \/ Returns(o1) /\ agg' = FALSE
      \/ /\ kSEGMENT_DWARF \in DOMAIN o1.segs /\ o1.segs[kSEGMENT_DWARF] = NULL
         /\ Faults(o1, kSEGMENT_DWARF, NULL) /\ agg' = agg
      \/ /\ kSEGMENT_DWARF \in DOMAIN o1.segs /\ o1.segs[kSEGMENT_DWARF] # NULL
         /\ Returns(o2) /\ agg' = AllFound(o2.segs[kSEGMENT_DWARF])
  BY DEF NewMachOW, HasSegment
<1> HIDE DEF o1
<1>3. CASE Returns(o1) /\ agg' = FALSE
  BY <1>1, <1>3, ReturnsAnswered
<1>4. CASE /\ kSEGMENT_DWARF \in DOMAIN o1.segs /\ o1.segs[kSEGMENT_DWARF] = NULL
           /\ Faults(o1, kSEGMENT_DWARF, NULL) /\ agg' = agg
  <2>1. Explained(o1, kSEGMENT_DWARF, NULL)
    BY <1>0, <1>1, <1>4, NullExplained
  <2> QED BY <1>1, <1>4, <2>1, FaultsAnswered
<1>5. CASE /\ kSEGMENT_DWARF \in DOMAIN o1.segs /\ o1.segs[kSEGMENT_DWARF] # NULL
           /\ Returns(o2) /\ agg' = AllFound(o2.segs[kSEGMENT_DWARF])
  <2>1. /\ Step(o1, t) /\ ObjInv(t)
        /\ t.segs[kSEGMENT_DWARF] = Preloaded(o1.segs[kSEGMENT_DWARF])
        /\ kSEGMENT_DWARF \in DOMAIN t.segs /\ t.segs[kSEGMENT_DWARF] # NULL
        /\ there => t.segs[kSEGMENT_DWARF].loaded
    BY <1>0, <1>1, <1>5, TouchedKeeps DEF Step
  <2>2. o2 = [t EXCEPT !.segs[kSEGMENT_DWARF] = WithDebugSections(@)]
    BY <1>1, <1>5, ObjectTyped DEF Touched, ObjInv, Object
  <2> HIDE DEF t, o2
  <2>3. Step(t, o2) /\ SegmentFaithful(WithDebugSections(t.segs[kSEGMENT_DWARF]), kSEGMENT_DWARF)
    BY <1>0, <2>1, <2>2, DebugSectionsKept
  <2>4. Step(obj, o2)
    <3>1. Step(obj, t)
      BY <1>0, <1>1, <2>1, StepTransitive
    <3> QED BY <1>0, <2>3, <3>1, StepTransitive
  <2>5. Answered(obj) /\ obj' = o2 /\ program' = program
    BY <1>5, <2>4, ReturnsAnswered DEF Returns
  <2>6. /\ kSEGMENT_DWARF \in DOMAIN o2.segs
        /\ o2.segs[kSEGMENT_DWARF] = WithDebugSections(t.segs[kSEGMENT_DWARF])
    BY <2>1, <2>2, ObjectTyped DEF ObjInv, Object
  <2>7. /\ DebugSections \subseteq DOMAIN o2.segs[kSEGMENT_DWARF].secs
        /\ o2.segs[kSEGMENT_DWARF] # NULL
    <3>1. o2.segs[kSEGMENT_DWARF] # NULL
      BY <2>1, <2>3 DEF Step, Keeps, KeptSegment
    <3>2. t.segs[kSEGMENT_DWARF] \in CSegment
      BY <2>1, ObjectTyped DEF ObjInv
    <3> QED BY <2>6, <3>1, <3>2 DEF WithDebugSections, CSegment
  <2>8. /\ SectionsOf(kSEGMENT_DWARF)' = SectionsOf(kSEGMENT_DWARF)
    BY <2>5 DEF SectionsOf, FirstOf, Segments, file
  <2>9. AllFound(o2.segs[kSEGMENT_DWARF]) => AggregatorBacked'
    BY <2>3, <2>5, <2>6, <2>7, <2>8
       DEF AllFound, AggregatorBacked, HasSegment, HasSection, SectionPresent, SegmentFaithful
  <2>10. agg' \in BOOLEAN
    BY <1>5 DEF AllFound
  <2> QED BY <1>5, <2>5, <2>9, <2>10
<1> QED
  BY <1>2, <1>3, <1>4, <1>5

(* CMachOW::GetVMAddress. *)
LEMMA GetVMAddressAnswered ==
    ASSUME IInv, GetVMAddress
    PROVE  Answered(obj) /\ agg' = agg
<1> DEFINE o1 == SegmentsReady(obj)
<1>0. Context /\ ObjInv(obj)
  BY DEF IInv
<1>1. Step(obj, o1) /\ ObjInv(o1)
  BY <1>0, SegmentsReadyKeeps DEF Step
<1>2. /\ agg' = agg
      /\ \/ Returns(o1)
         \/ /\ kSEGMENT_TEXT \in DOMAIN o1.segs /\ o1.segs[kSEGMENT_TEXT] = NULL
            /\ Faults(o1, kSEGMENT_TEXT, NULL)
         \/ /\ kSEGMENT_TEXT \in DOMAIN o1.segs /\ o1.segs[kSEGMENT_TEXT] # NULL
            /\ Returns(Touched(o1, kSEGMENT_TEXT))
  BY DEF GetVMAddress, HasSegment
<1> HIDE DEF o1
<1>3. CASE Returns(o1)
  BY <1>1, <1>2, <1>3, ReturnsAnswered
<1>4. CASE /\ kSEGMENT_TEXT \in DOMAIN o1.segs /\ o1.segs[kSEGMENT_TEXT] = NULL
           /\ Faults(o1, kSEGMENT_TEXT, NULL)
  <2>1. Explained(o1, kSEGMENT_TEXT, NULL)
    BY <1>0, <1>1, <1>4, NullExplained
  <2> QED BY <1>1, <1>2, <1>4, <2>1, FaultsAnswered
<1>5. CASE /\ kSEGMENT_TEXT \in DOMAIN o1.segs /\ o1.segs[kSEGMENT_TEXT] # NULL
           /\ Returns(Touched(o1, kSEGMENT_TEXT))
  <2>1. Step(o1, Touched(o1, kSEGMENT_TEXT))
    BY <1>0, <1>1, <1>5, TouchedKeeps
  <2>2. Step(obj, Touched(o1, kSEGMENT_TEXT))
    BY <1>0, <1>1, <2>1, StepTransitive
  <2> QED BY <1>2, <1>5, <2>2, ReturnsAnswered
<1> QED
  BY <1>2, <1>3, <1>4, <1>5

(* CMachOW::GetSHA256BySectionText. *)
LEMMA GetSHA256Answered ==
    ASSUME IInv, GetSHA256
    PROVE  Answered(obj) /\ agg' = agg
<1> DEFINE o1 == SegmentsReady(obj)
           o2 == Touched(o1, kSEGMENT_TEXT)
           o3 == [o2 EXCEPT !.segs[kSEGMENT_TEXT] = SectionRead(@, kSECTION_TEXT)]
           there1 == kSEGMENT_TEXT \in DOMAIN o1.segs /\ o1.segs[kSEGMENT_TEXT] # NULL
<1>0. Context /\ ObjInv(obj)
  BY DEF IInv
<1>1. Step(obj, o1) /\ ObjInv(o1)
  BY <1>0, SegmentsReadyKeeps DEF Step
<1>2. /\ agg' = agg
      /\ \/ Returns(o1)
         \/ /\ kSEGMENT_TEXT \in DOMAIN o1.segs /\ o1.segs[kSEGMENT_TEXT] = NULL
            /\ Faults(o1, kSEGMENT_TEXT, NULL)
         \/ there1 /\ Returns(o2)
         \/ there1 /\ SectionPresent(o2, kSEGMENT_TEXT, kSECTION_TEXT) /\ Returns(o3)
         \/ /\ there1 /\ HasSection(o2, kSEGMENT_TEXT, kSECTION_TEXT)
            /\ ~(SectionPresent(o2, kSEGMENT_TEXT, kSECTION_TEXT) /\ there)
            /\ Faults(o2, kSEGMENT_TEXT, kSECTION_TEXT)
  BY DEF GetSHA256, HasSegment
<1> HIDE DEF o1
<1>3. CASE Returns(o1)
  BY <1>1, <1>2, <1>3, ReturnsAnswered
<1>4. CASE /\ kSEGMENT_TEXT \in DOMAIN o1.segs /\ o1.segs[kSEGMENT_TEXT] = NULL
           /\ Faults(o1, kSEGMENT_TEXT, NULL)
  <2>1. Explained(o1, kSEGMENT_TEXT, NULL)
    BY <1>0, <1>1, <1>4, NullExplained
  <2> QED BY <1>1, <1>2, <1>4, <2>1, FaultsAnswered
<1>5. there1 => /\ Step(obj, o2) /\ ObjInv(o2)
                /\ kSEGMENT_TEXT \in DOMAIN o2.segs /\ o2.segs[kSEGMENT_TEXT] # NULL
  <2> HAVE there1
  <2>1. /\ Step(o1, o2) /\ ObjInv(o2)
        /\ kSEGMENT_TEXT \in DOMAIN o2.segs /\ o2.segs[kSEGMENT_TEXT] # NULL
    BY <1>0, <1>1, TouchedKeeps DEF Step
  <2> QED BY <1>0, <1>1, <2>1, StepTransitive
<1> HIDE DEF o2
<1>6. CASE there1 /\ Returns(o2)
  BY <1>2, <1>5, <1>6, ReturnsAnswered
<1>7. CASE there1 /\ SectionPresent(o2, kSEGMENT_TEXT, kSECTION_TEXT) /\ Returns(o3)
  <2>1. /\ kSECTION_TEXT \in DOMAIN o2.segs[kSEGMENT_TEXT].secs
        /\ o2.segs[kSEGMENT_TEXT].secs[kSECTION_TEXT] # NULL
    BY <1>7 DEF SectionPresent, HasSection
  <2>2. Step(o2, o3)
    BY <1>0, <1>5, <1>7, <2>1, SectionReadKeeps
  <2>3. Step(obj, o3)
    BY <1>0, <1>5, <1>7, <2>2, StepTransitive
  <2> QED BY <1>2, <1>7, <2>3, ReturnsAnswered
<1>8. CASE /\ there1 /\ HasSection(o2, kSEGMENT_TEXT, kSECTION_TEXT)
           /\ ~(SectionPresent(o2, kSEGMENT_TEXT, kSECTION_TEXT) /\ there)
           /\ Faults(o2, kSEGMENT_TEXT, kSECTION_TEXT)
  <2>1. Explained(o2, kSEGMENT_TEXT, kSECTION_TEXT)
    BY <1>0, <1>5, <1>8, NullExplained DEF SectionPresent, HasSection
  <2> QED BY <1>2, <1>5, <1>8, <2>1, FaultsAnswered
<1> QED
  BY <1>2, <1>3, <1>4, <1>6, <1>7, <1>8

(* CMachOW::GetSegmentAt and a getter of the segment. *)
LEMMA ShowSegmentAnswered ==
    ASSUME IInv, NEW n, ShowSegment(n)
    PROVE  Answered(obj) /\ agg' = agg
<1> DEFINE o1 == SegmentsReady(obj)
<1>0. Context /\ ObjInv(obj)
  BY DEF IInv
<1>1. Step(obj, o1) /\ ObjInv(o1)
  BY <1>0, SegmentsReadyKeeps DEF Step
<1>2. /\ agg' = agg /\ n \in DOMAIN o1.segs
      /\ \/ o1.segs[n] = NULL /\ Faults(o1, n, NULL)
         \/ o1.segs[n] # NULL /\ Returns(Touched(o1, n))
  BY DEF ShowSegment, HasSegment
<1> HIDE DEF o1
<1>3. CASE o1.segs[n] = NULL /\ Faults(o1, n, NULL)
  <2>1. Explained(o1, n, NULL)
    BY <1>0, <1>1, <1>2, <1>3, NullExplained
  <2> QED BY <1>1, <1>2, <1>3, <2>1, FaultsAnswered
<1>4. CASE o1.segs[n] # NULL /\ Returns(Touched(o1, n))
  <2>1. Step(o1, Touched(o1, n))
    BY <1>0, <1>1, <1>2, <1>4, TouchedKeeps
  <2>2. Step(obj, Touched(o1, n))
    BY <1>0, <1>1, <2>1, StepTransitive
  <2> QED BY <1>2, <1>4, <2>2, ReturnsAnswered
<1> QED
  BY <1>2, <1>3, <1>4

(* CMachOSegmentW::GetSectionAt and a getter of the section. *)
LEMMA ShowSectionAnswered ==
    ASSUME IInv, NEW n, NEW c, ShowSection(n, c)
    PROVE  Answered(obj) /\ agg' = agg
<1> DEFINE o1 == Touched(obj, n)
           o2 == [o1 EXCEPT !.segs[n] = SectionRead(@, c)]
<1>0. Context /\ ObjInv(obj)
  BY DEF IInv
<1>1. /\ agg' = agg /\ n \in DOMAIN obj.segs /\ obj.segs[n] # NULL
      /\ c \in DOMAIN o1.segs[n].secs
      /\ \/ o1.segs[n].secs[c] # NULL /\ Returns(o2)
         \/ o1.segs[n].secs[c] = NULL /\ Faults(o1, n, c)
  BY DEF ShowSection, HasSegment, HasSection, SectionPresent
<1>2. /\ Step(obj, o1) /\ ObjInv(o1)
      /\ n \in DOMAIN o1.segs /\ o1.segs[n] # NULL
  BY <1>0, <1>1, TouchedKeeps DEF Step
<1> HIDE DEF o1
<1>3. CASE o1.segs[n].secs[c] # NULL /\ Returns(o2)
  <2>1. Step(o1, o2)
    BY <1>0, <1>1, <1>2, <1>3, SectionReadKeeps
  <2>2. Step(obj, o2)
    BY <1>0, <1>2, <2>1, StepTransitive
  <2> QED BY <1>1, <1>3, <2>2, ReturnsAnswered
<1>4. CASE o1.segs[n].secs[c] = NULL /\ Faults(o1, n, c)
  <2>1. Explained(o1, n, c)
    BY <1>0, <1>1, <1>2, <1>4, NullExplained
  <2> QED BY <1>1, <1>2, <1>4, <2>1, FaultsAnswered
<1> QED
  BY <1>1, <1>3, <1>4

-------------------------------------------------------------------------------
(* What a load does to a list it reads again, and to one it does not. *)
Relisted(o, p, U) ==
    \A u \in Lists :
        /\ p.found[u] \in (IF u \in U THEN {o.found[u], o.found[u] \o Hits(u)} ELSE {o.found[u]})
        /\ u \in o.done \cup U => u \in p.done

(* CMachO::load, one list unit at a time ... *)
LEMMA UnitRelisted ==
    ASSUME Context, there, file # <<>>, NEW o, ObjInv(o), NEW p, ObjInv(p), Keeps(o, p),
           NEW U, Relisted(o, p, U), NEW u \in ListUnits \ U
    PROVE  /\ ObjInv(UnitLoaded(p, u)) /\ Keeps(o, UnitLoaded(p, u))
           /\ Relisted(o, UnitLoaded(p, u), U \cup {u})
<1> DEFINE q == UnitLoaded(p, u)
<1>1. /\ ObjInv(q) /\ Keeps(p, q)
      /\ u \in Lists => u \in q.done /\ q.found[u] \in {p.found[u], p.found[u] \o Hits(u)}
      /\ \A v \in Lists \ {u} : q.found[v] = p.found[v] /\ (v \in q.done <=> v \in p.done)
  BY UnitLoadedKeeps
<1> HIDE DEF q
<1>2. Relisted(o, q, U \cup {u})
  <2> SUFFICES ASSUME NEW v \in Lists
               PROVE  /\ q.found[v] \in (IF v \in U \cup {u}
                                         THEN {o.found[v], o.found[v] \o Hits(v)}
                                         ELSE {o.found[v]})
                      /\ v \in o.done \cup (U \cup {u}) => v \in q.done
    BY DEF Relisted
  <2>1. CASE v = u
    BY <1>1, <2>1 DEF Relisted
  <2>2. CASE v # u
    BY <1>1, <2>2 DEF Relisted
  <2> QED BY <2>1, <2>2
<1> QED
  BY <1>1, <1>2, KeepsTransitive DEF q

(* ... and the units that are no lists. *)
LEMMA StepRelisted ==
    ASSUME NEW o, ObjInv(o), NEW p, ObjInv(p), Keeps(o, p), NEW U, Relisted(o, p, U),
           NEW q, Step(p, q), q.found = p.found
    PROVE  ObjInv(q) /\ Keeps(o, q) /\ Relisted(o, q, U)
  BY KeepsTransitive DEF Step, Relisted, Lazily

(* All the units one after the other, as CMachO::load runs them. *)
LEMMA LoadedAgainKeeps ==
    ASSUME Context, ObjInv(obj), there, file # <<>>
    PROVE  ObjInv(LoadedAgain) /\ Keeps(obj, LoadedAgain) /\ Relisted(obj, LoadedAgain, Lists)
<1> DEFINE a0 == InfoLoaded(obj)
           a1 == UnitLoaded(a0, "uuid")
           a2 == UnitLoaded(a1, "dependencies")
           a3 == SegmentsLoaded(a2)
           a4 == UnitLoaded(a3, "symbols")
           a5 == DwarfLoaded(a4)
           a6 == UnitLoaded(a5, "commands")
           a7 == UnitLoaded(a6, "version")
<1>0. {"uuid", "dependencies", "symbols", "commands", "version"} \subseteq ListUnits
  BY DEF ListUnits, Wanted
<1>1. ObjInv(a0) /\ Keeps(obj, a0) /\ Relisted(obj, a0, {})
  BY InfoLoadedKeeps DEF Step, Relisted
<1> HIDE DEF a0
<1>2. ObjInv(a1) /\ Keeps(obj, a1) /\ Relisted(obj, a1, {"uuid"})
  <2>1. {} \cup {"uuid"} = {"uuid"}
    OBVIOUS
  <2> QED BY <1>0, <1>1, <2>1, UnitRelisted
<1> HIDE DEF a1
<1>3. ObjInv(a2) /\ Keeps(obj, a2) /\ Relisted(obj, a2, {"uuid"} \cup {"dependencies"})
  BY <1>0, <1>2, UnitRelisted
<1>3a. Relisted(obj, a2, {"dependencies"})
  BY <1>3 DEF Relisted, Lists
<1> HIDE DEF a2
<1>4. ObjInv(a3) /\ Keeps(obj, a3) /\ Relisted(obj, a3, {"dependencies"})
  <2>1. Step(a2, a3) /\ a3.found = a2.found
    BY <1>3, SegmentsLoadedKeeps
  <2> HIDE DEF a3
  <2> QED BY <1>3, <1>3a, <2>1, StepRelisted
<1> HIDE DEF a3
<1>5. ObjInv(a4) /\ Keeps(obj, a4) /\ Relisted(obj, a4, {"dependencies"} \cup {"symbols"})
  BY <1>0, <1>4, UnitRelisted
<1>5a. Relisted(obj, a4, {"dependencies"})
  BY <1>5 DEF Relisted, Lists
<1> HIDE DEF a4
<1>6. ObjInv(a5) /\ Keeps(obj, a5) /\ Relisted(obj, a5, {"dependencies"})
  <2>1. Step(a4, a5) /\ a5.found = a4.found
    BY <1>5, DwarfLoadedKeeps
  <2> HIDE DEF a5
  <2> QED BY <1>5, <1>5a, <2>1, StepRelisted
<1> HIDE DEF a5
<1>7. ObjInv(a6) /\ Keeps(obj, a6) /\ Relisted(obj, a6, {"dependencies"} \cup {"commands"})
  BY <1>0, <1>6, UnitRelisted
<1>7a. Relisted(obj, a6, Lists)
  <2>1. {"dependencies"} \cup {"commands"} = Lists
    BY DEF Lists
  <2> QED BY <1>7, <2>1
<1> HIDE DEF a6
<1>8. ObjInv(a7) /\ Keeps(obj, a7) /\ Relisted(obj, a7, Lists \cup {"version"})
  <2>1. "version" \in ListUnits \ Lists
    BY <1>0 DEF Lists
  <2> QED BY <1>7, <1>7a, <2>1, UnitRelisted
<1>9. LoadedAgain = a7
  BY DEF LoadedAgain, a0, a1, a2, a3, a4, a5, a6, a7
<1> HIDE DEF a7
<1> QED
  BY <1>8, <1>9 DEF Relisted, Lists

(* CMachO::load, with the source there or not. *)
LEMMA LoadKeeps ==
    ASSUME IInv, Load
    PROVE  /\ ObjInv(obj') /\ Keeps(obj, obj')
           /\ \/ Relisted(obj, obj', Lists)
              \/ Relisted(obj, obj', {}) /\ \A u \in Lists : u \in obj'.done <=> u \in obj.done
           /\ loads' = loads + 1 /\ loads < MaxLoads
           /\ UNCHANGED <<program, there, agg, fault>>
<1>0. Context /\ ObjInv(obj)
  BY DEF IInv
<1>1. /\ obj' = IF there /\ file # <<>> THEN LoadedAgain
                ELSE [obj EXCEPT !.done = @ \ {"info"}]
      /\ loads' = loads + 1 /\ loads < MaxLoads
      /\ UNCHANGED <<program, there, agg, fault>>
  BY DEF Load
<1>2. CASE there /\ file # <<>>
  BY <1>0, <1>1, <1>2, LoadedAgainKeeps
<1>3. CASE ~(there /\ file # <<>>)
  <2> DEFINE p == [obj EXCEPT !.done = @ \ {"info"}]
  <2>1. /\ p.done = obj.done \ {"info"} /\ p.found = obj.found /\ p.segs = obj.segs
        /\ p.symtab = obj.symtab /\ p \in Object
    BY <1>0 DEF ObjInv, Object
  <2> HIDE DEF p
  <2>2. FoundOK(p) /\ SegmentsOK(p)
    BY <1>0, <2>1 DEF ObjInv, FoundOK, SegmentsOK, InMemory
  <2>3. Keeps(obj, p)
    <3>1. Step(obj, obj)
      BY <1>0, StepReflexive
    <3> QED BY <2>1, <3>1 DEF Step, Keeps
  <2>4. Relisted(obj, p, {}) /\ \A u \in Lists : u \in p.done <=> u \in obj.done
    BY <2>1 DEF Relisted, Lists
  <2>5. obj' = p
    BY <1>1, <1>3 DEF p
  <2> QED BY <1>1, <2>1, <2>2, <2>3, <2>4, <2>5 DEF ObjInv
<1> QED
  BY <1>2, <1>3

-------------------------------------------------------------------------------
(* Lists that are appended. *)
LEMMA ModShift ==
    ASSUME NEW k \in Nat, NEW l \in Nat \ {0}, NEW r \in 0 .. l - 1
    PROVE  (k * l + r) % l = r
<1> DEFINE x == k * l + r
           q == x \div l
           m == x % l
<1>0. k * l \in Nat /\ x \in Nat
  OBVIOUS
<1>1. q \in Int /\ m \in 0 .. l - 1 /\ x = l * q + m
  BY <1>0
<1> HIDE DEF q, m
<1>2. l * (q - k) = r - m
  BY <1>1
<1>3. ASSUME q - k >= 1 PROVE FALSE
  <2>1. l * (q - k) >= l
    BY <1>1, <1>3
  <2> QED BY <1>1, <1>2, <2>1
<1>4. ASSUME q - k <= -1 PROVE FALSE
  <2>1. l * (q - k) <= -l
    BY <1>1, <1>4
  <2> QED BY <1>1, <1>2, <2>1
<1>5. q - k = 0
  BY <1>1, <1>3, <1>4
<1>6. l * (q - k) = 0
  BY <1>5
<1> QED
  BY <1>1, <1>2, <1>6 DEF m

(* One more copy of what is repeated. *)
LEMMA RepeatedOnce ==
    ASSUME NEW S, NEW h \in Seq(S), NEW k \in Nat
    PROVE  Repeated(h, 0) = <<>> /\ Repeated(h, k) \o h = Repeated(h, k + 1)
<1> DEFINE l == Len(h)
           r(j) == Repeated(h, j)
<1>1. l \in Nat /\ k * l \in Nat /\ (k + 1) * l = k * l + l /\ 0 * l = 0
  OBVIOUS
<1>2. ASSUME NEW j \in Nat, j * l \in Nat
      PROVE  r(j) \in [1 .. j * l -> S] /\ r(j) \in Seq(S) /\ Len(r(j)) = j * l
  <2>1. ASSUME NEW i \in 1 .. j * l PROVE ((i - 1) % l) + 1 \in 1 .. l
    <3>1. l # 0
      BY <1>2, <2>1
    <3> QED BY <1>1, <2>1, <3>1
  <2>2. r(j) \in [1 .. j * l -> S]
    BY <2>1 DEF Repeated
  <2> HIDE DEF r
  <2> QED BY <1>2, <2>2
<1>3. Repeated(h, 0) = <<>>
  <2>1. r(0) \in Seq(S) /\ Len(r(0)) = 0
    BY <1>1, <1>2
  <2> HIDE DEF r
  <2>2. r(0) = <<>>
    BY <2>1
  <2> QED BY <2>2 DEF r
<1>4. r(k) \o h = r(k + 1)
  <2>1. /\ r(k) \in Seq(S) /\ Len(r(k)) = k * l
        /\ r(k + 1) \in Seq(S) /\ Len(r(k + 1)) = k * l + l
    BY <1>1, <1>2
  <2> DEFINE c == r(k) \o h
  <2>2. ASSUME NEW i \in 1 .. k * l + l PROVE c[i] = r(k + 1)[i]
    <3>1. r(k + 1)[i] = h[((i - 1) % l) + 1]
      BY <1>1 DEF Repeated
    <3>2. CASE i <= k * l
      <4>1. r(k)[i] = h[((i - 1) % l) + 1]
        BY <1>1, <3>2 DEF Repeated
      <4>2. c[i] = r(k)[i]
        <5> HIDE DEF r, l
        <5> QED BY <1>1, <2>1, <3>2 DEF l
      <4> QED BY <3>1, <4>1, <4>2
    <3>3. CASE i > k * l
      <4>1. l # 0 /\ i - 1 - k * l \in 0 .. l - 1
        BY <1>1, <3>3
      <4> DEFINE m == i - 1 - k * l
      <4>2. k * l + m = i - 1
        BY <1>1
      <4>3. (k * l + m) % l = m
        <5> HIDE DEF m, l
        <5>1. m \in 0 .. l - 1 /\ l \in Nat \ {0}
          BY <1>1, <4>1 DEF m
        <5> QED BY <5>1, ModShift
      <4>4. r(k + 1)[i] = h[i - k * l]
        BY <1>1, <3>1, <4>2, <4>3
      <4>5. c[i] = h[i - k * l]
        <5> HIDE DEF r, l
        <5> QED BY <1>1, <2>1, <3>3 DEF l
      <4> QED BY <4>4, <4>5
    <3>4. i <= k * l \/ i > k * l
      <4> HIDE DEF l
      <4> QED BY <1>1
    <3> QED BY <3>2, <3>3, <3>4
  <2>3. c \in Seq(S) /\ Len(c) = k * l + l
    <3> HIDE DEF r
    <3>0. r(k) \in Seq(S)
      BY <2>1
    <3>1. c \in Seq(S) /\ Len(c) = Len(r(k)) + Len(h)
      BY <3>0
    <3> QED BY <2>1, <3>1
  <2> HIDE DEF c, r
  <2>4. c = r(k + 1)
    BY <2>1, <2>2, <2>3
  <2> QED BY <2>4 DEF c
<1> QED
  BY <1>3, <1>4

(* What a call or a load appends to a list is one more copy of what the file
   has, and the bound on the copies grows with it. *)
LEMMA ListedLazily ==
    ASSUME Context, NEW o, NEW p, NEW l \in Nat, ListedOK(o, l), Lazily(o, p)
    PROVE  ListedOK(p, l)
<1> SUFFICES ASSUME NEW u \in Lists
             PROVE  \E k \in 0 .. l + (IF u \in p.done THEN 1 ELSE 0) :
                       p.found[u] = Repeated(Hits(u), k)
  BY DEF ListedOK
<1>1. PICK k \in 0 .. l + (IF u \in o.done THEN 1 ELSE 0) : o.found[u] = Repeated(Hits(u), k)
  BY DEF ListedOK
<1>2. CASE p.found[u] = o.found[u] /\ (u \in o.done => u \in p.done)
  <2>1. k \in 0 .. l + (IF u \in p.done THEN 1 ELSE 0)
    BY <1>2
  <2> QED BY <1>1, <1>2, <2>1
<1>3. CASE u \notin o.done /\ u \in p.done /\ p.found[u] = o.found[u] \o Hits(u)
  <2>1. Repeated(Hits(u), k) \o Hits(u) = Repeated(Hits(u), k + 1)
    <3>1. u \in ListUnits
      BY DEF Lists, ListUnits, Wanted
    <3>2. Hits(u) \in Seq(LoadCommand)
      BY <3>1, HitsRight
    <3>3. k \in Nat
      OBVIOUS
    <3> QED BY <3>2, <3>3, RepeatedOnce
  <2>2. k + 1 \in 0 .. l + (IF u \in p.done THEN 1 ELSE 0)
    BY <1>3
  <2> QED BY <1>1, <1>3, <2>1, <2>2
<1> QED
  BY <1>2, <1>3 DEF Lazily

(* A load appends at most one copy and is counted. *)
LEMMA ListedAgain ==
    ASSUME Context, NEW o, NEW p, NEW l \in Nat, ListedOK(o, l),
           \/ Relisted(o, p, Lists)
           \/ Relisted(o, p, {}) /\ \A u \in Lists : u \in p.done <=> u \in o.done
    PROVE  ListedOK(p, l + 1)
<1> SUFFICES ASSUME NEW u \in Lists
             PROVE  \E k \in 0 .. l + 1 + (IF u \in p.done THEN 1 ELSE 0) :
                       p.found[u] = Repeated(Hits(u), k)
  BY DEF ListedOK
<1>1. PICK k \in 0 .. l + (IF u \in o.done THEN 1 ELSE 0) : o.found[u] = Repeated(Hits(u), k)
  BY DEF ListedOK
<1>2. /\ p.found[u] \in {o.found[u], o.found[u] \o Hits(u)}
      /\ p.found[u] # o.found[u] => u \in p.done
      /\ u \in o.done => u \in p.done
  BY DEF Relisted
<1>3. CASE p.found[u] = o.found[u]
  <2>1. k \in 0 .. l + 1 + (IF u \in p.done THEN 1 ELSE 0)
    BY <1>2
  <2> QED BY <1>1, <1>3, <2>1
<1>4. CASE p.found[u] # o.found[u]
  <2>1. Repeated(Hits(u), k) \o Hits(u) = Repeated(Hits(u), k + 1)
    <3>1. u \in ListUnits
      BY DEF Lists, ListUnits, Wanted
    <3>2. Hits(u) \in Seq(LoadCommand)
      BY <3>1, HitsRight
    <3>3. k \in Nat
      OBVIOUS
    <3> QED BY <3>2, <3>3, RepeatedOnce
  <2>2. k + 1 \in 0 .. l + 1 + (IF u \in p.done THEN 1 ELSE 0)
    BY <1>2, <1>4
  <2> QED BY <1>1, <1>2, <1>4, <2>1, <2>2
<1> QED
  BY <1>3, <1>4

-------------------------------------------------------------------------------
(* The program does not change, and what is said of its file with it. *)
LEMMA SameProgram ==
    ASSUME program' = program
    PROVE  /\ there' = there => (Context' <=> Context)
           /\ (ObjInv(obj))' <=> ObjInv(obj')
           /\ \A l : (ListedOK(obj, l))' <=> ListedOK(obj', l)
           /\ SegmentNames' = SegmentNames
           /\ HasAll' <=> HasAll
           /\ SectionsOf(kSEGMENT_DWARF)' = SectionsOf(kSEGMENT_DWARF)
           /\ \A n : SectionsOf(n)' = SectionsOf(n)
<1>1. file' = file /\ Segments' = Segments
  BY DEF file, Segments
<1>2. SegmentNames' = SegmentNames
  BY <1>1 DEF SegmentNames
<1>3. \A n : FirstOf(n)' = FirstOf(n)
  BY <1>1 DEF FirstOf
<1>4. \A n : SectionsOf(n)' = SectionsOf(n)
  BY <1>1, <1>3 DEF SectionsOf
<1>5. SectionsOf(kSEGMENT_DWARF)' = SectionsOf(kSEGMENT_DWARF)
  BY <1>1 DEF SectionsOf, FirstOf
<1>6. HasAll' <=> HasAll
  BY <1>2, <1>5 DEF HasAll
<1>7. AskedNames' = AskedNames /\ Object' = Object
  BY <1>2 DEF AskedNames, Object
<1>8. \A u, i : Counts(u, i)' <=> Counts(u, i)
  BY <1>1 DEF Counts
<1>9. FoundOK(obj)' <=> FoundOK(obj')
  BY <1>1, <1>8 DEF FoundOK
<1>10. \A s, n : SegmentFaithful(s, n)' <=> SegmentFaithful(s, n)
  BY <1>2, <1>3, <1>4 DEF SegmentFaithful
<1>11. InMemory(obj)' <=> InMemory(obj')
  BY <1>2, <1>4, <1>6 DEF InMemory
<1>12. SegmentsOK(obj)' <=> SegmentsOK(obj')
  BY <1>2, <1>10, <1>11 DEF SegmentsOK
<1>13. \A u : Hits(u)' = Hits(u)
  BY <1>1 DEF Hits
<1>14. \A l : (ListedOK(obj, l))' <=> ListedOK(obj', l)
  BY <1>13 DEF ListedOK
<1>15. (ObjInv(obj))' <=> ObjInv(obj')
  BY <1>7, <1>9, <1>12 DEF ObjInv
<1>16. there' = there => (Context' <=> Context)
  BY DEF Context
<1> QED
  BY <1>2, <1>4, <1>5, <1>6, <1>14, <1>15, <1>16

(* What an aggregator found, the object keeps. *)
LEMMA BackedStays ==
    ASSUME IInv, Keeps(obj, obj'), ObjInv(obj'), program' = program, there' = there, agg' = agg
    PROVE  AggregatorBacked'
<1> SUFFICES ASSUME agg = TRUE PROVE AggregatorBacked'
  BY DEF AggregatorBacked
<1>1. /\ kSEGMENT_DWARF \in DOMAIN obj.segs /\ obj.segs[kSEGMENT_DWARF] # NULL
      /\ \A c \in DebugSections \ {kSECTION_DEBUG_RANGES} :
            /\ c \in SectionsOf(kSEGMENT_DWARF)
            /\ c \in DOMAIN obj.segs[kSEGMENT_DWARF].secs
            /\ obj.segs[kSEGMENT_DWARF].secs[c] # NULL
  BY DEF IInv, AggregatorBacked, HasSegment, HasSection, SectionPresent
<1>2. /\ kSEGMENT_DWARF \in DOMAIN obj'.segs /\ obj'.segs[kSEGMENT_DWARF] # NULL
      /\ \A c \in DebugSections \ {kSECTION_DEBUG_RANGES} :
            /\ c \in DOMAIN obj'.segs[kSEGMENT_DWARF].secs
            /\ obj'.segs[kSEGMENT_DWARF].secs[c] # NULL
  BY <1>1 DEF Keeps, KeptSegment
<1> QED
  BY <1>1, <1>2, SameProgram DEF AggregatorBacked, HasSegment, HasSection, SectionPresent

(* A call that answers as it should keeps the invariant. *)
LEMMA AnsweredInvariant ==
    ASSUME IInv, fault = NULL, Answered(obj),
           agg' = agg \/ (agg' \in BOOLEAN /\ (agg' = TRUE => AggregatorBacked'))
    PROVE  IInv'
<1>1. /\ Context /\ ObjInv(obj') /\ Keeps(obj, obj') /\ Lazily(obj, obj')
      /\ UNCHANGED <<program, there, loads>>
  BY DEF IInv, Answered, Step
<1>2. Context' /\ ObjInv(obj)'
  BY <1>1, SameProgram
<1>3. loads' \in 0 .. MaxLoads
  BY <1>1 DEF IInv
<1>4. ListedOK(obj, loads)'
  <2>1. ListedOK(obj', loads)
    <3>1. loads \in Nat /\ ListedOK(obj, loads)
      BY MaxLoadsAssumption DEF IInv
    <3> QED BY <1>1, <3>1, ListedLazily
  <2> QED BY <1>1, <2>1, SameProgram DEF ListedOK
<1>5. agg' \in BOOLEAN \cup {NULL} /\ AggregatorBacked'
  <2>1. CASE agg' = agg
    BY <1>1, <2>1, BackedStays DEF IInv
  <2>2. CASE agg' \in BOOLEAN /\ (agg' = TRUE => AggregatorBacked')
    BY <2>2 DEF AggregatorBacked
  <2> QED BY <2>1, <2>2
<1>6. FaultsExplained'
  <2>1. CASE fault' = fault
    BY <2>1 DEF FaultsExplained
  <2>2. CASE \E n, c : fault' = <<n, c>> /\ Explained(obj', n, c)
    <3>1. PICK n, c : fault' = <<n, c>> /\ Explained(obj', n, c)
      BY <2>2
    <3>2. fault'[1] = n /\ fault'[2] = c
      BY <3>1
    <3>3. Absent(n, c) <=> FaultsOnAbsent'
      BY <1>1, <3>2
         DEF Absent, FaultsOnAbsent, SectionsOf, FirstOf, SegmentNames, Segments, file
    <3>4. HasAll' <=> HasAll
      BY <1>1, SameProgram
    <3> QED BY <1>1, <3>1, <3>2, <3>3, <3>4 DEF FaultsExplained, NullUnder, Explained
  <2> QED BY <2>1, <2>2 DEF Answered
<1> QED
  BY <1>2, <1>3, <1>4, <1>5, <1>6 DEF IInv

(* An object that was just built. *)
LEMMA InitIInv == Init => IInv
<1> SUFFICES ASSUME Init PROVE IInv
  OBVIOUS
<1>1. Context
  BY ProgramsAssumption DEF Init, Context
<1>2. /\ obj.done = {} /\ obj.segs = <<>> /\ obj.symtab = FALSE /\ obj.lines = FALSE
      /\ obj.found = [u \in ListUnits |-> <<>>]
  BY DEF Init
<1>3. \A u \in ListUnits : obj.found[u] = <<>>
  BY <1>2
<1>4. DOMAIN <<>> = {} /\ <<>> \in [{} -> CSegment \cup {NULL}] /\ <<>> \in Seq(LoadCommand)
  OBVIOUS
<1>5. obj \in Object
  <2>1. <<>> \in Maps(AskedNames, CSegment \cup {NULL})
    BY <1>4, MapsIntro
  <2>2. obj.found \in [ListUnits -> Seq(LoadCommand)]
    BY <1>2, <1>4
  <2> QED BY <1>2, <2>1, <2>2 DEF Init, Object
<1>6. FoundOK(obj)
  <2>1. Singles \subseteq ListUnits /\ "uuid" \in ListUnits
    BY DEF Singles, ListUnits, Wanted
  <2> QED BY <1>2, <1>3, <1>4, <2>1 DEF FoundOK
<1>7. SegmentsOK(obj)
  BY <1>2, <1>4 DEF SegmentsOK, InMemory
<1>8. ListedOK(obj, 0)
  <2>1. ASSUME NEW u \in Lists PROVE obj.found[u] = Repeated(Hits(u), 0)
    <3>1. u \in ListUnits
      BY DEF Lists, ListUnits, Wanted
    <3>2. Hits(u) \in Seq(LoadCommand)
      BY <1>1, <3>1, HitsRight
    <3> QED BY <1>3, <3>1, <3>2, RepeatedOnce
  <2> QED BY <1>2, <2>1 DEF ListedOK
<1>9. loads = 0 /\ loads \in 0 .. MaxLoads /\ agg = NULL /\ fault = NULL
  BY MaxLoadsAssumption DEF Init
<1> QED
  BY <1>1, <1>5, <1>6, <1>7, <1>8, <1>9, NULLAssumption
     DEF IInv, ObjInv, AggregatorBacked, FaultsExplained

(* A step of the program, and that it forgets nothing. *)
LEMMA NextIInv ==
    ASSUME IInv, [Next]_vars
    PROVE  IInv' /\ (Keeps(obj, obj') \/ UNCHANGED vars)
<1> DEFINE Good == IInv' /\ Keeps(obj, obj')
<1>0. ASSUME fault = NULL, Answered(obj), agg' = agg PROVE Good
  BY <1>0, AnsweredInvariant DEF Answered, Step
<1>1. CASE Load
  <2>1. /\ ObjInv(obj') /\ Keeps(obj, obj')
        /\ loads' = loads + 1 /\ loads < MaxLoads
        /\ UNCHANGED <<program, there, agg, fault>>
    BY <1>1, LoadKeeps
  <2>2. loads \in Nat /\ ListedOK(obj, loads) /\ Context
    BY MaxLoadsAssumption DEF IInv
  <2>3. ListedOK(obj', loads + 1)
    BY <1>1, <2>2, LoadKeeps, ListedAgain
  <2>4. ListedOK(obj, loads)'
    BY <2>1, <2>3, SameProgram DEF ListedOK
  <2>5. loads' \in 0 .. MaxLoads
    BY <2>1, MaxLoadsAssumption DEF IInv
  <2>6. fault = NULL
    BY <1>1 DEF Load, Made
  <2> QED
    BY <2>1, <2>2, <2>4, <2>5, <2>6, SameProgram, BackedStays DEF IInv, FaultsExplained
<1>2. CASE ReadHeader
  BY <1>0, <1>2, ReadHeaderAnswered DEF ReadHeader, Made
<1>3. CASE \E u \in ListUnits : Query(u)
  BY <1>0, <1>3, QueryAnswered DEF Query, Made
<1>4. CASE GetDebugLines
  BY <1>0, <1>4, GetDebugLinesAnswered DEF GetDebugLines, Made
<1>5. CASE \E resolved \in BOOLEAN : LookUpSymbols(resolved)
  BY <1>0, <1>5, LookUpSymbolsAnswered DEF LookUpSymbols, Made
<1>6. CASE HasDebugInformation
  BY <1>0, <1>6, HasDebugInformationAnswered DEF HasDebugInformation, Made
<1>7. CASE \E rows \in BOOLEAN : DumpDebugLines(rows)
  BY <1>0, <1>7, DumpDebugLinesAnswered DEF DumpDebugLines, Made
<1>8. CASE NewMachOW
  <2>1. fault = NULL
    BY <1>8 DEF NewMachOW, Made
  <2> QED BY <1>8, <2>1, NewMachOWAnswered, AnsweredInvariant DEF Answered, Step
<1>9. CASE GetVMAddress
  BY <1>0, <1>9, GetVMAddressAnswered DEF GetVMAddress, Made
<1>10. CASE GetSHA256
  BY <1>0, <1>10, GetSHA256Answered DEF GetSHA256, Made
<1>11. CASE \E n \in SegmentNames \cup {kSEGMENT_TEXT, kSEGMENT_DWARF} : ShowSegment(n)
  BY <1>0, <1>11, ShowSegmentAnswered DEF ShowSegment, Made
<1>12. CASE \E n \in SegmentNames, c \in Sections : ShowSection(n, c)
  BY <1>0, <1>12, ShowSectionAnswered DEF ShowSection, Made
<1>13. CASE SourceChanges
  <2>1. /\ program' = program /\ obj' = obj /\ agg' = agg /\ fault' = fault /\ loads' = loads
        /\ fault = NULL /\ program.onDisk /\ there' = ~there
    BY <1>13 DEF SourceChanges
  <2>2. Context'
    BY <2>1 DEF Context, IInv
  <2>3. (ObjInv(obj) /\ ListedOK(obj, loads) /\ AggregatorBacked)'
    BY <2>1, SameProgram DEF IInv, ListedOK, AggregatorBacked, HasSegment, HasSection, SectionPresent
  <2>4. Keeps(obj, obj')
    <3>1. Step(obj, obj)
      BY StepReflexive DEF IInv
    <3> QED BY <2>1, <3>1 DEF Step
  <2> QED BY <2>1, <2>2, <2>3, <2>4 DEF IInv, FaultsExplained
<1>14. CASE UNCHANGED vars
  <2>1. UNCHANGED <<program, there, obj, agg, fault, loads>>
    BY <1>14 DEF vars
  <2>2. (Context /\ ObjInv(obj) /\ ListedOK(obj, loads))'
    BY <2>1, SameProgram DEF IInv, ListedOK
  <2>3. AggregatorBacked'
    BY <2>1, SameProgram DEF IInv, AggregatorBacked, HasSegment, HasSection, SectionPresent
  <2>4. FaultsExplained'
    <3>1. FaultsOnAbsent' <=> FaultsOnAbsent
      BY <2>1 DEF FaultsOnAbsent, SectionsOf, FirstOf, SegmentNames, Segments, file
    <3> QED BY <2>1, <3>1, SameProgram DEF IInv, FaultsExplained, NullUnder
  <2> QED BY <1>14, <2>1, <2>2, <2>3, <2>4 DEF IInv
<1> HIDE DEF Good
<1> QED
  BY <1>1, <1>2, <1>3, <1>4, <1>5, <1>6, <1>7, <1>8, <1>9, <1>10, <1>11, <1>12, <1>13, <1>14
     DEF Next, Good

-------------------------------------------------------------------------------
(* The inductive invariant of every run of the object. *)
THEOREM ObjectInvariant == Spec => []IInv
<1>1. Init => IInv
  BY InitIInv
<1>2. IInv /\ [Next]_vars => IInv'
  BY NextIInv
<1> QED
  BY <1>1, <1>2, PTL DEF Spec

(* The tables are of the types the code gives them: each list holds commands of
   its kind, each segment is NULL or a command of the file with sections that
   somebody could name (CMachO and its units). *)
THEOREM TypeCorrect == Spec => []TypeOK
<1>1. IInv => TypeOK
  <2> SUFFICES ASSUME IInv PROVE TypeOK
    OBVIOUS
  <2>1. Context /\ ObjInv(obj)
    BY DEF IInv
  <2>2. DOMAIN obj.segs \subseteq SegmentNames \cup {kSEGMENT_TEXT, kSEGMENT_DWARF}
    BY <2>1, ObjectTyped DEF ObjInv, AskedNames
  <2>3. ASSUME NEW n \in DOMAIN obj.segs, obj.segs[n] # NULL PROVE SegmentOK(obj.segs[n])
    <3>1. obj.segs[n] \in CSegment /\ SegmentFaithful(obj.segs[n], n)
      BY <2>1, <2>3, ObjectTyped DEF ObjInv, SegmentsOK
    <3>2. n \in SegmentNames /\ obj.segs[n].at = FirstOf(n)
      BY <3>1 DEF SegmentFaithful
    <3>3. FirstOf(n) \in Segments /\ SectionsOf(n) \cup DebugSections \subseteq Sections
      <4>1. DebugSections \subseteq Sections
        BY DEF Sections
      <4> QED BY <2>1, <3>2, <4>1, FirstOfIsFirst
    <3>4. /\ obj.segs[n].loaded \in BOOLEAN
          /\ \A c \in DOMAIN obj.segs[n].secs : obj.segs[n].secs[c] \in BOOLEAN \cup {NULL}
      BY <3>1, SegmentTyped
    <3> QED BY <3>1, <3>2, <3>3, <3>4 DEF SegmentOK, SegmentFaithful
  <2>4. /\ obj.done \subseteq Units /\ obj.symtab \in BOOLEAN /\ obj.lines \in BOOLEAN
        /\ \A u \in ListUnits : \A i \in DOMAIN obj.found[u] :
              obj.found[u][i].cmd \in Wanted[u]
    BY <2>1 DEF ObjInv, Object, FoundOK
  <2> QED
    BY <2>1, <2>2, <2>3, <2>4 DEF IInv, Context, TypeOK
<1> QED
  BY <1>1, ObjectInvariant, PTL

(* What the tables hold is the file's, whatever was called in which order and
   however often the source was away. *)
THEOREM TablesAreFaithful == Spec => []TablesFaithful
<1>1. IInv => TablesFaithful
  BY DEF IInv, ObjInv, FoundOK, SegmentsOK, SegmentFaithful, TablesFaithful, Singles
<1> QED
  BY <1>1, ObjectInvariant, PTL

(* The map of segments is complete or empty, lists are repeated at most once
   per load, and a UUID that was not found is looked for again. *)
THEOREM LoadsWhole == Spec => []LoadsAreWhole
<1>1. IInv => LoadsAreWhole
  <2> SUFFICES ASSUME IInv PROVE LoadsAreWhole
    OBVIOUS
  <2>1. loads \in Nat
    BY MaxLoadsAssumption DEF IInv
  <2>2. ASSUME NEW u \in Lists PROVE \E k \in 0 .. loads + 1 : obj.found[u] = Repeated(Hits(u), k)
    <3>1. PICK k \in 0 .. loads + (IF u \in obj.done THEN 1 ELSE 0) :
             obj.found[u] = Repeated(Hits(u), k)
      BY DEF IInv, ListedOK
    <3>2. k \in 0 .. loads + 1
      BY <2>1, <3>1
    <3> QED BY <3>1, <3>2
  <2> QED
    BY <2>2 DEF IInv, ObjInv, FoundOK, SegmentsOK, LoadsAreWhole, Lists
<1> QED
  BY <1>1, ObjectInvariant, PTL

(* A NULL is met only under a name the file does not have, while the file is
   away, or where a lookup left it; on an object in memory with a __TEXT and
   with a __DWARF that is complete, if it has one, only by clients that look up
   without testing: GetSymbolNameAt, HasDebugInformation, DumpDebugLines. *)
THEOREM NullsExplained == Spec => []FaultsExplained
<1>1. IInv => FaultsExplained
  BY DEF IInv
<1> QED
  BY <1>1, ObjectInvariant, PTL

(* Nothing that was handed out is forgotten, in any step. *)
THEOREM NothingIsForgotten == Spec => NothingForgotten
<1> DEFINE Kept ==
             /\ \A u \in ListUnits : Extends(obj.found[u], obj'.found[u])
             /\ DOMAIN obj.segs \subseteq DOMAIN obj'.segs
             /\ \A n \in DOMAIN obj.segs :
                   obj.segs[n] # NULL => KeptSegment(obj.segs[n], obj'.segs[n])
<1>1. ASSUME IInv, [Next]_vars PROVE [Kept]_vars
  <2>1. CASE UNCHANGED vars
    BY <2>1
  <2>2. CASE Keeps(obj, obj')
    <3>1. ObjInv(obj) /\ ObjInv(obj')
      <4>1. IInv'
        BY <1>1, NextIInv
      <4>2. program' = program
        BY <1>1 DEF vars, Next, Load, ReadHeader, Query, GetDebugLines, LookUpSymbols,
           HasDebugInformation, DumpDebugLines, NewMachOW, GetVMAddress, GetSHA256, ShowSegment,
           ShowSection, SourceChanges, Returns, Faults, AsksForLines
      <4> QED BY <1>1, <4>1, <4>2, SameProgram DEF IInv
    <3>2. ASSUME NEW u \in ListUnits PROVE Extends(obj.found[u], obj'.found[u])
      <4>1. /\ obj.found[u] \in Seq(LoadCommand) /\ obj'.found[u] \in Seq(LoadCommand)
            /\ Grown(obj.found[u], obj'.found[u])
        BY <2>2, <3>1 DEF ObjInv, Object, Keeps
      <4> DEFINE s == obj.found[u]
                 t == obj'.found[u]
      <4>2. Len(s) \in Nat /\ Len(t) \in Nat /\ Len(s) <= Len(t)
        BY <4>1 DEF Grown
      <4> HIDE DEF s, t
      <4>3. SubSeq(t, 1, Len(s)) = s
        BY <4>1, <4>2 DEF Grown, s, t
      <4> QED BY <4>2, <4>3 DEF Extends, s, t
    <3> QED BY <2>2, <3>2 DEF Keeps
  <2> QED BY <1>1, <2>1, <2>2, NextIInv
<1>2. Spec => [][Kept]_vars
  BY <1>1, ObjectInvariant, PTL DEF Spec
<1> QED
  BY <1>2 DEF NothingForgotten
===============================================================================
