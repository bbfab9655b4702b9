------------------------------- MODULE Aggregator -------------------------------
(***************************************************************************)
(* dwarf::CDWARFAggregator, from the unit an address belongs to: the       *)
(* subprogram and the subroutines inlined in it are found (CompileUnit),   *)
(* each is named, by following its references to an entry with a name and  *)
(* by spelling the scopes and parameters around that entry, and each frame *)
(* gets the line it is at: the innermost from the line table, the others   *)
(* from where the next one is called.                                      *)
(* All attributes come from entries that are read when they are needed, so *)
(* a name depends on what was read before it.                              *)
(* A definition marked mutant is a plausible bug in the one below it; no   *)
(* behaviour uses it.                                                      *)
(***************************************************************************)
EXTENDS CompileUnit

CONSTANTS
    Ranged, \* contents of the units that ranges of addresses lead to
    FileMod, \* numbers of files are t_uint16: 2 ^ 16
    BAD_ROW \* kBAD_ROW_IDX

(* A unit with code has an entry of its own, and a row for every address or
   none. *)
AggregatorAssumption ==
    /\ Ranged \subseteq Contents /\ FileMod \in Nat \ {0}
    /\ \A u \in Ranged :
        /\ Len(u.items) > 0 /\ u.items[1].kind = "entry"
        /\ u.hasLines \in BOOLEAN /\ u.files \in Nat
        /\ \A a \in Addresses : u.rows[a] # BAD_ROW =>
              u.rows[a].line \in Nat /\ u.rows[a].file \in 0 .. FileMod - 1
        /\ \A o \in 1 .. Len(u.items) : u.items[o].kind = "entry" =>
            /\ u.items[o].name \in STRING \cup {INVALID}
            /\ u.items[o].callLine \in Attribute /\ u.items[o].callFile \in Attribute
            /\ u.items[o].artificial \in BOOLEAN /\ u.items[o].objc \in BOOLEAN

VARIABLES
    at,     \* "idle", "naming", "follow", "name" (of chain[nth]), "called" or "line"
    chain,  \* the subprogram and its inlined subroutines
    nth,
    cur,    \* entry whose attributes are looked at, or INVALID
    named,  \* entry the name is taken from, or INVALID
    frames, \* the SubProgramTable
    fault   \* a row or a file that is not there was used

frame == <<at, chain, nth, cur, named, frames, fault>>
allVars == <<vars, frame>>

Unnamed == [linkage |-> INVALID, scopes |-> <<>>, function |-> INVALID, params |-> <<>>]
EmptyFrame == [name |-> Unnamed, line |-> 0, file |-> 0]

AggregatorInit ==
    /\ Init /\ unit \in Ranged
    /\ at = "idle" /\ chain = <<>> /\ nth = 0
    /\ cur = INVALID /\ named = INVALID
    /\ frames = <<>> /\ fault = FALSE

-------------------------------------------------------------------------------
(* The getters: an attribute that was not read is absent. *)
Attr(es, i, a) == IF es[i].extracted THEN ItemOf(i)[a] ELSE INVALID
getIdxByOffset(offset) ==
    LET I == {i \in Idxs : entries[i].Offset = offset}
    IN IF I = {} THEN INVALID ELSE CHOOSE i \in I : TRUE

OfTag(tag, walk) == Chosen(walk, {i \in Idxs : getTag(i) = tag})

getInfoByAddress(address) ==
    /\ at = "idle" /\ ~fault
    /\ getDIEIdxsBy(address)
    /\ LET subprograms == OfTag("subprogram", answer')
           subprogram == IF subprograms = <<>> THEN 1 ELSE subprograms[1]
       IN /\ chain' = <<subprogram>> \o OfTag("inlined_subroutine", answer')
          /\ at' = "naming" /\ nth' = 1
    /\ cur' = INVALID /\ named' = INVALID
    /\ frames' = <<>>
    /\ UNCHANGED fault

(* aranges() has to give this unit for the entry's low_pc. *)
Owned(i) ==
    LET low == Attr(entries, i, "low") IN low = INVALID \/ low \notin unit.lost

BeginName ==
    /\ at = "naming"
    /\ frames' = Append(frames, EmptyFrame)
    /\ at' = IF Owned(chain[nth]) THEN "follow" ELSE "called"
    /\ cur' = chain[nth] /\ named' = INVALID
    /\ UNCHANGED <<vars, chain, nth, fault>>

(* The first reference of an entry without a name. *)
Reference(i) ==
    LET first == IF Attr(entries, i, "spec") # INVALID THEN "spec"
                 ELSE IF Attr(entries, i, "origin") # INVALID THEN "origin" ELSE "object"
    IN getIdxByOffset(Attr(entries, i, first))

HasName(i) == Attr(entries, i, "name") # INVALID \/ Attr(entries, i, "linkage") # INVALID

FollowStuck ==                                                      \* mutant
    /\ at = "follow" /\ cur # INVALID /\ getTag(cur) = "inlined_subroutine"
    /\ cur' = cur
    /\ UNCHANGED <<vars, at, chain, nth, named, frames, fault>>
FollowOrigin ==
    /\ at = "follow" /\ cur # INVALID /\ getTag(cur) = "inlined_subroutine"
    /\ cur' = getIdxByOffset(Attr(entries, cur, "origin"))
    /\ UNCHANGED <<vars, at, chain, nth, named, frames, fault>>

FollowReference ==
    /\ at = "follow" /\ cur # INVALID /\ getTag(cur) = "subprogram" /\ ~HasName(cur)
    /\ cur' = Reference(cur)
    /\ UNCHANGED <<vars, at, chain, nth, named, frames, fault>>

(* A named subprogram; an entry of another kind ends the search nameless. *)
EndFollow ==
    /\ at = "follow"
    /\ \/ cur = INVALID
       \/ cur # INVALID /\ getTag(cur) = "subprogram" /\ HasName(cur)
       \/ cur # INVALID /\ getTag(cur) \notin {"inlined_subroutine", "subprogram"}
    /\ named' = IF cur # INVALID /\ getTag(cur) = "subprogram" THEN cur ELSE INVALID
    /\ at' = "name"
    /\ UNCHANGED <<vars, chain, nth, cur, frames, fault>>

-------------------------------------------------------------------------------
Scoping == {"structure_type", "class_type", "namespace"}
Suffix == {"pointer_type", "reference_type", "array_type", "ptr_to_member_type"}
Prefix == {"const_type", "volatile_type"}

ScopesOf(i) == Chosen(Reverse(getParentsIdxs(i)), {j \in Idxs : getTag(j) \in Scoping})

(* The entries a parameter's type leads through, up to one with a name.  A
   chain of more entries than there are goes in a circle. *)
TypeNext ==
    [i \in Idxs |-> IF ItemOf(i).type = INVALID THEN INVALID ELSE getIdxByOffset(ItemOf(i).type)]
WithName == {i \in Idxs : ItemOf(i).name # INVALID}
TypeFrom(i, c) == TypeNext[IF c = <<>> THEN i ELSE Last(c)]
Ended(i, c) == TypeFrom(i, c) = INVALID \/ (c # <<>> /\ Last(c) \in WithName)
TypeChain(i) ==
    LET met[n \in 0 .. Len(entries)] ==
            IF n = 0 THEN <<>>
            ELSE LET c == met[n - 1]
                 IN IF Ended(i, c) THEN c ELSE Append(c, TypeFrom(i, c))
    IN met[Len(entries)]

TagsOf(c) == [n \in DOMAIN c |-> getTag(c[n])]
(* Prefixes in the order met, the name, suffixes in the order met; without a
   name at the end of the chain only the prefixes are there. *)
SpelledPlain(c) ==                                                  \* mutant
    LET name == IF c = <<>> THEN INVALID ELSE ItemOf(Last(c)).name
    IN [prefix |-> <<>>, name |-> name, suffix |-> <<>>]
Spelled(c) ==
    LET name == IF c = <<>> THEN INVALID ELSE ItemOf(Last(c)).name
    IN [prefix |-> Chosen(TagsOf(c), Prefix), name |-> name,
        suffix |-> IF name = INVALID THEN <<>> ELSE Chosen(TagsOf(c), Suffix)]

Parameters(i) ==
    Chosen(getChildrensIdxs(i),
        {j \in Idxs : getTag(j) = "formal_parameter" /\ ~ItemOf(j).artificial})

(* The scopes, all children and the types of the parameters are read now. *)
ReadFor(i) ==
    ToSet(ScopesOf(i)) \cup ToSet(getChildrensIdxs(i))
        \cup UNION {ToSet(TypeChain(j)) : j \in ToSet(Parameters(i))}

FullNameUnread(i) ==                                                \* mutant
    [Unnamed EXCEPT !.scopes = [n \in DOMAIN ScopesOf(i) |-> Attr(entries, ScopesOf(i)[n], "name")],
                   !.function = Attr(entries, i, "name")]
(* An Objective-C method has scope and parameters in its name. *)
makeFullSubRoutineName(i) ==
    LET es == fullExtract(entries, ReadFor(i)) IN
    IF ItemOf(i).objc THEN [Unnamed EXCEPT !.function = Attr(entries, i, "name")]
    ELSE [Unnamed EXCEPT
            !.scopes = [n \in DOMAIN ScopesOf(i) |-> Attr(es, ScopesOf(i)[n], "name")],
            !.function = Attr(es, i, "name"),
            !.params = [n \in DOMAIN Parameters(i) |-> Spelled(TypeChain(Parameters(i)[n]))]]

(* In a circle of types the loop over them does not end. *)
TypesEnd(i) == ItemOf(i).objc \/ \A j \in ToSet(Parameters(i)) : Ended(j, TypeChain(j))

SetName(name) == frames' = [frames EXCEPT ![Len(frames)].name = name]
EndName ==
    /\ at = "name"
    /\ \/ /\ named = INVALID
          /\ SetName(Unnamed) /\ UNCHANGED entries
       \/ /\ named # INVALID /\ Attr(entries, named, "linkage") # INVALID
          /\ SetName([Unnamed EXCEPT !.linkage = Attr(entries, named, "linkage")])
          /\ UNCHANGED entries
       \/ /\ named # INVALID /\ Attr(entries, named, "linkage") = INVALID
          /\ TypesEnd(named)
          /\ SetName(makeFullSubRoutineName(named))
          /\ entries' = IF ItemOf(named).objc THEN entries
                        ELSE fullExtract(entries, ReadFor(named))
    /\ at' = "called"
    /\ UNCHANGED <<unit, pos, depth, m_base_address, asked, answer, chain, nth, cur, named, fault>>

-------------------------------------------------------------------------------
(* m_fileNames[row - 1], an index nobody checks. *)
IsFileAfter(n) == n \in 2 .. unit.files                              \* mutant
IsFile(n) == n \in 1 .. unit.files

(* The casts to t_uint32 and t_uint16, also of an attribute that is not there. *)
LineCut(value) == IF value = INVALID THEN DepthMod - 1 ELSE value % DepthMod
FileCut(value) == IF value = INVALID THEN FileMod - 1 ELSE value % FileMod

CallOwn(i) ==                                                       \* mutant
    frames' = [frames EXCEPT ![nth].line = LineCut(Attr(entries, i, "callLine")),
                             ![nth].file = FileCut(Attr(entries, i, "callFile"))]
(* The frame before the new one is at the call. *)
CallOf(i) ==
    frames' = [frames EXCEPT ![nth - 1].line = LineCut(Attr(entries, i, "callLine")),
                             ![nth - 1].file = FileCut(Attr(entries, i, "callFile"))]

Called ==
    /\ at = "called" /\ nth > 1
    /\ CallOf(chain[nth])
    /\ fault' = ~IsFile(FileCut(Attr(entries, chain[nth], "callFile")))
    /\ at' = IF nth < Len(chain) THEN "naming" ELSE "line"
    /\ nth' = IF nth < Len(chain) THEN nth + 1 ELSE nth
    /\ UNCHANGED <<vars, chain, cur, named>>

(* The line table is asked for after the subprogram was named; without one the
   frames that are inlined in it are not told. *)
LineTableMore ==                                                    \* mutant
    /\ at = "called" /\ nth = 1
    /\ at' = IF ~unit.hasLines THEN "idle" ELSE "naming"
    /\ nth' = IF unit.hasLines THEN 2 ELSE 1
    /\ UNCHANGED <<vars, chain, cur, named, frames, fault>>
LineTable ==
    /\ at = "called" /\ nth = 1
    /\ at' = IF ~unit.hasLines THEN "idle" ELSE IF Len(chain) > 1 THEN "naming" ELSE "line"
    /\ nth' = IF unit.hasLines /\ Len(chain) > 1 THEN 2 ELSE 1
    /\ UNCHANGED <<vars, chain, cur, named, frames, fault>>

Row == unit.rows[asked]
EndLine ==
    /\ at = "line"
    /\ fault' = (Row = BAD_ROW \/ ~IsFile(Row.file))
    /\ frames' = IF Row = BAD_ROW THEN frames
                 ELSE [frames EXCEPT ![Len(frames)].line = Row.line, ![Len(frames)].file = Row.file]
    /\ at' = "idle"
    /\ UNCHANGED <<vars, chain, nth, cur, named>>

Follow == FollowOrigin \/ FollowReference \/ EndFollow
Step ==
    \/ BeginName \/ Follow
    \/ EndName \/ Called \/ LineTable \/ EndLine
Parse == (Extract \/ Close) /\ UNCHANGED frame
AggregatorNext ==
    \/ Parse
    \/ \E a \in Addresses : getInfoByAddress(a)
    \/ ~fault /\ Step

(* The loop of getNameBy runs without a pause. *)
AggregatorSpec == AggregatorInit /\ [][AggregatorNext]_allVars /\ WF_allVars(Follow)

-------------------------------------------------------------------------------
FrameOK(f) == f.name.scopes \in Seq(STRING \cup {INVALID}) /\ f.line \in Nat
AggregatorTypeOK ==
    /\ TypeOK
    /\ at \in {"idle", "naming", "follow", "name", "called", "line"}
    /\ chain \in Seq(Idxs) /\ nth \in 0 .. Len(chain)
    /\ cur \in Idxs \cup {INVALID} /\ named \in Idxs \cup {INVALID}
    /\ Len(frames) <= Len(chain) /\ \A n \in DOMAIN frames : FrameOK(frames[n])
    /\ fault \in BOOLEAN

(* What the unit's items say of a name, whoever has read what. *)
ItemAt(o) == IF o # INVALID /\ o \in 1 .. Len(Items) /\ Items[o].kind = "entry" THEN o ELSE INVALID
Stays(o) ==
    /\ Items[o].tag # "inlined_subroutine"
    /\ Items[o].tag = "subprogram" => Items[o].name # INVALID \/ Items[o].linkage # INVALID
NextItem(o) ==
    LET item == Items[o] IN
    IF Stays(o) THEN o
    ELSE IF item.tag = "inlined_subroutine" THEN ItemAt(item.origin)
    ELSE IF item.spec # INVALID THEN ItemAt(item.spec)
    ELSE IF item.origin # INVALID THEN ItemAt(item.origin)
    ELSE IF item.object # INVALID THEN ItemAt(item.object) ELSE INVALID
Reached(o) ==
    LET reached[n \in 0 .. Len(Items)] ==
            IF n = 0 THEN o
            ELSE LET o1 == reached[n - 1] IN IF o1 = INVALID THEN o1 ELSE NextItem(o1)
    IN reached[Len(Items)]
NamedItem(o) ==
    LET r == Reached(o)
    IN IF r # INVALID /\ Items[r].tag = "subprogram" /\ Stays(r) THEN r ELSE INVALID
OuterNames(o) ==
    LET outer == Chosen([j \in 1 .. o - 1 |-> j],
                    {j \in 1 .. o - 1 : Encloses(j, o) /\ Items[j].tag \in Scoping})
    IN [n \in DOMAIN outer |-> Items[outer[n]].name]

(* As the standard has it, references lead to declarations and to what is
   inlined, not to where it is inlined. *)
ToDeclarations ==
    /\ Items[1].tag # "inlined_subroutine"
    /\ \A o \in 1 .. Len(Items) :
        (Items[o].kind = "entry" /\ Items[o].tag \in {"subprogram", "inlined_subroutine"}) =>
            \A a \in {"spec", "origin", "object"} :
                LET r == ItemAt(Items[o][a])
                IN r # INVALID => Items[r].tag # "inlined_subroutine"

(* A frame is named after the entry its references lead to: by its linkage
   name, or by the names of all scopes around it and its own; a frame whose
   references lead nowhere has no name. *)
NamedAs(name, m) ==
    IF m = INVALID THEN name = Unnamed
    ELSE IF Items[m].linkage # INVALID THEN name.linkage = Items[m].linkage
    ELSE /\ name.function = Items[m].name
         /\ Items[m].objc \/ name.scopes = OuterNames(m)

(* So is each frame of the answer, whichever entries the question itself or an
   earlier one has already read. *)
Answered == at = "idle" /\ frames # <<>> /\ WellFormed /\ ToDeclarations
OffsetOf(n) == entries[chain[n]].Offset
FramesNamed ==
    Answered => \A n \in DOMAIN frames :
        (Items[OffsetOf(n)].low = INVALID \/ Items[OffsetOf(n)].low \notin unit.lost) =>
            NamedAs(frames[n].name, NamedItem(OffsetOf(n)))

(* The parameters of a named entry are spelled in their order, artificial ones
   left out: what the type is made of is named, with const and volatile before
   it and pointers and references behind it, those next to the name first.  As
   the suffixes come out in the order they are met, from the outside in, that
   holds if they are all the same; a type that leads to no name has none.
   Parameters are seen if nothing with entries inside stands before them. *)
Direct(m, j) == Encloses(m, j) /\ \A o \in m + 1 .. j - 1 : ~Encloses(o, j)
Declared(m) == Chosen([j \in 1 .. Len(Items) |-> j],
    {j \in 1 .. Len(Items) : /\ Items[j].kind = "entry" /\ Items[j].tag = "formal_parameter"
                             /\ Direct(m, j) /\ ~Items[j].artificial})
ParametersFirst(m) ==
    /\ m # 1
    /\ \A j \in ToSet(Declared(m)) : \A o \in m + 1 .. j - 1 : \A x \in 1 .. Len(Items) :
          Items[x].kind = "entry" => ~Encloses(o, x)
SpelledAs(s, c) ==
    LET inner == Reverse(Chosen(TagsOf(c), Suffix))
    IN /\ s.prefix = Chosen(TagsOf(c), Prefix)
       /\ s.name = IF c = <<>> THEN INVALID ELSE ItemOf(Last(c)).name
       /\ (s.name # INVALID /\ Cardinality(ToSet(inner)) <= 1) => s.suffix = inner
ParametersOf(name, m) ==
    (name.function # INVALID /\ ~Items[m].objc /\ ParametersFirst(m)) =>
        /\ Len(name.params) = Len(Declared(m))
        /\ \A q \in DOMAIN name.params :
              SpelledAs(name.params[q], TypeChain(getIdxByOffset(Declared(m)[q])))
ParametersSpelled ==
    Answered => \A n \in DOMAIN frames :
        ParametersOf(frames[n].name, NamedItem(OffsetOf(n)))

(* Every frame is at the line where the one inlined in it is called, if that is
   given and has 32 bits, and the last one at the row of the address: lines do
   not slip from frame to frame. *)
FramesTell ==
    (at = "idle" /\ ~fault /\ frames # <<>> /\ unit.hasLines) =>
        /\ Len(frames) = Len(chain)
        /\ \A n \in 1 .. Len(frames) - 1 :
              LET line == ItemOf(chain[n + 1]).callLine
              IN line # INVALID /\ line < DepthMod => frames[n].line = line
        /\ frames[Len(frames)].line = Row.line

(* In a unit whose rows cover the address and whose rows and calls all name
   files of its table by numbers of 16 bits, no question uses a row or a file
   that is not there: the accesses nobody guards are safe for what a correct
   producer writes. *)
Files == 1 .. unit.files
NamesFile(x) == x # INVALID /\ x \in Files /\ x < FileMod
FaultExplained ==
    fault =>
        \/ Row = BAD_ROW
        \/ Row # BAD_ROW /\ ~NamesFile(Row.file)
        \/ \E o \in 1 .. Len(Items) : /\ Items[o].kind = "entry" /\ Items[o].tag = "inlined_subroutine"
                                  /\ ~NamesFile(Items[o].callFile)

(* A name is found or given up, unless references run in a circle. *)
Acyclic == \A o \in 1 .. Len(Items) : Items[o].kind = "entry" =>
    LET r == Reached(o) IN r = INVALID \/ Stays(r)
NamesEnd == Acyclic => (at = "follow" ~> at = "name")
===============================================================================
