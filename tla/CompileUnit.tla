------------------------------- MODULE CompileUnit ------------------------------
(***************************************************************************)
(* dwarf::CDWARFCompileUnit: the debugging entries of one unit.  The unit  *)
(* is a sequence of items, one per offset: entries, which open a level if  *)
(* they have children, and what takes back a level: a NULL entry, or one   *)
(* whose attributes cannot be skipped ("refused").  The parse keeps the    *)
(* entries in order with their depth; parents and children are found again *)
(* by walking that list.  Attributes are read when an entry is needed.     *)
(* A definition marked mutant is a plausible bug in the one below it; no   *)
(* behaviour uses it.                                                      *)
(***************************************************************************)
EXTENDS Integers, Sequences, SequencesExt, FiniteSetsExt

CONSTANTS
    Contents,  \* contents a unit may have
    Addresses, \* addresses getDIEIdxsBy is asked for
    DepthMod,  \* depths are t_uint32: 2 ^ 32
    AddressMod, \* addresses are t_uint64: 2 ^ 64
    INVALID    \* kINVALID_ADDRESS, 2 ^ 64 - 1: also an absent attribute

Attribute == Nat \cup {INVALID}
ItemOK(item) ==
    /\ item.tag \in STRING /\ item.children \in BOOLEAN
    /\ item.low \in Attribute /\ item.high \in Attribute /\ item.entry \in Attribute
    /\ item.highClass \in {"address", "constant"} /\ item.ranges \subseteq Nat \X Nat

(* The base of a unit, of the attributes of its own entry. *)
BaseOf(item) == IF item.low # INVALID THEN item.low ELSE item.entry
BaseOfUnit(root) == IF root.tag = "compile_unit" THEN BaseOf(root) ELSE INVALID

(* What the standard lets a producer say an entry covers: from version 4 on a
   constant is a length; ranges, of a begin and an end, are relative to the
   base of the unit, without which they say nothing. *)
Covered(version, root, item) ==
    LET base == BaseOfUnit(root)
        end == IF version >= 4 /\ item.highClass = "constant" THEN item.low + item.high
               ELSE item.high
    IN IF item.low # INVALID /\ item.high # INVALID THEN item.low .. end - 1
       ELSE IF base # INVALID THEN UNION {base + r[1] .. base + r[2] - 1 : r \in item.ranges}
       ELSE {}

(* The length of a unit is 32 bits, and an item has a byte at least. *)
CompileUnitAssumption ==
    /\ DepthMod \in Nat \ {0, 1} /\ AddressMod \in Nat \ {0}
    /\ Addresses \subseteq Nat /\ INVALID \notin Nat
    /\ \A u \in Contents :
        /\ u.version \in Nat /\ Len(u.items) \in 0 .. DepthMod - 1
        /\ \A i \in 1 .. Len(u.items) : u.items[i].kind = "entry" =>
            /\ ItemOK(u.items[i])
            /\ u.items[i].tag = "compile_unit" => i = 1
            /\ u.items[i].tag \in {"subprogram", "inlined_subroutine"} /\ u.items[1].kind = "entry" =>
                   u.items[i].pcs = Covered(u.version, u.items[1], u.items[i])

VARIABLES
    unit,    \* constant: version, and the items
    pos,     \* items read
    depth,   \* the local counter of parse
    entries, \* m_debugInfoEntry: Offset, Depth, and whether m_values is there
    m_base_address,
    asked, answer \* last getDIEIdxsBy

vars == <<unit, pos, depth, entries, m_base_address, asked, answer>>

Init ==
    /\ unit \in Contents
    /\ pos = 0 /\ depth = 0
    /\ entries = <<>>
    /\ m_base_address = INVALID
    /\ asked = INVALID /\ answer = <<>>

-------------------------------------------------------------------------------
Items == unit.items
Idxs == 1 .. Len(entries)
ItemOf(i) == Items[entries[i].Offset]
(* An entry whose code no declaration has keeps DW_TAG_invalid. *)
getTag(i) == ItemOf(i).tag
hasChild(item) == item.children

(* The form of DW_AT_high_pc decides from version 4 on. *)
getHighPCAddress(item) == item.high                                 \* mutant
getHighPC(item) ==
    IF item.high = INVALID \/ unit.version < 4 THEN item.high
    ELSE CASE item.highClass = "constant" ->
                IF item.low = INVALID THEN INVALID ELSE item.low + item.high
           [] item.highClass = "address" -> item.high
           [] OTHER -> INVALID

(* Over the attributes that were read; ranges are relative to the base, and to
   2 ^ 64 - 1, which wraps around, if the unit has none. *)
FromBase(n) == ((IF m_base_address = INVALID THEN AddressMod - 1 ELSE m_base_address) + n) % AddressMod
isInRange(es, i, address) ==
    LET item == ItemOf(i) IN
    /\ es[i].extracted
    /\ IF getHighPC(item) = INVALID \/ item.low = INVALID
       THEN \E r \in item.ranges : FromBase(r[1]) <= address /\ address < FromBase(r[2])
       ELSE item.low <= address /\ address < getHighPC(item)

-------------------------------------------------------------------------------
(* Only a unit's own entry is parsed, the others are skipped. *)
Extract ==
    /\ pos < Len(Items) /\ Items[pos + 1].kind = "entry"
    /\ LET item == Items[pos + 1] IN
        /\ entries' = Append(entries, [Offset |-> pos + 1, Depth |-> depth,
                                       extracted |-> item.tag = "compile_unit"])
        /\ depth' = IF hasChild(item) THEN (depth + 1) % DepthMod ELSE depth
        /\ m_base_address' = IF item.tag = "compile_unit" THEN BaseOf(item)
                             ELSE m_base_address
    /\ pos' = pos + 1
    /\ UNCHANGED <<unit, asked, answer>>

CloseOnlyNull ==                                                    \* mutant
    /\ pos < Len(Items) /\ Items[pos + 1].kind # "entry"
    /\ depth' = IF Items[pos + 1].kind = "null" THEN (depth - 1) % DepthMod ELSE depth
    /\ pos' = pos + 1
    /\ UNCHANGED <<unit, entries, m_base_address, asked, answer>>
CloseSigned ==                                                      \* mutant
    /\ pos < Len(Items) /\ Items[pos + 1].kind # "entry"
    /\ depth' = depth - 1
    /\ pos' = pos + 1
    /\ UNCHANGED <<unit, entries, m_base_address, asked, answer>>
Close ==
    /\ pos < Len(Items) /\ Items[pos + 1].kind # "entry"
    /\ depth' = (depth - 1) % DepthMod
    /\ pos' = pos + 1
    /\ UNCHANGED <<unit, entries, m_base_address, asked, answer>>

-------------------------------------------------------------------------------
(* A walk from entry i towards the front collects an entry that is not deeper
   than wanted, and from then on wants one level less.  getParentsIdxs stops
   when level 0 was collected, getParents goes on with a wanted level that
   wrapped around. *)
Looked(walked, l, stops) ==
    IF walked.ended \/ entries[l].Depth > walked.want THEN walked
    ELSE [found |-> Append(walked.found, l), want |-> (walked.want - 1) % DepthMod,
          ended |-> stops /\ walked.want = 0]
Walk(i, stops) ==
    LET walk[k \in 0 .. i - 1] ==
            IF k = 0 THEN [found |-> <<>>, want |-> entries[i].Depth - 1, ended |-> FALSE]
            ELSE Looked(walk[k - 1], i - k, stops)
    IN walk[i - 1].found
getParentsIdxs(i) == IF entries[i].Depth > 0 THEN Walk(i, TRUE) ELSE <<>>
getParents(i) == IF entries[i].Depth > 0 THEN Walk(i, FALSE) ELSE <<>>

(* The entries behind i up to the first whose depth is not in D. *)
Run(i, D) ==
    LET stops == {j \in Idxs : j > i /\ entries[j].Depth \notin D}
        end == IF stops = {} THEN Len(entries) ELSE (CHOOSE j \in stops : \A k \in stops : j <= k) - 1
    IN [k \in 1 .. end - i |-> i + k]
AllBelow(i) == Run(i, entries[i].Depth + 1 .. DepthMod - 1)          \* mutant
getChildrensIdxs(i) ==
    IF entries[i].Depth > 0 THEN Run(i, {(entries[i].Depth + 1) % DepthMod}) ELSE <<>>
AllUpTo(i) == Run(i, entries[i].Depth .. DepthMod - 1)              \* mutant
getAllChildrensIdxs(i) ==
    IF entries[i].Depth > 0 THEN Run(i, (entries[i].Depth + 1) % DepthMod .. DepthMod - 1)
    ELSE <<>>

-------------------------------------------------------------------------------
fullExtract(es, I) == [i \in DOMAIN es |-> [es[i] EXCEPT !.extracted = @ \/ i \in I]]

Subprograms == {i \in Idxs : getTag(i) = "subprogram"}
(* The entries of a walk that are in S. *)
Chosen(walk, S) == FlattenSeq([n \in DOMAIN walk |-> IF walk[n] \in S THEN <<walk[n]>> ELSE <<>>])
Inlined(i) == {j \in ToSet(getAllChildrensIdxs(i)) : getTag(j) = "inlined_subroutine"}

InnerFirst(address) ==                                              \* mutant
    /\ pos = Len(Items)
    /\ LET read == fullExtract(entries, Subprograms)
           hits == {s \in Subprograms : isInRange(read, s, address)}
           last == fullExtract(read, UNION {Inlined(s) : s \in hits})
       IN /\ entries' = last
          /\ answer' = Chosen([i \in Idxs |-> Len(entries) + 1 - i],
                {j \in hits \cup UNION {Inlined(s) : s \in hits} : isInRange(last, j, address)})
    /\ asked' = address
    /\ UNCHANGED <<unit, pos, depth, m_base_address>>
(* Subprograms are read when they are first looked at, the subroutines inlined
   in one every time it covers the address. *)
getDIEIdxsBy(address) ==
    /\ pos = Len(Items)
    /\ LET read == fullExtract(entries, Subprograms)
           hits == {s \in Subprograms : isInRange(read, s, address)}
           last == fullExtract(read, UNION {Inlined(s) : s \in hits})
           Found(s) == <<s>> \o Chosen(getAllChildrensIdxs(s),
                                       {j \in Inlined(s) : isInRange(last, j, address)})
       IN /\ entries' = last
          /\ answer' = FlattenSeq([i \in Idxs |-> IF i \in hits THEN Found(i) ELSE <<>>])
    /\ asked' = address
    /\ UNCHANGED <<unit, pos, depth, m_base_address>>

Next == Extract \/ Close \/ \E a \in Addresses : getDIEIdxsBy(a)

Spec == Init /\ [][Next]_vars

-------------------------------------------------------------------------------
Node == [Offset : 1 .. Len(Items), Depth : 0 .. DepthMod - 1, extracted : BOOLEAN]
TypeOK ==
    /\ unit \in Contents /\ pos \in 0 .. Len(Items) /\ depth \in 0 .. DepthMod - 1
    /\ entries \in Seq(Node)
    /\ m_base_address \in Nat \cup {INVALID}
    /\ asked \in Addresses \cup {INVALID} /\ answer \in Seq(Idxs)

(* The levels between two items, without the first and the last. *)
Opened(j, k) == Cardinality({o \in j .. k : Items[o].kind = "entry" /\ hasChild(Items[o])})
Closed(j, k) == Cardinality({o \in j .. k : Items[o].kind # "entry"})
Encloses(j, o) ==
    /\ j < o /\ Items[j].kind = "entry" /\ hasChild(Items[j])
    /\ \A k \in j + 1 .. o - 1 : Closed(j + 1, k) <= Opened(j + 1, k)

(* One entry that encloses all others: what a producer writes. *)
WellFormed == \A k \in 2 .. pos : Items[k].kind = "entry" => Encloses(1, k)

Enclosing(i) == {j \in 1 .. i - 1 : Encloses(entries[j].Offset, entries[i].Offset)}
Enclosed(i) == {j \in Idxs : Encloses(entries[i].Offset, entries[j].Offset)}
Ascending(I) == \A k \in 1 .. Len(I) - 1 : I[k] < I[k + 1]

(* The depths tell the tree: the parents of an entry, nearest first, are the
   entries whose levels are open around it, however the levels in between
   were closed and opened; getParents and getParentsIdxs agree. *)
ParentsEnclose ==
    WellFormed => \A i \in Idxs :
        LET p == getParentsIdxs(i) IN
        /\ ToSet(p) = Enclosing(i) /\ Ascending(Reverse(p))
        /\ getParents(i) = p

(* Every entry inside another one, and none behind it, belongs to its run:
   only the unit's own entry is not asked. *)
ChildrenEnclosed ==
    WellFormed => \A i \in Idxs \ {1} :
        /\ ToSet(getAllChildrensIdxs(i)) = Enclosed(i)
        /\ Ascending(getAllChildrensIdxs(i))

(* getChildrensIdxs gives the direct children up to the first one that has
   entries of its own inside: later parameters are not seen. *)
FirstChildren ==
    WellFormed => \A i \in Idxs \ {1} :
        ToSet(getChildrensIdxs(i)) =
            {j \in Enclosed(i) :
                /\ Enclosing(j) = Enclosing(i) \cup {i}
                /\ \A k \in Enclosed(i) : k < j => Enclosed(k) = {}}

(* What the producer meant an entry to cover, if its ranges have a base and
   end below 2 ^ 64. *)
Meant(i, a) == a \in ItemOf(i).pcs
Placed ==
    \A o \in 1 .. Len(Items) : Items[o].kind = "entry" =>
        \A r \in Items[o].ranges :
            LET base == BaseOfUnit(Items[1])
            IN base # INVALID /\ base + r[1] < AddressMod /\ base + r[2] < AddressMod

(* The answer to an address is what the unit says: every subprogram that
   covers it, each followed by the inlined subroutines inside it that do; it
   does not depend on what earlier questions have already read.  The unit's
   own entry is hardly a subprogram; nothing inside it would be looked at. *)
AnswerIsTheUnits ==
    (asked # INVALID /\ WellFormed /\ Placed) =>
        answer = FlattenSeq([i \in Idxs |->
            IF getTag(i) = "subprogram" /\ Meant(i, asked)
            THEN <<i>> \o Chosen([j \in Idxs |-> j],
                    {j \in Enclosed(i) : /\ getTag(j) = "inlined_subroutine"
                                         /\ Meant(j, asked) /\ i # 1})
            ELSE <<>>])

(* Where no two entries claim an address unless one is inside the other, and
   subprograms are not nested, the answer is a chain: each entry is inlined
   in the one before.  The lines of a stack frame are read off it. *)
ChainIsNested ==
    (/\ asked # INVALID /\ WellFormed /\ Placed
     /\ \A i, j \in Idxs : (i < j /\ Meant(i, asked) /\ Meant(j, asked)) =>
            i \in Enclosing(j)
     /\ \A i, j \in Subprograms : i \notin Enclosing(j)) =>
        \A k \in 1 .. Len(answer) - 1 : answer[k] \in Enclosing(answer[k + 1])
===============================================================================
