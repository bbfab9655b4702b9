------------------------------- MODULE RangeLists -----------------------------
(***************************************************************************)
(* dwarf::CDWARFRangeTable: the range lists of __debug_ranges, read when a *)
(* debugging entry that has DW_AT_ranges is asked whether it contains an   *)
(* address, and kept in a table ordered by the offset they were read at.   *)
(* Offsets are counted in entries, and the object is a 64-bit one.         *)
(* A definition marked mutant is a plausible bug in the one below it; no   *)
(* behaviour uses it.                                                      *)
(***************************************************************************)
EXTENDS SortedTable

CONSTANTS
    Sections,  \* what __debug_ranges may hold: sequences of <<begin, end>>
    Offsets,   \* values of DW_AT_ranges
    Bases,     \* base addresses of compile units
    Top,       \* 2^64
    MaxSets,   \* bound on the table
    NULL

Address == 0 .. Top - 1
EndOfList == <<0, 0>>

RangesAssumption ==
    /\ Top \in Nat \ {0}
    /\ \A s \in Sections : s \in Seq(Address \X Address)
    /\ Offsets \subseteq Nat /\ Bases \subseteq Address

VARIABLES
    section,  \* the entries of __debug_ranges
    table,    \* m_table: a list's Offset and its Collection
    query,    \* the last question: offset, base address of the unit, address
    inRange   \* the answer

vars == <<section, table, query, inRange>>

Init ==
    /\ section \in Sections
    /\ table = <<>>
    /\ query = NULL
    /\ inRange = FALSE

(* Where the stream stands after a seek; none goes behind the section. *)
Position(offset) == IF offset < Len(section) THEN offset ELSE Len(section)

(* The list that starts at p: up to the next end-of-list entry, or to the end
   of the section. *)
ListFrom(p) ==
    LET stops == {k \in p + 1 .. Len(section) + 1 :
                    k > Len(section) \/ section[k] = EndOfList}
        stop  == CHOOSE k \in stops : \A l \in stops : k <= l
    IN SubSeq(section, p + 1, stop - 1)

SetReadLate(p) ==                                                   \* mutant
    [Offset |-> Position(p + Len(ListFrom(p)) + 1), Collection |-> ListFrom(p)]
(* A set is filed under the position of its first entry. *)
SetRead(p) == [Offset |-> p, Collection |-> ListFrom(p)]

SetOffsets == [i \in DOMAIN table |-> table[i].Offset]

PlaceAtEnd(offset, i) == i = Len(table) + 1                         \* mutant
(* i is the place of the first set at the offset or behind it. *)
Place(offset, i) == IsLowerBound(SetOffsets, offset, i)

(* A begin of 2^64 - 1, which in DWARF selects another base, is taken for the
   begin of a range like any other. *)
Contains(entry, base, a) ==
    (base + entry[1]) % Top <= a /\ a < (base + entry[2]) % Top

SetContains(set, base, a) ==
    \E k \in DOMAIN set.Collection : Contains(set.Collection[k], base, a)

Asked(o, base, a, set) ==
    /\ query' = [offset |-> o, base |-> base, address |-> a]
    /\ inRange' = SetContains(set, base, a)

isInRangeKnown(o, base, a) ==
    \E i \in Places(table) :
        /\ Place(o, i)
        /\ i <= Len(table) /\ table[i].Offset = o
        /\ Asked(o, base, a, table[i])
        /\ UNCHANGED <<section, table>>

(* An offset that is not found is read and filed. *)
isInRangeNew(o, base, a) ==
    /\ Len(table) < MaxSets
    /\ \E i \in Places(table) :
        Place(o, i) /\ (i <= Len(table) => table[i].Offset # o)
    /\ LET set == SetRead(Position(o)) IN
        /\ \E i \in Places(table) :
            Place(set.Offset, i) /\ table' = PutAt(table, i, set)
        /\ Asked(o, base, a, set)
    /\ UNCHANGED section

Next == \E o \in Offsets, base \in Bases, a \in Address :
            isInRangeKnown(o, base, a) \/ isInRangeNew(o, base, a)

Spec == Init /\ [][Next]_vars

-------------------------------------------------------------------------------
(* Type invariant: a list is filed under an offset of the section, without
   its end-of-list entry. *)
TypeOK ==
    /\ section \in Sections
    /\ \A i \in DOMAIN table :
        /\ table[i].Offset \in 0 .. Len(section)
        /\ table[i].Collection \in Seq((Address \X Address) \ {EndOfList})
    /\ query = NULL \/ query.address \in Address
    /\ inRange \in BOOLEAN

(* The section's own answer: an entry of the list at the offset, relative to
   the base of the unit, spans the address. *)
Plain(k) == section[k][1] # Top - 1
WithinSpace(k, base) == base + section[k][1] < Top /\ base + section[k][2] < Top
ListCovers(o, base, a) ==
    \E k \in DOMAIN section :
        /\ k > o
        /\ \A l \in o + 1 .. k : section[l] # EndOfList
        /\ base + section[k][1] <= a /\ a < base + section[k][2]

(* Whatever lists were asked for before, and in which order, isInRange
   answers what the list at this offset says: the table never hands one
   debugging entry the list of another.  Sections that select a base or whose
   ranges leave the address space are outside of it. *)
AnswerIsTheLists ==
    (/\ query # NULL
     /\ \A k \in DOMAIN section : Plain(k) /\ WithinSpace(k, query.base)) =>
        inRange = ListCovers(query.offset, query.base, query.address)

(* An offset of the section is read once, however often it is asked for. *)
ReadOnce ==
    \A i, j \in DOMAIN table :
        (table[i].Offset = table[j].Offset /\ table[i].Offset < Len(section)) => i = j
===============================================================================
