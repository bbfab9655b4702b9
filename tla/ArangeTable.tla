------------------------------ MODULE ArangeTable -----------------------------
(***************************************************************************)
(* dwarf::CDWARFArangeTable: which compile unit covers an address.  The    *)
(* sets of __debug_aranges are read one after the other, their ranges kept *)
(* in one table ordered by end, and every address to be symbolicated is    *)
(* looked up there first.                                                  *)
(* A definition marked mutant is a plausible bug in the one below it; no   *)
(* behaviour uses it.                                                      *)
(***************************************************************************)
EXTENDS SortedTable

CONSTANTS
    Sections,  \* what __debug_aranges may hold: sequences of sets
    Top,       \* 2^32 or 2^64: one past the last address
    NULL

ASSUME TopAssumption == Top \in Nat \ {0}

Address == 0 .. Top - 1
ArangeSet == [cu : Nat, good : BOOLEAN, tuples : Seq(Address \X Nat)]
CDWARFRange == [begin : Address, end : Address, CUOffset : Nat]

ASSUME SectionsAssumption == Sections \subseteq Seq(ArangeSet)
ASSUME NULLAssumption == NULL \notin Address /\ NULL \notin CDWARFRange

VARIABLES
    section,  \* the sets: cu their unit, good whether the header is accepted,
              \* tuples their <<address, length>> up to the terminator
    next,     \* index of the set to read next
    parsing,  \* parse() has not returned
    ranges,   \* m_ranges
    asked,    \* address of the last lookup
    found     \* its result

vars == <<section, next, parsing, ranges, asked, found>>

Init ==
    /\ section \in Sections
    /\ next = 1
    /\ parsing = TRUE
    /\ ranges = <<>>
    /\ asked = NULL
    /\ found = NULL

RangeUnwrapped(tuple, cu) ==                                        \* mutant
    [begin |-> tuple[1], end |-> tuple[1] + tuple[2], CUOffset |-> cu]
(* The end is computed in the width of the set's addresses. *)
Range(tuple, cu) ==
    [begin |-> tuple[1], end |-> (tuple[1] + tuple[2]) % Top, CUOffset |-> cu]

RangesOf(set) == [i \in DOMAIN set.tuples |-> Range(set.tuples[i], set.cu)]

ReadableAny(set) == set.good                                        \* mutant
(* A set without ranges counts as a failure, like a header that is not
   accepted. *)
Readable(set) == set.good /\ set.tuples # <<>>

ParseSet ==
    /\ parsing
    /\ next <= Len(section) /\ Readable(section[next])
    /\ ranges' = ranges \o RangesOf(section[next])
    /\ next' = next + 1
    /\ UNCHANGED <<section, parsing, asked, found>>

Begins == [i \in DOMAIN ranges |-> ranges[i].begin]
Ends == [i \in DOMAIN ranges |-> ranges[i].end]

(* The first set that cannot be read ends the table: what follows is never
   looked at, and what precedes stays. *)
ParseEnd ==
    /\ parsing
    /\ next <= Len(section) => ~Readable(section[next])
    /\ ranges' \in Sorts(ranges, Ends)
    /\ parsing' = FALSE
    /\ UNCHANGED <<section, next, asked, found>>

ContainsClosed(range, a) == range.begin <= a /\ a <= range.end      \* mutant
Contains(range, a) == range.begin <= a /\ a < range.end

FirstAtOrAfterByBegin(a, i) ==                                      \* mutant
    IsLowerBound(Begins, a, i)
(* i is the first range that ends at the address or later. *)
FirstAtOrAfter(a, i) == IsLowerBound(Ends, a, i)

Before(i) == IF i > 1 THEN i - 1 ELSE i

CandidatesBefore(i) == IF i > Len(ranges) THEN {} ELSE {Before(i)}  \* mutant
(* Where it looks: at that range, then at the one before. *)
Candidates(i) == IF i > Len(ranges) THEN {} ELSE {i, Before(i)}

(* The range at place i, if it contains the address, or the one before. *)
Answer(a, i) ==
    LET hits == {j \in Candidates(i) : Contains(ranges[j], a)}
    IN IF hits = {} THEN NULL
       ELSE IF i \in hits THEN ranges[i] ELSE ranges[Before(i)]

GetRangesBy(a) ==
    /\ ~parsing
    /\ asked' = a
    /\ \E i \in Places(ranges) : FirstAtOrAfter(a, i) /\ found' = Answer(a, i)
    /\ UNCHANGED <<section, next, parsing, ranges>>

Next ==
    \/ ParseSet
    \/ ParseEnd
    \/ \E a \in Address : GetRangesBy(a)

Spec == Init /\ [][Next]_vars

-------------------------------------------------------------------------------
Ranges == {ranges[i] : i \in DOMAIN ranges}

Covers(range, a) == range.begin <= a /\ a < range.end

(* Ranges of the sets in front of the first that is refused or empty. *)
Listed ==
    LET Kept == {k \in DOMAIN section :
                    \A l \in 1 .. k : section[l].good /\ section[l].tuples # <<>>}
    IN UNION {{Range(section[k].tuples[j], section[k].cu) :
                    j \in DOMAIN section[k].tuples} : k \in Kept}

(* Type invariant of CDWARFArangeTable's table and of its lookups. *)
TypeOK ==
    /\ section \in Sections
    /\ next \in 1 .. Len(section) + 1
    /\ parsing \in BOOLEAN
    /\ ranges \in Seq(CDWARFRange)
    /\ asked \in Address \cup {NULL}
    /\ found \in Ranges \cup {NULL}

(* getRangesBy only answers with a range that contains the address, and one
   that a set in front of the first refused or empty one lists for that unit: a
   caller never gets the compile unit of some other code. *)
FoundIsRight ==
    found # NULL => /\ Covers(found, asked)
                    /\ found \in Listed

Proper == \A r \in Listed : r.begin < r.end
Disjoint == \A r, s \in Listed : r # s => r.end <= s.begin \/ s.end <= r.begin

(* When the ranges are neither empty nor overlapping, as compilers write
   them, getRangesBy finds the unit of every address of a range except
   perhaps its first. *)
InnerAddressFound ==
    (asked # NULL /\ Proper /\ Disjoint) =>
        \A r \in Listed : (r.begin < asked /\ asked < r.end) => found = r

(* Even with ranges that overlap or are empty, getRangesBy loses an address
   of a listed range only when another range ends between the address and
   the end of that range: its first address when the range before is
   adjacent, the outer part of a range around another. *)
LostOnlyBehindAnEnd ==
    (asked # NULL /\ found = NULL) =>
        \A r \in Listed : Covers(r, asked) =>
            \E s \in Listed : asked <= s.end /\ s.end <= r.end /\ ~Covers(s, asked)
===============================================================================
