--------------------------- MODULE ArangeTableProofs --------------------------
(***************************************************************************)
(* The table of address ranges holds exactly the ranges of the sets that   *)
(* were read, ordered by end; what a lookup then answers, and what it can  *)
(* lose, follows for every section and every width of addresses.           *)
(***************************************************************************)
EXTENDS ArangeTable, TLAPS

(* The ranges of the set at place k. *)
Made(k, r) == \E j \in DOMAIN section[k].tuples :
                 r = Range(section[k].tuples[j], section[k].cu)

(* While it is filled and afterwards, the table holds the ranges of the sets
   in front of the next one, all of which could be read. *)
Filled ==
    /\ section \in Seq(ArangeSet)
    /\ next \in 1 .. Len(section) + 1
    /\ parsing \in BOOLEAN
    /\ ranges \in Seq(CDWARFRange)
    /\ \A k \in 1 .. next - 1 : Readable(section[k])
    /\ \A i \in DOMAIN ranges : \E k \in 1 .. next - 1 : Made(k, ranges[i])
    /\ \A k \in 1 .. next - 1 : \A r :
          Made(k, r) => \E i \in DOMAIN ranges : ranges[i] = r

(* After the parse it is ordered, and the next set cannot be read. *)
Parsed ==
    ~parsing => /\ Ordered(Ends)
                /\ next <= Len(section) => ~Readable(section[next])

(* The last answer is the one the finished table gives. *)
Answered ==
    /\ parsing => asked = NULL /\ found = NULL
    /\ asked = NULL => found = NULL
    /\ asked # NULL =>
          /\ asked \in Address
          /\ \E i \in Places(ranges) :
                FirstAtOrAfter(asked, i) /\ found = Answer(asked, i)

IInv == Filled /\ Parsed /\ Answered

-------------------------------------------------------------------------------
(* The end of a range is an address again: it is computed in the width of
   the set's addresses. *)
LEMMA RangeTyped ==
    ASSUME NEW t \in Address \X Nat, NEW cu \in Nat
    PROVE  Range(t, cu) \in CDWARFRange
<1>1. t[1] \in Address /\ t[2] \in Nat
  OBVIOUS
<1>2. t[1] + t[2] \in Nat
  BY <1>1, TopAssumption DEF Address
<1>3. (t[1] + t[2]) % Top \in 0 .. Top - 1
  BY <1>2, TopAssumption
<1> QED
  BY <1>1, <1>3 DEF Range, CDWARFRange, Address

(* The ranges of one set, in the order they are written. *)
LEMMA RangesOfTyped ==
    ASSUME NEW set \in ArangeSet
    PROVE  /\ RangesOf(set) \in Seq(CDWARFRange)
           /\ Len(RangesOf(set)) = Len(set.tuples)
           /\ \A j \in 1 .. Len(set.tuples) :
                 RangesOf(set)[j] = Range(set.tuples[j], set.cu)
<1>1. set.tuples \in Seq(Address \X Nat) /\ set.cu \in Nat
  BY DEF ArangeSet
<1>2. ASSUME NEW j \in DOMAIN set.tuples
      PROVE  Range(set.tuples[j], set.cu) \in CDWARFRange
  BY <1>1, RangeTyped
<1>3. DOMAIN set.tuples = 1 .. Len(set.tuples)
  BY <1>1
<1>4. RangesOf(set) \in [1 .. Len(set.tuples) -> CDWARFRange]
  BY <1>2, <1>3 DEF RangesOf
<1>5. RangesOf(set) \in Seq(CDWARFRange) /\ Len(RangesOf(set)) = Len(set.tuples)
  <2>1. Len(set.tuples) \in Nat
    BY <1>1
  <2> QED BY <1>4, <2>1
<1>6. \A j \in 1 .. Len(set.tuples) : RangesOf(set)[j] = Range(set.tuples[j], set.cu)
  BY <1>3 DEF RangesOf
<1> QED
  BY <1>5, <1>6

(* vector::push_back of all elements of t. *)
LEMMA Concatenated ==
    ASSUME NEW S, NEW s \in Seq(S), NEW t \in Seq(S)
    PROVE  /\ s \o t \in Seq(S)
           /\ Len(s \o t) = Len(s) + Len(t)
           /\ \A i \in 1 .. Len(s) : (s \o t)[i] = s[i]
           /\ \A j \in 1 .. Len(t) : (s \o t)[Len(s) + j] = t[j]
  OBVIOUS

(* A set that is read adds its ranges and takes none away. *)
LEMMA ParseSetFills ==
    ASSUME Filled, ParseSet
    PROVE  Filled'
<1> DEFINE set == section[next]
           new == RangesOf(set)
<1>1. set \in ArangeSet /\ next \in Nat \ {0} /\ next <= Len(section) /\ Len(section) \in Nat
  BY DEF Filled, ParseSet
<1>2. /\ ranges' = ranges \o new /\ next' = next + 1
      /\ section' = section /\ parsing' = parsing /\ Readable(set)
  BY DEF ParseSet
<1>3. /\ new \in Seq(CDWARFRange)
      /\ Len(new) = Len(set.tuples) /\ set.tuples \in Seq(Address \X Nat)
      /\ \A j \in 1 .. Len(set.tuples) : new[j] = Range(set.tuples[j], set.cu)
  BY <1>1, RangesOfTyped DEF ArangeSet
<1>4. /\ ranges \in Seq(CDWARFRange) /\ ranges' \in Seq(CDWARFRange)
      /\ Len(ranges') = Len(ranges) + Len(new)
      /\ \A i \in 1 .. Len(ranges) : ranges'[i] = ranges[i]
      /\ \A j \in 1 .. Len(new) : ranges'[Len(ranges) + j] = new[j]
  <2> HIDE DEF new
  <2>1. ranges \in Seq(CDWARFRange) /\ new \in Seq(CDWARFRange)
    BY <1>3 DEF Filled
  <2>2. /\ ranges \o new \in Seq(CDWARFRange)
        /\ Len(ranges \o new) = Len(ranges) + Len(new)
        /\ \A i \in 1 .. Len(ranges) : (ranges \o new)[i] = ranges[i]
        /\ \A j \in 1 .. Len(new) : (ranges \o new)[Len(ranges) + j] = new[j]
    BY <2>1, Concatenated
  <2> QED BY <1>2, <2>1, <2>2
<1> HIDE DEF new
<1>5. \A k, r : Made(k, r)' <=> Made(k, r)
  BY <1>2 DEF Made
<1>6. ASSUME NEW i \in DOMAIN ranges'
      PROVE  \E k \in 1 .. next : Made(k, ranges'[i])
  <2>1. CASE i <= Len(ranges)
    <3>1. i \in DOMAIN ranges /\ ranges'[i] = ranges[i]
      BY <1>4, <1>6, <2>1
    <3>2. PICK k \in 1 .. next - 1 : Made(k, ranges[i])
      BY <3>1 DEF Filled
    <3> QED BY <1>1, <3>1, <3>2
  <2>2. CASE i > Len(ranges)
    <3>1. PICK j \in 1 .. Len(new) : i = Len(ranges) + j
      <4>1. i - Len(ranges) \in 1 .. Len(new)
        BY <1>3, <1>4, <1>6, <2>2
      <4> QED BY <1>3, <1>4, <1>6, <4>1
    <3>2. ranges'[i] = Range(set.tuples[j], set.cu) /\ j \in DOMAIN set.tuples
      BY <1>3, <1>4, <3>1
    <3>3. Made(next, ranges'[i])
      BY <3>2 DEF Made
    <3> QED BY <1>1, <3>3
  <2> QED BY <1>4, <1>6, <2>1, <2>2
<1>7. ASSUME NEW k \in 1 .. next, NEW r, Made(k, r)
      PROVE  \E i \in DOMAIN ranges' : ranges'[i] = r
  <2>1. CASE k = next
    <3>1. PICK j \in DOMAIN set.tuples : r = Range(set.tuples[j], set.cu)
      BY <1>7, <2>1 DEF Made
    <3>2. j \in 1 .. Len(new) /\ ranges'[Len(ranges) + j] = r
      <4>1. j \in 1 .. Len(set.tuples)
        BY <1>3, <3>1
      <4> QED BY <1>3, <1>4, <3>1, <4>1
    <3>3. Len(ranges) + j \in 1 .. Len(ranges')
      BY <1>3, <1>4, <3>2
    <3> QED BY <1>4, <3>2, <3>3
  <2>2. CASE k # next
    <3>1. k \in 1 .. next - 1
      BY <1>1, <2>2
    <3>2. PICK i \in DOMAIN ranges : ranges[i] = r
      BY <1>7, <3>1 DEF Filled
    <3>3. i \in 1 .. Len(ranges') /\ ranges'[i] = r
      BY SMTT(30), <1>3, <1>4, <3>2
    <3> QED BY <1>4, <3>3
  <2> QED BY <2>1, <2>2
<1>8. \A k \in 1 .. next : Readable(section[k])
  BY <1>1, <1>2 DEF Filled
<1>9. next' \in 1 .. Len(section') + 1 /\ 1 .. next' - 1 = 1 .. next
  BY <1>1, <1>2
<1>10. \A k : Readable(section[k])' <=> Readable(section[k])
  BY <1>2 DEF Readable
<1> QED
  BY <1>2, <1>4, <1>5, <1>6, <1>7, <1>8, <1>9, <1>10 DEF Filled, Readable

(* Sorting keeps the elements of the table and orders them. *)
LEMMA ParseEndOrders ==
    ASSUME Filled, ParseEnd
    PROVE  Filled' /\ Ordered(Ends)'
<1>1. PICK p \in F!Bijection(DOMAIN ranges, DOMAIN ranges) :
         /\ Ordered([i \in DOMAIN ranges |-> Ends[p[i]]])
         /\ ranges' = [i \in DOMAIN ranges |-> ranges[p[i]]]
  BY DEF ParseEnd, Sorts, Ends
<1>2. /\ p \in [DOMAIN ranges -> DOMAIN ranges]
      /\ \A i \in DOMAIN ranges : \E j \in DOMAIN ranges : p[j] = i
  BY DEF F!Bijection, F!Injection, F!Surjection
<1>3. DOMAIN ranges = 1 .. Len(ranges) /\ Len(ranges) \in Nat
      /\ \A i \in DOMAIN ranges : ranges[i] \in CDWARFRange
  BY DEF Filled
<1>4. /\ ranges' \in Seq(CDWARFRange)
      /\ DOMAIN ranges' = DOMAIN ranges
      /\ \A i \in DOMAIN ranges : ranges'[i] = ranges[p[i]]
  <2>1. ranges' \in [1 .. Len(ranges) -> CDWARFRange]
    BY <1>1, <1>2, <1>3
  <2> QED BY <1>1, <1>3, <2>1
<1>5. Ordered(Ends)'
  <2>1. Ends' = [i \in DOMAIN ranges |-> Ends[p[i]]]
    BY <1>1, <1>2, <1>4 DEF Ends
  <2> QED BY <1>1, <2>1 DEF Ordered
<1>6. UNCHANGED <<section, next>> /\ parsing' = FALSE
  BY DEF ParseEnd
<1>7. \A k, r : Made(k, r)' <=> Made(k, r)
  BY <1>6 DEF Made
<1>8. ASSUME NEW i \in DOMAIN ranges'
      PROVE  \E k \in 1 .. next - 1 : Made(k, ranges'[i])
  BY <1>2, <1>4 DEF Filled
<1>9. ASSUME NEW k \in 1 .. next - 1, NEW r, Made(k, r)
      PROVE  \E i \in DOMAIN ranges' : ranges'[i] = r
  <2>1. PICK i \in DOMAIN ranges : ranges[i] = r
    BY <1>9 DEF Filled
  <2>2. PICK j \in DOMAIN ranges : p[j] = i
    BY <1>2
  <2> QED BY <1>4, <2>1, <2>2
<1> QED
  BY <1>4, <1>5, <1>6, <1>7, <1>8, <1>9 DEF Filled, Readable

(* What the table answers depends on the table and the address alone. *)
LEMMA AnswerStays ==
    ASSUME UNCHANGED ranges
    PROVE  /\ Places(ranges)' = Places(ranges)
           /\ \A i : /\ FirstAtOrAfter(asked, i)' <=> FirstAtOrAfter(asked', i)
                    /\ Answer(asked, i)' = Answer(asked', i)
<1>1. Ends' = Ends /\ Places(ranges)' = Places(ranges)
  BY DEF Ends, Places
<1>2. ASSUME NEW i PROVE FirstAtOrAfter(asked, i)' <=> FirstAtOrAfter(asked', i)
  BY <1>1 DEF FirstAtOrAfter
<1>3. ASSUME NEW i PROVE Answer(asked, i)' = Answer(asked', i)
  <2>1. Candidates(i)' = Candidates(i)
    BY DEF Candidates, Before
  <2>2. {j \in Candidates(i) : Contains(ranges[j], asked)}'
          = {j \in Candidates(i) : Contains(ranges[j], asked')}
    BY <2>1 DEF Contains
  <2> QED BY <2>1, <2>2 DEF Answer, Before
<1> QED
  BY <1>1, <1>2, <1>3

(***************************************************************************)
(* IInv is inductive: filling and sorting keep the table what it is, and a *)
(* lookup, which only happens afterwards, records its answer.              *)
(***************************************************************************)
THEOREM TableInvariant == Spec => []IInv
<1>1. Init => IInv
  <2> SUFFICES ASSUME Init PROVE IInv
    OBVIOUS
  <2>1. section \in Seq(ArangeSet) /\ next = 1 /\ parsing = TRUE /\ ranges = <<>>
        /\ asked = NULL /\ found = NULL
    BY SectionsAssumption DEF Init
  <2>2. DOMAIN ranges = {} /\ 1 .. next - 1 = {} /\ ranges \in Seq(CDWARFRange)
    BY <2>1
  <2>3. next \in 1 .. Len(section) + 1
    BY <2>1
  <2> QED
    BY <2>1, <2>2, <2>3 DEF IInv, Filled, Parsed, Answered
<1>2. IInv /\ [Next]_vars => IInv'
  <2> SUFFICES ASSUME IInv, [Next]_vars PROVE IInv'
    OBVIOUS
  <2>1. CASE ParseSet
    <3>1. Filled'
      BY <2>1, ParseSetFills DEF IInv
    <3>2. parsing' /\ parsing /\ asked' = asked /\ found' = found
      BY <2>1 DEF ParseSet
    <3> QED BY <3>1, <3>2 DEF IInv, Parsed, Answered
  <2>2. CASE ParseEnd
    <3>1. Filled' /\ Ordered(Ends)'
      BY <2>2, ParseEndOrders DEF IInv
    <3>2. /\ parsing /\ UNCHANGED <<section, next, asked, found>>
          /\ next <= Len(section) => ~Readable(section[next])
      BY <2>2 DEF ParseEnd
    <3>3. Parsed'
      BY <3>1, <3>2 DEF Parsed, Readable
    <3> QED BY <3>1, <3>2, <3>3 DEF IInv, Answered
  <2>3. ASSUME NEW a \in Address, GetRangesBy(a)
        PROVE  IInv'
    <3>1. /\ UNCHANGED <<section, next, parsing, ranges>> /\ ~parsing /\ asked' = a
          /\ \E i \in Places(ranges) : FirstAtOrAfter(a, i) /\ found' = Answer(a, i)
      BY <2>3 DEF GetRangesBy
    <3>2. Filled' /\ Parsed'
      BY <3>1 DEF IInv, Filled, Parsed, Made, Ends, Readable, Ordered
    <3>3. Answered'
      BY <3>1, AnswerStays, NULLAssumption DEF Answered
    <3> QED BY <3>2, <3>3 DEF IInv
  <2>4. CASE UNCHANGED vars
    <3>1. Filled' /\ Parsed'
      BY <2>4 DEF vars, IInv, Filled, Parsed, Made, Ends, Readable, Ordered
    <3>2. Answered'
      BY <2>4, AnswerStays DEF vars, IInv, Answered
    <3> QED BY <3>1, <3>2 DEF IInv
  <2> QED
    BY <2>1, <2>2, <2>3, <2>4 DEF Next
<1> QED
  BY <1>1, <1>2, PTL DEF Spec

-------------------------------------------------------------------------------
(* An answer is a range of the table that contains the address. *)
LEMMA AnswerIsInTable ==
    ASSUME IInv, found # NULL
    PROVE  /\ Covers(found, asked) /\ found \in Ranges /\ ~parsing
<1>1. asked # NULL /\ ~parsing
  BY DEF IInv, Answered
<1>2. PICK i \in Places(ranges) : found = Answer(asked, i)
  BY <1>1 DEF IInv, Answered
<1> DEFINE hits == {j \in Candidates(i) : Contains(ranges[j], asked)}
<1>3. hits # {}
  BY <1>2 DEF Answer
<1>4. PICK j \in hits : found = ranges[j]
  <2>1. CASE i \in hits
    BY <1>2, <1>3, <2>1 DEF Answer
  <2>2. CASE i \notin hits
    <3>1. Before(i) \in hits
      BY <1>3, <2>2 DEF Candidates
    <3>2. found = ranges[Before(i)]
      BY <1>2, <1>3, <2>2 DEF Answer
    <3> QED BY <3>1, <3>2
  <2> QED BY <2>1, <2>2
<1>5. Covers(found, asked)
  BY <1>4 DEF Contains, Covers
<1>6. j \in DOMAIN ranges
  <2>1. i \in Nat \ {0} /\ i <= Len(ranges) /\ ranges \in Seq(CDWARFRange)
    BY <1>2, <1>4 DEF Places, Candidates, IInv, Filled
  <2>2. j = i \/ j = Before(i)
    BY <1>4 DEF Candidates
  <2> QED BY <2>1, <2>2 DEF Before
<1> QED
  BY <1>1, <1>4, <1>5, <1>6 DEF Ranges

(* What the table holds is listed, and once it is complete, what is listed
   is in the table. *)
LEMMA TableIsListed ==
    ASSUME IInv, NEW i \in DOMAIN ranges
    PROVE  ranges[i] \in Listed
<1>1. PICK k \in 1 .. next - 1 : Made(k, ranges[i])
  BY DEF IInv, Filled
<1>2. /\ k \in DOMAIN section
      /\ \A l \in 1 .. k : l \in 1 .. next - 1
  BY <1>1 DEF IInv, Filled
<1>3. \A l \in 1 .. k : section[l].good /\ section[l].tuples # <<>>
  BY <1>2 DEF IInv, Filled, Readable
<1> QED
  BY <1>1, <1>2, <1>3 DEF Listed, Made

LEMMA ListedIsTable ==
    ASSUME IInv, ~parsing, NEW r \in Listed
    PROVE  \E i \in DOMAIN ranges : ranges[i] = r /\ r \in CDWARFRange
<1>1. PICK k \in DOMAIN section :
         /\ \A l \in 1 .. k : section[l].good /\ section[l].tuples # <<>>
         /\ Made(k, r)
  BY DEF Listed, Made
<1>2. k \in 1 .. next - 1
  <2>1. /\ k \in Nat \ {0} /\ k <= Len(section) /\ next \in Nat \ {0}
        /\ next <= Len(section) => ~Readable(section[next])
    BY DEF IInv, Filled, Parsed
  <2>2. ASSUME next <= k PROVE FALSE
    <3>1. next \in 1 .. k /\ next <= Len(section)
      BY <2>1, <2>2 DEF IInv, Filled
    <3> QED BY <1>1, <2>1, <3>1 DEF Readable
  <2> QED BY <2>1, <2>2
<1>3. PICK i \in DOMAIN ranges : ranges[i] = r
  BY <1>1, <1>2 DEF IInv, Filled
<1> QED
  BY <1>3 DEF IInv, Filled

(* The first range at or behind an address ends no later than any listed
   range that ends there or behind. *)
LEMMA FirstEnd ==
    ASSUME IInv, asked # NULL, NEW r \in Listed, asked <= r.end,
           NEW i \in Places(ranges), FirstAtOrAfter(asked, i)
    PROVE  /\ i \in DOMAIN ranges /\ ranges[i] \in Listed
           /\ asked <= ranges[i].end /\ ranges[i].end <= r.end
           /\ ranges[i].begin \in Int /\ ranges[i].end \in Int
<1>1. ~parsing /\ asked \in Int /\ Ordered(Ends) /\ ranges \in Seq(CDWARFRange)
  BY TopAssumption DEF IInv, Answered, Parsed, Filled, Address
<1>2. PICK k \in DOMAIN ranges : ranges[k] = r
  BY <1>1, ListedIsTable
<1>3. \A j \in DOMAIN ranges :
         Ends[j] = ranges[j].end /\ Ends[j] \in Int /\ ranges[j].begin \in Int
  <2>1. ASSUME NEW j \in DOMAIN ranges
        PROVE  ranges[j].end \in Int /\ ranges[j].begin \in Int
    <3>1. ranges[j] \in CDWARFRange
      BY <1>1
    <3> QED BY <3>1, TopAssumption DEF CDWARFRange, Address
  <2> QED BY <2>1 DEF Ends
<1>4. DOMAIN Ends = DOMAIN ranges /\ Len(Ends) = Len(ranges)
      /\ DOMAIN ranges = 1 .. Len(ranges) /\ Len(ranges) \in Nat
  <2>1. Ends \in [1 .. Len(ranges) -> Int]
    BY <1>1, <1>3 DEF Ends
  <2> QED BY <1>1, <2>1
<1>5. i <= k
  <2>1. ASSUME k < i PROVE FALSE
    BY <1>1, <1>2, <1>3, <1>4, <2>1 DEF FirstAtOrAfter, IsLowerBound
  <2> QED BY <1>4, <2>1 DEF Places
<1>6. i \in DOMAIN ranges
  BY <1>4, <1>5 DEF Places
<1>7. Ends[i] >= asked /\ Ends[i] <= Ends[k]
  BY <1>1, <1>4, <1>5, <1>6 DEF FirstAtOrAfter, IsLowerBound, Ordered
<1> QED
  BY <1>1, <1>2, <1>3, <1>6, <1>7, TableIsListed

(* TypeOK, for every section: what the table holds are ranges of addresses,
   and a lookup returns one of them. *)
THEOREM TypeCorrect == Spec => []TypeOK
<1>1. ASSUME Init PROVE section \in Sections
  BY <1>1 DEF Init
<1>2. ASSUME section \in Sections, [Next]_vars PROVE section' \in Sections
  BY <1>2 DEF Next, ParseSet, ParseEnd, GetRangesBy, vars
<1>3. ASSUME IInv, section \in Sections PROVE TypeOK
  <2>1. found \in Ranges \cup {NULL}
    BY <1>3, AnswerIsInTable DEF IInv
  <2>2. asked \in Address \cup {NULL}
    BY <1>3 DEF IInv, Answered
  <2> QED
    BY <1>3, <2>1, <2>2 DEF IInv, Filled, TypeOK
<1>4. Init => section \in Sections
  BY <1>1
<1>5. section \in Sections /\ [Next]_vars => (section \in Sections)'
  BY <1>2
<1>6. IInv /\ section \in Sections => TypeOK
  BY <1>3
<1> QED
  BY <1>4, <1>5, <1>6, TableInvariant, PTL DEF Spec

(***************************************************************************)
(* FoundIsRight, for every section: an answer contains the address, and it *)
(* is a range of a set that was read.                                      *)
(***************************************************************************)
THEOREM FoundAlwaysRight == Spec => []FoundIsRight
<1>1. IInv => FoundIsRight
  BY AnswerIsInTable, TableIsListed DEF IInv, FoundIsRight, Ranges
<1> QED
  BY <1>1, TableInvariant, PTL

(***************************************************************************)
(* InnerAddressFound, for every section whose ranges are proper and        *)
(* disjoint: the first range that ends at an inner address or behind it    *)
(* can only be the one that contains it.                                   *)
(***************************************************************************)
THEOREM InnerAddressAlwaysFound == Spec => []InnerAddressFound
<1>1. IInv => InnerAddressFound
  <2> SUFFICES ASSUME IInv, asked # NULL, Proper, Disjoint,
                      NEW r \in Listed, r.begin < asked, asked < r.end
               PROVE  found = r
    BY DEF InnerAddressFound
  <2>1. PICK i \in Places(ranges) :
           FirstAtOrAfter(asked, i) /\ found = Answer(asked, i)
    BY DEF IInv, Answered
  <2>2. r \in CDWARFRange /\ asked \in Int /\ r.begin \in Int /\ r.end \in Int
    BY ListedIsTable, TopAssumption DEF IInv, Answered, Address, CDWARFRange
  <2>3. asked <= r.end
    BY <2>2
  <2>4. /\ i \in DOMAIN ranges /\ ranges[i] \in Listed
        /\ asked <= ranges[i].end /\ ranges[i].end <= r.end
        /\ ranges[i].begin \in Int /\ ranges[i].end \in Int
    BY <2>1, <2>3, FirstEnd
  <2>5. ranges[i].begin < ranges[i].end
    BY <2>4 DEF Proper
  <2>6. ranges[i] = r
    BY <2>2, <2>4, <2>5 DEF Disjoint
  <2>7. i \in {j \in Candidates(i) : Contains(ranges[j], asked)}
    BY <2>2, <2>4, <2>6 DEF Candidates, Contains, IInv, Filled
  <2> QED
    BY <2>1, <2>6, <2>7 DEF Answer
<1> QED
  BY <1>1, TableInvariant, PTL

(***************************************************************************)
(* LostOnlyBehindAnEnd, for every section: the range that hides a covered  *)
(* address is the first that ends at it or behind it.                      *)
(***************************************************************************)
THEOREM LostAlwaysBehindAnEnd == Spec => []LostOnlyBehindAnEnd
<1>1. IInv => LostOnlyBehindAnEnd
  <2> SUFFICES ASSUME IInv, asked # NULL, found = NULL,
                      NEW r \in Listed, Covers(r, asked)
               PROVE  \E s \in Listed : asked <= s.end /\ s.end <= r.end
                                         /\ ~Covers(s, asked)
    BY DEF LostOnlyBehindAnEnd
  <2>1. PICK i \in Places(ranges) :
           FirstAtOrAfter(asked, i) /\ found = Answer(asked, i)
    BY DEF IInv, Answered
  <2>2. asked \in Int /\ r.end \in Int
    BY ListedIsTable, TopAssumption DEF IInv, Answered, Address, CDWARFRange
  <2>3. asked <= r.end
    BY <2>2 DEF Covers
  <2>4. /\ i \in DOMAIN ranges /\ ranges[i] \in Listed
        /\ asked <= ranges[i].end /\ ranges[i].end <= r.end
    BY <2>1, <2>3, FirstEnd
  <2>5. ASSUME Covers(ranges[i], asked) PROVE FALSE
    <3>1. i \in {j \in Candidates(i) : Contains(ranges[j], asked)}
      BY <2>4, <2>5 DEF Candidates, Contains, Covers, IInv, Filled
    <3>2. found = ranges[i]
      BY <2>1, <3>1 DEF Answer
    <3> QED BY <2>4, <3>2, NULLAssumption DEF IInv, Filled
  <2> QED
    BY <2>4, <2>5
<1> QED
  BY <1>1, TableInvariant, PTL
===============================================================================
