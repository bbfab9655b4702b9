------------------------- MODULE DebugSectionsProofs --------------------------
(***************************************************************************)
(* Proofs about the parsers of the debug sections, as MCDebugSections      *)
(* composes them.  Range lists and line tables, which are kept from call   *)
(* to call, hold what the section says at the offset an entry is filed     *)
(* under, in the order their searches rely on.  The parse of declarations  *)
(* and of a prologue stands, with what it has read, where a part of the    *)
(* producer's ends.                                                        *)
(***************************************************************************)
EXTENDS MCDebugSections, WellFoundedInduction, SequenceTheorems, FiniteSetTheorems, TLAPS

(* Range lists: each set is the list of its offset, by offset, and no offset
   of the section has two. *)
RangeSet == [Offset : Nat, Collection : Seq(Ranges!Address \X Ranges!Address)]
Lists == [p \in 0 .. Len(section) |-> Ranges!SetRead(p)]
ListsKept ==
    /\ section \in RangeSections
    /\ table \in Seq(RangeSet)
    /\ \A i \in DOMAIN table :
          table[i].Offset <= Len(section) /\ table[i] = Lists[table[i].Offset]
    /\ Ranges!Ordered(Ranges!SetOffsets)
    /\ Ranges!ReadOnce

(* The last answer is that of the list at the offset asked for. *)
RangeAnswered ==
    /\ inRange \in BOOLEAN
    /\ query = NULL \/ query \in [offset : Offsets, base : Bases, address : Ranges!Address]
    /\ query # NULL =>
          inRange = Ranges!SetContains(Lists[Ranges!Position(query.offset)],
                                       query.base, query.address)

RangesInv == ListsKept /\ RangeAnswered

(* Line tables: each is what the section has at its offset, and none is there
   twice. *)
TableNode == [Offset : Nat, min : Nat, max : Nat]
Starts == {o \in Nat : Lines!Accepted(o)}
Nodes == [o \in Nat |-> Lines!Read(o)]
TablesKept ==
    /\ section \in LineSections
    /\ table \in Seq(TableNode)
    /\ \A i \in DOMAIN table :
          table[i].Offset \in Starts /\ table[i] = Nodes[table[i].Offset]
    /\ \A i, j \in DOMAIN table : table[i].Offset = table[j].Offset => i = j
    /\ at = "idle" \/ ~whole => Lines!Ordered(Lines!MaxAddrs)

(* Where a call stands: a parse behind the tables it read, an extraction at a
   table that nobody has read. *)
CallStands ==
    /\ at \in {"idle", "prologue", "program"} /\ whole \in BOOLEAN
    /\ pos \in 0 .. Len(section) /\ node \in 0 .. Len(section)
    /\ at = "program" => node \in Starts /\ node < pos
    /\ at = "prologue" /\ whole => \A i \in DOMAIN table : table[i].Offset < pos
    /\ at = "program" /\ whole => \A i \in DOMAIN table : table[i].Offset < node
    /\ at # "idle" /\ whole => answer = Lines!NoAnswer
    /\ at # "idle" /\ ~whole =>
          /\ answer.offset \in Offsets /\ answer.address = NULL /\ answer.found = NULL
          /\ \A i \in DOMAIN table : table[i].Offset # answer.offset
    /\ at = "prologue" /\ ~whole =>
          pos = IF answer.offset < Len(section) THEN answer.offset ELSE Len(section)
    /\ at = "program" /\ ~whole => node = answer.offset

(* The last answer is the section's; that to an address stands where the
   search of the table ends. *)
Answers == [offset : Offsets \cup {NULL}, address : LineAddresses \cup {NULL},
            found : TableNode \cup {NULL}]
LineAnswered ==
    /\ answer \in Answers
    /\ answer.offset = NULL /\ answer.address = NULL => answer.found = NULL
    /\ at = "idle" /\ answer.offset # NULL =>
          answer.found = IF answer.offset \in Starts THEN Nodes[answer.offset] ELSE NULL
    /\ answer.address # NULL =>
          /\ at = "idle"
          /\ \E i \in 1 .. Len(table) + 1 :
                /\ i <= Len(table) => table[i].max >= answer.address
                /\ \A j \in 1 .. Len(table) : j < i => table[j].max < answer.address
                /\ answer.found = IF i <= Len(table) THEN table[i] ELSE NULL

LinesInv == TablesKept /\ CallStands /\ LineAnswered

-------------------------------------------------------------------------------
(* A set of natural numbers has a least one. *)
LEMMA LeastNatural ==
    ASSUME NEW T, T \subseteq Nat, T # {}
    PROVE  \E x \in T : \A y \in T : x <= y
<1> DEFINE R == {p \in Nat \X Nat : p[1] < p[2]}
<1>1. OpToRel(<, Nat) = R
  BY Zenon DEF OpToRel
<1>2. IsWellFoundedOn(R, Nat)
  BY NatLessThanWellFounded, <1>1, Zenon
<1>3. PICK x \in T : \A y \in T : <<y, x>> \notin R
  BY WFMin, <1>2
<1>4. ASSUME NEW y \in T, y < x PROVE FALSE
  <2>1. <<y, x>> \in R
    BY <1>4
  <2> QED BY <1>3, <2>1
<1> QED
  BY <1>4

(* What std::vector::insert leaves: one more element, at its place, and the
   others in their order around it. *)
With(s, i, e) == [j \in 1 .. Len(s) + 1 |->
                    IF j < i THEN s[j] ELSE IF j = i THEN e ELSE s[j - 1]]

(* That is what PutAt gives. *)
LEMMA Inserted ==
    ASSUME NEW S, NEW s \in Seq(S), NEW i \in 1 .. Len(s) + 1, NEW e \in S
    PROVE  /\ Ranges!PutAt(s, i, e) \in Seq(S)
           /\ Ranges!PutAt(s, i, e) = With(s, i, e)
<1> DEFINE t == Ranges!PutAt(s, i, e)
           a == SubSeq(s, 1, i - 1)
           b == SubSeq(s, i, Len(s))
<1>1. Len(s) \in Nat /\ DOMAIN s = 1 .. Len(s) /\ \A j \in 1 .. Len(s) : s[j] \in S
  OBVIOUS
<1>2. i - 1 \in Int /\ i \in Int /\ Len(s) \in Int
  BY <1>1
<1>3. /\ a \in Seq(S) /\ Len(a) = i - 1
      /\ \A j \in 1 .. i - 1 : a[j] = s[j]
  <2>1. \A j \in 1 .. i - 1 : s[j] \in S
    BY <1>1
  <2>2. /\ a \in Seq(S) /\ Len(a) = IF 1 <= i - 1 THEN (i - 1) - 1 + 1 ELSE 0
        /\ \A j \in 1 .. (i - 1) - 1 + 1 : a[j] = s[1 + j - 1]
    BY <1>2, <2>1, SubSeqProperties
  <2> QED BY <1>1, <2>2
<1>4. /\ b \in Seq(S) /\ Len(b) = Len(s) - i + 1
      /\ \A j \in 1 .. Len(s) - i + 1 : b[j] = s[i + j - 1]
  <2>1. \A j \in i .. Len(s) : s[j] \in S
    BY <1>1
  <2>2. /\ b \in Seq(S) /\ Len(b) = IF i <= Len(s) THEN Len(s) - i + 1 ELSE 0
        /\ \A j \in 1 .. Len(s) - i + 1 : b[j] = s[i + j - 1]
    BY <1>2, <2>1, SubSeqProperties
  <2> QED BY <1>1, <2>2
<1>5. <<e>> \in Seq(S) /\ Len(<<e>>) = 1 /\ <<e>>[1] = e
  OBVIOUS
<1>6. t = (a \o <<e>>) \o b
  BY DEF Ranges!PutAt
<1> HIDE DEF t, a, b
<1>7. /\ a \o <<e>> \in Seq(S) /\ Len(a \o <<e>>) = i
      /\ \A j \in 1 .. i : (a \o <<e>>)[j] = IF j < i THEN a[j] ELSE e
  <2>1. /\ a \o <<e>> \in Seq(S)
        /\ Len(a \o <<e>>) = Len(a) + Len(<<e>>)
        /\ \A j \in 1 .. Len(a) + Len(<<e>>) :
              (a \o <<e>>)[j] = IF j <= Len(a) THEN a[j] ELSE <<e>>[j - Len(a)]
    BY <1>3, <1>5, ConcatProperties
  <2>2. \A j \in 1 .. i : (a \o <<e>>)[j] = IF j <= i - 1 THEN a[j] ELSE <<e>>[j - (i - 1)]
    <3>1. Len(a) = i - 1 /\ Len(<<e>>) = 1 /\ Len(a) + Len(<<e>>) = i
      BY <1>1, <1>3, <1>5
    <3> QED BY <2>1, <3>1, Zenon
  <2>3. \A j \in 1 .. i : j <= i - 1 <=> j < i
    BY <1>1
  <2>4. \A j \in 1 .. i : j < i \/ j - (i - 1) = 1
    BY <1>1
  <2>5. Len(a \o <<e>>) = i
    BY <1>1, <1>3, <1>5, <2>1
  <2>6. ASSUME NEW j \in 1 .. i PROVE (a \o <<e>>)[j] = IF j < i THEN a[j] ELSE e
    <3>1. CASE j < i
      BY <2>2, <2>3, <3>1
    <3>2. CASE ~(j < i)
      <4>1. ~(j <= i - 1) /\ j - (i - 1) = 1
        BY <2>3, <2>4, <3>2
      <4> QED BY <1>5, <2>2, <3>2, <4>1
    <3> QED BY <3>1, <3>2
  <2> QED BY <2>1, <2>5, <2>6
<1> DEFINE c == a \o <<e>>
<1> HIDE DEF c
<1>8. /\ t \in Seq(S) /\ Len(t) = Len(s) + 1
      /\ \A j \in 1 .. Len(s) + 1 : t[j] = IF j <= i THEN c[j] ELSE b[j - i]
  <2>1. c \in Seq(S) /\ Len(c) = i /\ t = c \o b
    BY <1>6, <1>7 DEF c
  <2>2. /\ c \o b \in Seq(S)
        /\ Len(c \o b) = Len(c) + Len(b)
        /\ \A j \in 1 .. Len(c) + Len(b) :
              (c \o b)[j] = IF j <= Len(c) THEN c[j] ELSE b[j - Len(c)]
    BY <1>4, <2>1, ConcatProperties
  <2>3. Len(c) + Len(b) = Len(s) + 1
    BY <1>1, <1>4, <2>1
  <2> QED BY <2>1, <2>2, <2>3
<1>9. DOMAIN t = 1 .. Len(s) + 1
  <2>1. DOMAIN t = 1 .. Len(t)
    BY <1>8
  <2> QED BY <1>8, <2>1
<1>10. ASSUME NEW j \in 1 .. Len(s) + 1
       PROVE  t[j] = IF j < i THEN s[j] ELSE IF j = i THEN e ELSE s[j - 1]
  <2>1. CASE j < i
    <3>1. t[j] = c[j] /\ c[j] = a[j] /\ a[j] = s[j]
      BY <1>1, <1>3, <1>7, <1>8, <2>1 DEF c
    <3> QED BY <2>1, <3>1
  <2>2. CASE j = i
    <3>1. t[j] = c[j] /\ c[j] = e
      BY <1>1, <1>7, <1>8, <2>2 DEF c
    <3> QED BY <2>2, <3>1
  <2>3. CASE j > i
    <3>1. ~(j <= i) /\ j - i \in 1 .. Len(s) - i + 1 /\ i + (j - i) - 1 = j - 1
      BY <1>1, <2>3
    <3>2. t[j] = b[j - i] /\ b[j - i] = s[i + (j - i) - 1]
      BY <1>4, <1>8, <3>1
    <3> QED BY <1>1, <2>3, <3>1, <3>2
  <2> QED BY <1>1, <2>1, <2>2, <2>3
<1>11. t = With(s, i, e)
  <2>1. t = [j \in DOMAIN t |-> t[j]]
    BY <1>8
  <2> QED BY <2>1, <1>9, <1>10, Zenon DEF With
<1> QED
  BY <1>8, <1>11 DEF t

(* An element at the lower bound of its key keeps a table ordered. *)
LEMMA InsertedInOrder ==
    ASSUME NEW n \in Nat, NEW old \in [1 .. n -> Int], NEW new \in [1 .. n + 1 -> Int],
           NEW i \in 1 .. n + 1, NEW x \in Int,
           \A j, k \in 1 .. n : j <= k => old[j] <= old[k],
           i <= n => old[i] >= x,
           \A j \in 1 .. n : j < i => old[j] < x,
           \A j \in 1 .. n + 1 :
              new[j] = IF j < i THEN old[j] ELSE IF j = i THEN x ELSE old[j - 1]
    PROVE  \A j, k \in 1 .. n + 1 : j <= k => new[j] <= new[k]
<1> SUFFICES ASSUME NEW j \in 1 .. n + 1, NEW k \in 1 .. n + 1, j <= k
             PROVE  new[j] <= new[k]
  OBVIOUS
<1>1. CASE k < i
  <2>1. j \in 1 .. n /\ k \in 1 .. n /\ j < i
    BY <1>1
  <2> QED BY <1>1, <2>1
<1>2. CASE k = i
  <2>1. new[k] = x /\ (j < i => new[j] = old[j] /\ old[j] < x /\ old[j] \in Int)
    BY <1>2
  <2> QED BY <1>2, <2>1
<1>3. CASE k > i
  <2>1. /\ k - 1 \in 1 .. n /\ i \in 1 .. n /\ i <= k - 1 /\ new[k] = old[k - 1]
        /\ old[k - 1] \in Int /\ old[i] \in Int
    BY <1>3
  <2>2. old[i] <= old[k - 1] /\ x <= old[i]
    BY <2>1
  <2>3. CASE j < i
    BY <2>1, <2>2, <2>3
  <2>4. CASE j = i
    BY <2>1, <2>2, <2>4
  <2>5. CASE j > i
    <3>1. j - 1 \in 1 .. n /\ j - 1 <= k - 1 /\ new[j] = old[j - 1]
      BY <2>5
    <3> QED BY <2>1, <3>1
  <2> QED BY <2>3, <2>4, <2>5
<1> QED
  BY <1>1, <1>2, <1>3

-------------------------------------------------------------------------------
(* What the section of range lists is, as the leaves below need it. *)
LEMMA RangeFacts ==
    ASSUME section \in RangeSections
    PROVE  /\ section \in Seq(Ranges!Address \X Ranges!Address)
           /\ Len(section) \in Nat /\ DOMAIN section = 1 .. Len(section)
           /\ Top \in Nat \ {0} /\ Offsets \subseteq Nat /\ Bases \subseteq Ranges!Address
           /\ Ranges!Address \subseteq Nat
<1>1. section \in Seq(Ranges!Address \X Ranges!Address)
  BY RangesAssumption DEF Ranges!RangesAssumption
<1>2. Top \in Nat \ {0} /\ Offsets \subseteq Nat /\ Bases \subseteq Ranges!Address
  BY RangesAssumption DEF Ranges!RangesAssumption
<1>3. Ranges!Address \subseteq Nat
  BY DEF Ranges!Address
<1>4. Len(section) \in Nat /\ DOMAIN section = 1 .. Len(section)
  BY <1>1
<1> QED
  BY <1>1, <1>2, <1>3, <1>4

(* A list is the run of entries behind its offset, up to an end-of-list entry
   or to the end of the section. *)
LEMMA ListFacts ==
    ASSUME section \in RangeSections, NEW p \in 0 .. Len(section)
    PROVE  \E n \in Nat :
             /\ p + n <= Len(section)
             /\ Len(Ranges!ListFrom(p)) = n
             /\ Ranges!ListFrom(p) \in Seq(Ranges!Address \X Ranges!Address)
             /\ DOMAIN Ranges!ListFrom(p) = 1 .. n
             /\ \A k \in 1 .. n : /\ Ranges!ListFrom(p)[k] = section[p + k]
                                  /\ section[p + k] # Ranges!EndOfList
             /\ p + n < Len(section) => section[p + n + 1] = Ranges!EndOfList
<1> DEFINE stops == {k \in p + 1 .. Len(section) + 1 :
                        k > Len(section) \/ section[k] = Ranges!EndOfList}
           stop == CHOOSE k \in stops : \A l \in stops : k <= l
           n == stop - 1 - p
           list == SubSeq(section, p + 1, stop - 1)
<1>1. /\ Len(section) \in Nat /\ DOMAIN section = 1 .. Len(section)
      /\ \A k \in 1 .. Len(section) : section[k] \in Ranges!Address \X Ranges!Address
  BY RangeFacts
<1>2. stops \subseteq Nat /\ stops # {}
  <2>1. Len(section) + 1 \in stops
    BY <1>1
  <2> QED BY <1>1, <2>1
<1>3. stop \in stops /\ \A l \in stops : stop <= l
  <2>1. \E x \in stops : \A y \in stops : x <= y
    BY <1>2, LeastNatural
  <2> HIDE DEF stops
  <2> QED BY <2>1
<1>4. Ranges!ListFrom(p) = list
  BY DEF Ranges!ListFrom
<1> HIDE DEF stop
<1>5. /\ n \in Nat /\ p + n <= Len(section) /\ stop = p + n + 1
      /\ \A k \in 1 .. n : section[p + k] # Ranges!EndOfList
      /\ p + n < Len(section) => section[p + n + 1] = Ranges!EndOfList
  <2>1. stop \in p + 1 .. Len(section) + 1 /\ (stop > Len(section) \/ section[stop] = Ranges!EndOfList)
    BY <1>3
  <2>2. n \in Nat /\ p + n <= Len(section) /\ stop = p + n + 1
    BY <1>1, <2>1
  <2>3. ASSUME NEW k \in 1 .. n, section[p + k] = Ranges!EndOfList PROVE FALSE
    <3>1. p + k \in p + 1 .. Len(section) + 1 /\ p + k < stop
      BY <1>1, <2>2
    <3>2. p + k \in stops
      BY <2>3, <3>1
    <3> QED BY <1>1, <1>3, <2>2, <3>1, <3>2
  <2>4. p + n < Len(section) => section[p + n + 1] = Ranges!EndOfList
    BY <1>1, <2>1, <2>2
  <2> QED BY <2>2, <2>3, <2>4
<1> HIDE DEF n
<1>6. /\ list \in Seq(Ranges!Address \X Ranges!Address) /\ Len(list) = n
      /\ \A k \in 1 .. n : list[k] = section[p + k]
  <2>1. p + 1 \in Int /\ stop - 1 \in Int /\ stop - 1 = p + n
    BY <1>1, <1>5
  <2>2. \A k \in p + 1 .. stop - 1 : section[k] \in Ranges!Address \X Ranges!Address
    BY <1>1, <1>5, <2>1
  <2>3. /\ list \in Seq(Ranges!Address \X Ranges!Address)
        /\ Len(list) = IF p + 1 <= stop - 1 THEN (stop - 1) - (p + 1) + 1 ELSE 0
        /\ \A k \in 1 .. (stop - 1) - (p + 1) + 1 : list[k] = section[(p + 1) + k - 1]
    BY <2>1, <2>2, SubSeqProperties
  <2>4. (stop - 1) - (p + 1) + 1 = n
    BY <1>1, <1>5, <2>1
  <2>5. \A k \in 1 .. n : (p + 1) + k - 1 = p + k
    BY <1>1, <1>5
  <2> HIDE DEF list
  <2> QED BY <1>1, <1>5, <2>1, <2>3, <2>4, <2>5
<1> HIDE DEF list
<1>7. DOMAIN list = 1 .. n
  BY <1>5, <1>6
<1> QED
  BY <1>4, <1>5, <1>6, <1>7

(* What the table does not change stays as it was. *)
LEMMA SetReadTyped ==
    ASSUME section \in RangeSections, NEW p \in 0 .. Len(section)
    PROVE  Ranges!SetRead(p) \in RangeSet /\ Ranges!SetRead(p).Offset = p
<1>1. Ranges!ListFrom(p) \in Seq(Ranges!Address \X Ranges!Address)
  BY ListFacts
<1> QED
  BY <1>1, RangeFacts DEF Ranges!SetRead, RangeSet

(* The table as functions, and where a search of it stands. *)
LEMMA TableFacts ==
    ASSUME ListsKept
    PROVE  /\ Len(table) \in Nat /\ DOMAIN table = 1 .. Len(table)
           /\ DOMAIN Ranges!SetOffsets = 1 .. Len(table)
           /\ Len(Ranges!SetOffsets) = Len(table)
           /\ \A i \in 1 .. Len(table) :
                /\ table[i] \in RangeSet /\ table[i].Offset \in 0 .. Len(section)
                /\ table[i] = Lists[table[i].Offset]
                /\ Ranges!SetOffsets[i] = table[i].Offset
           /\ \A i, j \in 1 .. Len(table) : i <= j => table[i].Offset <= table[j].Offset
<1>1. Len(table) \in Nat /\ DOMAIN table = 1 .. Len(table)
      /\ \A i \in 1 .. Len(table) : table[i] \in RangeSet
  BY DEF ListsKept
<1>2. \A i \in 1 .. Len(table) :
         /\ table[i].Offset \in 0 .. Len(section)
         /\ table[i] = Lists[table[i].Offset]
  BY <1>1, RangeFacts DEF ListsKept, RangeSet
<1>3. DOMAIN Ranges!SetOffsets = 1 .. Len(table)
      /\ \A i \in 1 .. Len(table) : Ranges!SetOffsets[i] = table[i].Offset
  BY <1>1 DEF Ranges!SetOffsets
<1>4. Len(Ranges!SetOffsets) = Len(table)
  BY <1>1, <1>3
<1>5. \A i, j \in 1 .. Len(table) : i <= j => table[i].Offset <= table[j].Offset
  BY <1>3 DEF ListsKept, Ranges!Ordered
<1> QED
  BY <1>1, <1>2, <1>3, <1>4, <1>5

(* A lower bound of an offset among the sets. *)
LEMMA PlaceFacts ==
    ASSUME ListsKept, NEW o \in Nat, NEW i \in Ranges!Places(table), Ranges!Place(o, i)
    PROVE  /\ i \in 1 .. Len(table) + 1
           /\ i <= Len(table) => table[i].Offset >= o
           /\ \A j \in 1 .. Len(table) : j < i => table[j].Offset < o
<1>1. i \in 1 .. Len(table) + 1
  BY DEF Ranges!Places
<1>2. i <= Len(table) => Ranges!SetOffsets[i] >= o
  BY TableFacts DEF Ranges!Place, Ranges!IsLowerBound
<1>3. \A j \in 1 .. Len(table) : j < i => Ranges!SetOffsets[j] < o
  BY TableFacts DEF Ranges!Place, Ranges!IsLowerBound
<1>4. i <= Len(table) => i \in 1 .. Len(table)
  BY <1>1, TableFacts
<1> QED
  BY <1>1, <1>2, <1>3, <1>4, TableFacts

(* An answer is that of the set it is taken from. *)
LEMMA AskedAnswers ==
    ASSUME section \in RangeSections, section' = section,
           NEW o \in Offsets, NEW base \in Bases, NEW a \in Ranges!Address,
           Ranges!Asked(o, base, a, Lists[Ranges!Position(o)])
    PROVE  RangeAnswered'
<1>1. /\ query' = [offset |-> o, base |-> base, address |-> a]
      /\ inRange' = Ranges!SetContains(Lists[Ranges!Position(o)], base, a)
  BY DEF Ranges!Asked
<1>2. Lists' = Lists
  BY DEF Lists, Ranges!SetRead, Ranges!ListFrom
<1>3. (Ranges!Position(query.offset))' = Ranges!Position(o)
  BY <1>1 DEF Ranges!Position
<1>4. /\ query'.base = base /\ query'.address = a
      /\ query' \in [offset : Offsets, base : Bases, address : Ranges!Address]
  BY <1>1
<1>5. inRange' \in BOOLEAN
  BY <1>1 DEF Ranges!SetContains
<1>6. inRange' = (Ranges!SetContains(Lists[Ranges!Position(query.offset)],
                                     query.base, query.address))'
  BY <1>1, <1>2, <1>3, <1>4 DEF Ranges!SetContains, Ranges!Contains
<1>7. Ranges!Address' = Ranges!Address
  BY DEF Ranges!Address
<1> QED
  BY <1>4, <1>5, <1>6, <1>7 DEF RangeAnswered

(* A list that is found is that of the offset asked for. *)
LEMMA InRangeKnownKeeps ==
    ASSUME RangesInv, NEW o \in Offsets, NEW base \in Bases, NEW a \in Ranges!Address,
           Ranges!isInRangeKnown(o, base, a)
    PROVE  RangesInv'
<1>1. PICK i \in Ranges!Places(table) :
         /\ i <= Len(table) /\ table[i].Offset = o
         /\ Ranges!Asked(o, base, a, table[i])
         /\ UNCHANGED <<section, table>>
  BY DEF Ranges!isInRangeKnown
<1>2. ListsKept /\ section \in RangeSections
  BY DEF RangesInv, ListsKept
<1>3. i \in 1 .. Len(table)
  BY <1>1, <1>2, TableFacts DEF Ranges!Places
<1>4. o \in 0 .. Len(section) /\ table[i] = Lists[o]
  BY <1>1, <1>2, <1>3, TableFacts
<1>5. Ranges!Position(o) = o
  BY <1>2, <1>4, RangeFacts DEF Ranges!Position
<1>6. RangeAnswered'
  BY <1>1, <1>2, <1>4, <1>5, AskedAnswers
<1>7. Lists' = Lists
  BY <1>1 DEF Lists, Ranges!SetRead, Ranges!ListFrom
<1>8. ListsKept'
  BY <1>1, <1>2, <1>7 DEF ListsKept, RangeSet, Ranges!Address, Ranges!Ordered,
        Ranges!SetOffsets, Ranges!ReadOnce
<1> QED
  BY <1>6, <1>8 DEF RangesInv

(* A list that is read is filed where the next search for it looks, and no
   offset of the section had it before. *)
LEMMA InRangeNewKeeps ==
    ASSUME RangesInv, NEW o \in Offsets, NEW base \in Bases, NEW a \in Ranges!Address,
           Ranges!isInRangeNew(o, base, a)
    PROVE  RangesInv'
<1> DEFINE p == Ranges!Position(o)
           filed == Ranges!SetRead(p)
           n == Len(table)
<1>1. /\ section' = section
      /\ \E j \in Ranges!Places(table) :
            Ranges!Place(o, j) /\ (j <= Len(table) => table[j].Offset # o)
      /\ \E i \in Ranges!Places(table) :
            Ranges!Place(filed.Offset, i) /\ table' = Ranges!PutAt(table, i, filed)
      /\ Ranges!Asked(o, base, a, filed)
  BY DEF Ranges!isInRangeNew
<1>2. ListsKept /\ section \in RangeSections
  BY DEF RangesInv, ListsKept
<1>3. o \in Nat /\ p \in 0 .. Len(section) /\ (p < Len(section) => p = o)
  BY <1>2, RangeFacts DEF Ranges!Position
<1>4. filed \in RangeSet /\ filed.Offset = p /\ filed = Lists[p]
  BY <1>2, <1>3, SetReadTyped DEF Lists
<1>5. PICK j \in Ranges!Places(table) :
         Ranges!Place(o, j) /\ (j <= Len(table) => table[j].Offset # o)
  BY <1>1
<1>6. PICK i \in Ranges!Places(table) :
         Ranges!Place(p, i) /\ table' = Ranges!PutAt(table, i, filed)
  BY <1>1, <1>4
<1> HIDE DEF p, filed
<1>7. /\ n \in Nat /\ DOMAIN table = 1 .. n
      /\ \A k \in 1 .. n : /\ table[k] \in RangeSet /\ table[k].Offset \in 0 .. Len(section)
                           /\ table[k] = Lists[table[k].Offset]
      /\ \A k, l \in 1 .. n : k <= l => table[k].Offset <= table[l].Offset
  BY <1>2, TableFacts
<1>8. /\ i \in 1 .. n + 1
      /\ i <= n => table[i].Offset >= p
      /\ \A k \in 1 .. n : k < i => table[k].Offset < p
  BY <1>2, <1>3, <1>6, PlaceFacts, RangeFacts
<1>9. \A k \in 1 .. n : table[k].Offset # o
  <2>1. /\ j \in 1 .. n + 1
        /\ j <= n => table[j].Offset >= o
        /\ \A k \in 1 .. n : k < j => table[k].Offset < o
    BY <1>2, <1>3, <1>5, PlaceFacts
  <2>2. ASSUME NEW k \in 1 .. n, table[k].Offset = o PROVE FALSE
    <3>1. j <= k /\ j \in 1 .. n
      BY <1>7, <2>1, <2>2
    <3>2. table[j].Offset <= o /\ table[j].Offset >= o /\ table[j].Offset # o
      BY <1>5, <1>7, <2>1, <2>2, <3>1
    <3> QED BY <1>3, <1>7, <3>1, <3>2
  <2> QED BY <2>2
<1>10. /\ table' \in Seq(RangeSet) /\ Len(table') = n + 1 /\ DOMAIN table' = 1 .. n + 1
       /\ \A k \in 1 .. n + 1 :
            table'[k] = IF k < i THEN table[k] ELSE IF k = i THEN filed ELSE table[k - 1]
  <2>1. table \in Seq(RangeSet) /\ filed \in RangeSet /\ i \in 1 .. Len(table) + 1
    BY <1>2, <1>4, <1>8 DEF ListsKept
  <2>2. table' = Ranges!PutAt(table, i, filed)
    BY <1>6
  <2>3. /\ Ranges!PutAt(table, i, filed) \in Seq(RangeSet)
        /\ Ranges!PutAt(table, i, filed) = With(table, i, filed)
    BY <2>1, Inserted, ZenonT(30)
  <2>4. table' \in Seq(RangeSet) /\ table' = With(table, i, filed)
    BY <2>2, <2>3
  <2> QED BY <1>7, <2>4 DEF With
<1> HIDE DEF n
<1>11. Lists' = Lists
  BY <1>1 DEF Lists, Ranges!SetRead, Ranges!ListFrom
<1>12. \A k \in 1 .. n + 1 :
          \/ k < i /\ k \in 1 .. n /\ table'[k] = table[k]
          \/ k = i /\ table'[k] = filed
          \/ k > i /\ k - 1 \in 1 .. n /\ table'[k] = table[k - 1]
  BY <1>7, <1>8, <1>10
<1>13. \A k \in 1 .. n + 1 :
          /\ table'[k].Offset \in 0 .. Len(section)
          /\ table'[k] = Lists[table'[k].Offset]
  BY <1>3, <1>4, <1>7, <1>12
<1>14. \A k, l \in 1 .. n + 1 : k <= l => table'[k].Offset <= table'[l].Offset
  <2> DEFINE old == [k \in 1 .. n |-> table[k].Offset]
             new == [k \in 1 .. n + 1 |-> table'[k].Offset]
  <2>1. old \in [1 .. n -> Int] /\ new \in [1 .. n + 1 -> Int] /\ p \in Int
    BY <1>2, <1>3, <1>7, <1>13, RangeFacts
  <2>2. \A k \in 1 .. n + 1 :
           new[k] = IF k < i THEN old[k] ELSE IF k = i THEN p ELSE old[k - 1]
    BY <1>4, <1>7, <1>8, <1>10, <1>12
  <2>3. /\ \A k, l \in 1 .. n : k <= l => old[k] <= old[l]
        /\ i <= n => old[i] >= p
        /\ \A k \in 1 .. n : k < i => old[k] < p
    BY <1>7, <1>8
  <2>4. \A k \in 1 .. n + 1 : new[k] = table'[k].Offset
    OBVIOUS
  <2> HIDE DEF old, new
  <2>5. \A k, l \in 1 .. n + 1 : k <= l => new[k] <= new[l]
    BY <1>7, <1>8, <2>1, <2>2, <2>3, InsertedInOrder
  <2> QED BY <2>4, <2>5
<1>15. Ranges!Ordered(Ranges!SetOffsets)'
  BY <1>10, <1>14 DEF Ranges!Ordered, Ranges!SetOffsets
<1>16. ASSUME NEW k \in 1 .. n + 1, NEW l \in 1 .. n + 1,
              table'[k].Offset = table'[l].Offset, table'[k].Offset < Len(section)
       PROVE  k = l
  <2>1. \A x \in 1 .. n : table[x].Offset = p => ~(p < Len(section))
    BY <1>3, <1>9
  <2>2. \A x, y \in 1 .. n :
           (table[x].Offset = table[y].Offset /\ table[x].Offset < Len(section)) => x = y
    BY <1>2, <1>7 DEF ListsKept, Ranges!ReadOnce
  <2>3. CASE k = i \/ l = i
    BY <1>4, <1>7, <1>8, <1>12, <1>16, <2>1, <2>3
  <2>4. CASE k # i /\ l # i
    <3> DEFINE was(x) == IF x < i THEN x ELSE x - 1
    <3>1. /\ was(k) \in 1 .. n /\ table'[k] = table[was(k)]
          /\ was(l) \in 1 .. n /\ table'[l] = table[was(l)]
      BY <1>8, <1>12, <2>4
    <3>2. was(k) = was(l)
      BY <1>16, <2>2, <3>1
    <3> QED BY <1>7, <1>8, <2>4, <3>2
  <2> QED BY <2>3, <2>4
<1>17. ListsKept'
  <2>1. RangeSet' = RangeSet
    BY DEF RangeSet, Ranges!Address
  <2>2. Ranges!ReadOnce'
    BY <1>1, <1>10, <1>16 DEF Ranges!ReadOnce
  <2>3. \A k \in DOMAIN table' : table'[k].Offset <= Len(section') /\ table'[k] = Lists'[table'[k].Offset]
    BY <1>1, <1>10, <1>11, <1>13, <1>2, RangeFacts
  <2> QED BY <1>1, <1>2, <1>10, <1>15, <2>1, <2>2, <2>3 DEF ListsKept
<1>18. RangeAnswered'
  BY <1>1, <1>2, <1>4, AskedAnswers DEF p
<1> QED
  BY <1>17, <1>18 DEF RangesInv

(* Inside the address space nothing wraps. *)
LEMMA NoWrap ==
    ASSUME NEW x \in Nat, NEW t \in Nat \ {0}, x < t
    PROVE  x % t = x
  OBVIOUS

(* No range of the section leaves the address space of a unit. *)
NoneWraps(base) == \A k \in 1 .. Len(section) : Ranges!WithinSpace(k, base)

(* The list of an offset covers what the section says it covers. *)
LEMMA ListsCover ==
    ASSUME section \in RangeSections,
           NEW o \in Nat, NEW base \in Nat, NEW a \in Nat, NoneWraps(base)
    PROVE  Ranges!SetContains(Lists[Ranges!Position(o)], base, a)
              <=> Ranges!ListCovers(o, base, a)
<1> DEFINE p == Ranges!Position(o)
           list == Ranges!ListFrom(p)
           Spans(e) == base + e[1] <= a /\ a < base + e[2]
<1>1. Len(section) \in Nat
  BY RangeFacts
<1>9. \A k \in 1 .. Len(section) : section[k][1] \in Nat /\ section[k][2] \in Nat
  BY RangeFacts
<1>2. /\ p \in 0 .. Len(section)
      /\ o < Len(section) => p = o
      /\ o >= Len(section) => p = Len(section)
  <2>1. p = IF o < Len(section) THEN o ELSE Len(section)
    BY DEF Ranges!Position
  <2> HIDE DEF p
  <2> QED BY <1>1, <2>1
<1>3. Lists[p].Collection = list
  BY <1>2 DEF Lists, Ranges!SetRead
<1> HIDE DEF p
<1>4. PICK n \in Nat :
         /\ p + n <= Len(section)
         /\ DOMAIN list = 1 .. n
         /\ \A k \in 1 .. n : list[k] = section[p + k] /\ section[p + k] # Ranges!EndOfList
         /\ p + n < Len(section) => section[p + n + 1] = Ranges!EndOfList
  BY <1>2, ListFacts
<1> HIDE DEF list
<1>5. ASSUME NEW k \in 1 .. Len(section)
      PROVE  Ranges!Contains(section[k], base, a) <=> Spans(section[k])
  <2>1. section[k][1] \in Nat /\ section[k][2] \in Nat
    BY <1>9
  <2>2. base + section[k][1] < Top /\ base + section[k][2] < Top
    BY DEF NoneWraps, Ranges!WithinSpace
  <2>3. base + section[k][1] \in Nat /\ base + section[k][2] \in Nat
    BY <1>1, <2>1
  <2>4. /\ (base + section[k][1]) % Top = base + section[k][1]
        /\ (base + section[k][2]) % Top = base + section[k][2]
    BY <2>2, <2>3, RangeFacts, NoWrap
  <2> QED BY <2>4 DEF Ranges!Contains
<1>6. Ranges!SetContains(Lists[p], base, a) <=> \E k \in 1 .. n : Spans(section[p + k])
  <2>1. Ranges!SetContains(Lists[p], base, a)
           <=> \E k \in 1 .. n : Ranges!Contains(section[p + k], base, a)
    BY <1>3, <1>4 DEF Ranges!SetContains
  <2>2. \A k \in 1 .. n : p + k \in 1 .. Len(section)
    <3>1. p \in Nat /\ p + n <= Len(section)
      BY <1>1, <1>2, <1>4
    <3> HIDE DEF Spans
    <3> QED BY <1>1, <3>1
  <2> HIDE DEF Spans
  <2> QED BY <1>5, <2>1, <2>2
<1> HIDE DEF Spans
<1>7. ASSUME NEW k \in 1 .. n, Spans(section[p + k])
      PROVE  Ranges!ListCovers(o, base, a)
  <2>1. p = o /\ p + k \in 1 .. Len(section) /\ p + k > o
    <3>1. p \in Nat /\ p + n <= Len(section) /\ p < Len(section)
      BY <1>1, <1>2, <1>4
    <3> QED BY <1>1, <1>2, <3>1
  <2>2. ASSUME NEW l \in o + 1 .. p + k PROVE section[l] # Ranges!EndOfList
    <3>1. l - p \in 1 .. n /\ p + (l - p) = l
      BY <1>1, <1>2, <1>4, <1>7, <2>1
    <3> QED BY <1>4, <3>1
  <2>3. p + k \in DOMAIN section
    BY <2>1, RangeFacts
  <2> QED BY <1>7, <2>1, <2>2, <2>3 DEF Ranges!ListCovers, Spans
<1>8. ASSUME Ranges!ListCovers(o, base, a)
      PROVE  \E k \in 1 .. n : Spans(section[p + k])
  <2>1. PICK k \in 1 .. Len(section) :
           /\ k > o
           /\ \A l \in o + 1 .. k : section[l] # Ranges!EndOfList
           /\ Spans(section[k])
    BY <1>8, RangeFacts DEF Ranges!ListCovers, Spans
  <2>5. p \in Nat /\ p + n \in Nat /\ k \in Nat /\ k > o
    BY <1>1, <1>2, <2>1
  <2>2. p = o
    BY <1>1, <1>2, <2>1, <2>5
  <2>3. k <= p + n
    <3>1. SUFFICES ASSUME k > p + n PROVE FALSE
      BY <2>5
    <3>2. p + n < Len(section) /\ p + n + 1 \in o + 1 .. k
      BY <1>1, <2>2, <2>5, <3>1
    <3> QED BY <1>4, <2>1, <3>2
  <2>4. k - p \in 1 .. n /\ p + (k - p) = k
    BY <2>2, <2>3, <2>5
  <2> QED BY <2>1, <2>4
<1> QED
  BY <1>6, <1>7, <1>8 DEF p

(* What the two parts of the property say of range lists. *)
LEMMA RangesInvImplies ==
    ASSUME RangesInv
    PROVE  Ranges!AnswerIsTheLists /\ Ranges!ReadOnce
<1>1. SUFFICES ASSUME query # NULL,
                      \A k \in DOMAIN section :
                         Ranges!Plain(k) /\ Ranges!WithinSpace(k, query.base)
               PROVE  inRange = Ranges!ListCovers(query.offset, query.base, query.address)
  BY DEF RangesInv, ListsKept, Ranges!AnswerIsTheLists
<1>2. /\ query.offset \in Offsets /\ query.base \in Bases /\ query.address \in Ranges!Address
      /\ section \in RangeSections
      /\ inRange = Ranges!SetContains(Lists[Ranges!Position(query.offset)],
                                      query.base, query.address)
  BY <1>1 DEF RangesInv, ListsKept, RangeAnswered
<1>3. Ranges!SetContains(Lists[Ranges!Position(query.offset)], query.base, query.address)
         <=> Ranges!ListCovers(query.offset, query.base, query.address)
  <2>1. NoneWraps(query.base)
    BY <1>1, <1>2, RangeFacts DEF NoneWraps
  <2>2. query.offset \in Nat /\ query.base \in Nat /\ query.address \in Nat
    BY <1>2, RangeFacts
  <2> QED BY <1>2, <2>1, <2>2, ListsCover
<1>4. Ranges!ListCovers(query.offset, query.base, query.address) \in BOOLEAN
  BY DEF Ranges!ListCovers
<1>5. Ranges!SetContains(Lists[Ranges!Position(query.offset)], query.base, query.address) \in BOOLEAN
  BY DEF Ranges!SetContains
<1> QED
  BY <1>2, <1>3, <1>4, <1>5

-------------------------------------------------------------------------------
(* What the section of line tables is: a table begins where a prologue is
   accepted, and spans something if a row has extended it. *)
LEMMA LineFacts ==
    ASSUME section \in LineSections
    PROVE  /\ Len(section) \in Nat /\ DOMAIN section = 1 .. Len(section)
           /\ Header \in Nat \ {0} /\ Offsets \subseteq Nat /\ LineAddresses \subseteq Nat
           /\ NULL \notin Nat /\ Lines!Size = Len(section)
           /\ Starts \subseteq 0 .. Len(section) - 1
           /\ \A o \in Nat : o \in Starts <=> Lines!Accepted(o)
           /\ \A o \in Starts :
                /\ Nodes[o] = Lines!Read(o) /\ Nodes[o] \in TableNode /\ Nodes[o].Offset = o
                /\ Nodes[o].min <= Nodes[o].max \/ Nodes[o].max = 0
<1>1. /\ section \in Seq(Lines!Claim) /\ Header \in Nat \ {0} /\ Offsets \subseteq Nat
      /\ LineAddresses \subseteq Nat /\ NULL \notin Nat
  BY LineTablesAssumption DEF Lines!LineTablesAssumption
<1>2. Len(section) \in Nat /\ DOMAIN section = 1 .. Len(section)
      /\ \A k \in 1 .. Len(section) : section[k] \in Lines!Claim
  BY <1>1
<1>3. \A o \in Starts : o \in Nat /\ o < Len(section)
  BY DEF Starts, Lines!Accepted, Lines!Size
<1>4. ASSUME NEW o \in Starts
      PROVE  /\ Nodes[o] = Lines!Read(o) /\ Nodes[o] \in TableNode /\ Nodes[o].Offset = o
             /\ Nodes[o].min <= Nodes[o].max \/ Nodes[o].max = 0
  <2>1. o \in Nat /\ o + 1 \in 1 .. Len(section)
    BY <1>2, <1>3
  <2>2. section[o + 1] \in Lines!Claim
    BY <1>2, <2>1
  <2>3. /\ section[o + 1].min \in Nat /\ section[o + 1].max \in Nat
        /\ section[o + 1].min <= section[o + 1].max \/ section[o + 1].max = 0
    BY <2>2 DEF Lines!Claim
  <2>4. Nodes[o] = [Offset |-> o, min |-> section[o + 1].min, max |-> section[o + 1].max]
        /\ Nodes[o] = Lines!Read(o)
    BY <2>1 DEF Nodes, Lines!Read
  <2> QED BY <2>1, <2>3, <2>4 DEF TableNode
<1> QED
  BY <1>1, <1>2, <1>3, <1>4 DEF Starts, Lines!Size

(* No call changes the section. *)
LEMMA SameSection ==
    ASSUME section' = section
    PROVE  /\ Starts' = Starts /\ Nodes' = Nodes
           /\ Answers' = Answers /\ TableNode' = TableNode
  BY DEF Starts, Nodes, Lines!Accepted, Lines!Read, Lines!Size, Answers, TableNode

(* The table as functions. *)
LEMMA NodeFacts ==
    ASSUME TablesKept
    PROVE  /\ Len(table) \in Nat /\ DOMAIN table = 1 .. Len(table)
           /\ DOMAIN Lines!MaxAddrs = 1 .. Len(table) /\ Len(Lines!MaxAddrs) = Len(table)
           /\ \A i \in 1 .. Len(table) :
                /\ table[i] \in TableNode /\ table[i].Offset \in Starts
                /\ table[i].min \in Nat /\ table[i].max \in Nat /\ table[i].Offset \in Nat
                /\ table[i] = Nodes[table[i].Offset]
                /\ Lines!MaxAddrs[i] = table[i].max
           /\ \A i, j \in 1 .. Len(table) : table[i].Offset = table[j].Offset => i = j
<1>1. Len(table) \in Nat /\ DOMAIN table = 1 .. Len(table)
      /\ \A i \in 1 .. Len(table) : table[i] \in TableNode
  BY DEF TablesKept
<1>2. \A i \in 1 .. Len(table) :
         table[i].min \in Nat /\ table[i].max \in Nat /\ table[i].Offset \in Nat
  BY <1>1 DEF TableNode
<1>3. DOMAIN Lines!MaxAddrs = 1 .. Len(table)
      /\ \A i \in 1 .. Len(table) : Lines!MaxAddrs[i] = table[i].max
  BY <1>1 DEF Lines!MaxAddrs
<1>4. Len(Lines!MaxAddrs) = Len(table)
  BY <1>1, <1>3
<1>5. /\ \A i \in 1 .. Len(table) : table[i].Offset \in Starts /\ table[i] = Nodes[table[i].Offset]
      /\ \A i, j \in 1 .. Len(table) : table[i].Offset = table[j].Offset => i = j
  BY <1>1 DEF TablesKept
<1> QED
  BY <1>1, <1>2, <1>3, <1>4, <1>5

(* The lower bound of a highest address. *)
LEMMA BoundFacts ==
    ASSUME TablesKept, NEW a \in Nat, NEW i \in Lines!Places(table),
           Lines!IsLowerBound(Lines!MaxAddrs, a, i)
    PROVE  /\ i \in 1 .. Len(table) + 1
           /\ i <= Len(table) => table[i].max >= a
           /\ \A j \in 1 .. Len(table) : j < i => table[j].max < a
<1>1. i \in 1 .. Len(table) + 1
  BY DEF Lines!Places
<1>2. i <= Len(table) => Lines!MaxAddrs[i] >= a
  BY NodeFacts DEF Lines!IsLowerBound
<1>3. \A j \in 1 .. Len(table) : j < i => Lines!MaxAddrs[j] < a
  BY NodeFacts DEF Lines!IsLowerBound
<1>4. i <= Len(table) => i \in 1 .. Len(table)
  BY <1>1, NodeFacts
<1> QED
  BY <1>1, <1>2, <1>3, <1>4, NodeFacts

(* What holds of an answer while nobody asks. *)
LEMMA NoAnswerTyped ==
    /\ Lines!NoAnswer \in Answers /\ Lines!NoAnswer.offset = NULL
    /\ Lines!NoAnswer.address = NULL /\ Lines!NoAnswer.found = NULL
  BY DEF Lines!NoAnswer, Answers

(* Looking changes nothing but the answer. *)
LEMMA FoundByOffsetKeeps ==
    ASSUME LinesInv, NEW o \in Offsets, Lines!getLineTableByOffset(o)
    PROVE  LinesInv'
<1>1. /\ at = "idle" /\ UNCHANGED <<section, at, whole, pos, node, table>>
      /\ \E i \in DOMAIN table :
            /\ table[i].Offset = o
            /\ answer' = [Lines!NoAnswer EXCEPT !.offset = o, !.found = table[i]]
  BY DEF Lines!getLineTableByOffset, Lines!Known
<1>2. PICK i \in DOMAIN table :
         /\ table[i].Offset = o
         /\ answer' = [Lines!NoAnswer EXCEPT !.offset = o, !.found = table[i]]
  BY <1>1
<1>3. TablesKept /\ CallStands /\ table[i] \in TableNode /\ o \in Starts /\ table[i] = Nodes[o]
  BY <1>2, NodeFacts DEF LinesInv
<1>4. /\ answer' \in Answers /\ answer'.offset = o /\ answer'.found = table[i]
      /\ answer'.address = NULL
  BY <1>2, <1>3 DEF Lines!NoAnswer, Answers
<1>5. LineAnswered'
  <2>1. o # NULL
    BY LineTablesAssumption DEF Lines!LineTablesAssumption
  <2> QED BY <1>1, <1>3, <1>4, <2>1, SameSection DEF LineAnswered
<1>6. TablesKept' /\ CallStands'
  BY <1>1, <1>3, SameSection DEF TablesKept, CallStands, Lines!Ordered, Lines!MaxAddrs
<1> QED
  BY <1>5, <1>6 DEF LinesInv

(* An address is answered from the table as it is. *)
LEMMA FoundByAddressKeeps ==
    ASSUME LinesInv, NEW a \in LineAddresses, Lines!getLineTable(a)
    PROVE  LinesInv'
<1>1. at = "idle" /\ UNCHANGED <<section, at, whole, pos, node, table>>
  BY DEF Lines!getLineTable
<1>2. PICK i \in Lines!Places(table) :
         /\ Lines!IsLowerBound(Lines!MaxAddrs, a, i)
         /\ answer' = [Lines!NoAnswer EXCEPT !.address = a,
                          !.found = IF i <= Len(table) THEN table[i] ELSE NULL]
  BY DEF Lines!getLineTable
<1>3. TablesKept /\ CallStands /\ section \in LineSections
  BY DEF LinesInv, TablesKept
<1>4. a \in Nat
  BY <1>3, LineFacts
<1>5. /\ i \in 1 .. Len(table) + 1
      /\ i <= Len(table) => table[i].max >= a
      /\ \A j \in 1 .. Len(table) : j < i => table[j].max < a
  BY <1>2, <1>3, <1>4, BoundFacts
<1> DEFINE f == IF i <= Len(table) THEN table[i] ELSE NULL
<1>6. f \in TableNode \cup {NULL}
  BY <1>3, <1>5, NodeFacts
<1>7. answer' = [Lines!NoAnswer EXCEPT !.address = a, !.found = f]
  BY <1>2
<1> HIDE DEF f
<1>8. /\ answer' \in Answers /\ answer'.offset = NULL /\ answer'.found = f
      /\ answer'.address = a
  BY <1>6, <1>7 DEF Lines!NoAnswer, Answers
<1>9. LineAnswered'
  <2>1. a # NULL
    BY LineTablesAssumption DEF Lines!LineTablesAssumption
  <2> QED BY <1>1, <1>5, <1>8, <2>1, SameSection DEF LineAnswered, f
<1>10. TablesKept' /\ CallStands'
  BY <1>1, <1>3, SameSection DEF TablesKept, CallStands, Lines!Ordered, Lines!MaxAddrs
<1> QED
  BY <1>9, <1>10 DEF LinesInv

(* An extraction begins where no table is filed, a parse with no table. *)
LEMMA ExtractionBegins ==
    ASSUME LinesInv, NEW o \in Offsets, Lines!extractLineTableByOffset(o)
    PROVE  LinesInv'
<1>1. /\ at = "idle" /\ at' = "prologue" /\ whole' = FALSE /\ UNCHANGED <<section, table>>
      /\ pos' = Lines!Clamped(o) /\ node' = Lines!Clamped(o)
      /\ answer' = [Lines!NoAnswer EXCEPT !.offset = o]
      /\ \A i \in DOMAIN table : table[i].Offset # o
  BY DEF Lines!extractLineTableByOffset, Lines!Known
<1>2. TablesKept /\ section \in LineSections
  BY DEF LinesInv, TablesKept
<1>3. /\ answer' \in Answers /\ answer'.offset = o /\ answer'.found = NULL
      /\ answer'.address = NULL
  BY <1>1 DEF Lines!NoAnswer, Answers
<1>4. Lines!Clamped(o) \in 0 .. Len(section)
      /\ Lines!Clamped(o) = IF o < Len(section) THEN o ELSE Len(section)
  BY <1>2, LineFacts DEF Lines!Clamped
<1>5. TablesKept'
  BY <1>1, <1>2, SameSection DEF TablesKept, Lines!Ordered, Lines!MaxAddrs
<1>6. CallStands'
  BY <1>1, <1>3, <1>4, SameSection DEF CallStands
<1>7. LineAnswered'
  BY <1>1, <1>3, SameSection DEF LineAnswered
<1> QED
  BY <1>5, <1>6, <1>7 DEF LinesInv

(* A parse begins at the first table, with nothing filed. *)
LEMMA ParseBegins == ASSUME LinesInv, Lines!parse PROVE LinesInv'
<1>1. /\ at' = "prologue" /\ whole' = TRUE /\ pos' = 0 /\ node' = 0
      /\ table' = <<>> /\ answer' = Lines!NoAnswer /\ section' = section
  BY DEF Lines!parse
<1>2. section \in LineSections /\ Len(section) \in Nat
  BY LineFacts DEF LinesInv, TablesKept
<1>3. TablesKept'
  BY <1>1, <1>2, SameSection DEF TablesKept, Lines!Ordered, Lines!MaxAddrs
<1>4. CallStands'
  BY <1>1, <1>2, SameSection DEF CallStands, Lines!NoAnswer
<1>5. LineAnswered'
  BY <1>1, NoAnswerTyped, SameSection DEF LineAnswered
<1> QED
  BY <1>3, <1>4, <1>5 DEF LinesInv

(* A refused prologue leaves what was filed, or, in a parse, nothing. *)
LEMMA RefusedKeeps == ASSUME LinesInv, Lines!PrologueRefused PROVE LinesInv'
<1>1. /\ at = "prologue" /\ ~Lines!Accepted(pos) /\ at' = "idle"
      /\ UNCHANGED <<section, whole, pos, node, answer>>
      /\ table' = IF whole THEN <<>> ELSE table
  BY DEF Lines!PrologueRefused
<1>2. TablesKept /\ CallStands /\ LineAnswered /\ section \in LineSections
  BY DEF LinesInv, TablesKept
<1>3. TablesKept'
  <2>1. CASE whole
    <3>1. table' = <<>>
      BY <1>1, <2>1
    <3> QED BY <1>1, <1>2, <3>1, SameSection DEF TablesKept, Lines!Ordered, Lines!MaxAddrs
  <2>2. CASE ~whole
    <3>1. table' = table
      BY <1>1, <2>2
    <3> QED BY <1>1, <1>2, <2>2, <3>1, SameSection
            DEF TablesKept, Lines!Ordered, Lines!MaxAddrs
  <2> QED BY <2>1, <2>2
<1>4. CallStands'
  BY <1>1, <1>2, SameSection DEF CallStands
<1>5. LineAnswered'
  <2>1. answer.address = NULL
    BY <1>1, <1>2 DEF LineAnswered
  <2>2. CASE whole
    <3>1. answer.offset = NULL
      BY <1>1, <1>2, <2>2, NoAnswerTyped DEF CallStands
    <3> QED BY <1>1, <1>2, <2>1, <3>1, SameSection DEF LineAnswered
  <2>3. CASE ~whole
    <3>1. /\ answer.offset \in Offsets /\ answer.found = NULL
          /\ pos = IF answer.offset < Len(section) THEN answer.offset ELSE Len(section)
      BY <1>1, <1>2, <2>3 DEF CallStands
    <3>2. answer.offset \notin Starts
      BY <1>1, <1>2, <3>1, LineFacts
    <3> QED BY <1>1, <1>2, <2>1, <3>1, <3>2, SameSection DEF LineAnswered
  <2> QED BY <2>2, <2>3
<1> QED
  BY <1>3, <1>4, <1>5 DEF LinesInv

(* A prologue that is accepted begins a table that nobody has read. *)
LEMMA AcceptedKeeps == ASSUME LinesInv, Lines!PrologueAccepted PROVE LinesInv'
<1>1. /\ at = "prologue" /\ Lines!Accepted(pos) /\ at' = "program" /\ node' = pos
      /\ UNCHANGED <<section, whole, table, answer>>
      /\ pos' = Lines!Clamped(pos + Header)
  BY DEF Lines!PrologueAccepted
<1>2. TablesKept /\ CallStands /\ LineAnswered /\ section \in LineSections
  BY DEF LinesInv, TablesKept
<1>3. pos \in Starts /\ pos \in 0 .. Len(section) - 1 /\ Len(section) \in Nat
  <2>1. pos \in 0 .. Len(section) /\ Len(section) \in Nat
    BY <1>2, LineFacts DEF CallStands
  <2>2. pos \in Starts
    BY <1>1, <2>1 DEF Starts
  <2>3. Starts \subseteq 0 .. Len(section) - 1
    BY <1>2, LineFacts
  <2> QED BY <2>1, <2>2, <2>3
<1>4. pos' \in 0 .. Len(section) /\ pos < pos'
  BY <1>1, <1>2, <1>3, LineFacts DEF Lines!Clamped
<1>5. ~whole => answer.offset = pos
  <2>1. SUFFICES ASSUME ~whole PROVE answer.offset = pos
    OBVIOUS
  <2>2. /\ answer.offset \in Offsets
        /\ pos = IF answer.offset < Len(section) THEN answer.offset ELSE Len(section)
    BY <1>1, <1>2, <2>1, Zenon DEF CallStands
  <2>3. pos # Len(section)
    BY <1>3
  <2> QED BY <2>2, <2>3
<1>6. TablesKept'
  BY <1>1, <1>2, SameSection DEF TablesKept, Lines!Ordered, Lines!MaxAddrs
<1>7. CallStands'
  BY <1>1, <1>2, <1>3, <1>4, <1>5, SameSection DEF CallStands, Lines!NoAnswer
<1>8. LineAnswered'
  BY <1>1, <1>2, SameSection DEF LineAnswered
<1> QED
  BY <1>6, <1>7, <1>8 DEF LinesInv

(* An opcode only moves the stream on. *)
LEMMA ExecuteKeeps == ASSUME LinesInv, Lines!Execute PROVE LinesInv'
<1>1. /\ at = "program" /\ UNCHANGED <<section, at, whole, node, table, answer>>
      /\ pos' = Lines!Clamped(pos + 1)
  BY DEF Lines!Execute
<1>2. TablesKept /\ CallStands /\ LineAnswered /\ section \in LineSections
  BY DEF LinesInv, TablesKept
<1>3. pos' \in 0 .. Len(section) /\ node < pos'
  BY <1>1, <1>2, LineFacts DEF CallStands, Lines!Clamped
<1>4. TablesKept'
  BY <1>1, <1>2, SameSection DEF TablesKept, Lines!Ordered, Lines!MaxAddrs
<1>5. CallStands'
  BY <1>1, <1>2, <1>3, SameSection DEF CallStands, Lines!NoAnswer
<1>6. LineAnswered'
  BY <1>1, <1>2, SameSection DEF LineAnswered
<1> QED
  BY <1>4, <1>5, <1>6 DEF LinesInv

(* An extracted table is filed where the search by address looks for it. *)
LEMMA ExtractEndKeeps == ASSUME LinesInv, Lines!ExtractEnd PROVE LinesInv'
<1> DEFINE e == Lines!Read(node)
           n == Len(table)
<1>1. /\ at = "program" /\ ~whole /\ at' = "idle" /\ UNCHANGED <<section, whole, pos, node>>
      /\ answer' = [answer EXCEPT !.found = e]
      /\ \E i \in Lines!Places(table) :
            Lines!IsLowerBound(Lines!MaxAddrs, e.max, i) /\ table' = Lines!PutAt(table, i, e)
  BY DEF Lines!ExtractEnd, Lines!insert
<1>2. TablesKept /\ CallStands /\ LineAnswered /\ section \in LineSections
  BY DEF LinesInv, TablesKept
<1>3. /\ node \in Starts /\ node = answer.offset
      /\ answer.address = NULL /\ answer \in Answers
      /\ \A k \in DOMAIN table : table[k].Offset # node
  BY <1>1, <1>2 DEF CallStands, LineAnswered
<1>4. e \in TableNode /\ e = Nodes[node] /\ e.Offset = node /\ e.max \in Nat
  BY <1>2, <1>3, LineFacts DEF TableNode
<1>5. PICK i \in Lines!Places(table) :
         Lines!IsLowerBound(Lines!MaxAddrs, e.max, i) /\ table' = Lines!PutAt(table, i, e)
  BY <1>1
<1> HIDE DEF e
<1>6. /\ i \in 1 .. n + 1
      /\ i <= n => table[i].max >= e.max
      /\ \A k \in 1 .. n : k < i => table[k].max < e.max
  BY <1>2, <1>4, <1>5, BoundFacts
<1>7. /\ n \in Nat /\ DOMAIN table = 1 .. n /\ table \in Seq(TableNode)
      /\ \A k \in 1 .. n :
           /\ table[k] \in TableNode /\ table[k].max \in Nat
           /\ table[k].Offset \in Starts /\ table[k] = Nodes[table[k].Offset]
      /\ \A k, l \in 1 .. n : table[k].Offset = table[l].Offset => k = l
  BY <1>2, NodeFacts DEF TablesKept
<1>8. \A k, l \in 1 .. n : k <= l => table[k].max <= table[l].max
  BY <1>1, <1>2, NodeFacts DEF TablesKept, Lines!Ordered
<1>9. /\ table' \in Seq(TableNode) /\ Len(table') = n + 1 /\ DOMAIN table' = 1 .. n + 1
      /\ \A k \in 1 .. n + 1 :
           table'[k] = IF k < i THEN table[k] ELSE IF k = i THEN e ELSE table[k - 1]
  <2>1. table' = Ranges!PutAt(table, i, e)
    BY <1>5 DEF Lines!PutAt, Ranges!PutAt
  <2>2. table \in Seq(TableNode) /\ e \in TableNode /\ i \in 1 .. Len(table) + 1
    BY <1>4, <1>6, <1>7
  <2>3. /\ Ranges!PutAt(table, i, e) \in Seq(TableNode)
        /\ Ranges!PutAt(table, i, e) = With(table, i, e)
    BY <2>2, Inserted, Zenon
  <2>4. table' \in Seq(TableNode) /\ table' = With(table, i, e)
    BY <2>1, <2>3
  <2> QED BY <1>7, <2>4 DEF With
<1> HIDE DEF n
<1>10. \A k \in 1 .. n + 1 :
          \/ k < i /\ k \in 1 .. n /\ table'[k] = table[k]
          \/ k = i /\ table'[k] = e
          \/ k > i /\ k - 1 \in 1 .. n /\ table'[k] = table[k - 1]
  BY <1>6, <1>7, <1>9
<1>11. \A k \in 1 .. n + 1 :
          /\ table'[k].Offset \in Starts /\ table'[k] = Nodes[table'[k].Offset]
          /\ table'[k].max \in Nat
  BY <1>3, <1>4, <1>7, <1>10
<1>12. \A k, l \in 1 .. n + 1 : k <= l => table'[k].max <= table'[l].max
  <2> DEFINE old == [k \in 1 .. n |-> table[k].max]
             new == [k \in 1 .. n + 1 |-> table'[k].max]
  <2>1. old \in [1 .. n -> Int] /\ new \in [1 .. n + 1 -> Int] /\ e.max \in Int
    BY <1>4, <1>7, <1>11
  <2>2. \A k \in 1 .. n + 1 :
           new[k] = IF k < i THEN old[k] ELSE IF k = i THEN e.max ELSE old[k - 1]
    BY <1>6, <1>7, <1>9, <1>10
  <2>3. /\ \A k, l \in 1 .. n : k <= l => old[k] <= old[l]
        /\ i <= n => old[i] >= e.max
        /\ \A k \in 1 .. n : k < i => old[k] < e.max
    BY <1>6, <1>7, <1>8
  <2>4. \A k \in 1 .. n + 1 : new[k] = table'[k].max
    OBVIOUS
  <2> HIDE DEF old, new
  <2>5. \A k, l \in 1 .. n + 1 : k <= l => new[k] <= new[l]
    BY <1>6, <1>7, <2>1, <2>2, <2>3, InsertedInOrder
  <2> QED BY <2>4, <2>5
<1>13. ASSUME NEW k \in 1 .. n + 1, NEW l \in 1 .. n + 1, table'[k].Offset = table'[l].Offset
       PROVE  k = l
  <2>1. CASE k = i \/ l = i
    <3> DEFINE was(x) == IF x < i THEN x ELSE x - 1
    <3>1. \A x \in 1 .. n + 1 : x # i => was(x) \in 1 .. n /\ table'[x] = table[was(x)]
      BY <1>6, <1>10
    <3> HIDE DEF was
    <3>2. \A x \in 1 .. n + 1 : x # i => table'[x].Offset # node
      BY <1>3, <1>7, <3>1
    <3>3. table'[i].Offset = node
      BY <1>4, <1>6, <1>10
    <3> QED BY <1>13, <2>1, <3>2, <3>3
  <2>2. CASE k # i /\ l # i
    <3> DEFINE was(x) == IF x < i THEN x ELSE x - 1
    <3>1. /\ was(k) \in 1 .. n /\ table'[k] = table[was(k)]
          /\ was(l) \in 1 .. n /\ table'[l] = table[was(l)]
      BY <1>6, <1>10, <2>2
    <3>2. was(k) = was(l)
      BY <1>7, <1>13, <3>1
    <3> QED BY <1>6, <1>7, <2>2, <3>2
  <2> QED BY <2>1, <2>2
<1>14. TablesKept'
  <2>1. Lines!Ordered(Lines!MaxAddrs)'
    BY <1>9, <1>12 DEF Lines!Ordered, Lines!MaxAddrs
  <2>2. /\ section' \in LineSections /\ table' \in Seq(TableNode)'
        /\ \A k \in DOMAIN table' :
              table'[k].Offset \in Starts' /\ table'[k] = Nodes'[table'[k].Offset]
        /\ \A k, l \in DOMAIN table' : table'[k].Offset = table'[l].Offset => k = l
    BY <1>1, <1>2, <1>9, <1>11, <1>13, SameSection
  <2> QED BY <2>1, <2>2 DEF TablesKept
<1>15. CallStands'
  BY <1>1, <1>2, SameSection DEF CallStands
<1>16. LineAnswered'
  <2>1. answer' \in Answers /\ answer'.offset = node /\ answer'.address = NULL /\ answer'.found = e
    BY <1>1, <1>3, <1>4 DEF Answers
  <2>2. node # NULL
    BY <1>2, <1>3, LineFacts DEF Starts
  <2> QED BY <1>1, <1>3, <1>4, <2>1, <2>2, SameSection DEF LineAnswered
<1> QED
  BY <1>14, <1>15, <1>16 DEF LinesInv

(* A parse files a table behind the one before it. *)
LEMMA TableEndKeeps == ASSUME LinesInv, Lines!TableEnd PROVE LinesInv'
<1> DEFINE e == Lines!Read(node)
           n == Len(table)
<1>1. /\ at = "program" /\ whole /\ at' = "prologue"
      /\ UNCHANGED <<section, whole, pos, node, answer>>
      /\ table' = Append(table, e)
  BY DEF Lines!TableEnd
<1>2. TablesKept /\ CallStands /\ LineAnswered /\ section \in LineSections
  BY DEF LinesInv, TablesKept
<1>3. /\ node \in Starts /\ node < pos /\ pos \in 0 .. Len(section)
      /\ node \in 0 .. Len(section)
      /\ \A i \in DOMAIN table : table[i].Offset < node
  BY <1>1, <1>2 DEF CallStands
<1>4. e \in TableNode /\ e = Nodes[node] /\ e.Offset = node
  BY <1>2, <1>3, LineFacts
<1> HIDE DEF e
<1>5. /\ n \in Nat /\ DOMAIN table = 1 .. n /\ table \in Seq(TableNode)
      /\ \A k \in 1 .. n :
           /\ table[k].Offset \in Starts /\ table[k] = Nodes[table[k].Offset]
           /\ table[k].Offset \in Nat
      /\ \A k, l \in 1 .. n : table[k].Offset = table[l].Offset => k = l
  BY <1>2, NodeFacts DEF TablesKept
<1>6. /\ table' \in Seq(TableNode) /\ DOMAIN table' = 1 .. n + 1
      /\ \A k \in 1 .. n : table'[k] = table[k]
      /\ table'[n + 1] = e
  BY <1>1, <1>4, <1>5
<1> HIDE DEF n
<1>7. \A k \in 1 .. n + 1 : k \in 1 .. n \/ k = n + 1
  BY <1>5
<1>8. \A k \in 1 .. n + 1 :
         /\ table'[k].Offset \in Starts /\ table'[k] = Nodes[table'[k].Offset]
         /\ table'[k].Offset < pos
  <2>1. SUFFICES ASSUME NEW k \in 1 .. n + 1
                 PROVE  /\ table'[k].Offset \in Starts /\ table'[k] = Nodes[table'[k].Offset]
                        /\ table'[k].Offset < pos
    OBVIOUS
  <2>2. node \in Nat /\ pos \in Nat
    BY <1>2, <1>3, LineFacts
  <2>3. CASE k \in 1 .. n
    <3>1. table'[k] = table[k] /\ table[k].Offset < node /\ table[k].Offset \in Nat
      BY <1>3, <1>5, <1>6, <2>3
    <3> QED BY <1>3, <1>5, <2>2, <2>3, <3>1
  <2>4. CASE k = n + 1
    BY <1>3, <1>4, <1>6, <2>4
  <2> QED BY <1>7, <2>3, <2>4
<1>9. \A k, l \in 1 .. n + 1 : table'[k].Offset = table'[l].Offset => k = l
  <2>1. SUFFICES ASSUME NEW k \in 1 .. n + 1, NEW l \in 1 .. n + 1,
                        table'[k].Offset = table'[l].Offset
                 PROVE  k = l
    OBVIOUS
  <2>2. \A i \in 1 .. n : table'[i].Offset # node
    <3>1. ASSUME NEW i \in 1 .. n PROVE table'[i].Offset # node
      <4>1. table'[i].Offset < node /\ table'[i].Offset \in Nat /\ node \in Nat
        BY SMTT(20), <1>2, <1>3, <1>5, <1>6, LineFacts
      <4> QED BY <4>1
    <3> QED BY <3>1
  <2>3. CASE k = n + 1 \/ l = n + 1
    BY <1>4, <1>6, <1>7, <2>1, <2>2, <2>3
  <2>4. CASE k \in 1 .. n /\ l \in 1 .. n
    BY <1>5, <1>6, <2>1, <2>4
  <2> QED BY <1>7, <2>3, <2>4
<1>10. TablesKept'
  BY <1>1, <1>2, <1>6, <1>8, <1>9, SameSection DEF TablesKept
<1>11. CallStands'
  BY <1>1, <1>2, <1>6, <1>8, SameSection DEF CallStands, Lines!NoAnswer
<1>12. LineAnswered'
  BY <1>1, <1>2, SameSection DEF LineAnswered
<1> QED
  BY <1>10, <1>11, <1>12 DEF LinesInv

(* At the end of a parse the tables are sorted, and are the same tables. *)
LEMMA ParseEndKeeps == ASSUME LinesInv, Lines!ParseEnd PROVE LinesInv'
<1>1. /\ at = "prologue" /\ whole /\ at' = "idle"
      /\ UNCHANGED <<section, whole, pos, node, answer>>
      /\ table' \in Lines!Sorts(table, Lines!MaxAddrs)
  BY DEF Lines!ParseEnd
<1>2. TablesKept /\ CallStands /\ LineAnswered /\ section \in LineSections
  BY DEF LinesInv, TablesKept
<1>3. PICK p \in Lines!F!Bijection(DOMAIN table, DOMAIN table) :
         /\ Lines!Ordered([i \in DOMAIN table |-> Lines!MaxAddrs[p[i]]])
         /\ table' = [i \in DOMAIN table |-> table[p[i]]]
  BY <1>1 DEF Lines!Sorts
<1>4. /\ p \in [DOMAIN table -> DOMAIN table]
      /\ \A i, j \in DOMAIN table : p[i] = p[j] => i = j
  BY DEF Lines!F!Bijection, Lines!F!Injection, Lines!F!IsInjective
<1>5. /\ Len(table) \in Nat /\ DOMAIN table = 1 .. Len(table) /\ table \in Seq(TableNode)
      /\ \A k \in DOMAIN table :
           /\ table[k] \in TableNode
           /\ table[k].Offset \in Starts /\ table[k] = Nodes[table[k].Offset]
           /\ Lines!MaxAddrs[k] = table[k].max
      /\ \A k, l \in DOMAIN table : table[k].Offset = table[l].Offset => k = l
  BY <1>2, NodeFacts DEF TablesKept
<1>6. /\ table' \in Seq(TableNode) /\ DOMAIN table' = DOMAIN table
      /\ \A i \in DOMAIN table : table'[i] = table[p[i]] /\ p[i] \in DOMAIN table
  <2>1. table' \in [1 .. Len(table) -> TableNode]
    BY <1>3, <1>4, <1>5
  <2> QED BY <1>3, <1>4, <1>5, <2>1
<1>7. Lines!Ordered(Lines!MaxAddrs)'
  <2>1. Lines!MaxAddrs' = [i \in DOMAIN table |-> Lines!MaxAddrs[p[i]]]
    BY <1>5, <1>6 DEF Lines!MaxAddrs
  <2> QED BY <1>3, <2>1 DEF Lines!Ordered
<1>8. /\ \A k \in DOMAIN table' :
            table'[k].Offset \in Starts /\ table'[k] = Nodes[table'[k].Offset]
      /\ \A k, l \in DOMAIN table' : table'[k].Offset = table'[l].Offset => k = l
  BY <1>4, <1>5, <1>6
<1>9. TablesKept'
  BY <1>1, <1>2, <1>6, <1>7, <1>8, SameSection DEF TablesKept
<1>10. CallStands'
  BY <1>1, <1>2, SameSection DEF CallStands
<1>11. answer = Lines!NoAnswer
  BY <1>1, <1>2 DEF CallStands
<1>12. LineAnswered'
  BY <1>1, <1>2, <1>11, NoAnswerTyped, SameSection DEF LineAnswered
<1> QED
  BY <1>9, <1>10, <1>12 DEF LinesInv

-------------------------------------------------------------------------------
(* Nobody has asked: the tables are empty. *)
LEMMA InitHolds ==
    /\ Ranges!Init => RangesInv
    /\ Lines!Init => LinesInv
<1>1. ASSUME Ranges!Init PROVE RangesInv
  <2>1. section \in RangeSections /\ table = <<>> /\ query = NULL /\ inRange = FALSE
    BY <1>1 DEF Ranges!Init
  <2>2. table \in Seq(RangeSet) /\ DOMAIN table = {}
    BY <2>1
  <2>3. Ranges!Ordered(Ranges!SetOffsets) /\ Ranges!ReadOnce
    BY <2>2 DEF Ranges!Ordered, Ranges!SetOffsets, Ranges!ReadOnce
  <2>4. ListsKept
    BY <2>1, <2>2, <2>3, Zenon DEF ListsKept
  <2>5. RangeAnswered
    BY <2>1 DEF RangeAnswered
  <2> QED BY <2>4, <2>5 DEF RangesInv
<1>2. ASSUME Lines!Init PROVE LinesInv
  <2>1. /\ section \in LineSections /\ at = "idle" /\ whole = FALSE /\ pos = 0 /\ node = 0
        /\ table = <<>> /\ answer = Lines!NoAnswer
    BY <1>2 DEF Lines!Init
  <2>2. Len(section) \in Nat
    BY <2>1, LineFacts
  <2>3. TablesKept
    BY <2>1 DEF TablesKept, Lines!Ordered, Lines!MaxAddrs
  <2>4. CallStands
    <3>1. 0 \in 0 .. Len(section)
      BY <2>2
    <3>2. at \in {"idle", "prologue", "program"} /\ at # "prologue" /\ at # "program"
      BY <2>1
    <3> QED BY <2>1, <3>1, <3>2, Zenon DEF CallStands
  <2>5. LineAnswered
    BY <2>1, NoAnswerTyped DEF LineAnswered
  <2> QED BY <2>3, <2>4, <2>5 DEF LinesInv
<1> QED
  BY <1>1, <1>2

(* Whatever is asked of either section, its table stays what it says. *)
LEMMA RangesNextKeeps == ASSUME RangesInv, Ranges!Next PROVE RangesInv'
<1>1. PICK o \in Offsets, base \in Bases, a \in Ranges!Address :
         Ranges!isInRangeKnown(o, base, a) \/ Ranges!isInRangeNew(o, base, a)
  BY DEF Ranges!Next
<1> QED
  BY <1>1, InRangeKnownKeeps, InRangeNewKeeps

(* Every call and every step of one keeps the tables and the answer true. *)
LEMMA LinesNextKeeps == ASSUME LinesInv, Lines!Call \/ Lines!Run PROVE LinesInv'
<1>1. CASE Lines!parse
  BY <1>1, ParseBegins
<1>2. CASE \E o \in Offsets : Lines!getLineTableByOffset(o) \/ Lines!extractLineTableByOffset(o)
  BY <1>2, FoundByOffsetKeeps, ExtractionBegins
<1>3. CASE \E a \in LineAddresses : Lines!getLineTable(a)
  BY <1>3, FoundByAddressKeeps
<1>4. CASE Lines!Run
  BY <1>4, RefusedKeeps, AcceptedKeeps, ExecuteKeeps, ExtractEndKeeps, TableEndKeeps,
     ParseEndKeeps DEF Lines!Run
<1> QED
  BY <1>1, <1>2, <1>3, <1>4 DEF Lines!Call

(* When nothing happens nothing changes. *)
LEMMA StutterKeeps ==
    ASSUME UNCHANGED all
    PROVE  (RangesInv => RangesInv') /\ (LinesInv => LinesInv')
<1>1. UNCHANGED <<section, table, query, inRange, whole, node, answer, at, pos>>
  BY DEF all
<1>2. ASSUME RangesInv PROVE RangesInv'
  <2>1. Lists' = Lists
    BY <1>1 DEF Lists, Ranges!SetRead, Ranges!ListFrom
  <2>2. ListsKept'
    BY <1>1, <1>2, <2>1 DEF RangesInv, ListsKept, RangeSet, Ranges!Address, Ranges!Ordered,
          Ranges!SetOffsets, Ranges!ReadOnce
  <2>3. RangeAnswered'
    BY <1>1, <1>2, <2>1 DEF RangesInv, RangeAnswered, Ranges!Address, Ranges!Position,
          Ranges!SetContains, Ranges!Contains
  <2> QED BY <2>2, <2>3 DEF RangesInv
<1>3. ASSUME LinesInv PROVE LinesInv'
  <2>1. TablesKept'
    BY <1>1, <1>3, SameSection DEF LinesInv, TablesKept, Lines!Ordered, Lines!MaxAddrs
  <2>2. CallStands'
    BY <1>1, <1>3, SameSection DEF LinesInv, CallStands, Lines!NoAnswer
  <2>3. LineAnswered'
    BY <1>1, <1>3, SameSection DEF LinesInv, LineAnswered
  <2> QED BY <2>1, <2>2, <2>3 DEF LinesInv
<1> QED
  BY <1>2, <1>3

(* What the two parts of the property say of line tables.  The first table
   that ends at the address or behind it is the one that spans it: another
   would overlap with it, or have no rows. *)
LEMMA LinesInvImplies ==
    ASSUME LinesInv
    PROVE  Lines!AnswerIsTheSections /\ Lines!EachTableOnce /\ Lines!SpanningTable
<1>1. /\ TablesKept /\ CallStands /\ LineAnswered /\ section \in LineSections
      /\ answer \in Answers
  BY DEF LinesInv, TablesKept, LineAnswered
<1>2. Lines!AnswerIsTheSections
  <2>1. SUFFICES ASSUME at = "idle", answer.offset # NULL
                 PROVE  answer.found = IF Lines!Accepted(answer.offset)
                                       THEN Lines!Read(answer.offset) ELSE NULL
    BY DEF Lines!AnswerIsTheSections
  <2>2. answer.found = IF answer.offset \in Starts THEN Nodes[answer.offset] ELSE NULL
    BY <1>1, <2>1 DEF LineAnswered
  <2>3. answer.offset \in Nat
    BY <1>1, <2>1, LineFacts DEF Answers
  <2>4. /\ answer.offset \in Starts <=> Lines!Accepted(answer.offset)
        /\ answer.offset \in Starts => Nodes[answer.offset] = Lines!Read(answer.offset)
    BY <1>1, <2>3, LineFacts
  <2> QED BY <2>2, <2>4, Zenon
<1>3. Lines!EachTableOnce
  BY <1>1 DEF TablesKept, Lines!EachTableOnce
<1>4. Lines!SpanningTable
  <2> DEFINE a == answer.address
  <2>1. SUFFICES ASSUME a # NULL, a # 0,
                        \A i, j \in DOMAIN table : i # j =>
                           table[i].max < table[j].min \/ table[j].max < table[i].min,
                        NEW i \in DOMAIN table, table[i].min <= a, a <= table[i].max
                 PROVE  answer.found = table[i]
    BY Zenon DEF Lines!SpanningTable
  <2>2. a \in Nat
    BY <1>1, <2>1, LineFacts DEF Answers
  <2>3. at = "idle"
    BY <1>1, <2>1 DEF LineAnswered
  <2>4. PICK b \in 1 .. Len(table) + 1 :
           /\ b <= Len(table) => table[b].max >= a
           /\ \A j \in 1 .. Len(table) : j < b => table[j].max < a
           /\ answer.found = IF b <= Len(table) THEN table[b] ELSE NULL
    BY <1>1, <2>1 DEF LineAnswered
  <2> HIDE DEF a
  <2>5. /\ Len(table) \in Nat /\ DOMAIN table = 1 .. Len(table)
        /\ \A k \in 1 .. Len(table) : table[k].min \in Nat /\ table[k].max \in Nat
    BY <1>1, NodeFacts
  <2>6. b <= i /\ b \in 1 .. Len(table) /\ i \in 1 .. Len(table)
    <3>1. ~(i < b)
      BY <2>1, <2>2, <2>4, <2>5
    <3> QED BY <2>1, <2>4, <2>5, <3>1
  <2>7. table[b].max <= table[i].max
    BY <1>1, <2>3, <2>6, NodeFacts DEF TablesKept, Lines!Ordered
  <2>8. table[b].min <= table[b].max \/ table[b].max = 0
    BY SMTT(20), <1>1, <2>6, NodeFacts, LineFacts
  <2>9. ~(table[b].max < table[i].min)
    BY <2>1, <2>2, <2>4, <2>5, <2>6
  <2>10. ~(table[i].max < table[b].min)
    <3>1. table[b].max >= a /\ a > 0 /\ table[b].max # 0
      BY <2>1, <2>2, <2>4, <2>5, <2>6
    <3> QED BY <2>5, <2>6, <2>7, <2>8, <3>1
  <2>11. b = i
    BY <2>1, <2>5, <2>6, <2>9, <2>10
  <2> QED BY <2>4, <2>6, <2>11
<1> QED
  BY <1>2, <1>3, <1>4

-------------------------------------------------------------------------------
(* A set that has zero, and with each number the next, has them all. *)
LEMMA Induction ==
    ASSUME NEW B, 0 \in B, \A n \in Nat : n \in B => n + 1 \in B
    PROVE  \A n \in Nat : n \in B
<1> DEFINE Without == {n \in Nat : n \notin B}
<1>1. SUFFICES ASSUME Without # {} PROVE FALSE
  OBVIOUS
<1>2. PICK n \in Without : \A m \in Without : n <= m
  BY <1>1, LeastNatural
<1>3. n \in Nat /\ n # 0
  BY <1>2
<1>4. n - 1 \in Nat /\ n - 1 \notin Without
  BY <1>2, <1>3
<1> QED
  BY <1>2, <1>3, <1>4

-------------------------------------------------------------------------------
(* Sequences one behind the other: what FlattenSeq gives, to any number of
   them. *)
Join(ss) == Prologue!FlattenSeq(ss)
JoinAt(ss, f, i) == IF i = 1 THEN ss[i] ELSE f[i - 1] \o ss[i]
Upto(ss, n) == Join(SubSeq(ss, 1, n))
Off(ss, n) == Len(Upto(ss, n))

LEMMA JoinUnfolds ==
    ASSUME NEW ss, Len(ss) \in Nat \ {0}
    PROVE  \E f : /\ f = [i \in 1 .. Len(ss) |-> JoinAt(ss, f, i)]
                  /\ Join(ss) = f[Len(ss)]
<1> DEFINE Has(n) == \E f : f = [i \in 1 .. n |-> JoinAt(ss, f, i)]
           B == {n \in Nat : Has(n)}
<1>1. Has(0)
  <2>1. PICK f : f = [i \in 1 .. 0 |-> i]
    OBVIOUS
  <2> QED BY <2>1
<1>2. ASSUME NEW n \in Nat, Has(n) PROVE Has(n + 1)
  <2>1. PICK f : f = [i \in 1 .. n |-> JoinAt(ss, f, i)]
    BY <1>2
  <2> DEFINE g == [i \in 1 .. n + 1 |-> IF i = n + 1 THEN JoinAt(ss, f, i) ELSE f[i]]
  <2>0. \A i \in 1 .. n + 1 : i # 1 => g[i - 1] = f[i - 1]
    OBVIOUS
  <2>2. \A i \in 1 .. n + 1 : JoinAt(ss, g, i) = JoinAt(ss, f, i)
    BY <2>0 DEF JoinAt
  <2>3. \A i \in 1 .. n : f[i] = JoinAt(ss, f, i)
    BY <2>1
  <2>4. \A i \in 1 .. n + 1 : g[i] = JoinAt(ss, g, i)
    BY <2>2, <2>3
  <2>5. g = [i \in 1 .. n + 1 |-> g[i]]
    OBVIOUS
  <2>6. g = [i \in 1 .. n + 1 |-> JoinAt(ss, g, i)]
    BY <2>4, <2>5
  <2> QED BY <2>6
<1> HIDE DEF Has
<1>3. Has(Len(ss))
  <2>1. 0 \in B
    BY <1>1
  <2>2. \A n \in Nat : n \in B => n + 1 \in B
    BY <1>2
  <2> HIDE DEF B
  <2>3. \A n \in Nat : n \in B
    BY <2>1, <2>2, Induction
  <2> QED BY <2>3 DEF B
<1> DEFINE h == CHOOSE f : f = [i \in 1 .. Len(ss) |-> JoinAt(ss, f, i)]
<1>4. h = [i \in 1 .. Len(ss) |-> JoinAt(ss, h, i)]
  BY <1>3 DEF Has
<1>5. Join(ss) = h[Len(ss)]
  BY Zenon DEF Join, Prologue!FlattenSeq, JoinAt
<1> QED
  BY <1>4, <1>5

(* One more sequence goes behind the others. *)
LEMMA JoinGrows ==
    ASSUME NEW ss, NEW n \in 1 .. Len(ss), Len(ss) \in Nat, NEW S,
           \A i \in 1 .. Len(ss) : ss[i] \in Seq(S)
    PROVE  /\ Upto(ss, 0) = <<>>
           /\ Upto(ss, n) = Upto(ss, n - 1) \o ss[n]
<1>0. SubSeq(ss, 1, 0) = <<>>
  BY SubSeqEmpty
<1>1. Upto(ss, 0) = <<>>
  BY <1>0 DEF Upto, Join, Prologue!FlattenSeq
<1> DEFINE s == SubSeq(ss, 1, n)
           t == SubSeq(ss, 1, n - 1)
<1>2. /\ Len(s) = n /\ \A i \in 1 .. n : s[i] = ss[i]
      /\ Len(t) = n - 1 /\ \A i \in 1 .. n - 1 : t[i] = ss[i]
  <2>1. n \in Int /\ n - 1 \in Int /\ 1 \in Int
    OBVIOUS
  <2>2. (\A i \in 1 .. n : ss[i] \in Seq(S)) /\ (\A i \in 1 .. n - 1 : ss[i] \in Seq(S))
    OBVIOUS
  <2> HIDE DEF s, t
  <2>3. Len(s) = n /\ \A i \in 1 .. n : s[i] = ss[i]
    <3>1. /\ Len(s) = IF 1 <= n THEN n - 1 + 1 ELSE 0
          /\ \A i \in 1 .. n - 1 + 1 : s[i] = ss[1 + i - 1]
      BY <2>1, <2>2, SubSeqProperties DEF s
    <3> QED BY <3>1
  <2>4. Len(t) = n - 1 /\ \A i \in 1 .. n - 1 : t[i] = ss[i]
    <3>1. /\ Len(t) = IF 1 <= n - 1 THEN n - 1 - 1 + 1 ELSE 0
          /\ \A i \in 1 .. n - 1 - 1 + 1 : t[i] = ss[1 + i - 1]
      BY <2>1, <2>2, SubSeqProperties DEF t
    <3> QED BY <3>1
  <2> QED BY <2>3, <2>4
<1> HIDE DEF s, t
<1>3. PICK f : f = [i \in 1 .. n |-> JoinAt(s, f, i)] /\ Join(s) = f[n]
  BY <1>2, JoinUnfolds
<1>4. CASE n = 1
  <2>1. f[1] = JoinAt(s, f, 1)
    BY <1>3, <1>4
  <2>2. Join(s) = ss[1]
    BY <1>2, <1>3, <1>4, <2>1 DEF JoinAt
  <2>3. <<>> \o ss[1] = ss[1]
    BY ConcatEmptySeq
  <2>4. Upto(ss, n) = ss[1] /\ Upto(ss, n - 1) = <<>>
    BY <1>1, <1>4, <2>2 DEF Upto, s
  <2> QED BY <1>1, <1>4, <2>3, <2>4
<1>5. CASE n # 1
  <2>0. Len(t) \in Nat \ {0} /\ Len(t) = n - 1
    BY <1>2, <1>5
  <2>1. PICK g : g = [i \in 1 .. n - 1 |-> JoinAt(t, g, i)] /\ Join(t) = g[n - 1]
    <3>1. \E g : g = [i \in 1 .. Len(t) |-> JoinAt(t, g, i)] /\ Join(t) = g[Len(t)]
      BY <2>0, JoinUnfolds, Zenon
    <3> QED BY <2>0, <3>1
  <2> DEFINE B == {m \in Nat : m \in 1 .. n - 1 => f[m] = g[m]}
  <2>2. 0 \in B
    OBVIOUS
  <2>3. ASSUME NEW m \in Nat, m \in B PROVE m + 1 \in B
    <3>1. SUFFICES ASSUME m + 1 \in 1 .. n - 1 PROVE f[m + 1] = g[m + 1]
      OBVIOUS
    <3>2. m + 1 \in 1 .. n /\ m + 1 \in 1 .. n - 1 /\ m + 1 - 1 = m
      BY <3>1
    <3>4. /\ f[m + 1] = JoinAt(s, f, m + 1) /\ g[m + 1] = JoinAt(t, g, m + 1)
      BY <1>3, <2>1, <3>2, Zenon
    <3>5. s[m + 1] = t[m + 1]
      BY <1>2, <3>2
    <3>3. m + 1 # 1 => f[m] = g[m]
      BY <2>3, <3>1
    <3>6. CASE m + 1 = 1
      BY <3>4, <3>5, <3>6, Zenon DEF JoinAt
    <3>7. CASE m + 1 # 1
      <4>1. f[(m + 1) - 1] = g[(m + 1) - 1]
        BY <3>2, <3>3, <3>7
      <4> QED BY <3>4, <3>5, <3>7, <4>1, Zenon DEF JoinAt
    <3> QED BY <3>6, <3>7
  <2> HIDE DEF B
  <2>4. \A m \in Nat : m \in B
    BY <2>2, <2>3, Induction
  <2>5. f[n - 1] = g[n - 1]
    BY <1>5, <2>4 DEF B
  <2>6. f[n] = JoinAt(s, f, n)
    BY <1>3
  <2>7. f[n] = f[n - 1] \o ss[n]
    <3>1. s[n] = ss[n]
      BY <1>2
    <3> QED BY <1>5, <2>6, <3>1, Zenon DEF JoinAt
  <2> QED BY <1>1, <1>3, <2>1, <2>5, <2>7 DEF Upto, s, t
<1> QED
  BY <1>1, <1>4, <1>5

(* Each sequence stands at its place in the joined one. *)
Joined(S, ss) ==
    /\ Join(ss) \in Seq(S) /\ Off(ss, 0) = 0 /\ Len(Join(ss)) = Off(ss, Len(ss))
    /\ \A n \in 0 .. Len(ss) : /\ Upto(ss, n) \in Seq(S)
                              /\ Off(ss, n) \in Nat /\ Off(ss, n) <= Off(ss, Len(ss))
    /\ \A n, m \in 0 .. Len(ss) : n <= m => Off(ss, n) <= Off(ss, m)
    /\ \A n \in 1 .. Len(ss) : Off(ss, n) = Off(ss, n - 1) + Len(ss[n])
    /\ \A n \in 1 .. Len(ss) : \A j \in 1 .. Len(ss[n]) :
          Join(ss)[Off(ss, n - 1) + j] = ss[n][j]

LEMMA JoinFacts ==
    ASSUME NEW S, NEW ss \in Seq(Seq(S))
    PROVE  Joined(S, ss)
<1>0. /\ Len(ss) \in Nat /\ DOMAIN ss = 1 .. Len(ss)
      /\ \A i \in 1 .. Len(ss) : ss[i] \in Seq(S)
      /\ ss = SubSeq(ss, 1, Len(ss))
  BY SubSeqFull
<1> DEFINE Right(m) ==
        /\ Upto(ss, m) \in Seq(S) /\ Off(ss, m) \in Nat
        /\ \A n \in 0 .. m : Off(ss, n) \in Nat /\ Off(ss, n) <= Off(ss, m)
        /\ \A n \in 1 .. m : /\ Off(ss, n) = Off(ss, n - 1) + Len(ss[n])
                             /\ \A j \in 1 .. Len(ss[n]) :
                                   Upto(ss, m)[Off(ss, n - 1) + j] = ss[n][j]
           B == {m \in Nat : m \in 0 .. Len(ss) => Right(m)}
<1>1. Upto(ss, 0) = <<>>
  <2>1. SubSeq(ss, 1, 0) = <<>>
    BY SubSeqEmpty
  <2> QED BY <2>1 DEF Upto, Join, Prologue!FlattenSeq
<1>2. Right(0)
  <2>1. <<>> \in Seq(S) /\ Len(<<>>) = 0
    BY EmptySeq
  <2>2. Upto(ss, 0) \in Seq(S) /\ Off(ss, 0) = 0
    BY <1>1, <2>1 DEF Off
  <2> QED BY <2>2
<1>3. ASSUME NEW m \in Nat, m \in B PROVE m + 1 \in B
  <2>1. SUFFICES ASSUME m + 1 \in 0 .. Len(ss) PROVE Right(m + 1)
    OBVIOUS
  <2>2. Right(m) /\ m + 1 \in 1 .. Len(ss)
    BY <1>3, <2>1
  <2> DEFINE u == Upto(ss, m)
             e == ss[m + 1]
  <2>3. Upto(ss, m + 1) = u \o e
    <3>1. Upto(ss, m + 1) = Upto(ss, (m + 1) - 1) \o ss[m + 1]
      <4> DEFINE k == m + 1
      <4>1. k \in 1 .. Len(ss)
        BY <2>2
      <4> HIDE DEF k
      <4>2. Upto(ss, k) = Upto(ss, k - 1) \o ss[k]
        BY <1>0, <4>1, JoinGrows
      <4> QED BY <4>2 DEF k
    <3>2. (m + 1) - 1 = m
      OBVIOUS
    <3> QED BY <3>1, <3>2
  <2>4. u \in Seq(S) /\ e \in Seq(S)
    BY <2>2
  <2> HIDE DEF u, e
  <2>5. /\ u \o e \in Seq(S)
        /\ Len(u \o e) = Len(u) + Len(e) /\ Len(u) \in Nat /\ Len(e) \in Nat
        /\ \A i \in 1 .. Len(u) + Len(e) :
              (u \o e)[i] = IF i <= Len(u) THEN u[i] ELSE e[i - Len(u)]
    BY <2>4, ConcatProperties, LenProperties
  <2>6. Off(ss, m + 1) = Off(ss, m) + Len(e) /\ Off(ss, m) = Len(u)
    BY <2>3, <2>5 DEF Off, u
  <2>7. \A n \in 0 .. m : Off(ss, n) \in Nat /\ Off(ss, n) <= Len(u)
    BY <2>2, <2>6
  <2>8. Off(ss, m + 1) \in Nat
    BY <2>5, <2>6
  <2>9. \A n \in 0 .. m + 1 : Off(ss, n) \in Nat /\ Off(ss, n) <= Off(ss, m + 1)
    BY <2>5, <2>6, <2>7, <2>8
  <2>10. ASSUME NEW n \in 1 .. m + 1
         PROVE  /\ Off(ss, n) = Off(ss, n - 1) + Len(ss[n])
                /\ \A j \in 1 .. Len(ss[n]) :
                      (u \o e)[Off(ss, n - 1) + j] = ss[n][j]
    <3>1. CASE n = m + 1
      <4>1. n - 1 = m /\ ss[n] = e
        BY <3>1 DEF e
      <4>2. \A j \in 1 .. Len(e) : /\ Len(u) + j \in 1 .. Len(u) + Len(e)
                                    /\ ~(Len(u) + j <= Len(u)) /\ Len(u) + j - Len(u) = j
        BY <2>5
      <4>3. Off(ss, n) = Off(ss, n - 1) + Len(ss[n])
        BY <3>1, <4>1, <2>6
      <4>4. \A j \in 1 .. Len(e) : (u \o e)[Len(u) + j] = e[j]
        BY <4>2, <2>5
      <4> QED BY <4>1, <4>3, <4>4, <2>6
    <3>2. CASE n # m + 1
      <4>1. n \in 1 .. m /\ n - 1 \in 0 .. m /\ n \in 0 .. m
        BY <3>2
      <4>2. /\ Off(ss, n) = Off(ss, n - 1) + Len(ss[n])
            /\ \A j \in 1 .. Len(ss[n]) : u[Off(ss, n - 1) + j] = ss[n][j]
        BY <2>2, <4>1 DEF u
      <4>3. Off(ss, n) <= Len(u) /\ Off(ss, n) \in Nat /\ Off(ss, n - 1) \in Nat
        BY <2>7, <4>1
      <4>4. Len(ss[n]) \in Nat
        BY <4>1, <2>1
      <4>5. ASSUME NEW j \in 1 .. Len(ss[n])
            PROVE  (u \o e)[Off(ss, n - 1) + j] = ss[n][j]
        <5>1. Off(ss, n - 1) + j \in 1 .. Len(u)
          BY SMTT(30), <4>2, <4>3, <4>4, <4>5
        <5> QED BY <2>5, <4>2, <4>5, <5>1
      <4> QED BY <4>2, <4>5
    <3> QED BY <3>1, <3>2
  <2> QED BY <2>3, <2>5, <2>8, <2>9, <2>10
<1> HIDE DEF Right
<1>4. \A m \in Nat : m \in B
  BY <1>2, <1>3, Induction
<1>5. \A m \in 0 .. Len(ss) : Right(m)
  BY <1>4
<1>6. Right(Len(ss)) /\ Upto(ss, Len(ss)) = Join(ss)
  <2>1. Upto(ss, Len(ss)) = Join(ss)
    BY <1>0, Zenon DEF Upto
  <2> QED BY <1>5, <2>1
<1>7. \A n, m \in 0 .. Len(ss) : n <= m => Off(ss, n) <= Off(ss, m)
  BY <1>5 DEF Right
<1>8. Off(ss, 0) = 0
  BY <1>1 DEF Off
<1>9. \A n \in 0 .. Len(ss) : /\ Upto(ss, n) \in Seq(S)
                              /\ Off(ss, n) \in Nat /\ Off(ss, n) <= Off(ss, Len(ss))
  BY <1>5, <1>6 DEF Right
<1>10. /\ Join(ss) \in Seq(S) /\ Len(Join(ss)) = Off(ss, Len(ss))
       /\ \A n \in 1 .. Len(ss) : /\ Off(ss, n) = Off(ss, n - 1) + Len(ss[n])
                                   /\ \A j \in 1 .. Len(ss[n]) :
                                         Join(ss)[Off(ss, n - 1) + j] = ss[n][j]
  BY <1>6 DEF Right, Off
<1> QED
  BY <1>7, <1>8, <1>9, <1>10 DEF Joined

-------------------------------------------------------------------------------
(* Abbreviations.  A declaration of the set begins where those in front of it
   end. *)
Coded == [i \in DOMAIN set |-> Abbrevs!Encode(set[i])]
Begins(n) == Off(Coded, n)
Size == Len(stream)

StreamKept ==
    /\ set \in Sets
    /\ \E t \in Tails, n \in Cuts :
        LET written == Abbrevs!EncodeSet(set) \o t
        IN stream = SubSeq(written, 1, IF n < Len(written) THEN n ELSE Len(written))

(* A declaration takes a code, a tag, a byte, its attributes in pairs and a
   pair of zeros. *)
LEMMA EncodeFacts ==
    ASSUME NEW d \in Abbrevs!Declarations
    PROVE  LET e == Abbrevs!Encode(d)
               k == Len(d.attrs)
           IN /\ k \in Nat /\ e \in Seq(Nat) /\ Len(e) = 2 * k + 5
              /\ e[1] = d.code /\ e[2] = d.tag /\ e[3] = d.children
              /\ \A m \in 0 .. k - 1 : /\ e[2 * m + 4] = d.attrs[m + 1].attr
                                       /\ e[2 * m + 5] = d.attrs[m + 1].form
              /\ e[2 * k + 4] = 0 /\ e[2 * k + 5] = 0
<1> DEFINE k == Len(d.attrs)
           h == <<d.code, d.tag, d.children>>
           p == Abbrevs!Pairs(d.attrs)
           z == <<0, 0>>
<1>1. /\ d.code \in Nat /\ d.tag \in Nat /\ d.children \in Nat /\ d.attrs \in Seq(Abbrevs!Attribute)
      /\ k \in Nat
      /\ \A i \in 1 .. k : d.attrs[i].attr \in Nat /\ d.attrs[i].form \in Nat
  <2>1. d.code \in Nat /\ d.tag \in Nat /\ d.children \in Nat /\ d.attrs \in Seq(Abbrevs!Attribute)
    BY DEF Abbrevs!Below, Abbrevs!Declarations
  <2>2. k \in Nat /\ \A i \in 1 .. k : d.attrs[i] \in Abbrevs!Attribute
    BY <2>1
  <2>3. \A a \in Abbrevs!Attribute : a.attr \in Nat /\ a.form \in Nat
    BY DEF Abbrevs!Below, Abbrevs!Attribute
  <2> QED BY <2>1, <2>2, <2>3
<1>2. h \in Seq(Nat) /\ Len(h) = 3 /\ h[1] = d.code /\ h[2] = d.tag /\ h[3] = d.children
  BY <1>1
<1>3. z \in Seq(Nat) /\ Len(z) = 2 /\ z[1] = 0 /\ z[2] = 0
  OBVIOUS
<1>4. /\ p \in Seq(Nat) /\ Len(p) = 2 * k
      /\ \A m \in 0 .. k - 1 : /\ p[2 * m + 1] = d.attrs[m + 1].attr
                               /\ p[2 * m + 2] = d.attrs[m + 1].form
  <2>1. p = [i \in 1 .. 2 * k |-> IF i % 2 = 1 THEN d.attrs[(i + 1) \div 2].attr
                                  ELSE d.attrs[i \div 2].form]
    BY DEF Abbrevs!Pairs
  <2>2. ASSUME NEW i \in 1 .. 2 * k PROVE p[i] \in Nat
    <3>1. CASE i % 2 = 1
      <4>1. (i + 1) \div 2 \in 1 .. k
        BY <1>1, <3>1
      <4> QED BY <1>1, <2>1, <3>1, <4>1
    <3>2. CASE i % 2 # 1
      <4>1. i \div 2 \in 1 .. k
        BY <1>1, <3>2
      <4> QED BY <1>1, <2>1, <3>2, <4>1
    <3> QED BY <3>1, <3>2
  <2>3. p \in Seq(Nat) /\ Len(p) = 2 * k
    BY <1>1, <2>1, <2>2
  <2>4. ASSUME NEW m \in 0 .. k - 1
        PROVE  /\ p[2 * m + 1] = d.attrs[m + 1].attr
               /\ p[2 * m + 2] = d.attrs[m + 1].form
    <3>1. /\ 2 * m + 1 \in 1 .. 2 * k /\ 2 * m + 2 \in 1 .. 2 * k
          /\ (2 * m + 1) % 2 = 1 /\ (2 * m + 2) % 2 = 0
          /\ (2 * m + 1 + 1) \div 2 = m + 1 /\ (2 * m + 2) \div 2 = m + 1
      BY <1>1
    <3> QED BY <2>1, <3>1
  <2> QED BY <2>3, <2>4
<1>5. Abbrevs!Encode(d) = (h \o p) \o z
  BY DEF Abbrevs!Encode
<1> HIDE DEF h, p, z, k
<1>6. /\ h \o p \in Seq(Nat) /\ Len(h \o p) = 3 + 2 * k
      /\ \A i \in 1 .. 3 + 2 * k : (h \o p)[i] = IF i <= 3 THEN h[i] ELSE p[i - 3]
  <2>1. /\ h \o p \in Seq(Nat) /\ Len(h \o p) = Len(h) + Len(p)
        /\ \A i \in 1 .. Len(h) + Len(p) : (h \o p)[i] = IF i <= Len(h) THEN h[i] ELSE p[i - Len(h)]
    BY <1>2, <1>4, ConcatProperties
  <2> QED BY <1>2, <1>4, <2>1
<1> DEFINE hp == h \o p
<1> HIDE DEF hp
<1>7. /\ hp \o z \in Seq(Nat) /\ Len(hp \o z) = 3 + 2 * k + 2
      /\ \A i \in 1 .. 3 + 2 * k + 2 :
            (hp \o z)[i] = IF i <= 3 + 2 * k THEN hp[i] ELSE z[i - (3 + 2 * k)]
  <2>1. hp \in Seq(Nat) /\ Len(hp) = 3 + 2 * k
    BY <1>6 DEF hp
  <2>2. /\ hp \o z \in Seq(Nat) /\ Len(hp \o z) = Len(hp) + Len(z)
        /\ \A i \in 1 .. Len(hp) + Len(z) : (hp \o z)[i] = IF i <= Len(hp) THEN hp[i] ELSE z[i - Len(hp)]
    BY <2>1, <1>3, ConcatProperties
  <2> QED BY <1>3, <2>1, <2>2
<1> DEFINE e == hp \o z
<1>8. Abbrevs!Encode(d) = e
  BY <1>5 DEF hp
<1> HIDE DEF e
<1>9. /\ e \in Seq(Nat) /\ Len(e) = 2 * k + 5
      /\ \A i \in 1 .. 3 + 2 * k : e[i] = hp[i]
      /\ e[2 * k + 4] = z[1] /\ e[2 * k + 5] = z[2]
  <2>1. Len(e) = 2 * k + 5
    BY <1>1, <1>7 DEF e
  <2>2. ASSUME NEW i \in 1 .. 3 + 2 * k PROVE e[i] = hp[i]
    <3>1. i \in 1 .. 3 + 2 * k + 2 /\ i <= 3 + 2 * k
      BY <1>1
    <3> QED BY <1>7, <3>1 DEF e
  <2>4. e[2 * k + 4] = z[1] /\ e[2 * k + 5] = z[2]
    <3>1. \A i : i \in 1 .. 3 + 2 * k + 2 /\ ~(i <= 3 + 2 * k) => e[i] = z[i - (3 + 2 * k)]
      BY <1>7 DEF e
    <3> DEFINE a4 == 2 * k + 4
               a5 == 2 * k + 5
    <3>2. /\ a4 \in 1 .. 3 + 2 * k + 2 /\ ~(a4 <= 3 + 2 * k) /\ a4 - (3 + 2 * k) = 1
          /\ a5 \in 1 .. 3 + 2 * k + 2 /\ ~(a5 <= 3 + 2 * k) /\ a5 - (3 + 2 * k) = 2
      BY <1>1
    <3> HIDE DEF a4, a5
    <3>3. e[a4] = z[a4 - (3 + 2 * k)] /\ e[a5] = z[a5 - (3 + 2 * k)]
      BY <3>1, <3>2
    <3> QED BY <3>2, <3>3 DEF a4, a5
  <2> QED BY <1>7, <2>1, <2>2, <2>4 DEF e
<1>10. e[1] = h[1] /\ e[2] = h[2] /\ e[3] = h[3]
  <2>1. /\ 1 \in 1 .. 3 + 2 * k /\ 2 \in 1 .. 3 + 2 * k /\ 3 \in 1 .. 3 + 2 * k
        /\ 1 <= 3 /\ 2 <= 3 /\ 3 <= 3
    BY <1>1
  <2>2. \A i : i \in 1 .. 3 + 2 * k /\ i <= 3 => e[i] = h[i]
    BY <1>6, <1>9 DEF hp
  <2> QED BY <2>1, <2>2, Zenon
<1>11. ASSUME NEW m \in 0 .. k - 1
       PROVE  e[2 * m + 4] = p[2 * m + 1] /\ e[2 * m + 5] = p[2 * m + 2]
  <2>1. /\ 2 * m + 4 \in 1 .. 3 + 2 * k /\ 2 * m + 5 \in 1 .. 3 + 2 * k
        /\ 2 * m + 4 - 3 = 2 * m + 1 /\ 2 * m + 5 - 3 = 2 * m + 2
        /\ ~(2 * m + 4 <= 3) /\ ~(2 * m + 5 <= 3)
    BY <1>1
  <2>2. /\ e[2 * m + 4] = p[2 * m + 4 - 3]
        /\ e[2 * m + 5] = p[2 * m + 5 - 3]
    <3>1. \A i : i \in 1 .. 3 + 2 * k /\ ~(i <= 3) => e[i] = p[i - 3]
      BY <1>6, <1>9 DEF hp
    <3>2. e[2 * m + 4] = p[2 * m + 4 - 3]
      BY <2>1, <3>1
    <3>3. e[2 * m + 5] = p[2 * m + 5 - 3]
      BY <2>1, <3>1
    <3> QED BY <3>2, <3>3
  <2> QED BY <2>1, <2>2
<1> HIDE DEF k
<1>12. \A m \in 0 .. k - 1 : /\ e[2 * m + 4] = d.attrs[m + 1].attr
                             /\ e[2 * m + 5] = d.attrs[m + 1].form
  BY <1>4, <1>11
<1>13. /\ k \in Nat /\ e \in Seq(Nat) /\ Len(e) = 2 * k + 5
       /\ e[1] = d.code /\ e[2] = d.tag /\ e[3] = d.children
       /\ e[2 * k + 4] = 0 /\ e[2 * k + 5] = 0
  BY <1>1, <1>2, <1>3, <1>9, <1>10
<1> QED
  BY <1>8, <1>12, <1>13, Zenon DEF k

(* Where the declarations are in the section, and what stands there, as far as
   the section goes. *)
LEMMA LayoutFacts ==
    ASSUME StreamKept
    PROVE  /\ set \in Seq(Abbrevs!Declarations) /\ stream \in Seq(Nat) /\ Size \in Nat
           /\ Begins(0) = 0
           /\ \A n \in 0 .. Len(set) : Begins(n) \in Nat /\ Abbrevs!EndOf(n) = Begins(n)
           /\ \A n, m \in 0 .. Len(set) : n <= m => Begins(n) <= Begins(m)
           /\ \A n \in 0 .. Len(set) - 1 :
                 Begins(n + 1) = Begins(n) + Len(Abbrevs!Encode(set[n + 1]))
           /\ \A n \in 0 .. Len(set) - 1 : \A j \in 0 .. Len(Abbrevs!Encode(set[n + 1])) - 1 :
                 Begins(n) + j < Size =>
                    Abbrevs!Number(Begins(n) + j) = Abbrevs!Encode(set[n + 1])[j + 1]
           /\ Abbrevs!Number(Begins(Len(set))) = 0
<1>1. set \in Seq(Abbrevs!Declarations) /\ Tails \subseteq Seq(Nat) /\ Cuts \subseteq Nat
  BY AbbrevTableAssumption DEF StreamKept, Abbrevs!AbbrevTableAssumption
<1>2. /\ Len(set) \in Nat /\ DOMAIN set = 1 .. Len(set)
      /\ \A i \in 1 .. Len(set) : set[i] \in Abbrevs!Declarations
  BY <1>1
<1>3. /\ Coded \in Seq(Seq(Nat)) /\ Len(Coded) = Len(set) /\ DOMAIN Coded = 1 .. Len(set)
      /\ \A i \in 1 .. Len(set) : Coded[i] = Abbrevs!Encode(set[i]) /\ Coded[i] \in Seq(Nat)
  <2>1. \A i \in 1 .. Len(set) : Abbrevs!Encode(set[i]) \in Seq(Nat)
    BY <1>2, EncodeFacts
  <2> QED BY <1>2, <2>1 DEF Coded
<1>5. Joined(Nat, Coded)
  <2>1. Coded \in Seq(Seq(Nat))
    BY <1>3
  <2> DEFINE cd == Coded
  <2> HIDE DEF cd
  <2>2. Joined(Nat, cd)
    <3>1. cd \in Seq(Seq(Nat))
      BY <2>1 DEF cd
    <3> QED BY <3>1, JoinFacts
  <2> QED BY <2>2 DEF cd
<1> DEFINE c == Join(Coded)
           es == c \o <<0>>
<1>6. Abbrevs!EncodeSet(set) = es
  BY DEF Abbrevs!EncodeSet, Join, Coded, Prologue!FlattenSeq, Abbrevs!FlattenSeq
<1>7. /\ es \in Seq(Nat) /\ Len(es) = Begins(Len(set)) + 1
      /\ \A i \in 1 .. Begins(Len(set)) : es[i] = c[i]
      /\ es[Begins(Len(set)) + 1] = 0
  <2>1. Len(c) = Begins(Len(set)) /\ Len(c) \in Nat /\ c \in Seq(Nat)
    BY <1>3, <1>5 DEF Begins, Joined
  <2>2. <<0>> \in Seq(Nat) /\ Len(<<0>>) = 1 /\ <<0>>[1] = 0
    OBVIOUS
  <2> HIDE DEF c
  <2>3. /\ es \in Seq(Nat) /\ Len(es) = Len(c) + Len(<<0>>)
        /\ \A i \in 1 .. Len(c) + Len(<<0>>) : es[i] = IF i <= Len(c) THEN c[i] ELSE <<0>>[i - Len(c)]
    BY <2>1, <2>2, ConcatProperties
  <2> HIDE DEF es
  <2> QED BY SMTT(30), <2>1, <2>2, <2>3
<1> HIDE DEF es, c
<1>8. PICK t \in Tails, n \in Cuts :
          stream = SubSeq(es \o t, 1, IF n < Len(es \o t) THEN n ELSE Len(es \o t))
  BY <1>6 DEF StreamKept
<1> DEFINE w == es \o t
<1>9. /\ w \in Seq(Nat) /\ Len(w) \in Nat /\ Len(w) >= Len(es)
      /\ \A i \in 1 .. Len(es) : w[i] = es[i]
  <2>1. t \in Seq(Nat) /\ Len(t) \in Nat /\ Len(es) \in Nat
    BY <1>1, <1>7
  <2>2. /\ w \in Seq(Nat) /\ Len(w) = Len(es) + Len(t)
        /\ \A i \in 1 .. Len(es) + Len(t) : w[i] = IF i <= Len(es) THEN es[i] ELSE t[i - Len(es)]
    BY <1>7, <2>1, ConcatProperties
  <2> HIDE DEF w
  <2> QED BY <2>1, <2>2
<1> HIDE DEF w
<1> DEFINE z == IF n < Len(w) THEN n ELSE Len(w)
<1>10. z \in 0 .. Len(w) /\ stream = SubSeq(w, 1, z)
  <2>1. n \in Nat
    BY <1>1
  <2> QED BY <2>1, <1>8, <1>9 DEF w
<1> HIDE DEF z
<1>11. stream \in Seq(Nat) /\ Size = z /\ \A i \in 1 .. z : stream[i] = w[i]
  <2>1. \A i \in 1 .. z : w[i] \in Nat
    BY <1>9, <1>10
  <2>2. z \in Int /\ 1 \in Int
    BY <1>10
  <2>3. /\ SubSeq(w, 1, z) \in Seq(Nat) /\ Len(SubSeq(w, 1, z)) = IF 1 <= z THEN z - 1 + 1 ELSE 0
        /\ \A i \in 1 .. z - 1 + 1 : SubSeq(w, 1, z)[i] = w[1 + i - 1]
    BY <2>1, <2>2, SubSeqProperties
  <2> QED BY <1>9, <1>10, <2>3 DEF Size
<1>12. ASSUME NEW o \in Nat, o < Len(es) PROVE o < Size => Abbrevs!Number(o) = es[o + 1]
  <2>1. o + 1 \in 1 .. Len(es)
    BY <1>7, <1>12
  <2>2. o < Size => o + 1 \in 1 .. z
    BY <1>10, <1>11
  <2> QED BY <1>9, <1>11, <2>1, <2>2 DEF Abbrevs!Number, Abbrevs!Size, Size
<1>13. ASSUME NEW m \in 0 .. Len(set) PROVE Begins(m) \in Nat /\ Abbrevs!EndOf(m) = Begins(m)
  <2> DEFINE s == SubSeq(set, 1, m)
             cs == [i \in DOMAIN s |-> Abbrevs!Encode(s[i])]
  <2>1. s \in Seq(Abbrevs!Declarations) /\ Len(s) = m /\ \A i \in 1 .. m : s[i] = set[i]
    <3>1. m \in Int /\ 1 \in Int /\ \A i \in 1 .. m : set[i] \in Abbrevs!Declarations
      BY <1>2
    <3>2. /\ s \in Seq(Abbrevs!Declarations) /\ Len(s) = IF 1 <= m THEN m - 1 + 1 ELSE 0
          /\ \A i \in 1 .. m - 1 + 1 : s[i] = set[1 + i - 1]
      BY <3>1, SubSeqProperties
    <3> QED BY <3>2
  <2>2. cs = SubSeq(Coded, 1, m)
    <3>1. m \in Int /\ 1 \in Int /\ \A i \in 1 .. m : Coded[i] \in Seq(Nat)
      BY <1>3
    <3>2. /\ SubSeq(Coded, 1, m) \in Seq(Seq(Nat))
          /\ Len(SubSeq(Coded, 1, m)) = IF 1 <= m THEN m - 1 + 1 ELSE 0
          /\ \A i \in 1 .. m - 1 + 1 : SubSeq(Coded, 1, m)[i] = Coded[1 + i - 1]
      BY <3>1, SubSeqProperties
    <3>3. Len(SubSeq(Coded, 1, m)) = m /\ \A i \in 1 .. m : SubSeq(Coded, 1, m)[i] = Coded[i]
      BY <3>2
    <3> HIDE DEF s
    <3>4. cs = [i \in 1 .. m |-> Abbrevs!Encode(s[i])]
      BY <2>1
    <3>5. \A i \in 1 .. m : Abbrevs!Encode(s[i]) = Coded[i]
      BY <2>1, <1>3
    <3>6. cs \in Seq(Seq(Nat)) /\ Len(cs) = m /\ \A i \in 1 .. m : cs[i] = Coded[i]
      BY <3>4, <3>5, <1>3
    <3> HIDE DEF cs
    <3> QED BY <3>2, <3>3, <3>6, SeqEqual
  <2>3. Abbrevs!EncodeSet(s) = Upto(Coded, m) \o <<0>>
    <3>1. Abbrevs!EncodeSet(s) = Join(cs) \o <<0>>
      BY DEF Abbrevs!EncodeSet, Join, Prologue!FlattenSeq, Abbrevs!FlattenSeq
    <3> QED BY <2>2, <3>1, Zenon DEF Upto
  <2>4. Upto(Coded, m) \in Seq(Nat) /\ Begins(m) = Len(Upto(Coded, m)) /\ Begins(m) \in Nat
    BY <1>3, <1>5 DEF Begins, Off, Joined
  <2>5. <<0>> \in Seq(Nat) /\ Len(<<0>>) = 1
    OBVIOUS
  <2>6. Len(Upto(Coded, m) \o <<0>>) = Begins(m) + 1
    <3>1. Len(Upto(Coded, m) \o <<0>>) = Len(Upto(Coded, m)) + Len(<<0>>)
      BY <2>4, <2>5, ConcatProperties
    <3> QED BY <2>4, <2>5, <3>1
  <2> QED BY <2>3, <2>4, <2>6 DEF Abbrevs!EndOf
<1>14. ASSUME NEW m \in 0 .. Len(set) - 1
       PROVE  /\ Begins(m + 1) = Begins(m) + Len(Abbrevs!Encode(set[m + 1]))
              /\ \A j \in 0 .. Len(Abbrevs!Encode(set[m + 1])) - 1 :
                    Begins(m) + j < Size =>
                       Abbrevs!Number(Begins(m) + j) = Abbrevs!Encode(set[m + 1])[j + 1]
  <2> DEFINE k == m + 1
             e == Abbrevs!Encode(set[k])
  <2>1. k \in 1 .. Len(Coded) /\ k - 1 = m /\ Coded[k] = e /\ e \in Seq(Nat) /\ k \in 0 .. Len(set)
    BY <1>2, <1>3
  <2>2. Begins(k) = Begins(k - 1) + Len(e) /\ Len(e) \in Nat
    <3>1. Off(Coded, k) = Off(Coded, k - 1) + Len(Coded[k])
      BY <2>1, <1>5 DEF Joined
    <3> QED BY <2>1, <3>1 DEF Begins
  <2>3. ASSUME NEW j \in 0 .. Len(e) - 1, Begins(m) + j < Size
        PROVE  Abbrevs!Number(Begins(m) + j) = e[j + 1]
    <3>1. j + 1 \in 1 .. Len(Coded[k])
      BY <2>1, <2>2
    <3> HIDE DEF k, e
    <3>2. c[Off(Coded, k - 1) + (j + 1)] = e[j + 1]
      BY <1>5, <2>1, <3>1 DEF c, Joined
    <3>3. Begins(k) <= Begins(Len(set)) /\ Begins(Len(set)) \in Nat /\ Begins(m) \in Nat /\ Begins(k) \in Nat
      BY <1>2, <1>3, <1>5, <2>1 DEF Begins, Joined
    <3>4. Begins(m) + j \in Nat /\ Begins(m) + j < Len(es) /\ Begins(m) + j + 1 \in 1 .. Begins(Len(set))
      <4>1. Begins(k) = Begins(m) + Len(e) /\ Len(e) \in Nat /\ j < Len(e) /\ j \in Nat
        BY <2>1, <2>2, <2>3
      <4>2. Len(es) = Begins(Len(set)) + 1
        BY <1>7
      <4> DEFINE L == Begins(Len(set))
                 a == Begins(m)
                 b == Begins(k)
                 le == Len(e)
      <4>3. b = a + le /\ le \in Nat /\ j < le /\ j \in Nat /\ b <= L /\ L \in Nat /\ a \in Nat
        BY <3>3, <4>1
      <4> HIDE DEF L, a, b, le
      <4>4. a + j \in Nat /\ a + j < L + 1 /\ a + j + 1 \in 1 .. L
        BY <4>3
      <4> QED BY <4>2, <4>4 DEF L, a
    <3>5. Abbrevs!Number(Begins(m) + j) = es[Begins(m) + j + 1]
      BY <1>12, <2>3, <3>4
    <3>6. Off(Coded, k - 1) = Begins(m)
      BY <2>1 DEF Begins
    <3>7. Begins(m) + (j + 1) = Begins(m) + j + 1
      BY <3>3
    <3> QED BY <1>7, <3>2, <3>4, <3>5, <3>6, <3>7
  <2> QED BY <2>1, <2>2, <2>3
<1>15. Abbrevs!Number(Begins(Len(set))) = 0
  <2>1. Begins(Len(set)) \in Nat
    BY <1>2, <1>13
  <2>2. CASE Begins(Len(set)) < Size
    BY <1>7, <1>12, <2>1, <2>2
  <2>3. CASE ~(Begins(Len(set)) < Size)
    BY <2>3 DEF Abbrevs!Number, Abbrevs!Size, Size
  <2> QED BY <2>2, <2>3
<1>16. \A m1, m2 \in 0 .. Len(set) : m1 <= m2 => Begins(m1) <= Begins(m2)
  BY <1>3, <1>5 DEF Begins, Joined
<1>17. Begins(0) = 0 /\ Size \in Nat
  BY <1>5, <1>10, <1>11 DEF Begins, Joined
<1> QED
  BY <1>1, <1>11, <1>13, <1>14, <1>15, <1>16, <1>17

(* What is kept of a declaration: it and its attributes in order, as far as
   the section goes. *)
Read == [code : Nat, tag : Nat, children : Nat, attrs : Seq(Abbrevs!Attribute)]
ReadOf(d, i, m) ==
    /\ d \in Read /\ d.code = set[i].code /\ d.tag = set[i].tag
    /\ m \in 0 .. Len(set[i].attrs) /\ d.attrs = SubSeq(set[i].attrs, 1, m)
KeptOf(d, i) ==
    /\ \E m \in 0 .. Len(set[i].attrs) : ReadOf(d, i, m)
    /\ Begins(i) <= Size => d = set[i]
IsFirst(i) == \A j \in 1 .. i - 1 : set[j].code # set[i].code
Known(n) ==
    /\ DOMAIN m_map = {set[i].code : i \in 1 .. n}
    /\ \A i \in 1 .. n : IsFirst(i) => KeptOf(m_map[set[i].code], i)

(* Where the parse stands with n declarations read. *)
Stands(n) ==
    /\ at = "declaration" => pos = Abbrevs!Clamped(Begins(n))
    /\ at = "attributes" =>
          /\ n < Len(set) /\ Begins(n) + 2 <= Size
          /\ Begins(n) + 3 <= Size => abbr.children = set[n + 1].children
          /\ \E m \in 0 .. Len(set[n + 1].attrs) :
                /\ ReadOf(abbr, n + 1, m)
                /\ pos = Abbrevs!Clamped(Begins(n) + 3 + 2 * m)
                /\ m # 0 => Begins(n) + 3 + 2 * m <= Size
    /\ at = "done" => n = Len(set) \/ Size < Begins(n) + 2

AbbrevInv ==
    /\ StreamKept
    /\ pos \in 0 .. Size /\ at \in {"declaration", "attributes", "done"}
    /\ abbr = Abbrevs!None \/ abbr \in Read
    /\ \E n \in 0 .. Len(set) : Known(n) /\ Stands(n)

LEMMA AbbrevInitHolds == ASSUME Abbrevs!Init PROVE AbbrevInv
<1>1. StreamKept /\ pos = 0 /\ at = "declaration" /\ abbr = Abbrevs!None /\ m_map = <<>>
  BY DEF Abbrevs!Init, StreamKept
<1>2. /\ Size \in Nat /\ Begins(0) = 0 /\ Len(set) \in Nat
  BY <1>1, LayoutFacts
<1>3. Known(0)
  <2>1. DOMAIN m_map = {}
    BY <1>1
  <2> QED BY <2>1 DEF Known
<1>4. Stands(0)
  BY <1>1, <1>2 DEF Stands, Abbrevs!Clamped, Abbrevs!Size, Size
<1> QED
  BY <1>1, <1>2, <1>3, <1>4 DEF AbbrevInv

(* Declarations of the set. *)
LEMMA SetFacts ==
    ASSUME StreamKept
    PROVE  /\ Len(set) \in Nat /\ DOMAIN set = 1 .. Len(set) /\ Size \in Nat
           /\ \A o \in Nat : Abbrevs!Number(o) \in Nat
           /\ \A i \in 1 .. Len(set) :
                 /\ set[i] \in Abbrevs!Declarations /\ set[i] \in Read
                 /\ set[i].code \in Nat \ {0} /\ set[i].tag \in Nat \ {0}
                 /\ set[i].children \in {0, 1} /\ set[i].attrs \in Seq(Abbrevs!Attribute)
                 /\ Len(set[i].attrs) \in Nat
                 /\ \A m \in 1 .. Len(set[i].attrs) :
                       /\ set[i].attrs[m] \in Abbrevs!Attribute
                       /\ set[i].attrs[m].attr \in Nat \ {0}
                       /\ set[i].attrs[m].form \in Nat \ {0}
                       /\ set[i].attrs[m] = [attr |-> set[i].attrs[m].attr,
                                             form |-> set[i].attrs[m].form]
<1>1. set \in Seq(Abbrevs!Declarations) /\ stream \in Seq(Nat) /\ Size \in Nat
  BY LayoutFacts
<1>2. Len(set) \in Nat /\ DOMAIN set = 1 .. Len(set)
  BY <1>1
<1>3. ASSUME NEW o \in Nat PROVE Abbrevs!Number(o) \in Nat
  <2>1. o < Len(stream) => o + 1 \in 1 .. Len(stream)
    BY <1>1
  <2>2. \A i \in 1 .. Len(stream) : stream[i] \in Nat
    BY <1>1
  <2> QED BY <2>1, <2>2 DEF Abbrevs!Number, Abbrevs!Size
<1>4. ASSUME NEW i \in 1 .. Len(set)
      PROVE  /\ set[i] \in Abbrevs!Declarations /\ set[i] \in Read
             /\ set[i].code \in Nat \ {0} /\ set[i].tag \in Nat \ {0}
             /\ set[i].children \in {0, 1} /\ set[i].attrs \in Seq(Abbrevs!Attribute)
  <2>1. set[i] \in Abbrevs!Declarations
    BY <1>1
  <2> QED BY <2>1 DEF Abbrevs!Below, Abbrevs!Declarations, Read
<1>5. ASSUME NEW i \in 1 .. Len(set)
      PROVE  /\ Len(set[i].attrs) \in Nat
             /\ \A m \in 1 .. Len(set[i].attrs) :
                   /\ set[i].attrs[m] \in Abbrevs!Attribute
                   /\ set[i].attrs[m].attr \in Nat \ {0}
                   /\ set[i].attrs[m].form \in Nat \ {0}
                   /\ set[i].attrs[m] = [attr |-> set[i].attrs[m].attr,
                                         form |-> set[i].attrs[m].form]
  <2> DEFINE a == set[i].attrs
  <2>1. a \in Seq(Abbrevs!Attribute)
    BY <1>4
  <2> HIDE DEF a
  <2>2. Len(a) \in Nat /\ \A m \in 1 .. Len(a) : a[m] \in Abbrevs!Attribute
    BY <2>1
  <2>3. \A d \in Abbrevs!Attribute : /\ d.attr \in Nat \ {0} /\ d.form \in Nat \ {0}
                                     /\ d = [attr |-> d.attr, form |-> d.form]
    BY DEF Abbrevs!Below, Abbrevs!Attribute
  <2> QED BY <2>2, <2>3 DEF a
<1> QED
  BY <1>1, <1>2, <1>3, <1>4, <1>5

(* What is in the section where a declaration stands. *)
LEMMA DeclarationFacts ==
    ASSUME StreamKept, NEW n \in 0 .. Len(set) - 1
    PROVE  LET k == Len(set[n + 1].attrs)
               b == Begins(n)
           IN /\ b \in Nat /\ k \in Nat /\ Begins(n + 1) = b + 2 * k + 5
              /\ b < Size => Abbrevs!Number(b) = set[n + 1].code
              /\ b + 1 < Size => Abbrevs!Number(b + 1) = set[n + 1].tag
              /\ b + 2 < Size => Abbrevs!Number(b + 2) = set[n + 1].children
              /\ \A m \in 0 .. k - 1 :
                    /\ b + 3 + 2 * m < Size =>
                          Abbrevs!Number(b + 3 + 2 * m) = set[n + 1].attrs[m + 1].attr
                    /\ b + 4 + 2 * m < Size =>
                          Abbrevs!Number(b + 4 + 2 * m) = set[n + 1].attrs[m + 1].form
              /\ b + 3 + 2 * k < Size => Abbrevs!Number(b + 3 + 2 * k) = 0
<1> DEFINE i == n + 1
           k == Len(set[i].attrs)
           b == Begins(n)
           e == Abbrevs!Encode(set[i])
<1>1. i \in 1 .. Len(set) /\ set[i] \in Abbrevs!Declarations /\ n \in 0 .. Len(set) /\ Size \in Nat
  <2>1. Len(set) \in Nat /\ Size \in Nat
    BY SetFacts, Zenon
  <2>2. i \in 1 .. Len(set) /\ n \in 0 .. Len(set)
    BY <2>1
  <2> HIDE DEF i
  <2>3. set[i] \in Abbrevs!Declarations
    BY <2>2, SetFacts, Zenon
  <2> QED BY <2>1, <2>2, <2>3
<1>2. /\ k \in Nat /\ Len(e) = 2 * k + 5
      /\ e[1] = set[i].code /\ e[2] = set[i].tag /\ e[3] = set[i].children
      /\ \A m \in 0 .. k - 1 : /\ e[2 * m + 4] = set[i].attrs[m + 1].attr
                               /\ e[2 * m + 5] = set[i].attrs[m + 1].form
      /\ e[2 * k + 4] = 0
  <2> DEFINE d == set[i]
  <2>1. d \in Abbrevs!Declarations
    BY <1>1
  <2> HIDE DEF d
  <2>2. LET x == Abbrevs!Encode(d)
            y == Len(d.attrs)
        IN /\ y \in Nat /\ x \in Seq(Nat) /\ Len(x) = 2 * y + 5
           /\ x[1] = d.code /\ x[2] = d.tag /\ x[3] = d.children
           /\ \A m \in 0 .. y - 1 : /\ x[2 * m + 4] = d.attrs[m + 1].attr
                                    /\ x[2 * m + 5] = d.attrs[m + 1].form
           /\ x[2 * y + 4] = 0 /\ x[2 * y + 5] = 0
    BY <2>1, EncodeFacts
  <2> QED BY <2>2 DEF d
<1>3. /\ b \in Nat /\ Begins(i) = b + Len(e)
      /\ \A j \in 0 .. Len(e) - 1 : b + j < Size => Abbrevs!Number(b + j) = e[j + 1]
  BY <1>1, LayoutFacts
<1> HIDE DEF e, b, k
<1>4. Begins(i) = b + 2 * k + 5
  BY <1>2, <1>3
<1>5. /\ b < Size => Abbrevs!Number(b) = set[i].code
      /\ b + 1 < Size => Abbrevs!Number(b + 1) = set[i].tag
      /\ b + 2 < Size => Abbrevs!Number(b + 2) = set[i].children
  <2>1. 0 \in 0 .. Len(e) - 1 /\ 1 \in 0 .. Len(e) - 1 /\ 2 \in 0 .. Len(e) - 1
    BY <1>2
  <2>2. /\ b + 0 < Size => Abbrevs!Number(b + 0) = e[0 + 1]
        /\ b + 1 < Size => Abbrevs!Number(b + 1) = e[1 + 1]
        /\ b + 2 < Size => Abbrevs!Number(b + 2) = e[2 + 1]
    BY <1>3, <2>1, Zenon
  <2>3. b + 0 = b /\ 0 + 1 = 1 /\ 1 + 1 = 2 /\ 2 + 1 = 3
    BY <1>3
  <2>4. b < Size => Abbrevs!Number(b) = e[1]
    BY <2>2, <2>3
  <2> QED BY <1>2, <2>2, <2>3, <2>4
<1>6. ASSUME NEW m \in 0 .. k - 1
      PROVE  /\ b + 3 + 2 * m < Size => Abbrevs!Number(b + 3 + 2 * m) = set[i].attrs[m + 1].attr
             /\ b + 4 + 2 * m < Size => Abbrevs!Number(b + 4 + 2 * m) = set[i].attrs[m + 1].form
  <2> DEFINE j3 == 2 * m + 3
             j4 == 2 * m + 4
  <2>1. /\ j3 \in 0 .. Len(e) - 1 /\ b + j3 = b + 3 + 2 * m /\ j3 + 1 = 2 * m + 4
        /\ j4 \in 0 .. Len(e) - 1 /\ b + j4 = b + 4 + 2 * m /\ j4 + 1 = 2 * m + 5
    BY <1>2, <1>3
  <2> HIDE DEF j3, j4
  <2>2. /\ b + j3 < Size => Abbrevs!Number(b + j3) = e[j3 + 1]
        /\ b + j4 < Size => Abbrevs!Number(b + j4) = e[j4 + 1]
    BY <1>3, <2>1, Zenon
  <2> QED BY <1>2, <2>1, <2>2
<1>7. b + 3 + 2 * k < Size => Abbrevs!Number(b + 3 + 2 * k) = 0
  <2> DEFINE j == 2 * k + 3
  <2>1. j \in 0 .. Len(e) - 1 /\ b + j = b + 3 + 2 * k /\ j + 1 = 2 * k + 4
    BY <1>2, <1>3
  <2> HIDE DEF j
  <2>2. b + j < Size => Abbrevs!Number(b + j) = e[j + 1]
    BY <1>3, <2>1, Zenon
  <2> QED BY <1>2, <2>1, <2>2
<1> QED
  BY <1>2, <1>3, <1>4, <1>5, <1>6, <1>7 DEF b, k

(* The section does not change, and with it where the declarations begin. *)
LEMMA SameStream ==
    ASSUME UNCHANGED <<set, stream>>
    PROVE  /\ StreamKept => StreamKept' /\ Size' = Size
           /\ \A n : Begins(n)' = Begins(n)
           /\ \A d, i, m : ReadOf(d, i, m)' = ReadOf(d, i, m)
           /\ \A i : IsFirst(i)' = IsFirst(i)
           /\ \A d, i : KeptOf(d, i)' = KeptOf(d, i)
           /\ \A o : Abbrevs!Clamped(o)' = Abbrevs!Clamped(o)
<1>1. Coded' = Coded
  BY DEF Coded
<1>2. \A n : Begins(n)' = Begins(n)
  BY <1>1 DEF Begins
<1>3. Size' = Size
  BY DEF Size
<1>4. \A d, i, m : ReadOf(d, i, m)' = ReadOf(d, i, m)
  BY DEF ReadOf
<1>5. \A i : IsFirst(i)' = IsFirst(i)
  BY DEF IsFirst
<1>6. \A d, i : KeptOf(d, i)' = KeptOf(d, i)
  BY <1>2, <1>3, <1>4 DEF KeptOf
<1>7. \A o : Abbrevs!Clamped(o)' = Abbrevs!Clamped(o)
  BY DEF Abbrevs!Clamped, Abbrevs!Size
<1>8. StreamKept => StreamKept'
  BY DEF StreamKept
<1> QED
  BY <1>2, <1>3, <1>4, <1>5, <1>6, <1>7, <1>8

(* What is known does not change but for a declaration that is new. *)
LEMMA KnownStays ==
    ASSUME UNCHANGED <<set, stream, m_map>>
    PROVE  \A n : Known(n) => Known(n)'
  BY SameStream DEF Known

LEMMA EndKeeps == ASSUME AbbrevInv, Abbrevs!End PROVE AbbrevInv'
<1>1. /\ at = "declaration" /\ at' = "done" /\ UNCHANGED <<set, stream, abbr, m_map>>
      /\ Abbrevs!Number(pos) = 0 \/ Abbrevs!Number(pos + 1) = 0
      /\ pos' = Abbrevs!Clamped(pos + (IF Abbrevs!Number(pos) = 0 THEN 1 ELSE 2))
      /\ StreamKept /\ pos \in 0 .. Size /\ Size \in Nat
      /\ abbr = Abbrevs!None \/ abbr \in Read
  BY SetFacts DEF Abbrevs!End, AbbrevInv
<1>2. PICK n \in 0 .. Len(set) : Known(n) /\ pos = Abbrevs!Clamped(Begins(n))
  BY <1>1 DEF AbbrevInv, Stands
<1>3. Len(set) \in Nat /\ Begins(n) \in Nat
  BY <1>1, SetFacts, LayoutFacts
<1>4. pos' \in 0 .. Size
  BY <1>1 DEF Abbrevs!Clamped, Abbrevs!Size, Size
<1>5. n = Len(set) \/ Size < Begins(n) + 2
  <2>1. SUFFICES ASSUME n # Len(set), Begins(n) + 2 <= Size PROVE FALSE
    BY <1>1, <1>3
  <2>2. n \in 0 .. Len(set) - 1 /\ n + 1 \in 1 .. Len(set)
    BY <1>3, <2>1
  <2>3. pos = Begins(n) /\ Begins(n) < Size /\ Begins(n) + 1 < Size
    BY <1>1, <1>2, <1>3, <2>1 DEF Abbrevs!Clamped, Abbrevs!Size, Size
  <2>4. Abbrevs!Number(pos) = set[n + 1].code /\ Abbrevs!Number(pos + 1) = set[n + 1].tag
    BY <1>1, <2>2, <2>3, DeclarationFacts
  <2>5. set[n + 1].code # 0 /\ set[n + 1].tag # 0
    BY <1>1, <2>2, SetFacts
  <2> QED BY <1>1, <2>4, <2>5
<1>6. Known(n)' /\ Stands(n)' /\ StreamKept' /\ Size' = Size
  <2>1. Known(n)'
    BY <1>1, <1>2, KnownStays
  <2>2. Stands(n)'
    BY <1>1, <1>5, SameStream DEF Stands
  <2> QED BY <1>1, <2>1, <2>2, SameStream
<1> QED
  BY <1>1, <1>4, <1>6 DEF AbbrevInv

(* Records of a declaration. *)
LEMMA LongerRead ==
    ASSUME NEW d \in Read, NEW a \in Abbrevs!Attribute, NEW g,
           g = [d EXCEPT !.attrs = Append(@, a)]
    PROVE  /\ g \in Read /\ g.code = d.code /\ g.tag = d.tag /\ g.children = d.children
           /\ g.attrs = Append(d.attrs, a)
<1>1. Append(d.attrs, a) \in Seq(Abbrevs!Attribute)
  BY DEF Read
<1> QED
  BY <1>1 DEF Read

LEMMA SameRead ==
    ASSUME NEW d \in Read, NEW g \in Read, d.code = g.code, d.tag = g.tag,
           d.children = g.children, d.attrs = g.attrs
    PROVE  d = g
  BY DEF Read

LEMMA BeginKeeps == ASSUME AbbrevInv, Abbrevs!Begin PROVE AbbrevInv'
<1>1. /\ at = "declaration" /\ at' = "attributes" /\ UNCHANGED <<set, stream, m_map>>
      /\ Abbrevs!Number(pos) # 0 /\ Abbrevs!Number(pos + 1) # 0
      /\ abbr' = [Abbrevs!None EXCEPT !.code = Abbrevs!Number(pos),
                     !.tag = Abbrevs!Number(pos + 1), !.children = Abbrevs!Number(pos + 2)]
      /\ pos' = Abbrevs!Clamped(pos + 3)
      /\ StreamKept /\ pos \in 0 .. Size /\ Size \in Nat
  BY SetFacts DEF Abbrevs!Begin, AbbrevInv
<1>2. PICK n \in 0 .. Len(set) : Known(n) /\ pos = Abbrevs!Clamped(Begins(n))
  BY <1>1 DEF AbbrevInv, Stands
<1>3. Len(set) \in Nat /\ Begins(n) \in Nat
  BY <1>1, SetFacts, LayoutFacts
<1>4. pos' \in 0 .. Size
  BY <1>1 DEF Abbrevs!Clamped, Abbrevs!Size, Size
<1>5. pos + 1 < Size /\ pos = Begins(n) /\ n # Len(set)
  <2>1. pos < Size /\ pos + 1 < Size
    BY <1>1 DEF Abbrevs!Number, Abbrevs!Size, Size
  <2>2. pos = Begins(n)
    BY <1>1, <1>2, <1>3, <2>1 DEF Abbrevs!Clamped, Abbrevs!Size, Size
  <2> QED BY <1>1, <2>1, <2>2, LayoutFacts
<1>6. n \in 0 .. Len(set) - 1 /\ n + 1 \in 1 .. Len(set)
  BY <1>3, <1>5
<1>7. /\ Abbrevs!Number(pos) = set[n + 1].code /\ Abbrevs!Number(pos + 1) = set[n + 1].tag
      /\ Begins(n) + 3 <= Size => Abbrevs!Number(pos + 2) = set[n + 1].children
  <2>1. /\ Begins(n) < Size => Abbrevs!Number(Begins(n)) = set[n + 1].code
        /\ Begins(n) + 1 < Size => Abbrevs!Number(Begins(n) + 1) = set[n + 1].tag
        /\ Begins(n) + 2 < Size => Abbrevs!Number(Begins(n) + 2) = set[n + 1].children
    BY <1>1, <1>6, DeclarationFacts
  <2>2. /\ Begins(n) < Size /\ Begins(n) + 1 < Size
        /\ Begins(n) + 3 <= Size => Begins(n) + 2 < Size
    BY <1>1, <1>3, <1>5
  <2> QED BY <1>5, <2>1, <2>2
<1>8. /\ abbr' \in Read /\ abbr'.code = set[n + 1].code /\ abbr'.tag = set[n + 1].tag
      /\ abbr'.attrs = <<>>
      /\ Begins(n) + 3 <= Size => abbr'.children = set[n + 1].children
  <2>1. Abbrevs!Number(pos) \in Nat /\ Abbrevs!Number(pos + 1) \in Nat /\ Abbrevs!Number(pos + 2) \in Nat
    BY <1>1, SetFacts
  <2> DEFINE c == Abbrevs!Number(pos)
             t == Abbrevs!Number(pos + 1)
             h == Abbrevs!Number(pos + 2)
             d == [Abbrevs!None EXCEPT !.code = c, !.tag = t, !.children = h]
  <2>2. c \in Nat /\ t \in Nat /\ h \in Nat
    BY <2>1
  <2>3. abbr' = d
    BY <1>1
  <2> HIDE DEF c, t, h
  <2>5. d = [Abbrevs!None EXCEPT !.code = c, !.tag = t, !.children = h]
    OBVIOUS
  <2> HIDE DEF d
  <2>4. d \in Read /\ d.code = c /\ d.tag = t /\ d.children = h /\ d.attrs = <<>>
    <3>1. <<>> \in Seq(Abbrevs!Attribute)
      OBVIOUS
    <3> QED BY <2>2, <2>5, <3>1 DEF Read, Abbrevs!None
  <2> QED BY <1>7, <2>3, <2>4 DEF c, t, h
<1>9. ReadOf(abbr', n + 1, 0)
  <2>1. SubSeq(set[n + 1].attrs, 1, 0) = <<>> /\ Len(set[n + 1].attrs) \in Nat
    BY <1>1, <1>6, SetFacts, SubSeqEmpty
  <2> QED BY <1>8, <2>1 DEF ReadOf
<1>10. pos' = Abbrevs!Clamped(Begins(n) + 3 + 2 * 0)
  BY <1>1, <1>3, <1>5
<1>11. Stands(n)'
  <2>1. Begins(n) + 2 <= Size /\ n < Len(set) /\ 0 \in 0 .. Len(set[n + 1].attrs)
    BY <1>1, <1>3, <1>5, <1>6, SetFacts
  <2> QED BY <1>1, <1>8, <1>9, <1>10, <2>1, SameStream DEF Stands
<1>12. Known(n)' /\ StreamKept' /\ Size' = Size
  BY <1>1, <1>2, KnownStays, SameStream
<1> QED
  BY <1>1, <1>4, <1>8, <1>11, <1>12 DEF AbbrevInv

(* The part of a sequence up to an element. *)
LEMMA AppendedPart ==
    ASSUME NEW S, NEW s \in Seq(S), NEW m \in 0 .. Len(s) - 1
    PROVE  SubSeq(s, 1, m + 1) = Append(SubSeq(s, 1, m), s[m + 1])
<1>1. Len(s) \in Nat /\ \A i \in 1 .. Len(s) : s[i] \in S
  OBVIOUS
<1>2. m \in Int /\ m + 1 \in Int /\ 1 \in Int
  OBVIOUS
<1>3. (\A i \in 1 .. m : s[i] \in S) /\ \A i \in 1 .. m + 1 : s[i] \in S
  BY <1>1
<1> DEFINE a == SubSeq(s, 1, m)
           b == SubSeq(s, 1, m + 1)
<1>4. /\ a \in Seq(S) /\ Len(a) = IF 1 <= m THEN m - 1 + 1 ELSE 0
      /\ \A i \in 1 .. m - 1 + 1 : a[i] = s[1 + i - 1]
  BY <1>2, <1>3, SubSeqProperties
<1>5. /\ b \in Seq(S) /\ Len(b) = IF 1 <= m + 1 THEN m + 1 - 1 + 1 ELSE 0
      /\ \A i \in 1 .. m + 1 - 1 + 1 : b[i] = s[1 + i - 1]
  BY <1>2, <1>3, SubSeqProperties
<1> HIDE DEF a, b
<1>6. /\ Len(a) = m /\ \A i \in 1 .. m : a[i] = s[i]
      /\ Len(b) = m + 1 /\ \A i \in 1 .. m + 1 : b[i] = s[i]
  BY <1>4, <1>5
<1> DEFINE c == Append(a, s[m + 1])
<1>7. c \in Seq(S) /\ Len(c) = m + 1 /\ \A i \in 1 .. m + 1 : c[i] = s[i]
  <2>1. s[m + 1] \in S
    BY <1>1
  <2> QED BY <1>4, <1>6, <2>1
<1> HIDE DEF c
<1>8. b = c
  BY <1>5, <1>6, <1>7, SeqEqual
<1> QED
  BY <1>8 DEF a, b, c

LEMMA ReadAttributeKeeps == ASSUME AbbrevInv, Abbrevs!ReadAttribute PROVE AbbrevInv'
<1> DEFINE p == [attr |-> Abbrevs!Number(pos), form |-> Abbrevs!Number(pos + 1)]
<1>1. /\ at = "attributes" /\ at' = at /\ UNCHANGED <<set, stream, m_map>>
      /\ Abbrevs!Number(pos) # 0 /\ Abbrevs!Number(pos + 1) # 0
      /\ abbr' = [abbr EXCEPT !.attrs = Append(@, p)]
      /\ pos' = pos + 2
      /\ StreamKept /\ pos \in 0 .. Size /\ Size \in Nat
  BY SetFacts DEF Abbrevs!ReadAttribute, Abbrevs!IsPair, Abbrevs!Pair, AbbrevInv
<1>2. PICK n \in 0 .. Len(set) : Known(n) /\ Stands(n)
  BY DEF AbbrevInv
<1>3. Len(set) \in Nat /\ Begins(n) \in Nat
  BY <1>1, SetFacts, LayoutFacts
<1>4. /\ n \in 0 .. Len(set) - 1 /\ n + 1 \in 1 .. Len(set) /\ Begins(n) + 2 <= Size
      /\ Begins(n) + 3 <= Size => abbr.children = set[n + 1].children
  <2>1. /\ n < Len(set) /\ Begins(n) + 2 <= Size
        /\ Begins(n) + 3 <= Size => abbr.children = set[n + 1].children
    BY <1>1, <1>2, Zenon DEF Stands
  <2> QED BY <1>3, <2>1
<1> DEFINE s == set[n + 1].attrs
<1>5. PICK m \in 0 .. Len(s) :
          ReadOf(abbr, n + 1, m) /\ pos = Abbrevs!Clamped(Begins(n) + 3 + 2 * m)
  BY <1>1, <1>2, Zenon DEF Stands
<1>0. Len(s) \in Nat /\ m \in Nat
  <2>1. Len(s) \in Nat
    BY <1>1, <1>4, SetFacts
  <2> HIDE DEF s
  <2> QED BY <2>1
<1>6. pos + 1 < Size /\ pos = Begins(n) + 3 + 2 * m /\ pos' \in 0 .. Size
  <2>1. pos < Size /\ pos + 1 < Size
    BY <1>1 DEF Abbrevs!Number, Abbrevs!Size, Size
  <2>2. Begins(n) + 3 + 2 * m \in Nat
    BY <1>0, <1>3
  <2>3. pos = Begins(n) + 3 + 2 * m
    BY <1>1, <1>5, <2>1, <2>2 DEF Abbrevs!Clamped, Abbrevs!Size, Size
  <2> QED BY <1>1, <2>1, <2>3
<1>7. m # Len(s)
  <2>1. SUFFICES ASSUME m = Len(s) PROVE FALSE
    OBVIOUS
  <2>2. Begins(n) + 3 + 2 * Len(s) < Size => Abbrevs!Number(Begins(n) + 3 + 2 * Len(s)) = 0
    BY <1>1, <1>4, DeclarationFacts
  <2> QED BY <1>1, <1>3, <1>6, <2>1, <2>2
<1>8. Len(s) \in Nat /\ m \in 0 .. Len(s) - 1 /\ m + 1 \in 1 .. Len(s) /\ s \in Seq(Abbrevs!Attribute)
  BY SMTT(30), <1>1, <1>4, <1>7, SetFacts
<1>9. p = s[m + 1] /\ p \in Abbrevs!Attribute
  <2>1. /\ Begins(n) + 3 + 2 * m < Size => Abbrevs!Number(Begins(n) + 3 + 2 * m) = s[m + 1].attr
        /\ Begins(n) + 4 + 2 * m < Size => Abbrevs!Number(Begins(n) + 4 + 2 * m) = s[m + 1].form
    BY <1>1, <1>4, <1>8, DeclarationFacts
  <2>2. Begins(n) + 4 + 2 * m = pos + 1 /\ Begins(n) + 4 + 2 * m < Size /\ Begins(n) + 3 + 2 * m < Size
    <3> DEFINE b == Begins(n)
    <3>1. b \in Nat /\ m \in Nat /\ pos = b + 3 + 2 * m /\ pos + 1 < Size /\ Size \in Nat
      BY <1>0, <1>1, <1>3, <1>6
    <3> HIDE DEF b
    <3>2. b + 4 + 2 * m = pos + 1 /\ b + 4 + 2 * m < Size /\ b + 3 + 2 * m < Size
      BY <3>1
    <3> QED BY <3>2 DEF b
  <2>3. Abbrevs!Number(pos) = s[m + 1].attr /\ Abbrevs!Number(pos + 1) = s[m + 1].form
    BY <1>6, <2>1, <2>2
  <2>4. s[m + 1] \in Abbrevs!Attribute /\ s[m + 1] = [attr |-> s[m + 1].attr, form |-> s[m + 1].form]
    BY <1>1, <1>4, <1>8, SetFacts
  <2> QED BY <2>3, <2>4
<1>10. ReadOf(abbr', n + 1, m + 1) /\ abbr'.children = abbr.children
  <2>1. abbr \in Read /\ abbr.code = set[n + 1].code /\ abbr.tag = set[n + 1].tag
        /\ abbr.attrs = SubSeq(s, 1, m)
    BY <1>5 DEF ReadOf
  <2>2. /\ abbr' \in Read /\ abbr'.code = abbr.code /\ abbr'.tag = abbr.tag
        /\ abbr'.children = abbr.children /\ abbr'.attrs = Append(abbr.attrs, p)
    <3> HIDE DEF p
    <3> QED BY ZenonT(40), <1>1, <1>9, <2>1, LongerRead
  <2>3. SubSeq(s, 1, m + 1) = Append(SubSeq(s, 1, m), s[m + 1])
    <3> HIDE DEF s
    <3>1. 1 \in 1 .. m + 2 /\ m + 1 \in 0 .. Len(s)
      BY <1>8
    <3> QED BY <1>8, AppendedPart
  <2> QED BY <1>8, <1>9, <2>1, <2>2, <2>3 DEF ReadOf
<1>11. pos' = Abbrevs!Clamped(Begins(n) + 3 + 2 * (m + 1)) /\ Begins(n) + 3 + 2 * (m + 1) <= Size
  <2>1. pos' = Begins(n) + 3 + 2 * (m + 1) /\ pos' <= Size
    BY SMTT(30), <1>1, <1>3, <1>6, <1>8
  <2> QED BY <1>1, <2>1 DEF Abbrevs!Clamped, Abbrevs!Size, Size
<1>12. Stands(n)'
  <2>1. m + 1 \in 0 .. Len(set[n + 1].attrs) /\ n < Len(set)
    BY <1>3, <1>4, <1>8
  <2> QED BY <1>1, <1>4, <1>10, <1>11, <2>1, SameStream DEF Stands
<1>13. Known(n)' /\ StreamKept' /\ Size' = Size
  BY <1>1, <1>2, KnownStays, SameStream
<1> QED
  BY <1>1, <1>6, <1>10, <1>12, <1>13 DEF AbbrevInv, ReadOf

LEMMA EndDeclarationKeeps == ASSUME AbbrevInv, Abbrevs!EndDeclaration PROVE AbbrevInv'
<1>1. /\ at = "attributes" /\ at' = "declaration" /\ UNCHANGED <<set, stream, abbr>>
      /\ Abbrevs!Number(pos) = 0 \/ Abbrevs!Number(pos + 1) = 0
      /\ m_map' = Abbrevs!Insert(abbr)
      /\ pos' = Abbrevs!Clamped(pos + 2)
      /\ StreamKept /\ pos \in 0 .. Size /\ Size \in Nat
      /\ abbr = Abbrevs!None \/ abbr \in Read
  BY SetFacts DEF Abbrevs!EndDeclaration, Abbrevs!IsPair, Abbrevs!Pair, AbbrevInv
<1>2. PICK n \in 0 .. Len(set) : Known(n) /\ Stands(n)
  BY DEF AbbrevInv
<1>3. Len(set) \in Nat /\ Begins(n) \in Nat
  BY <1>1, SetFacts, LayoutFacts
<1>4. /\ n \in 0 .. Len(set) - 1 /\ n + 1 \in 1 .. Len(set) /\ Begins(n) + 2 <= Size
      /\ Begins(n) + 3 <= Size => abbr.children = set[n + 1].children
  <2>1. /\ n < Len(set) /\ Begins(n) + 2 <= Size
        /\ Begins(n) + 3 <= Size => abbr.children = set[n + 1].children
    BY <1>1, <1>2, Zenon DEF Stands
  <2> QED BY <1>3, <2>1
<1> DEFINE i == n + 1
           s == set[i].attrs
           k == Len(s)
<1>5. PICK m \in 0 .. k : /\ ReadOf(abbr, i, m)
                          /\ pos = Abbrevs!Clamped(Begins(n) + 3 + 2 * m)
                          /\ m # 0 => Begins(n) + 3 + 2 * m <= Size
  BY <1>1, <1>2, Zenon DEF Stands
<1>6. k \in Nat /\ m \in Nat /\ m <= k /\ Begins(i) = Begins(n) + 2 * k + 5 /\ Begins(i) \in Nat
  <2>1. k \in Nat /\ Begins(i) = Begins(n) + 2 * k + 5
    BY <1>1, <1>4, SetFacts, DeclarationFacts
  <2> HIDE DEF k
  <2> QED BY <1>3, <2>1
<1>7. Begins(i) <= Size => m = k
  <2>1. SUFFICES ASSUME Begins(i) <= Size, m < k PROVE FALSE
    BY <1>6
  <2> DEFINE q == Begins(n) + 3 + 2 * m
  <2>2. q \in Nat /\ q < Size /\ q + 1 < Size /\ Begins(n) + 4 + 2 * m = q + 1 /\ m \in 0 .. k - 1
    <3> DEFINE b == Begins(n)
               z == Begins(i)
    <3>1. /\ b \in Nat /\ m \in Nat /\ k \in Nat /\ m < k /\ z = b + 2 * k + 5
          /\ z <= Size /\ Size \in Nat
      BY <1>1, <1>3, <1>6, <2>1
    <3> HIDE DEF b, z, k
    <3>2. /\ b + 3 + 2 * m \in Nat /\ b + 3 + 2 * m < Size /\ b + 3 + 2 * m + 1 < Size
          /\ b + 4 + 2 * m = b + 3 + 2 * m + 1 /\ m \in 0 .. k - 1
      BY <3>1
    <3> QED BY <3>2 DEF b
  <2>3. pos = q
    <3> HIDE DEF q
    <3> QED BY <1>1, <1>5, <2>2 DEF q, Abbrevs!Clamped, Abbrevs!Size, Size
  <2>4. /\ q < Size => Abbrevs!Number(q) = s[m + 1].attr
        /\ Begins(n) + 4 + 2 * m < Size => Abbrevs!Number(Begins(n) + 4 + 2 * m) = s[m + 1].form
    BY <1>1, <1>4, <2>2, DeclarationFacts
  <2>5. Abbrevs!Number(pos) = s[m + 1].attr /\ Abbrevs!Number(pos + 1) = s[m + 1].form
    BY <2>2, <2>3, <2>4
  <2>6. m + 1 \in 1 .. k
    <3> HIDE DEF k
    <3> QED BY <1>6, <2>2
  <2>7. s[m + 1].attr # 0 /\ s[m + 1].form # 0
    BY <1>1, <1>4, <2>6, SetFacts
  <2> QED BY <1>1, <2>5, <2>7
<1>8. pos' = Abbrevs!Clamped(Begins(i)) /\ pos' \in 0 .. Size
  <2> DEFINE q == Begins(n) + 3 + 2 * m
             z == Begins(i)
  <2>1. /\ q \in Nat /\ z \in Nat /\ q + 2 <= z
        /\ z <= Size => q + 2 = z
    <3> DEFINE b == Begins(n)
               e == Size
    <3>1. /\ b \in Nat /\ k \in Nat /\ m \in Nat /\ m <= k /\ z = b + 2 * k + 5 /\ z \in Nat
          /\ z <= e => m = k
      BY <1>3, <1>6, <1>7
    <3> HIDE DEF b, e, k, z
    <3>2. /\ b + 3 + 2 * m \in Nat /\ z \in Nat /\ b + 3 + 2 * m + 2 <= z
          /\ z <= e => b + 3 + 2 * m + 2 = z
      BY <3>1
    <3> QED BY <3>2 DEF b, e
  <2>2. pos = IF q < Size THEN q ELSE Size
    BY <1>5 DEF Abbrevs!Clamped, Abbrevs!Size, Size
  <2>3. z > Size => Size <= q + 2 \/ q + 2 < Size
    BY <1>1, <2>1
  <2>4. CASE z <= Size
    <3>1. q < Size /\ pos = q /\ pos + 2 = z
      BY <1>1, <2>1, <2>2, <2>4
    <3> QED BY <1>1, <2>1, <2>4, <3>1 DEF Abbrevs!Clamped, Abbrevs!Size, Size
  <2>5. CASE z > Size
    <3>1. pos + 2 >= Size
      <4>1. SUFFICES ASSUME pos + 2 < Size PROVE FALSE
        BY <1>1
      <4>2. pos = q
        BY <1>1, <2>1, <2>2, <4>1
      <4>3. CASE m = k
        <5> HIDE DEF k, i
        <5> QED BY <1>1, <1>3, <1>6, <2>5, <4>1, <4>2, <4>3
      <4>4. CASE m # k
        <5>1. m \in 0 .. k - 1 /\ m + 1 \in 1 .. k
          <6> HIDE DEF k
          <6> QED BY <1>6, <4>4
        <5>2. /\ q < Size => Abbrevs!Number(q) = s[m + 1].attr
              /\ Begins(n) + 4 + 2 * m < Size => Abbrevs!Number(Begins(n) + 4 + 2 * m) = s[m + 1].form
          BY <1>1, <1>4, <5>1, DeclarationFacts
        <5>3. Begins(n) + 4 + 2 * m = pos + 1 /\ pos + 1 < Size /\ pos < Size
          <6> DEFINE b == Begins(n)
          <6>1. b \in Nat /\ m \in Nat /\ pos = b + 3 + 2 * m /\ pos + 2 < Size /\ Size \in Nat
            BY <1>1, <1>3, <1>6, <4>1, <4>2
          <6> HIDE DEF b
          <6>2. b + 4 + 2 * m = pos + 1 /\ pos + 1 < Size /\ pos < Size
            BY <6>1
          <6> QED BY <6>2 DEF b
        <5>4. Abbrevs!Number(pos) = s[m + 1].attr /\ Abbrevs!Number(pos + 1) = s[m + 1].form
          BY <4>2, <5>2, <5>3
        <5>5. s[m + 1].attr # 0 /\ s[m + 1].form # 0
          BY <1>1, <1>4, <5>1, SetFacts
        <5> QED BY <1>1, <5>4, <5>5
      <4> QED BY <4>3, <4>4
    <3> QED BY <1>1, <2>1, <2>5, <3>1 DEF Abbrevs!Clamped, Abbrevs!Size, Size
  <2> QED BY <1>1, <2>1, <2>4, <2>5
<1>9. KeptOf(abbr, i)
  <2>1. Begins(i) <= Size => abbr = set[i]
    <3>1. SUFFICES ASSUME Begins(i) <= Size PROVE abbr = set[i]
      OBVIOUS
    <3>2. m = k /\ abbr.children = set[i].children
      <4>1. Begins(n) + 3 <= Size
        <5> HIDE DEF k, i
        <5> QED BY <1>1, <1>3, <1>6, <3>1
      <4> QED BY <1>4, <1>7, <3>1, <4>1
    <3>3. SubSeq(s, 1, k) = s
      <4>1. s \in Seq(Abbrevs!Attribute)
        BY <1>1, <1>4, SetFacts
      <4> HIDE DEF s
      <4> QED BY <4>1, SubSeqFull
    <3>4. /\ abbr \in Read /\ abbr.code = set[i].code /\ abbr.tag = set[i].tag
          /\ abbr.attrs = set[i].attrs
      BY <1>5, <3>2, <3>3 DEF ReadOf
    <3>5. set[i] \in Read
      BY <1>1, <1>4, SetFacts
    <3> HIDE DEF i
    <3> QED BY <3>2, <3>4, <3>5, SameRead
  <2> QED BY <1>5, <2>1 DEF KeptOf
<1>10. Known(i)'
  <2> DEFINE c == set[i].code
  <2>0. abbr.code = c
    BY <1>5 DEF ReadOf
  <2>1. /\ DOMAIN m_map' = DOMAIN m_map \cup {c}
        /\ \A x \in DOMAIN m_map : m_map'[x] = m_map[x]
        /\ c \notin DOMAIN m_map => m_map'[c] = abbr
    BY <1>1, <2>0 DEF Abbrevs!Insert
  <2>2. /\ DOMAIN m_map = {set[j].code : j \in 1 .. n}
        /\ \A j \in 1 .. n : IsFirst(j) => KeptOf(m_map[set[j].code], j)
    BY <1>2 DEF Known
  <2>3. \A j \in 1 .. i : j = i \/ j \in 1 .. n
    BY <1>3
  <2>4. (\A j \in 1 .. n : j \in 1 .. i) /\ i \in 1 .. i
    BY <1>3
  <2>5. DOMAIN m_map' = {set[j].code : j \in 1 .. i}
    <3> HIDE DEF i
    <3> QED BY <2>1, <2>2, <2>3, <2>4
  <2>6. ASSUME NEW j \in 1 .. i, IsFirst(j) PROVE KeptOf(m_map'[set[j].code], j)
    <3>1. CASE j = i
      <4>1. c \notin DOMAIN m_map
        <5>1. \A x \in 1 .. n : x \in 1 .. i - 1
          BY <1>3
        <5> HIDE DEF i
        <5> QED BY <2>2, <2>6, <3>1, <5>1 DEF IsFirst
      <4> QED BY <1>9, <2>1, <3>1, <4>1
    <3>2. CASE j \in 1 .. n
      <4>1. set[j].code \in DOMAIN m_map
        BY <2>2, <3>2
      <4> QED BY <2>1, <2>2, <2>6, <3>2, <4>1
    <3> QED BY <2>3, <3>1, <3>2
  <2> HIDE DEF i, c
  <2> QED BY <1>1, <2>5, <2>6, SameStream DEF Known
<1>11. Stands(i)' /\ i \in 0 .. Len(set)
  BY <1>1, <1>4, <1>8, SameStream DEF Stands
<1> QED
  BY <1>1, <1>8, <1>10, <1>11, SameStream DEF AbbrevInv

LEMMA AbbrevNextKeeps == ASSUME AbbrevInv, Abbrevs!Next \/ UNCHANGED all PROVE AbbrevInv'
<1>1. CASE UNCHANGED all
  <2>1. UNCHANGED <<set, stream, m_map, at, pos, abbr>>
    BY <1>1 DEF all
  <2>2. PICK n \in 0 .. Len(set) : Known(n) /\ Stands(n)
    BY DEF AbbrevInv
  <2>5. /\ Size' = Size /\ \A x : Begins(x)' = Begins(x)
        /\ \A o : Abbrevs!Clamped(o)' = Abbrevs!Clamped(o)
    <3>1. UNCHANGED <<set, stream>>
      BY <2>1
    <3>2. Size' = Size
      BY <3>1 DEF Size
    <3>3. \A x : Begins(x)' = Begins(x)
      <4>1. Coded' = Coded
        BY <3>1 DEF Coded
      <4> QED BY <4>1 DEF Begins
    <3>4. \A o : Abbrevs!Clamped(o)' = Abbrevs!Clamped(o)
      BY <3>1 DEF Abbrevs!Clamped, Abbrevs!Size
    <3> QED BY <3>2, <3>3, <3>4
  <2>3. Stands(n)'
    <3>1. CASE at = "attributes"
      <4>1. /\ n < Len(set) /\ Begins(n) + 2 <= Size
            /\ Begins(n) + 3 <= Size => abbr.children = set[n + 1].children
        BY <2>2, <3>1, Zenon DEF Stands
      <4>2. PICK m \in 0 .. Len(set[n + 1].attrs) :
                /\ ReadOf(abbr, n + 1, m)
                /\ pos = Abbrevs!Clamped(Begins(n) + 3 + 2 * m)
                /\ m # 0 => Begins(n) + 3 + 2 * m <= Size
        BY <2>2, <3>1, Zenon DEF Stands
      <4>3. ReadOf(abbr, n + 1, m)' /\ Begins(n)' = Begins(n) /\ Size' = Size
        <5>1. ReadOf(abbr, n + 1, m)'
          BY <2>1, <4>2 DEF ReadOf
        <5> QED BY <2>5, <5>1
      <4>4. (pos = Abbrevs!Clamped(Begins(n) + 3 + 2 * m))'
        BY <2>1, <4>2, SameStream
      <4>5. /\ m \in 0 .. Len(set'[n + 1].attrs)
            /\ m # 0 => Begins(n)' + 3 + 2 * m <= Size'
            /\ n < Len(set') /\ Begins(n)' + 2 <= Size'
            /\ Begins(n)' + 3 <= Size' => abbr'.children = set'[n + 1].children
        BY <2>1, <4>1, <4>2, <4>3
      <4>6. at' = "attributes"
        BY <2>1, <3>1
      <4> QED BY <4>3, <4>4, <4>5, <4>6 DEF Stands
    <3>2. CASE at # "attributes"
      <4>1. (at = "declaration" => pos = Abbrevs!Clamped(Begins(n)))'
        <5>1. at = "declaration" => pos = Abbrevs!Clamped(Begins(n))
          BY <2>2, Zenon DEF Stands
        <5> QED BY <2>1, <2>5, <5>1
      <4>2. (at = "done" => n = Len(set) \/ Size < Begins(n) + 2)'
        <5>1. at = "done" => n = Len(set) \/ Size < Begins(n) + 2
          BY <2>2, Zenon DEF Stands
        <5> QED BY <2>1, <2>5, <5>1
      <4>3. at' # "attributes"
        BY <2>1, <3>2
      <4> QED BY <4>1, <4>2, <4>3 DEF Stands
    <3> QED BY <3>1, <3>2
  <2>4. Known(n)'
    BY <2>1, <2>2, KnownStays
  <2> QED BY <2>1, <2>3, <2>4, SameStream DEF AbbrevInv
<1>2. CASE Abbrevs!Next
  BY <1>2, EndKeeps, BeginKeeps, ReadAttributeKeeps, EndDeclarationKeeps DEF Abbrevs!Next
<1> QED
  BY <1>1, <1>2

(* A code that some declaration has is that of a first one. *)
LEMMA FirstFacts ==
    ASSUME StreamKept, NEW j \in 1 .. Len(set)
    PROVE  \E i \in 1 .. j : /\ IsFirst(i) /\ set[i].code = set[j].code
                             /\ Abbrevs!First(set[j].code) = set[i]
<1> DEFINE c == set[j].code
           I == {i \in DOMAIN set : set[i].code = c}
<1>1. Len(set) \in Nat /\ DOMAIN set = 1 .. Len(set)
  BY SetFacts
<1>2. I \subseteq Nat /\ j \in I
  BY <1>1
<1> HIDE DEF I
<1>3. PICK i \in I : \A y \in I : i <= y
  BY <1>2, LeastNatural
<1>4. i \in 1 .. j /\ set[i].code = c /\ i \in 1 .. Len(set)
  BY <1>1, <1>2, <1>3 DEF I
<1>5. IsFirst(i)
  <2>1. SUFFICES ASSUME NEW x \in 1 .. i - 1, set[x].code = c PROVE FALSE
    BY <1>4 DEF IsFirst
  <2>2. x \in I /\ x < i
    BY <1>1, <1>4, <2>1 DEF I
  <2> QED BY <1>2, <1>3, <2>2
<1>6. Abbrevs!First(c) = set[i]
  <2>1. Abbrevs!Min(I) = i
    <3>1. \A x \in I : (\A y \in I : x <= y) => x = i
      BY <1>2, <1>3
    <3> QED BY <1>3, <3>1 DEF Abbrevs!Min
  <2>2. Abbrevs!First(c) = set[Abbrevs!Min(I)]
    BY <1>2 DEF Abbrevs!First, I
  <2> QED BY <2>1, <2>2
<1> QED
  BY <1>4, <1>5, <1>6

(* What the table answers for a code. *)
LEMMA KnownFacts ==
    ASSUME StreamKept, NEW n \in 0 .. Len(set), Known(n)
    PROVE  /\ \A code \in DOMAIN m_map : \E i \in 1 .. n :
                 /\ IsFirst(i) /\ set[i].code = code
                 /\ Abbrevs!First(code) = set[i] /\ KeptOf(m_map[code], i)
           /\ \A i \in 1 .. n : set[i].code \in DOMAIN m_map
<1>1. Len(set) \in Nat
  BY SetFacts
<1>2. ASSUME NEW code \in DOMAIN m_map
      PROVE  \E i \in 1 .. n : /\ IsFirst(i) /\ set[i].code = code
                               /\ Abbrevs!First(code) = set[i] /\ KeptOf(m_map[code], i)
  <2>1. PICK j \in 1 .. n : set[j].code = code
    BY <1>2 DEF Known
  <2>2. j \in 1 .. Len(set)
    BY <1>1
  <2>3. PICK i \in 1 .. j : /\ IsFirst(i) /\ set[i].code = set[j].code
                            /\ Abbrevs!First(set[j].code) = set[i]
    BY <2>2, FirstFacts
  <2>4. i \in 1 .. n
    BY <1>1
  <2>5. KeptOf(m_map[set[i].code], i)
    BY <2>3, <2>4 DEF Known
  <2> QED BY <2>1, <2>3, <2>4, <2>5
<1> QED
  BY <1>2 DEF Known

LEMMA AbbrevInvImplies ==
    ASSUME AbbrevInv
    PROVE  Abbrevs!TypeOK /\ Abbrevs!SetIsRead /\ Abbrevs!CutIsPrefix
<1>1. /\ StreamKept /\ Size \in Nat /\ Len(set) \in Nat /\ DOMAIN set = 1 .. Len(set)
      /\ Abbrevs!Size = Size
  BY SetFacts DEF AbbrevInv, Abbrevs!Size, Size
<1>2. PICK n \in 0 .. Len(set) : Known(n) /\ Stands(n)
  BY DEF AbbrevInv
<1>3. /\ \A code \in DOMAIN m_map : \E i \in 1 .. n :
            /\ IsFirst(i) /\ set[i].code = code
            /\ Abbrevs!First(code) = set[i] /\ KeptOf(m_map[code], i)
      /\ \A i \in 1 .. n : set[i].code \in DOMAIN m_map
  BY <1>1, <1>2, KnownFacts
<1>4. \A i \in 0 .. Len(set) : Abbrevs!EndOf(i) = Begins(i) /\ Begins(i) \in Nat
  BY <1>1, LayoutFacts
<1>5. Abbrevs!TypeOK
  <2>1. \A c \in DOMAIN m_map : m_map[c].code = c
    BY <1>3 DEF KeptOf, ReadOf
  <2>2. Read = [code : Nat, tag : Nat, children : Nat, attrs : Seq(Abbrevs!Attribute)]
    BY DEF Read
  <2>3. set \in Sets
    BY <1>1 DEF StreamKept
  <2> QED BY <1>1, <2>1, <2>2, <2>3 DEF AbbrevInv, Abbrevs!TypeOK
<1>6. Abbrevs!SetIsRead
  <2>1. SUFFICES ASSUME at = "done", Begins(Len(set)) < Size
                 PROVE  \A code \in {set[i].code : i \in DOMAIN set} \cup DOMAIN m_map :
                            Abbrevs!getDeclaration(code) = Abbrevs!First(code)
    <3>1. Abbrevs!EndOf(Len(set)) = Begins(Len(set))
      BY <1>1, <1>4
    <3> QED BY <1>1, <3>1, Zenon DEF Abbrevs!SetIsRead
  <2>2. n = Len(set)
    <3>1. SUFFICES ASSUME n # Len(set) PROVE FALSE
      OBVIOUS
    <3>2. n \in 0 .. Len(set) - 1 /\ Size < Begins(n) + 2
      <4>1. n = Len(set) \/ Size < Begins(n) + 2
        BY <1>2, <2>1, Zenon DEF Stands
      <4>2. n \in 0 .. Len(set) - 1
        <5>1. Len(set) \in Nat /\ n \in 0 .. Len(set)
          BY <1>1, <1>2
        <5> QED BY <3>1, <5>1
      <4> QED BY <3>1, <4>1, <4>2, Zenon
    <3> DEFINE k == Len(set[n + 1].attrs)
    <3>3. Begins(n + 1) = Begins(n) + 2 * k + 5 /\ k \in Nat /\ Begins(n) \in Nat
      BY <1>1, <3>2, DeclarationFacts
    <3>4. n + 1 \in 0 .. Len(set) /\ Len(set) \in 0 .. Len(set) /\ n + 1 <= Len(set)
      BY <1>1, <3>2
    <3>5. Begins(n + 1) <= Begins(Len(set))
      BY <1>1, <3>4, LayoutFacts
    <3> HIDE DEF k
    <3> DEFINE b == Begins(n)
               z == Begins(n + 1)
               l == Begins(Len(set))
    <3>6. z = b + 2 * k + 5 /\ k \in Nat /\ b \in Nat /\ z <= l /\ l \in Nat /\ Size < b + 2 /\ l < Size
      BY <1>1, <1>4, <2>1, <3>2, <3>3, <3>4, <3>5
    <3> HIDE DEF b, z, l
    <3> QED BY <1>1, <3>6
  <2>3. ASSUME NEW code \in DOMAIN m_map PROVE m_map[code] = Abbrevs!First(code)
    <3>1. PICK i \in 1 .. n : /\ Abbrevs!First(code) = set[i] /\ KeptOf(m_map[code], i)
      BY <1>3, <2>3
    <3>2. Begins(i) <= Size
      <4>1. i \in 0 .. Len(set) /\ Len(set) \in 0 .. Len(set) /\ i <= Len(set)
        BY <1>1
      <4>2. Begins(i) <= Begins(Len(set)) /\ Begins(i) \in Nat /\ Begins(Len(set)) \in Nat
        BY <1>1, <4>1, LayoutFacts
      <4> QED BY <1>1, <2>1, <4>2
    <3> QED BY <3>1, <3>2 DEF KeptOf
  <2>4. \A code \in {set[i].code : i \in DOMAIN set} \cup DOMAIN m_map : code \in DOMAIN m_map
    BY <1>1, <1>3, <2>2
  <2> QED BY <2>3, <2>4 DEF Abbrevs!getDeclaration
<1>7. Abbrevs!CutIsPrefix
  <2>1. SUFFICES ASSUME NEW code \in DOMAIN m_map
                 PROVE  LET d == m_map[code] IN
                        /\ d.tag = Abbrevs!First(code).tag
                        /\ Abbrevs!IsPrefix(d.attrs, Abbrevs!First(code).attrs)
                        /\ \A i \in DOMAIN set :
                             (set[i] = Abbrevs!First(code) /\ Abbrevs!EndOf(i) <= Abbrevs!Size) => d = set[i]
    BY Zenon DEF Abbrevs!CutIsPrefix
  <2>2. PICK f \in 1 .. n : /\ IsFirst(f) /\ set[f].code = code
                            /\ Abbrevs!First(code) = set[f] /\ KeptOf(m_map[code], f)
    BY <1>3
  <2>3. f \in 1 .. Len(set)
    BY <1>1
  <2>4. PICK m \in 0 .. Len(set[f].attrs) : ReadOf(m_map[code], f, m)
    BY <2>2 DEF KeptOf
  <2>5. m_map[code].tag = set[f].tag /\ m_map[code].attrs = SubSeq(set[f].attrs, 1, m)
    BY <2>4 DEF ReadOf
  <2>6. Abbrevs!IsPrefix(SubSeq(set[f].attrs, 1, m), set[f].attrs)
    <3> DEFINE s == set[f].attrs
    <3>1. s \in Seq(Abbrevs!Attribute) /\ m \in 0 .. Len(s)
      BY <1>1, <2>3, SetFacts
    <3> HIDE DEF s
    <3>2. Len(SubSeq(s, 1, m)) = m /\ Len(s) \in Nat
      BY <3>1
    <3> QED BY <3>1, <3>2 DEF s, Abbrevs!IsPrefix
  <2>7. ASSUME NEW i \in DOMAIN set, set[i] = set[f], Begins(i) <= Size
        PROVE  m_map[code] = set[i]
    <3>1. f <= i
      <4>1. SUFFICES ASSUME i < f PROVE FALSE
        BY <1>1, <2>3, <2>7
      <4>2. i \in 1 .. f - 1
        BY <1>1, <2>3, <2>7, <4>1
      <4> QED BY <2>2, <2>7, <4>2 DEF IsFirst
    <3>2. Begins(f) <= Begins(i) /\ Begins(f) \in Nat /\ Begins(i) \in Nat
      <4>1. f \in 0 .. Len(set) /\ i \in 0 .. Len(set)
        BY <1>1, <2>3, <2>7
      <4> QED BY <1>1, <3>1, <4>1, LayoutFacts
    <3>3. Begins(f) <= Size
      BY <1>1, <2>7, <3>2
    <3> QED BY <2>2, <2>7, <3>3 DEF KeptOf
  <2>8. \A i \in DOMAIN set : Abbrevs!EndOf(i) = Begins(i)
    BY <1>1, <1>4
  <2> QED BY <1>1, <2>2, <2>5, <2>6, <2>7, <2>8
<1> QED
  BY <1>5, <1>6, <1>7

-------------------------------------------------------------------------------
(* Prologues.  Where the names of a table stand in its cells. *)
HeadLen == Len(Prologue!HeadOf(table))
DirNames == [i \in DOMAIN table.dirs |-> Prologue!Name(table.dirs[i])]
FileNames == [i \in DOMAIN table.files |-> Prologue!File(table.files[i])]
Defines == [i \in DOMAIN table.defined |-> Prologue!DEFINE_FILE \o Prologue!File(table.defined[i])]
DirAt(k) == HeadLen + Off(DirNames, k)
FirstFile == DirAt(Len(table.dirs)) + 1
FileAt(k) == FirstFile + Off(FileNames, k)
Behind == FileAt(Len(table.files)) + 1
DefineAt(k) == Behind + table.pad + Off(Defines, k)

TableKept ==
    /\ table \in Tables
    /\ cells = Prologue!HeadOf(table) \o Prologue!TablesOf(table) \o Prologue!ProgramOf(table)
    /\ size \in 0 .. Len(cells)

(* One sequence behind another. *)
LEMMA Behind2 ==
    ASSUME NEW S, NEW a \in Seq(S), NEW b \in Seq(S)
    PROVE  /\ a \o b \in Seq(S) /\ Len(a \o b) = Len(a) + Len(b)
           /\ Len(a) \in Nat /\ Len(b) \in Nat
           /\ \A i \in 1 .. Len(a) : (a \o b)[i] = a[i]
           /\ \A i \in 1 .. Len(b) : (a \o b)[Len(a) + i] = b[i]
<1>1. Len(a) \in Nat /\ Len(b) \in Nat
  OBVIOUS
<1>2. /\ a \o b \in Seq(S) /\ Len(a \o b) = Len(a) + Len(b)
      /\ \A i \in 1 .. Len(a) + Len(b) : (a \o b)[i] = IF i <= Len(a) THEN a[i] ELSE b[i - Len(a)]
  BY ConcatProperties
<1>3. ASSUME NEW i \in 1 .. Len(a) PROVE (a \o b)[i] = a[i]
  <2>1. i \in 1 .. Len(a) + Len(b) /\ i <= Len(a)
    BY <1>1
  <2> QED BY <1>2, <2>1
<1>4. ASSUME NEW i \in 1 .. Len(b) PROVE (a \o b)[Len(a) + i] = b[i]
  <2> DEFINE j == Len(a) + i
  <2>1. j \in 1 .. Len(a) + Len(b) /\ ~(j <= Len(a)) /\ j - Len(a) = i
    BY <1>1
  <2> HIDE DEF j
  <2>2. (a \o b)[j] = b[i]
    BY <1>2, <2>1
  <2> QED BY <2>2 DEF j
<1> QED
  BY <1>1, <1>2, <1>3, <1>4

(* The cells of a name, of a file, and of an opcode that defines one. *)
LEMMA NameFacts ==
    ASSUME NEW n \in Nat
    PROVE  LET m == Prologue!Name(n)
               f == Prologue!File(n)
               d == Prologue!DEFINE_FILE \o Prologue!File(n)
           IN /\ m \in Seq(Nat) /\ Len(m) = n + 1 /\ m[n + 1] = 0
              /\ \A j \in 1 .. n : m[j] = 1
              /\ f \in Seq(Nat) /\ Len(f) = n + 4 /\ f[n + 1] = 0
              /\ \A j \in 1 .. n : f[j] = 1
              /\ d \in Seq(Nat) /\ Len(d) = n + 7 /\ d[1] = 0 /\ d[2] = 0 /\ d[3] = 3
              /\ \A j \in 1 .. n : d[3 + j] = 1
              /\ d[3 + (n + 1)] = 0
<1> DEFINE a == [i \in 1 .. n |-> 1]
           z == <<0>>
           m == Prologue!Name(n)
           o == <<1, 1, 1>>
           f == Prologue!File(n)
           g == <<0, 0, 3>>
           d == Prologue!DEFINE_FILE \o f
<1>1. /\ a \in Seq(Nat) /\ Len(a) = n /\ \A j \in 1 .. n : a[j] = 1
      /\ z \in Seq(Nat) /\ Len(z) = 1 /\ z[1] = 0
      /\ o \in Seq(Nat) /\ Len(o) = 3
      /\ g \in Seq(Nat) /\ Len(g) = 3 /\ g[1] = 0 /\ g[2] = 0 /\ g[3] = 3
  OBVIOUS
<1>2. m = a \o z /\ f = m \o o /\ d = g \o f
  BY DEF Prologue!Name, Prologue!File, Prologue!NUL, Prologue!DEFINE_FILE
<1> HIDE DEF a, z, m, o, f, g, d
<1>3. /\ m \in Seq(Nat) /\ Len(m) = n + 1
      /\ \A i \in 1 .. n : m[i] = a[i]
      /\ \A i \in 1 .. 1 : m[n + i] = z[i]
  <2>1. /\ a \o z \in Seq(Nat) /\ Len(a \o z) = Len(a) + Len(z)
        /\ \A i \in 1 .. Len(a) : (a \o z)[i] = a[i]
        /\ \A i \in 1 .. Len(z) : (a \o z)[Len(a) + i] = z[i]
    <3>1. a \in Seq(Nat) /\ z \in Seq(Nat)
      BY <1>1
    <3> QED BY <3>1, Behind2
  <2> QED BY <1>1, <1>2, <2>1
<1>4. \A j \in 1 .. n : m[j] = 1
  BY <1>1, <1>3
<1>5. m[n + 1] = 0
  BY <1>1, <1>3
<1>6. /\ f \in Seq(Nat) /\ Len(f) = n + 4 /\ \A i \in 1 .. n + 1 : f[i] = m[i]
  <2>1. /\ m \o o \in Seq(Nat) /\ Len(m \o o) = Len(m) + Len(o)
        /\ \A i \in 1 .. Len(m) : (m \o o)[i] = m[i]
    <3>1. m \in Seq(Nat) /\ o \in Seq(Nat)
      BY <1>1, <1>3
    <3> QED BY <3>1, Behind2
  <2>2. Len(m) = n + 1 /\ Len(o) = 3 /\ f = m \o o
    BY <1>1, <1>2, <1>3
  <2>3. Len(m) + Len(o) = n + 4
    BY <2>2
  <2> QED BY <2>1, <2>2, <2>3
<1>7. f[n + 1] = 0 /\ \A j \in 1 .. n : f[j] = 1
  <2>1. n + 1 \in 1 .. n + 1 /\ \A j \in 1 .. n : j \in 1 .. n + 1
    OBVIOUS
  <2> QED BY <1>4, <1>5, <1>6, <2>1
<1>8. /\ d \in Seq(Nat) /\ Len(d) = n + 7 /\ \A i \in 1 .. 3 : d[i] = g[i]
      /\ \A i \in 1 .. n + 4 : d[3 + i] = f[i]
  <2>1. /\ g \o f \in Seq(Nat) /\ Len(g \o f) = Len(g) + Len(f)
        /\ \A i \in 1 .. Len(g) : (g \o f)[i] = g[i]
        /\ \A i \in 1 .. Len(f) : (g \o f)[Len(g) + i] = f[i]
    <3>1. g \in Seq(Nat) /\ f \in Seq(Nat)
      BY <1>1, <1>6
    <3> QED BY <3>1, Behind2
  <2>2. Len(g) = 3 /\ Len(f) = n + 4 /\ d = g \o f
    BY <1>1, <1>2, <1>6
  <2>3. Len(g) + Len(f) = n + 7
    BY <2>2
  <2> QED BY <2>1, <2>2, <2>3
<1>9. d[1] = 0 /\ d[2] = 0 /\ d[3] = 3
  <2>1. 1 \in 1 .. 3 /\ 2 \in 1 .. 3 /\ 3 \in 1 .. 3
    OBVIOUS
  <2> QED BY <1>1, <1>8, <2>1, Zenon
<1>10. d[3 + (n + 1)] = 0 /\ \A j \in 1 .. n : d[3 + j] = 1
  <2>1. n + 1 \in 1 .. n + 4 /\ \A j \in 1 .. n : j \in 1 .. n + 4
    OBVIOUS
  <2>2. d[3 + (n + 1)] = f[n + 1]
    BY <1>8, <2>1, Zenon
  <2>3. \A j \in 1 .. n : d[3 + j] = f[j]
    BY <1>8, <2>1
  <2> QED BY <1>7, <2>2, <2>3
<1> QED
  BY <1>3, <1>4, <1>5, <1>6, <1>7, <1>8, <1>9, <1>10 DEF m, f, d

(* A joined sequence in the middle of another. *)
LEMMA JoinInside ==
    ASSUME NEW ss \in Seq(Seq(Nat)), NEW c, NEW o \in Nat,
           \A i \in 1 .. Len(Join(ss)) : c[o + i] = Join(ss)[i]
    PROVE  \A k \in 0 .. Len(ss) - 1 : \A j \in 1 .. Len(ss[k + 1]) :
              c[(o + Off(ss, k)) + j] = ss[k + 1][j]
<1>1. Joined(Nat, ss) /\ Len(ss) \in Nat
  BY JoinFacts
<1>2. SUFFICES ASSUME NEW k \in 0 .. Len(ss) - 1, NEW j \in 1 .. Len(ss[k + 1])
               PROVE  c[(o + Off(ss, k)) + j] = ss[k + 1][j]
  OBVIOUS
<1> DEFINE n == k + 1
<1>3. n \in 1 .. Len(ss) /\ n \in 0 .. Len(ss) /\ n - 1 = k /\ k \in 0 .. Len(ss)
  BY <1>1
<1> HIDE DEF n
<1>4. /\ Off(ss, n) = Off(ss, n - 1) + Len(ss[n]) /\ Off(ss, n) <= Len(Join(ss))
      /\ Off(ss, n - 1) \in Nat /\ Len(Join(ss)) \in Nat
      /\ Len(ss[n]) \in Nat
  <2>1. ss[n] \in Seq(Nat)
    BY <1>3
  <2>2. Len(ss[n]) \in Nat
    BY <2>1
  <2> QED BY <1>1, <1>3, <2>2 DEF Joined
<1>5. j \in 1 .. Len(ss[n])
  BY <1>2 DEF n
<1>6. Join(ss)[Off(ss, n - 1) + j] = ss[n][j]
  BY <1>1, <1>3, <1>5 DEF Joined
<1> DEFINE i == Off(ss, n - 1) + j
<1>7. i \in 1 .. Len(Join(ss)) /\ (o + Off(ss, n - 1)) + j = o + i
  <2> DEFINE u == Off(ss, n - 1)
             w == Off(ss, n)
             l == Len(ss[n])
             t == Len(Join(ss))
  <2>1. w = u + l /\ w <= t /\ u \in Nat /\ t \in Nat /\ l \in Nat /\ j \in 1 .. l
    BY <1>4, <1>5
  <2> HIDE DEF u, w, l, t
  <2>2. u + j \in 1 .. t /\ (o + u) + j = o + (u + j)
    BY <2>1
  <2> QED BY <2>2 DEF u, t
<1> HIDE DEF i
<1>8. c[o + i] = Join(ss)[i]
  BY <1>7
<1>9. c[(o + Off(ss, n - 1)) + j] = ss[n][j]
  BY <1>6, <1>7, <1>8 DEF i
<1> QED
  BY <1>3, <1>9 DEF n

(* What stands where in a sequence, and the parts of what stands there. *)
Holds(c, o, s) == \A i \in 1 .. Len(s) : c[o + i] = s[i]

LEMMA HoldsParts ==
    ASSUME NEW S, NEW a \in Seq(S), NEW b \in Seq(S), NEW c, NEW o \in Nat, Holds(c, o, a \o b)
    PROVE  Holds(c, o, a) /\ Holds(c, o + Len(a), b)
<1>1. /\ Len(a \o b) = Len(a) + Len(b) /\ Len(a) \in Nat /\ Len(b) \in Nat
      /\ \A i \in 1 .. Len(a) : (a \o b)[i] = a[i]
      /\ \A i \in 1 .. Len(b) : (a \o b)[Len(a) + i] = b[i]
  BY Behind2
<1>2. \A i \in 1 .. Len(a) + Len(b) : c[o + i] = (a \o b)[i]
  BY <1>1 DEF Holds
<1> DEFINE ab == a \o b
           la == Len(a)
           lb == Len(b)
<1>3. /\ la \in Nat /\ lb \in Nat /\ \A i \in 1 .. la + lb : c[o + i] = ab[i]
      /\ \A i \in 1 .. la : ab[i] = a[i]
      /\ \A i \in 1 .. lb : ab[la + i] = b[i]
  BY <1>1, <1>2
<1> HIDE DEF ab, la, lb
<1>4. ASSUME NEW i \in 1 .. la PROVE c[o + i] = a[i]
  <2>1. i \in 1 .. la + lb
    BY <1>3
  <2> QED BY <1>3, <2>1
<1>5. ASSUME NEW i \in 1 .. lb PROVE c[(o + la) + i] = b[i]
  <2> DEFINE j == la + i
  <2>1. j \in 1 .. la + lb /\ (o + la) + i = o + j
    BY <1>3
  <2>2. ab[j] = b[i]
    BY <1>3
  <2> HIDE DEF j
  <2> QED BY <1>3, <2>1, <2>2
<1> QED
  BY <1>4, <1>5 DEF Holds, la, lb

(* The sizes of a table, and its rows of names. *)
LEMMA RowFacts ==
    ASSUME TableKept
    PROVE  /\ table.version \in Nat /\ table.lengths \in Seq(Nat) /\ table.pad \in Nat
           /\ table.dirs \in Seq(Nat \ {0}) /\ table.files \in Seq(Nat \ {0})
           /\ table.defined \in Seq(Nat)
           /\ Len(table.dirs) \in Nat /\ Len(table.files) \in Nat /\ Len(table.defined) \in Nat
           /\ DirNames \in Seq(Seq(Nat)) /\ Len(DirNames) = Len(table.dirs)
           /\ FileNames \in Seq(Seq(Nat)) /\ Len(FileNames) = Len(table.files)
           /\ Defines \in Seq(Seq(Nat)) /\ Len(Defines) = Len(table.defined)
           /\ \A i \in 1 .. Len(table.dirs) :
                 table.dirs[i] \in Nat \ {0} /\ DirNames[i] = Prologue!Name(table.dirs[i])
           /\ \A i \in 1 .. Len(table.files) :
                 table.files[i] \in Nat \ {0} /\ FileNames[i] = Prologue!File(table.files[i])
           /\ \A i \in 1 .. Len(table.defined) :
                 /\ table.defined[i] \in Nat
                 /\ Defines[i] = Prologue!DEFINE_FILE \o Prologue!File(table.defined[i])
<1>1. /\ table.version \in Nat /\ table.lengths \in Seq(Nat) /\ table.pad \in Nat
      /\ table.dirs \in Seq(Nat \ {0}) /\ table.files \in Seq(Nat \ {0})
      /\ table.defined \in Seq(Nat)
  <2>1. table \in [version : Nat, lengths : Seq(Nat), dirs : Seq(Nat \ {0}),
                   files : Seq(Nat \ {0}), defined : Seq(Nat), pad : Nat]
    BY LinePrologueAssumption DEF TableKept, Prologue!LinePrologueAssumption
  <2> QED BY <2>1
<1> DEFINE d == table.dirs
           f == table.files
           g == table.defined
<1>2. /\ Len(d) \in Nat /\ DOMAIN d = 1 .. Len(d) /\ \A i \in 1 .. Len(d) : d[i] \in Nat \ {0}
      /\ Len(f) \in Nat /\ DOMAIN f = 1 .. Len(f) /\ \A i \in 1 .. Len(f) : f[i] \in Nat \ {0}
      /\ Len(g) \in Nat /\ DOMAIN g = 1 .. Len(g) /\ \A i \in 1 .. Len(g) : g[i] \in Nat
  BY <1>1
<1>3. /\ DirNames = [i \in DOMAIN d |-> Prologue!Name(d[i])]
      /\ FileNames = [i \in DOMAIN f |-> Prologue!File(f[i])]
      /\ Defines = [i \in DOMAIN g |-> Prologue!DEFINE_FILE \o Prologue!File(g[i])]
  BY DEF DirNames, FileNames, Defines
<1> HIDE DEF d, f, g
<1>4. /\ \A i \in 1 .. Len(d) : Prologue!Name(d[i]) \in Seq(Nat)
      /\ \A i \in 1 .. Len(f) : Prologue!File(f[i]) \in Seq(Nat)
      /\ \A i \in 1 .. Len(g) : Prologue!DEFINE_FILE \o Prologue!File(g[i]) \in Seq(Nat)
  BY <1>2, NameFacts
<1>5. /\ DirNames \in Seq(Seq(Nat)) /\ Len(DirNames) = Len(d)
      /\ \A i \in 1 .. Len(d) : DirNames[i] = Prologue!Name(d[i])
  BY <1>2, <1>3, <1>4
<1>6. /\ FileNames \in Seq(Seq(Nat)) /\ Len(FileNames) = Len(f)
      /\ \A i \in 1 .. Len(f) : FileNames[i] = Prologue!File(f[i])
  BY <1>2, <1>3, <1>4
<1>7. /\ Defines \in Seq(Seq(Nat)) /\ Len(Defines) = Len(g)
      /\ \A i \in 1 .. Len(g) : Defines[i] = Prologue!DEFINE_FILE \o Prologue!File(g[i])
  BY <1>2, <1>3, <1>4
<1> QED
  BY <1>1, <1>2, <1>5, <1>6, <1>7 DEF d, f, g

(* The parts of the cells, each where it begins. *)
LEMMA PartFacts ==
    ASSUME TableKept
    PROVE  /\ HeadLen \in Nat
           /\ HeadLen = Prologue!HeadSize(table.version) + Len(table.lengths)
           /\ cells \in Seq(Nat) /\ Len(cells) \in Nat
           /\ Holds(cells, HeadLen, Join(DirNames) \o <<0>>)
           /\ Holds(cells, FirstFile, Join(FileNames) \o <<0>>)
           /\ Holds(cells, Behind, [i \in 1 .. table.pad |-> 9])
           /\ Holds(cells, Behind + table.pad, Join(Defines) \o <<9>>)
           /\ Joined(Nat, DirNames) /\ Joined(Nat, FileNames) /\ Joined(Nat, Defines)
           /\ FirstFile \in Nat /\ Behind \in Nat
           /\ HeadLen + Len(Prologue!TablesOf(table)) = Behind + table.pad
           /\ Len(cells) = Behind + table.pad + Off(Defines, Len(table.defined)) + 1
<1> DEFINE h == Prologue!HeadOf(table)
           jd == Join(DirNames)
           jf == Join(FileNames)
           jg == Join(Defines)
           n == jd \o <<0>>
           f == jf \o <<0>>
           d == [i \in 1 .. table.pad |-> 9]
           t == (n \o f) \o d
           p == jg \o <<9>>
<1>1. /\ Joined(Nat, DirNames) /\ Joined(Nat, FileNames) /\ Joined(Nat, Defines)
      /\ table.version \in Nat /\ table.lengths \in Seq(Nat) /\ table.pad \in Nat
      /\ Len(DirNames) = Len(table.dirs) /\ Len(FileNames) = Len(table.files)
      /\ Len(Defines) = Len(table.defined)
  BY RowFacts, JoinFacts
<1>2. /\ jd \in Seq(Nat) /\ jf \in Seq(Nat) /\ jg \in Seq(Nat)
      /\ Len(jd) = Off(DirNames, Len(table.dirs)) /\ Len(jf) = Off(FileNames, Len(table.files))
      /\ Len(jg) = Off(Defines, Len(table.defined))
  BY <1>1 DEF Joined
<1>3. h \in Seq(Nat) /\ Len(h) = Prologue!HeadSize(table.version) + Len(table.lengths) /\ Len(h) \in Nat
  <2> DEFINE k == Prologue!HeadSize(table.version)
             a == [i \in 1 .. k |-> 1]
  <2>1. k \in Nat
    BY <1>1 DEF Prologue!HeadSize
  <2> HIDE DEF k
  <2>2. a \in Seq(Nat) /\ Len(a) = k
    BY <2>1
  <2> HIDE DEF a
  <2>3. Len(table.lengths) \in Nat
    BY <1>1
  <2>4. /\ a \o table.lengths \in Seq(Nat) /\ Len(a \o table.lengths) = Len(a) + Len(table.lengths)
    BY <1>1, <2>2, ConcatProperties
  <2>5. h = a \o table.lengths
    BY DEF Prologue!HeadOf, a, k
  <2> QED BY <2>1, <2>2, <2>3, <2>4, <2>5 DEF k
<1>4. cells = (h \o t) \o p
  BY DEF TableKept, Prologue!TablesOf, Prologue!ProgramOf, Prologue!Names, Prologue!FilesOf,
         Prologue!NUL, Prologue!SINGLE, Join, DirNames, FileNames, Defines
<1>5. t = Prologue!TablesOf(table)
  BY DEF Prologue!TablesOf, Prologue!Names, Prologue!FilesOf,
         Prologue!NUL, Prologue!SINGLE, Join, DirNames, FileNames
<1> DEFINE z == <<0>>
           y == <<9>>
<1>6. z \in Seq(Nat) /\ Len(z) = 1 /\ y \in Seq(Nat) /\ Len(y) = 1
  OBVIOUS
<1>7. d \in Seq(Nat) /\ Len(d) = table.pad
  BY <1>1
<1>8. n = jd \o z /\ f = jf \o z /\ p = jg \o y
  OBVIOUS
<1>9. HeadLen = Len(h)
  BY DEF HeadLen
<1>20. /\ FirstFile = HeadLen + Off(DirNames, Len(table.dirs)) + 1
       /\ Behind = FirstFile + Off(FileNames, Len(table.files)) + 1
  BY DEF FirstFile, DirAt, FileAt, Behind
<1> HIDE DEF h, jd, jf, jg, z, y, d
<1>10. /\ n \in Seq(Nat) /\ Len(n) = Len(jd) + 1 /\ f \in Seq(Nat) /\ Len(f) = Len(jf) + 1
       /\ p \in Seq(Nat) /\ Len(p) = Len(jg) + 1
       /\ Len(jd) \in Nat /\ Len(jf) \in Nat /\ Len(jg) \in Nat
  <2>1. /\ jd \o z \in Seq(Nat) /\ Len(jd \o z) = Len(jd) + Len(z)
        /\ jf \o z \in Seq(Nat) /\ Len(jf \o z) = Len(jf) + Len(z)
        /\ jg \o y \in Seq(Nat) /\ Len(jg \o y) = Len(jg) + Len(y)
    BY <1>2, <1>6, ConcatProperties
  <2>2. Len(jd) \in Nat /\ Len(jf) \in Nat /\ Len(jg) \in Nat
    BY <1>2
  <2> QED BY <1>6, <1>8, <2>1, <2>2
<1> HIDE DEF n, f, p
<1> DEFINE nf == n \o f
<1>11. nf \in Seq(Nat) /\ Len(nf) = Len(n) + Len(f)
  BY <1>10, ConcatProperties
<1>12. t = nf \o d
  OBVIOUS
<1> HIDE DEF nf, t
<1>13. t \in Seq(Nat) /\ Len(t) = Len(nf) + Len(d)
  BY <1>7, <1>11, <1>12, ConcatProperties
<1> DEFINE ht == h \o t
<1>14. ht \in Seq(Nat) /\ Len(ht) = Len(h) + Len(t)
  BY <1>3, <1>13, ConcatProperties
<1>15. cells = ht \o p
  BY <1>4
<1> HIDE DEF ht
<1>16. cells \in Seq(Nat) /\ Len(cells) = Len(ht) + Len(p)
  BY <1>10, <1>14, <1>15, ConcatProperties
<1>17. Holds(cells, 0, ht) /\ Holds(cells, 0 + Len(ht), p)
  <2>1. Holds(cells, 0, ht \o p)
    <3>1. \A i \in 1 .. Len(cells) : 0 + i = i
      OBVIOUS
    <3> QED BY <1>15, <3>1 DEF Holds
  <2> QED BY <1>10, <1>14, <2>1, HoldsParts
<1>18. Holds(cells, 0 + Len(h), t)
  BY <1>3, <1>13, <1>17, HoldsParts DEF ht
<1>19. Holds(cells, Len(h), nf) /\ Holds(cells, Len(h) + Len(nf), d)
  <2>1. 0 + Len(h) = Len(h)
    BY <1>3
  <2>2. Holds(cells, Len(h), nf \o d)
    BY <1>12, <1>18, <2>1
  <2> QED BY <1>3, <1>7, <1>11, <2>2, HoldsParts
<1>21. Holds(cells, Len(h), n) /\ Holds(cells, Len(h) + Len(n), f)
  BY <1>3, <1>10, <1>19, HoldsParts DEF nf
<1>22. /\ FirstFile = Len(h) + Len(n) /\ Behind = Len(h) + Len(nf)
       /\ Behind + table.pad = 0 + Len(ht) /\ HeadLen + Len(t) = Behind + table.pad
       /\ FirstFile \in Nat /\ Behind \in Nat
       /\ Len(cells) = Behind + table.pad + Off(Defines, Len(table.defined)) + 1
       /\ Len(cells) \in Nat
  <2> DEFINE od == Off(DirNames, Len(table.dirs))
             of == Off(FileNames, Len(table.files))
             og == Off(Defines, Len(table.defined))
             lh == Len(h)
             pad == table.pad
  <2>1. /\ FirstFile = lh + od + 1 /\ Behind = FirstFile + of + 1 /\ HeadLen = lh
        /\ lh \in Nat /\ od \in Nat /\ of \in Nat /\ og \in Nat /\ pad \in Nat
    BY <1>1, <1>2, <1>3, <1>9, <1>10, <1>20
  <2>2. Len(n) = od + 1 /\ Len(f) = of + 1 /\ Len(d) = pad /\ Len(p) = og + 1
    BY <1>2, <1>7, <1>10
  <2>3. /\ Len(nf) = Len(n) + Len(f) /\ Len(t) = Len(nf) + Len(d)
        /\ Len(ht) = lh + Len(t) /\ Len(cells) = Len(ht) + Len(p)
    BY <1>11, <1>13, <1>14, <1>16
  <2> HIDE DEF od, of, og, lh, pad
  <2>4. Len(nf) = od + of + 2 /\ Len(t) = od + of + 2 + pad
    BY <2>1, <2>2, <2>3
  <2>5. Len(ht) = lh + od + of + 2 + pad /\ Len(cells) = lh + od + of + 2 + pad + og + 1
    BY <2>1, <2>2, <2>3, <2>4
  <2>6. /\ FirstFile = lh + Len(n) /\ Behind = lh + Len(nf)
        /\ Behind + pad = 0 + Len(ht) /\ HeadLen + Len(t) = Behind + pad
        /\ FirstFile \in Nat /\ Behind \in Nat
        /\ Len(cells) = Behind + pad + og + 1
        /\ Len(cells) \in Nat
    BY <2>1, <2>2, <2>4, <2>5
  <2> QED BY <2>6 DEF lh, og, pad
<1>23. /\ Holds(cells, HeadLen, n) /\ Holds(cells, FirstFile, f)
       /\ Holds(cells, Behind, d) /\ Holds(cells, Behind + table.pad, p)
  BY <1>9, <1>17, <1>19, <1>21, <1>22
<1>24. n = jd \o <<0>> /\ f = jf \o <<0>> /\ p = jg \o <<9>>
  BY <1>8 DEF z, y
<1> QED
  BY <1>1, <1>3, <1>5, <1>9, <1>16, <1>22, <1>23, <1>24 DEF jd, jf, jg, d

(* A row of sequences and a last cell behind it. *)
RowStands(ss, o, last) ==
    /\ o \in Nat /\ o + Off(ss, 0) = o /\ Len(ss) \in Nat
    /\ \A k \in 0 .. Len(ss) : /\ Off(ss, k) \in Nat /\ o + Off(ss, k) \in Nat
                               /\ o + Off(ss, k) <= o + Off(ss, Len(ss))
    /\ \A k \in 0 .. Len(ss) - 1 :
          /\ o + Off(ss, k + 1) = (o + Off(ss, k)) + Len(ss[k + 1])
          /\ \A j \in 1 .. Len(ss[k + 1]) : cells[(o + Off(ss, k)) + j] = ss[k + 1][j]
    /\ cells[(o + Off(ss, Len(ss))) + 1] = last

LEMMA RowIsThere ==
    ASSUME NEW ss \in Seq(Seq(Nat)), NEW o \in Nat, NEW last \in Nat,
           Holds(cells, o, Join(ss) \o <<last>>)
    PROVE  RowStands(ss, o, last)
<1>1. Joined(Nat, ss) /\ Len(ss) \in Nat
  BY JoinFacts
<1>2. /\ Join(ss) \in Seq(Nat) /\ Len(Join(ss)) = Off(ss, Len(ss)) /\ Off(ss, 0) = 0
      /\ \A k \in 0 .. Len(ss) : Off(ss, k) \in Nat /\ Off(ss, k) <= Off(ss, Len(ss))
      /\ \A n \in 1 .. Len(ss) : Off(ss, n) = Off(ss, n - 1) + Len(ss[n])
  BY <1>1 DEF Joined
<1> DEFINE z == <<last>>
           b == Join(ss)
<1>3. z \in Seq(Nat) /\ Len(z) = 1 /\ z[1] = last
  OBVIOUS
<1>4. b \in Seq(Nat) /\ Holds(cells, o, b \o z) /\ Len(b) = Off(ss, Len(ss))
  BY <1>2
<1> HIDE DEF z, b
<1>5. Holds(cells, o, b) /\ Holds(cells, o + Len(b), z)
  BY <1>3, <1>4, HoldsParts
<1>6. cells[(o + Off(ss, Len(ss))) + 1] = last
  <2>1. 1 \in 1 .. Len(z)
    BY <1>3
  <2>2. cells[(o + Len(b)) + 1] = z[1]
    BY <1>5, <2>1, Zenon DEF Holds
  <2> QED BY <1>3, <1>4, <2>2
<1>7. \A i \in 1 .. Len(Join(ss)) : cells[o + i] = Join(ss)[i]
  BY <1>5, Zenon DEF Holds, b
<1>8. \A k \in 0 .. Len(ss) - 1 : \A j \in 1 .. Len(ss[k + 1]) :
          cells[(o + Off(ss, k)) + j] = ss[k + 1][j]
  BY ZenonT(40), <1>7, JoinInside
<1>9. ASSUME NEW k \in 0 .. Len(ss) - 1
      PROVE  o + Off(ss, k + 1) = (o + Off(ss, k)) + Len(ss[k + 1])
  <2> DEFINE n == k + 1
  <2>1. n \in 1 .. Len(ss) /\ n - 1 = k /\ k \in 0 .. Len(ss)
    BY <1>1
  <2> HIDE DEF n
  <2>2. Off(ss, n) = Off(ss, k) + Len(ss[n]) /\ Off(ss, k) \in Nat
    BY <1>2, <2>1
  <2>3. Len(ss[n]) \in Nat
    BY <2>1
  <2> DEFINE u == Off(ss, n)
             w == Off(ss, k)
             l == Len(ss[n])
  <2>4. u = w + l /\ w \in Nat /\ l \in Nat
    BY <2>2, <2>3
  <2> HIDE DEF u, w, l
  <2>5. o + u = (o + w) + l
    BY <2>4
  <2> QED BY <2>5 DEF u, w, l, n
<1>10. \A k \in 0 .. Len(ss) : /\ Off(ss, k) \in Nat /\ o + Off(ss, k) \in Nat
                               /\ o + Off(ss, k) <= o + Off(ss, Len(ss))
  <2>1. Len(ss) \in 0 .. Len(ss)
    BY <1>1
  <2> QED BY <1>2, <2>1
<1> QED
  BY <1>1, <1>2, <1>6, <1>8, <1>9, <1>10 DEF RowStands

(* Directories, files and definitions: where each begins, where its name ends,
   and what stands behind the last. *)
LEMMA DirectoriesStand ==
    ASSUME TableKept
    PROVE  /\ DirAt(0) = HeadLen /\ cells[DirAt(Len(table.dirs)) + 1] = 0
           /\ FirstFile = DirAt(Len(table.dirs)) + 1
           /\ \A k \in 0 .. Len(table.dirs) : DirAt(k) \in Nat /\ DirAt(k) <= DirAt(Len(table.dirs))
           /\ \A k \in 0 .. Len(table.dirs) - 1 :
                 /\ table.dirs[k + 1] \in Nat \ {0}
                 /\ DirAt(k + 1) = DirAt(k) + table.dirs[k + 1] + 1
                 /\ \A j \in 1 .. table.dirs[k + 1] : cells[DirAt(k) + j] = 1
                 /\ cells[DirAt(k) + (table.dirs[k + 1] + 1)] = 0
<1>1. /\ HeadLen \in Nat /\ Holds(cells, HeadLen, Join(DirNames) \o <<0>>)
      /\ DirNames \in Seq(Seq(Nat)) /\ Len(DirNames) = Len(table.dirs) /\ Len(table.dirs) \in Nat
      /\ \A i \in 1 .. Len(table.dirs) :
            table.dirs[i] \in Nat \ {0} /\ DirNames[i] = Prologue!Name(table.dirs[i])
  BY PartFacts, RowFacts
<1>2. RowStands(DirNames, HeadLen, 0)
  <2>1. 0 \in Nat
    OBVIOUS
  <2> QED BY <1>1, <2>1, RowIsThere
<1>3. /\ DirAt(0) = HeadLen /\ cells[DirAt(Len(table.dirs)) + 1] = 0
      /\ \A k \in 0 .. Len(table.dirs) : DirAt(k) \in Nat /\ DirAt(k) <= DirAt(Len(table.dirs))
      /\ FirstFile = DirAt(Len(table.dirs)) + 1
  BY <1>1, <1>2 DEF RowStands, DirAt, FirstFile
<1>4. ASSUME NEW k \in 0 .. Len(table.dirs) - 1
      PROVE  /\ table.dirs[k + 1] \in Nat \ {0}
             /\ DirAt(k + 1) = DirAt(k) + table.dirs[k + 1] + 1
             /\ \A j \in 1 .. table.dirs[k + 1] : cells[DirAt(k) + j] = 1
             /\ cells[DirAt(k) + (table.dirs[k + 1] + 1)] = 0
  <2> DEFINE n == table.dirs[k + 1]
             m == Prologue!Name(n)
             a == DirAt(k)
  <2>1. /\ n \in Nat \ {0} /\ DirNames[k + 1] = m /\ a \in Nat
    BY <1>1, <1>3
  <2>2. /\ DirAt(k + 1) = a + Len(DirNames[k + 1])
        /\ \A j \in 1 .. Len(DirNames[k + 1]) : cells[a + j] = DirNames[k + 1][j]
    BY <1>1, <1>2, Zenon DEF RowStands, DirAt
  <2>3. Len(m) = n + 1 /\ m[n + 1] = 0 /\ \A j \in 1 .. n : m[j] = 1
    <3> HIDE DEF n
    <3> QED BY <2>1, NameFacts
  <2> HIDE DEF n, m, a
  <2>4. DirAt(k + 1) = a + (n + 1) /\ \A j \in 1 .. n + 1 : cells[a + j] = m[j]
    BY <2>1, <2>2, <2>3
  <2>5. n + 1 \in 1 .. n + 1 /\ (\A j \in 1 .. n : j \in 1 .. n + 1) /\ a + (n + 1) = a + n + 1
    BY <2>1
  <2>6. cells[a + (n + 1)] = 0 /\ \A j \in 1 .. n : cells[a + j] = 1
    BY <2>3, <2>4, <2>5
  <2> QED BY <2>1, <2>4, <2>5, <2>6 DEF n, a
<1> QED
  BY <1>3, <1>4

LEMMA FilesStand ==
    ASSUME TableKept
    PROVE  /\ FileAt(0) = FirstFile /\ cells[FileAt(Len(table.files)) + 1] = 0
           /\ Behind = FileAt(Len(table.files)) + 1
           /\ \A k \in 0 .. Len(table.files) : FileAt(k) \in Nat /\ FileAt(k) <= FileAt(Len(table.files))
           /\ \A k \in 0 .. Len(table.files) - 1 :
                 /\ table.files[k + 1] \in Nat \ {0}
                 /\ FileAt(k + 1) = FileAt(k) + table.files[k + 1] + 4
                 /\ \A j \in 1 .. table.files[k + 1] : cells[FileAt(k) + j] = 1
                 /\ cells[FileAt(k) + (table.files[k + 1] + 1)] = 0
<1>1. /\ FirstFile \in Nat /\ Holds(cells, FirstFile, Join(FileNames) \o <<0>>)
      /\ FileNames \in Seq(Seq(Nat)) /\ Len(FileNames) = Len(table.files) /\ Len(table.files) \in Nat
      /\ \A i \in 1 .. Len(table.files) :
            table.files[i] \in Nat \ {0} /\ FileNames[i] = Prologue!File(table.files[i])
  BY PartFacts, RowFacts
<1>2. RowStands(FileNames, FirstFile, 0)
  <2>1. 0 \in Nat
    OBVIOUS
  <2> QED BY <1>1, <2>1, RowIsThere
<1>3. /\ FileAt(0) = FirstFile /\ cells[FileAt(Len(table.files)) + 1] = 0
      /\ \A k \in 0 .. Len(table.files) : FileAt(k) \in Nat /\ FileAt(k) <= FileAt(Len(table.files))
      /\ Behind = FileAt(Len(table.files)) + 1
  BY <1>1, <1>2 DEF RowStands, FileAt, Behind
<1>4. ASSUME NEW k \in 0 .. Len(table.files) - 1
      PROVE  /\ table.files[k + 1] \in Nat \ {0}
             /\ FileAt(k + 1) = FileAt(k) + table.files[k + 1] + 4
             /\ \A j \in 1 .. table.files[k + 1] : cells[FileAt(k) + j] = 1
             /\ cells[FileAt(k) + (table.files[k + 1] + 1)] = 0
  <2> DEFINE n == table.files[k + 1]
             m == Prologue!File(n)
             a == FileAt(k)
  <2>1. /\ n \in Nat \ {0} /\ FileNames[k + 1] = m /\ a \in Nat
    BY <1>1, <1>3
  <2>2. /\ FileAt(k + 1) = a + Len(FileNames[k + 1])
        /\ \A j \in 1 .. Len(FileNames[k + 1]) : cells[a + j] = FileNames[k + 1][j]
    BY <1>1, <1>2, Zenon DEF RowStands, FileAt
  <2>3. Len(m) = n + 4 /\ m[n + 1] = 0 /\ \A j \in 1 .. n : m[j] = 1
    <3> HIDE DEF n
    <3> QED BY <2>1, NameFacts
  <2> HIDE DEF n, m, a
  <2>4. FileAt(k + 1) = a + (n + 4) /\ \A j \in 1 .. n + 4 : cells[a + j] = m[j]
    BY <2>1, <2>2, <2>3
  <2>5. n + 1 \in 1 .. n + 4 /\ (\A j \in 1 .. n : j \in 1 .. n + 4) /\ a + (n + 4) = a + n + 4
    BY <2>1
  <2>6. cells[a + (n + 1)] = 0 /\ \A j \in 1 .. n : cells[a + j] = 1
    BY <2>3, <2>4, <2>5
  <2> QED BY <2>1, <2>4, <2>5, <2>6 DEF n, a
<1> QED
  BY <1>3, <1>4

LEMMA DefinesStand ==
    ASSUME TableKept
    PROVE  /\ DefineAt(0) = Behind + table.pad /\ cells[DefineAt(Len(table.defined)) + 1] = 9
           /\ Len(cells) = DefineAt(Len(table.defined)) + 1
           /\ \A k \in 0 .. Len(table.defined) :
                 DefineAt(k) \in Nat /\ DefineAt(k) <= DefineAt(Len(table.defined))
           /\ \A k \in 0 .. Len(table.defined) - 1 :
                 /\ table.defined[k + 1] \in Nat
                 /\ DefineAt(k + 1) = DefineAt(k) + table.defined[k + 1] + 7
                 /\ cells[DefineAt(k) + 1] = 0 /\ cells[DefineAt(k) + 2] = 0
                 /\ cells[DefineAt(k) + 3] = 3
                 /\ \A j \in 1 .. table.defined[k + 1] : cells[DefineAt(k) + 3 + j] = 1
                 /\ cells[DefineAt(k) + 3 + (table.defined[k + 1] + 1)] = 0
<1>0. Behind \in Nat /\ table.pad \in Nat
  BY PartFacts, RowFacts
<1>1. /\ Behind + table.pad \in Nat /\ Holds(cells, Behind + table.pad, Join(Defines) \o <<9>>)
      /\ Defines \in Seq(Seq(Nat)) /\ Len(Defines) = Len(table.defined) /\ Len(table.defined) \in Nat
      /\ \A i \in 1 .. Len(table.defined) :
            /\ table.defined[i] \in Nat
            /\ Defines[i] = Prologue!DEFINE_FILE \o Prologue!File(table.defined[i])
      /\ Len(cells) = Behind + table.pad + Off(Defines, Len(table.defined)) + 1
  <2>1. Holds(cells, Behind + table.pad, Join(Defines) \o <<9>>)
    BY PartFacts, Zenon
  <2>2. Len(cells) = Behind + table.pad + Off(Defines, Len(table.defined)) + 1
    BY PartFacts, Zenon
  <2>3. Behind + table.pad \in Nat
    BY <1>0
  <2>4. /\ Defines \in Seq(Seq(Nat)) /\ Len(Defines) = Len(table.defined) /\ Len(table.defined) \in Nat
        /\ \A i \in 1 .. Len(table.defined) :
              /\ table.defined[i] \in Nat
              /\ Defines[i] = Prologue!DEFINE_FILE \o Prologue!File(table.defined[i])
    BY RowFacts, Zenon
  <2> QED BY <2>1, <2>2, <2>3, <2>4
<1>2. RowStands(Defines, Behind + table.pad, 9)
  <2>1. 9 \in Nat
    OBVIOUS
  <2> QED BY <1>1, <2>1, RowIsThere
<1>3. /\ DefineAt(0) = Behind + table.pad /\ cells[DefineAt(Len(table.defined)) + 1] = 9
      /\ \A k \in 0 .. Len(table.defined) : DefineAt(k) \in Nat /\ DefineAt(k) <= DefineAt(Len(table.defined))
      /\ Len(cells) = DefineAt(Len(table.defined)) + 1
  BY <1>1, <1>2 DEF RowStands, DefineAt
<1>4. ASSUME NEW k \in 0 .. Len(table.defined) - 1
      PROVE  /\ table.defined[k + 1] \in Nat
             /\ DefineAt(k + 1) = DefineAt(k) + table.defined[k + 1] + 7
             /\ cells[DefineAt(k) + 1] = 0 /\ cells[DefineAt(k) + 2] = 0
             /\ cells[DefineAt(k) + 3] = 3
             /\ \A j \in 1 .. table.defined[k + 1] : cells[DefineAt(k) + 3 + j] = 1
             /\ cells[DefineAt(k) + 3 + (table.defined[k + 1] + 1)] = 0
  <2> DEFINE n == table.defined[k + 1]
             m == Prologue!DEFINE_FILE \o Prologue!File(n)
             a == DefineAt(k)
  <2>1. /\ n \in Nat /\ Defines[k + 1] = m /\ a \in Nat
    <3>1. k + 1 \in 1 .. Len(table.defined) /\ k \in 0 .. Len(table.defined)
      BY <1>1
    <3> QED BY <1>1, <1>3, <3>1, Zenon
  <2>2. /\ DefineAt(k + 1) = a + Len(Defines[k + 1])
        /\ \A j \in 1 .. Len(Defines[k + 1]) : cells[a + j] = Defines[k + 1][j]
    BY <1>1, <1>2, Zenon DEF RowStands, DefineAt
  <2>3. /\ Len(m) = n + 7 /\ m[1] = 0 /\ m[2] = 0 /\ m[3] = 3
        /\ m[3 + (n + 1)] = 0 /\ \A j \in 1 .. n : m[3 + j] = 1
    <3> HIDE DEF n
    <3> QED BY <2>1, NameFacts
  <2> HIDE DEF n, m, a
  <2>4. DefineAt(k + 1) = a + (n + 7) /\ \A j \in 1 .. n + 7 : cells[a + j] = m[j]
    BY <2>1, <2>2, <2>3
  <2>5. /\ 3 + (n + 1) \in 1 .. n + 7 /\ (\A j \in 1 .. n : 3 + j \in 1 .. n + 7)
        /\ a + (n + 7) = a + n + 7 /\ 1 \in 1 .. n + 7 /\ 2 \in 1 .. n + 7 /\ 3 \in 1 .. n + 7
    BY <2>1
  <2>6. /\ cells[a + (3 + (n + 1))] = 0 /\ \A j \in 1 .. n : cells[a + (3 + j)] = 1
    <3>1. cells[a + (3 + (n + 1))] = m[3 + (n + 1)]
      BY <2>4, <2>5, Zenon
    <3>2. \A j \in 1 .. n : cells[a + (3 + j)] = m[3 + j]
      BY <2>4, <2>5, Zenon
    <3> QED BY <2>3, <3>1, <3>2
  <2>7. cells[a + 1] = 0 /\ cells[a + 2] = 0 /\ cells[a + 3] = 3
    BY <2>3, <2>4, <2>5, Zenon
  <2>8. a + (3 + (n + 1)) = a + 3 + (n + 1) /\ \A j \in 1 .. n : a + (3 + j) = a + 3 + j
    BY <2>1
  <2>9. cells[a + 3 + (n + 1)] = 0 /\ \A j \in 1 .. n : cells[a + 3 + j] = 1
    BY <2>6, <2>8
  <2> QED BY <2>1, <2>4, <2>5, <2>7, <2>9 DEF n, a
<1> QED
  BY <1>3, <1>4

(* read_sz in any section. *)
LEMMA StringBounds ==
    ASSUME size \in Nat, cells \in Seq(Nat), size <= Len(cells), NEW p \in 0 .. size
    PROVE  LET s == Prologue!StringAt(p)
           IN s.end \in p .. size /\ s.size \in 0 .. MaxSz
<1> DEFINE ends == {q \in p + 1 .. size : cells[q] = 0 \/ q = size \/ q - p = MaxSz}
           end == IF ends = {} THEN p ELSE CHOOSE q \in ends : \A r \in ends : q <= r
<1>0. MaxSz \in Nat \ {0}
  BY LinePrologueAssumption DEF Prologue!LinePrologueAssumption
<1>1. Prologue!StringAt(p) =
          [size |-> IF end > p /\ cells[end] = 0 THEN end - p - 1 ELSE end - p, end |-> end]
  BY DEF Prologue!StringAt, Prologue!NUL
<1>2. end \in p .. size /\ end - p <= MaxSz
  <2>1. CASE ends = {}
    BY <1>0, <2>1
  <2>2. CASE ends # {}
    <3> HIDE DEF ends
    <3>1. ends \subseteq Nat
      BY DEF ends
    <3>2. \E q \in ends : \A r \in ends : q <= r
      BY <2>2, <3>1, LeastNatural
    <3>3. end \in ends /\ \A r \in ends : end <= r
      BY <2>2, <3>2
    <3> HIDE DEF end
    <3>4. end \in p + 1 .. size
      BY <3>3 DEF ends
    <3>5. end - p <= MaxSz
      <4>1. SUFFICES ASSUME end - p > MaxSz PROVE FALSE
        BY <1>0, <3>4
      <4>2. p + MaxSz \in p + 1 .. size /\ (p + MaxSz) - p = MaxSz /\ p + MaxSz < end
        BY <1>0, <3>4, <4>1
      <4>3. p + MaxSz \in ends
        BY <4>2 DEF ends
      <4> QED BY <1>0, <3>3, <3>4, <4>2, <4>3
    <3> QED BY <3>4, <3>5
  <2> QED BY <2>1, <2>2
<1> HIDE DEF end
<1> QED
  BY <1>0, <1>1, <1>2

(* read_sz at a name that fits: the whole name, or what the section has left. *)
LEMMA StringFacts ==
    ASSUME size \in Nat, NEW p \in 0 .. size, NEW n \in Nat, n < MaxSz,
           \A j \in 1 .. n : cells[p + j] = 1, cells[p + (n + 1)] = 0
    PROVE  /\ p + (n + 1) <= size => Prologue!StringAt(p) = [size |-> n, end |-> p + (n + 1)]
           /\ p + (n + 1) > size => Prologue!StringAt(p) = [size |-> size - p, end |-> size]
<1> DEFINE ends == {q \in p + 1 .. size : cells[q] = 0 \/ q = size \/ q - p = MaxSz}
           end == IF ends = {} THEN p ELSE CHOOSE q \in ends : \A r \in ends : q <= r
<1>0. MaxSz \in Nat \ {0}
  BY LinePrologueAssumption DEF Prologue!LinePrologueAssumption
<1>1. Prologue!StringAt(p) =
          [size |-> IF end > p /\ cells[end] = 0 THEN end - p - 1 ELSE end - p, end |-> end]
  BY DEF Prologue!StringAt, Prologue!NUL
<1>2. ASSUME NEW q \in p + 1 .. size, q < p + (n + 1), q # size PROVE q \notin ends
  <2> DEFINE j == q - p
  <2>1. j \in 1 .. n /\ p + j = q /\ q - p # MaxSz
    BY <1>0, <1>2
  <2> HIDE DEF j
  <2>2. cells[p + j] = 1
    BY <2>1
  <2> QED BY <1>2, <2>1, <2>2
<1>3. CASE p + (n + 1) <= size
  <2> DEFINE z == p + (n + 1)
  <2>1. z \in p + 1 .. size /\ cells[z] = 0 /\ z > p /\ z - p - 1 = n /\ z <= size
    BY <1>3
  <2>2. z \in ends
    BY <2>1
  <2>3. \A q \in ends : q >= z
    <3>1. SUFFICES ASSUME NEW q \in ends, q < z PROVE FALSE
      OBVIOUS
    <3>2. q \in p + 1 .. size /\ q # size /\ q < p + (n + 1)
      BY <1>3, <3>1
    <3> QED BY <1>2, <3>1, <3>2
  <2>4. ends \subseteq Nat
    OBVIOUS
  <2> HIDE DEF z, ends
  <2>5. end = z
    <3>1. ends # {} /\ \E q \in ends : \A r \in ends : q <= r
      BY <2>2, <2>3, <2>4
    <3>2. end \in ends /\ \A r \in ends : end <= r
      BY <3>1
    <3> HIDE DEF end
    <3> QED BY <2>2, <2>3, <2>4, <3>2
  <2> HIDE DEF end
  <2> QED BY <1>1, <2>1, <2>5 DEF z
<1>4. CASE p + (n + 1) > size /\ p < size
  <2>1. size \in ends
    BY <1>4
  <2>2. \A q \in ends : q = size
    <3>1. SUFFICES ASSUME NEW q \in ends, q # size PROVE FALSE
      OBVIOUS
    <3>2. q \in p + 1 .. size /\ q < p + (n + 1)
      BY <1>4
    <3> QED BY <1>2, <3>1, <3>2
  <2>3. cells[size] = 1
    <3>1. size - p \in 1 .. n /\ p + (size - p) = size
      BY <1>4
    <3> QED BY <3>1
  <2> HIDE DEF ends
  <2>5. end = size
    <3>1. ends # {} /\ \E q \in ends : \A r \in ends : q <= r
      BY <2>1, <2>2
    <3>2. end \in ends
      BY <3>1
    <3> HIDE DEF end
    <3> QED BY <2>2, <3>2
  <2> HIDE DEF end
  <2> QED BY <1>1, <1>4, <2>3, <2>5
<1>5. CASE p = size
  <2>1. ends = {}
    BY <1>5
  <2> HIDE DEF ends
  <2>2. end = size
    BY <1>5, <2>1
  <2> HIDE DEF end
  <2>3. ~(p + (n + 1) <= size) /\ size - p = 0
    BY <1>5
  <2> QED BY <1>1, <1>5, <2>2, <2>3
<1> QED
  BY <1>3, <1>4, <1>5

(* What is read of a row of names: some of them, the last one maybe cut. *)
LEMMA ShortenedFacts ==
    ASSUME NEW S, NEW s \in Seq(S)
    PROVE  /\ \A k \in 0 .. Len(s) : Prologue!Shortened(SubSeq(s, 1, k), s)
           /\ Prologue!Shortened(<<>>, s)
<1>1. Len(s) \in Nat
  OBVIOUS
<1>2. ASSUME NEW k \in 0 .. Len(s) PROVE Prologue!Shortened(SubSeq(s, 1, k), s)
  <2>1. Len(SubSeq(s, 1, k)) = k
    BY <1>1
  <2> QED BY <1>1, <2>1 DEF Prologue!Shortened, Prologue!IsPrefix
<1>3. SubSeq(s, 1, 0) = <<>> /\ 0 \in 0 .. Len(s)
  BY <1>1, SubSeqEmpty
<1> QED
  BY <1>2, <1>3

LEMMA CutFacts ==
    ASSUME NEW s \in Seq(Nat), NEW k \in 0 .. Len(s) - 1, NEW x \in Nat, x <= s[k + 1]
    PROVE  /\ Prologue!Shortened(Append(SubSeq(s, 1, k), x), s)
           /\ Append(SubSeq(s, 1, k), s[k + 1]) = SubSeq(s, 1, k + 1)
<1>1. Len(s) \in Nat /\ k + 1 \in 0 .. Len(s) /\ k + 1 \in 1 .. Len(s) /\ k \in 0 .. Len(s) /\ s[k + 1] \in Nat
  OBVIOUS
<1>2. Append(SubSeq(s, 1, k), s[k + 1]) = SubSeq(s, 1, k + 1)
  BY AppendedPart
<1>3. CASE x = s[k + 1]
  BY <1>1, <1>2, <1>3, ShortenedFacts
<1>4. CASE x < s[k + 1]
  <2> DEFINE a == SubSeq(s, 1, k)
             r == Append(a, x)
  <2>1. a \in Seq(Nat) /\ Len(a) = k
    BY <1>1
  <2>2. a = SubSeq(s, 1, k)
    OBVIOUS
  <2> HIDE DEF a
  <2>3. /\ r \in Seq(Nat) /\ Len(r) = k + 1 /\ r[k + 1] = x /\ r # <<>>
        /\ \A i \in 1 .. k : r[i] = a[i]
    BY SMTT(30), <2>1
  <2>4. SubSeq(r, 1, k) = a
    <3> HIDE DEF r
    <3>1. /\ SubSeq(r, 1, k) \in Seq(Nat) /\ Len(SubSeq(r, 1, k)) = k
          /\ \A i \in 1 .. k : SubSeq(r, 1, k)[i] = r[i]
      BY <2>3
    <3> QED BY <2>1, <2>3, <3>1, SeqEqual
  <2> HIDE DEF r
  <2>5. Prologue!Front(r) = a
    <3>1. Len(r) - 1 = k
      BY <2>3
    <3> QED BY <2>4, <3>1 DEF Prologue!Front
  <2>6. Prologue!Last(r) = x
    BY <2>3 DEF Prologue!Last
  <2>7. Prologue!IsPrefix(a, s)
    BY <1>1, <2>1, <2>2 DEF Prologue!IsPrefix
  <2>8. Prologue!Shortened(r, s)
    BY <1>1, <1>4, <2>3, <2>5, <2>6, <2>7 DEF Prologue!Shortened
  <2> QED BY <1>2, <2>8 DEF r, a
<1> QED
  BY <1>1, <1>3, <1>4

(* Where a parse of a prologue stands: at the beginning of a directory, a file
   or a definition, with what is in front of it read; or at the end of a
   section that ends inside the table. *)
HeadRead == [version : Nat, opcode_base : Nat, directories : Seq(1 .. MaxSz), files : Seq(0 .. MaxSz)]
Meant == table.files \o table.defined

TypedAt(a, p, h, e) ==
    /\ p \in 0 .. size /\ e \in Nat
    /\ a \in {"idle", "lengths", "directories", "files", "program", "done"}
    /\ h \in HeadRead /\ h.version \in {0, table.version}
    /\ h.opcode_base \in 0 .. Len(table.lengths) + 1
    /\ a = "idle" => h.directories = <<>> /\ h.files = <<>>

BeforeNames(a, p, h, e) ==
    /\ a \in {"idle", "lengths"} => h.directories = <<>> /\ h.files = <<>>
    /\ a = "lengths" =>
          /\ p = Prologue!Clamped(Prologue!HeadSize(table.version))
          /\ h.opcode_base = IF size >= Prologue!HeadSize(table.version)
                             THEN Len(table.lengths) + 1 ELSE 0
          /\ size >= 3 => e = DefineAt(0)
InDirectories(p, h, e) ==
    /\ h.files = <<>>
    /\ \/ \E k \in 0 .. Len(table.dirs) :
             p = DirAt(k) /\ h.directories = SubSeq(table.dirs, 1, k) /\ e = DefineAt(0)
       \/ p = size /\ size <= DirAt(Len(table.dirs)) /\ Prologue!Shortened(h.directories, table.dirs)
InFiles(p, h, e) ==
    \/ /\ h.directories = table.dirs
       /\ \E k \in 0 .. Len(table.files) :
             p = FileAt(k) /\ h.files = SubSeq(Meant, 1, k) /\ e = DefineAt(0)
    \/ /\ p = size /\ size <= FileAt(Len(table.files))
       /\ Prologue!Shortened(h.directories, table.dirs) /\ Prologue!Shortened(h.files, Meant)
AllRead(p, h) == h.directories = table.dirs /\ h.files = Meant /\ p = Len(cells)
InProgram(p, h) ==
    \/ /\ h.directories = table.dirs /\ h.files = table.files
       /\ \E j \in 0 .. table.pad : p = Behind + j
    \/ /\ h.directories = table.dirs
       /\ \E k \in 0 .. Len(table.defined) :
             p = DefineAt(k) /\ h.files = SubSeq(Meant, 1, Len(table.files) + k)
    \/ AllRead(p, h)
    \/ p = size /\ size < Len(cells)
AtEnd(p, h) ==
    \/ h.directories = <<>> /\ h.files = <<>> /\ (size < 2 \/ table.version \notin 2 .. 4)
    \/ AllRead(p, h)
StandsAt(a, p, h, e) ==
    /\ BeforeNames(a, p, h, e)
    /\ a = "directories" => InDirectories(p, h, e)
    /\ a = "files" => InFiles(p, h, e)
    /\ a = "program" => InProgram(p, h)
    /\ a = "done" => AtEnd(p, h)

PrologueInv ==
    /\ TableKept
    /\ TypedAt(at, pos, prologue, end_prologue)
    /\ Prologue!NamesFit => StandsAt(at, pos, prologue, end_prologue)

(* What holds of the next values holds in the next state: the section is the
   same. *)
LEMMA SameTable ==
    ASSUME UNCHANGED <<table, cells, size>>, TableKept,
           TypedAt(at', pos', prologue', end_prologue'),
           Prologue!NamesFit => StandsAt(at', pos', prologue', end_prologue')
    PROVE  PrologueInv'
<1>1. /\ DirNames' = DirNames /\ FileNames' = FileNames /\ Defines' = Defines
      /\ HeadLen' = HeadLen /\ table' = table /\ size' = size /\ cells' = cells
  BY DEF DirNames, FileNames, Defines, HeadLen
<1>2. \A k : DirAt(k)' = DirAt(k)
  BY <1>1 DEF DirAt
<1>3. FirstFile' = FirstFile
  BY <1>1, <1>2 DEF FirstFile, DirAt
<1>4. \A k : FileAt(k)' = FileAt(k)
  BY <1>1, <1>3 DEF FileAt
<1>5. Behind' = Behind
  BY <1>1, <1>3 DEF Behind, FileAt
<1>6. \A k : DefineAt(k)' = DefineAt(k)
  BY <1>1, <1>5 DEF DefineAt
<1>7. Meant' = Meant
  BY <1>1 DEF Meant
<1>8. TableKept'
  BY <1>1 DEF TableKept
<1>9. TypedAt(at, pos, prologue, end_prologue)'
  BY <1>1 DEF TypedAt, HeadRead
<1>10. Prologue!NamesFit' = Prologue!NamesFit
  BY <1>1 DEF Prologue!NamesFit
<1>11. ASSUME StandsAt(at', pos', prologue', end_prologue')
       PROVE  StandsAt(at, pos, prologue, end_prologue)'
  <2>1. BeforeNames(at, pos, prologue, end_prologue)'
    <3>1. DefineAt(0)' = DefineAt(0)
      BY <1>6
    <3> QED BY <1>1, <1>11, <3>1 DEF StandsAt, BeforeNames, Prologue!Clamped, Prologue!HeadSize
  <2>2. (at = "directories" => InDirectories(pos, prologue, end_prologue))'
    <3>1. at' = "directories" => InDirectories(pos', prologue', end_prologue')
      BY <1>11, Zenon DEF StandsAt
    <3>2. InDirectories(pos', prologue', end_prologue') => InDirectories(pos, prologue, end_prologue)'
      BY <1>1, <1>2, <1>6 DEF InDirectories
    <3> QED BY <3>1, <3>2
  <2>3. (at = "files" => InFiles(pos, prologue, end_prologue))'
    <3>1. at' = "files" => InFiles(pos', prologue', end_prologue')
      BY <1>11, Zenon DEF StandsAt
    <3>2. InFiles(pos', prologue', end_prologue') => InFiles(pos, prologue, end_prologue)'
      BY <1>1, <1>4, <1>6, <1>7 DEF InFiles
    <3> QED BY <3>1, <3>2
  <2>4. (at = "program" => InProgram(pos, prologue))'
    <3>1. at' = "program" => InProgram(pos', prologue')
      BY <1>11, Zenon DEF StandsAt
    <3>2. InProgram(pos', prologue') => InProgram(pos, prologue)'
      BY <1>1, <1>5, <1>6, <1>7 DEF InProgram, AllRead
    <3> QED BY <3>1, <3>2
  <2>5. (at = "done" => AtEnd(pos, prologue))'
    <3>1. at' = "done" => AtEnd(pos', prologue')
      BY <1>11, Zenon DEF StandsAt
    <3>2. AtEnd(pos', prologue') => AtEnd(pos, prologue)'
      BY <1>1, <1>7 DEF AtEnd, AllRead
    <3> QED BY <3>1, <3>2
  <2> QED BY <2>1, <2>2, <2>3, <2>4, <2>5 DEF StandsAt
<1> QED
  BY <1>8, <1>9, <1>10, <1>11 DEF PrologueInv

LEMMA PrologueInitHolds == ASSUME Prologue!Init PROVE PrologueInv
<1>1. /\ TableKept /\ at = "idle" /\ pos = 0 /\ prologue = Prologue!Empty /\ end_prologue = 0
  BY DEF Prologue!Init, TableKept
<1>2. table.version \in Nat /\ Len(table.lengths) \in Nat /\ size \in Nat
  <2>1. Len(cells) \in Nat
    BY <1>1, PartFacts
  <2> QED BY <1>1, <2>1, RowFacts DEF TableKept
<1>3. /\ prologue \in HeadRead /\ prologue.version = 0 /\ prologue.opcode_base = 0
      /\ prologue.directories = <<>> /\ prologue.files = <<>>
  BY <1>1 DEF HeadRead, Prologue!Empty
<1>4. TypedAt(at, pos, prologue, end_prologue)
  BY <1>1, <1>2, <1>3 DEF TypedAt
<1>5. StandsAt(at, pos, prologue, end_prologue)
  BY <1>1, <1>3 DEF StandsAt, BeforeNames
<1> QED
  BY <1>1, <1>4, <1>5 DEF PrologueInv

(* The numbers of a table and of its sections. *)
LEMMA SizeFacts ==
    ASSUME TableKept
    PROVE  /\ size \in Nat /\ Len(cells) \in Nat /\ size <= Len(cells) /\ cells \in Seq(Nat)
           /\ MaxSz \in Nat \ {0}
           /\ table.version \in Nat /\ Prologue!HeadSize(table.version) \in Nat
           /\ Prologue!HeadSize(table.version) >= 8
           /\ HeadLen \in Nat /\ HeadLen = Prologue!HeadSize(table.version) + Len(table.lengths)
           /\ Len(table.lengths) \in Nat /\ table.pad \in Nat
           /\ Len(table.dirs) \in Nat /\ Len(table.files) \in Nat /\ Len(table.defined) \in Nat
           /\ DirAt(0) = HeadLen /\ HeadLen <= DirAt(Len(table.dirs))
           /\ DirAt(Len(table.dirs)) \in Nat
           /\ DirAt(Len(table.dirs)) < FirstFile /\ FirstFile <= FileAt(Len(table.files))
           /\ FirstFile \in Nat /\ FileAt(Len(table.files)) \in Nat /\ Behind \in Nat
           /\ FileAt(Len(table.files)) < Behind /\ DefineAt(0) = Behind + table.pad
           /\ DefineAt(0) <= DefineAt(Len(table.defined)) /\ DefineAt(Len(table.defined)) \in Nat
           /\ Len(cells) = DefineAt(Len(table.defined)) + 1
           /\ HeadLen + Len(Prologue!TablesOf(table)) = DefineAt(0) /\ DefineAt(0) \in Nat
<1>1. /\ Len(cells) \in Nat /\ HeadLen \in Nat /\ Behind \in Nat /\ FirstFile \in Nat
      /\ HeadLen = Prologue!HeadSize(table.version) + Len(table.lengths)
      /\ HeadLen + Len(Prologue!TablesOf(table)) = Behind + table.pad /\ cells \in Seq(Nat)
  BY PartFacts
<1>2. /\ table.version \in Nat /\ table.lengths \in Seq(Nat) /\ table.pad \in Nat
      /\ Len(table.dirs) \in Nat /\ Len(table.files) \in Nat /\ Len(table.defined) \in Nat
  BY RowFacts
<1>3. /\ Len(table.lengths) \in Nat /\ MaxSz \in Nat \ {0} /\ size \in Nat /\ size <= Len(cells)
  BY <1>1, <1>2, LinePrologueAssumption DEF TableKept, Prologue!LinePrologueAssumption
<1>4. Prologue!HeadSize(table.version) \in Nat /\ Prologue!HeadSize(table.version) >= 8
  BY <1>2 DEF Prologue!HeadSize
<1>5. /\ DirAt(0) = HeadLen /\ HeadLen <= DirAt(Len(table.dirs)) /\ DirAt(Len(table.dirs)) \in Nat
      /\ DirAt(Len(table.dirs)) < FirstFile
  <2>1. 0 \in 0 .. Len(table.dirs) /\ Len(table.dirs) \in 0 .. Len(table.dirs)
    BY <1>2
  <2>2. DirAt(0) <= DirAt(Len(table.dirs)) /\ DirAt(Len(table.dirs)) \in Nat
    BY <2>1, DirectoriesStand
  <2>3. DirAt(0) = HeadLen /\ FirstFile = DirAt(Len(table.dirs)) + 1
    BY DirectoriesStand
  <2> QED BY <2>2, <2>3
<1>6. /\ FirstFile <= FileAt(Len(table.files)) /\ FileAt(Len(table.files)) \in Nat
      /\ FileAt(Len(table.files)) < Behind
  <2>1. 0 \in 0 .. Len(table.files) /\ Len(table.files) \in 0 .. Len(table.files)
    BY <1>2
  <2>2. FileAt(0) <= FileAt(Len(table.files)) /\ FileAt(Len(table.files)) \in Nat
    BY <2>1, FilesStand
  <2>3. FileAt(0) = FirstFile /\ Behind = FileAt(Len(table.files)) + 1
    BY FilesStand
  <2> QED BY <2>2, <2>3
<1>7. /\ DefineAt(0) <= DefineAt(Len(table.defined)) /\ DefineAt(Len(table.defined)) \in Nat
      /\ DefineAt(0) \in Nat
      /\ DefineAt(0) = Behind + table.pad /\ Len(cells) = DefineAt(Len(table.defined)) + 1
  <2>1. 0 \in 0 .. Len(table.defined) /\ Len(table.defined) \in 0 .. Len(table.defined)
    BY <1>2
  <2>2. DefineAt(0) <= DefineAt(Len(table.defined)) /\ DefineAt(Len(table.defined)) \in Nat
        /\ DefineAt(0) \in Nat
    BY <2>1, DefinesStand
  <2>3. DefineAt(0) = Behind + table.pad /\ Len(cells) = DefineAt(Len(table.defined)) + 1
    BY DefinesStand
  <2> QED BY <2>2, <2>3
<1> QED
  BY <1>1, <1>2, <1>3, <1>4, <1>5, <1>6, <1>7

(* Prologues with one more directory or file. *)
LEMMA HeadFacts ==
    ASSUME NEW h \in HeadRead, MaxSz \in Nat \ {0}
    PROVE  /\ h.version \in Nat /\ h.opcode_base \in Nat
           /\ h.directories \in Seq(1 .. MaxSz) /\ h.files \in Seq(0 .. MaxSz)
           /\ \A x \in 1 .. MaxSz :
                 LET g == [h EXCEPT !.directories = Append(@, x)]
                 IN /\ g \in HeadRead /\ g.version = h.version /\ g.opcode_base = h.opcode_base
                    /\ g.directories = Append(h.directories, x) /\ g.files = h.files
           /\ \A x \in 0 .. MaxSz :
                 LET g == [h EXCEPT !.files = Append(@, x)]
                 IN /\ g \in HeadRead /\ g.version = h.version /\ g.opcode_base = h.opcode_base
                    /\ g.directories = h.directories /\ g.files = Append(h.files, x)
<1>1. /\ h.version \in Nat /\ h.opcode_base \in Nat
      /\ h.directories \in Seq(1 .. MaxSz) /\ h.files \in Seq(0 .. MaxSz)
  BY DEF HeadRead
<1>2. (\A x \in 1 .. MaxSz : Append(h.directories, x) \in Seq(1 .. MaxSz))
      /\ \A x \in 0 .. MaxSz : Append(h.files, x) \in Seq(0 .. MaxSz)
  BY <1>1
<1>3. ASSUME NEW x \in 1 .. MaxSz
      PROVE  LET g == [h EXCEPT !.directories = Append(@, x)]
             IN /\ g \in HeadRead /\ g.version = h.version /\ g.opcode_base = h.opcode_base
                /\ g.directories = Append(h.directories, x) /\ g.files = h.files
  <2>1. Append(h.directories, x) \in Seq(1 .. MaxSz)
    BY <1>2
  <2> QED BY <2>1 DEF HeadRead
<1>4. ASSUME NEW x \in 0 .. MaxSz
      PROVE  LET g == [h EXCEPT !.files = Append(@, x)]
             IN /\ g \in HeadRead /\ g.version = h.version /\ g.opcode_base = h.opcode_base
                /\ g.directories = h.directories /\ g.files = Append(h.files, x)
  <2>1. Append(h.files, x) \in Seq(0 .. MaxSz)
    BY <1>2
  <2> QED BY <2>1 DEF HeadRead
<1> QED
  BY <1>1, <1>3, <1>4

LEMMA ReadHeadKeeps == ASSUME PrologueInv, Prologue!ReadHead PROVE PrologueInv'
<1> DEFINE version == IF size >= 2 THEN table.version ELSE 0
           hs == Prologue!HeadSize(table.version)
           base == IF size >= hs THEN Len(table.lengths) + 1 ELSE 0
<1>1. /\ TableKept /\ UNCHANGED <<table, cells, size>>
      /\ pos' = Prologue!Clamped(hs)
      /\ prologue' = [Prologue!Empty EXCEPT !.version = version, !.opcode_base = base]
      /\ end_prologue' = IF size >= 3 THEN HeadLen + Len(Prologue!TablesOf(table))
                         ELSE Prologue!Clamped(3)
      /\ at' = IF version \in 2 .. 4 THEN "lengths" ELSE "done"
  BY DEF PrologueInv, Prologue!ReadHead, Prologue!section, HeadLen
<1>2. /\ size \in Nat /\ hs \in Nat /\ table.version \in Nat /\ Len(table.lengths) \in Nat
      /\ HeadLen + Len(Prologue!TablesOf(table)) = DefineAt(0) /\ DefineAt(0) \in Nat
  BY <1>1, SizeFacts
<1> HIDE DEF hs
<1>3. /\ version \in Nat /\ version \in {0, table.version} /\ base \in Nat
      /\ base \in 0 .. Len(table.lengths) + 1
      /\ version \notin 2 .. 4 => size < 2 \/ table.version \notin 2 .. 4
  BY <1>2
<1>4. base = IF size >= hs THEN Len(table.lengths) + 1 ELSE 0
  OBVIOUS
<1>5. at' = "lengths" \/ (at' = "done" /\ (size < 2 \/ table.version \notin 2 .. 4))
  BY <1>1, <1>3
<1> HIDE DEF version, base
<1>6. /\ prologue' \in HeadRead /\ prologue'.version = version /\ prologue'.opcode_base = base
      /\ prologue'.directories = <<>> /\ prologue'.files = <<>>
  <2>1. version \in Nat /\ base \in Nat /\ <<>> \in Seq(1 .. MaxSz) /\ <<>> \in Seq(0 .. MaxSz)
    BY <1>3
  <2>2. prologue' = [version |-> version, opcode_base |-> base, directories |-> <<>>, files |-> <<>>]
    BY <1>1 DEF Prologue!Empty
  <2> QED BY <2>1, <2>2 DEF HeadRead
<1>7. /\ pos' \in 0 .. size /\ end_prologue' \in Nat
      /\ size >= 3 => end_prologue' = DefineAt(0)
  BY <1>1, <1>2 DEF Prologue!Clamped, Prologue!Least
<1>8. TypedAt(at', pos', prologue', end_prologue')
  <2>1. at' \in {"idle", "lengths", "directories", "files", "program", "done"} /\ at' # "idle"
    BY <1>5
  <2> QED BY <1>3, <1>6, <1>7, <2>1 DEF TypedAt
<1>9. StandsAt(at', pos', prologue', end_prologue')
  <2>1. BeforeNames(at', pos', prologue', end_prologue')
    BY <1>1, <1>4, <1>6, <1>7 DEF BeforeNames, hs
  <2>2. at' = "done" => AtEnd(pos', prologue')
    BY <1>5, <1>6 DEF AtEnd
  <2>3. at' # "directories" /\ at' # "files" /\ at' # "program"
    BY <1>5
  <2> QED BY <2>1, <2>2, <2>3 DEF StandsAt
<1> QED
  BY <1>1, <1>8, <1>9, SameTable

LEMMA ReadLengthsKeeps == ASSUME PrologueInv, Prologue!ReadLengths PROVE PrologueInv'
<1> DEFINE hs == Prologue!HeadSize(table.version)
<1>1. /\ TableKept /\ UNCHANGED <<table, cells, size>> /\ at = "lengths" /\ at' = "directories"
      /\ prologue' = prologue /\ end_prologue' = end_prologue
      /\ pos' = IF prologue.opcode_base = 0 THEN pos
                ELSE Prologue!Clamped(pos + prologue.opcode_base - 1)
      /\ TypedAt(at, pos, prologue, end_prologue)
      /\ Prologue!NamesFit => StandsAt(at, pos, prologue, end_prologue)
  BY DEF PrologueInv, Prologue!ReadLengths, Prologue!section
<1>2. /\ size \in Nat /\ hs \in Nat /\ Len(table.lengths) \in Nat /\ HeadLen = hs + Len(table.lengths)
      /\ HeadLen \in Nat /\ hs >= 8
      /\ DirAt(0) = HeadLen /\ HeadLen <= DirAt(Len(table.dirs)) /\ DirAt(Len(table.dirs)) \in Nat
      /\ Len(table.dirs) \in Nat
  BY <1>1, SizeFacts
<1> HIDE DEF hs
<1>3. /\ pos \in 0 .. size /\ prologue.opcode_base \in Nat
  BY <1>1, <1>2 DEF TypedAt
<1>4. pos' \in 0 .. size
  BY <1>1, <1>2, <1>3 DEF Prologue!Clamped, Prologue!Least
<1>5. TypedAt(at', pos', prologue', end_prologue')
  BY <1>1, <1>4 DEF TypedAt
<1>6. ASSUME Prologue!NamesFit PROVE StandsAt(at', pos', prologue', end_prologue')
  <2>1. /\ prologue.directories = <<>> /\ prologue.files = <<>>
        /\ pos = Prologue!Clamped(hs)
        /\ prologue.opcode_base = IF size >= hs THEN Len(table.lengths) + 1 ELSE 0
        /\ size >= 3 => end_prologue = DefineAt(0)
    BY <1>1, <1>6 DEF StandsAt, BeforeNames, hs
  <2>2. pos' = IF HeadLen < size THEN HeadLen ELSE size
    <3>1. CASE size >= hs
      <4>1. prologue.opcode_base = Len(table.lengths) + 1 /\ pos = hs
        BY <1>2, <2>1, <3>1 DEF Prologue!Clamped, Prologue!Least
      <4>2. pos' = Prologue!Clamped(HeadLen)
        BY <1>1, <1>2, <4>1
      <4> QED BY <4>2 DEF Prologue!Clamped, Prologue!Least
    <3>2. CASE size < hs
      <4>1. prologue.opcode_base = 0 /\ pos = size
        BY <1>2, <2>1, <3>2 DEF Prologue!Clamped, Prologue!Least
      <4> QED BY <1>1, <1>2, <3>2, <4>1
    <3> QED BY <1>2, <3>1, <3>2
  <2>3. InDirectories(pos', prologue', end_prologue')
    <3>1. CASE HeadLen < size
      <4>1. pos' = DirAt(0) /\ end_prologue' = DefineAt(0) /\ 0 \in 0 .. Len(table.dirs)
        BY <1>1, <1>2, <2>1, <2>2, <3>1
      <4>2. SubSeq(table.dirs, 1, 0) = <<>>
        BY <1>1, RowFacts, SubSeqEmpty
      <4> QED BY <1>1, <2>1, <4>1, <4>2 DEF InDirectories
    <3>2. CASE ~(HeadLen < size)
      <4>1. pos' = size /\ size <= DirAt(Len(table.dirs))
        BY <1>2, <2>2, <3>2
      <4>2. Prologue!Shortened(<<>>, table.dirs)
        BY <1>1, RowFacts, ShortenedFacts
      <4> QED BY <1>1, <2>1, <4>1, <4>2 DEF InDirectories
    <3> QED BY <3>1, <3>2
  <2> QED BY <1>1, <2>1, <2>3 DEF StandsAt, BeforeNames
<1> QED
  BY <1>1, <1>5, <1>6, SameTable

(* What NamesFit says of each name. *)
LEMMA FitFacts ==
    ASSUME TableKept, Prologue!NamesFit
    PROVE  /\ \A i \in 1 .. Len(table.dirs) : table.dirs[i] < MaxSz
           /\ \A i \in 1 .. Len(table.files) : table.files[i] < MaxSz
           /\ \A i \in 1 .. Len(table.defined) : table.defined[i] < MaxSz
<1>1. /\ \A i \in DOMAIN table.dirs : table.dirs[i] < MaxSz
      /\ \A i \in DOMAIN table.files : table.files[i] < MaxSz
      /\ \A i \in DOMAIN table.defined : table.defined[i] < MaxSz
  BY DEF Prologue!NamesFit
<1>2. /\ DOMAIN table.dirs = 1 .. Len(table.dirs) /\ DOMAIN table.files = 1 .. Len(table.files)
      /\ DOMAIN table.defined = 1 .. Len(table.defined)
  <2>1. table.dirs \in Seq(Nat \ {0}) /\ table.files \in Seq(Nat \ {0}) /\ table.defined \in Seq(Nat)
    BY RowFacts
  <2> QED BY <2>1
<1> QED
  BY <1>1, <1>2

(* The files that are meant: those of the head, then those the program adds. *)
LEMMA MeantFacts ==
    ASSUME TableKept
    PROVE  /\ Meant \in Seq(Nat) /\ Len(Meant) = Len(table.files) + Len(table.defined)
           /\ Len(table.files) \in Nat /\ Len(table.defined) \in Nat
           /\ \A i \in 1 .. Len(table.files) : Meant[i] = table.files[i]
           /\ \A i \in 1 .. Len(table.defined) : Meant[Len(table.files) + i] = table.defined[i]
           /\ SubSeq(Meant, 1, Len(table.files)) = table.files
           /\ SubSeq(Meant, 1, Len(table.files) + Len(table.defined)) = Meant
           /\ SubSeq(Meant, 1, 0) = <<>>
<1> DEFINE f == table.files
           g == table.defined
<1>1. f \in Seq(Nat) /\ g \in Seq(Nat)
  <2>1. table.files \in Seq(Nat \ {0}) /\ table.defined \in Seq(Nat)
    BY RowFacts
  <2> QED BY <2>1
<1>2. Meant = f \o g
  BY DEF Meant
<1> HIDE DEF f, g
<1>3. /\ Meant \in Seq(Nat) /\ Len(Meant) = Len(f) + Len(g) /\ Len(f) \in Nat /\ Len(g) \in Nat
      /\ \A i \in 1 .. Len(f) : Meant[i] = f[i]
      /\ \A i \in 1 .. Len(g) : Meant[Len(f) + i] = g[i]
  BY <1>1, <1>2, Behind2
<1>4. SubSeq(Meant, 1, Len(f)) = f
  <2> DEFINE s == SubSeq(Meant, 1, Len(f))
  <2>1. s \in Seq(Nat) /\ Len(s) = Len(f) /\ \A i \in 1 .. Len(f) : s[i] = Meant[i]
    BY <1>3
  <2> HIDE DEF s
  <2>2. s = f
    BY <1>1, <1>3, <2>1, SeqEqual
  <2> QED BY <2>2 DEF s
<1>5. SubSeq(Meant, 1, Len(f) + Len(g)) = Meant
  BY <1>3, SubSeqFull
<1>6. SubSeq(Meant, 1, 0) = <<>>
  BY SubSeqEmpty
<1> QED
  BY <1>3, <1>4, <1>5, <1>6 DEF f, g

(* Behind the section nothing is read. *)
LEMMA StringNone ==
    ASSUME size \in Nat
    PROVE  Prologue!StringAt(size) = [size |-> 0, end |-> size]
<1> DEFINE ends == {q \in size + 1 .. size : cells[q] = 0 \/ q = size \/ q - size = MaxSz}
<1>1. ends = {}
  OBVIOUS
<1> QED
  BY <1>1 DEF Prologue!StringAt, Prologue!NUL

LEMMA ReadDirectoryKeeps == ASSUME PrologueInv, Prologue!ReadDirectory PROVE PrologueInv'
<1> DEFINE s == Prologue!StringAt(pos)
           nd == Len(table.dirs)
           dirs == table.dirs
<1>1. /\ TableKept /\ UNCHANGED <<table, cells, size>> /\ at = "directories"
      /\ pos' = s.end /\ end_prologue' = end_prologue
      /\ prologue' = IF s.size = 0 THEN prologue
                     ELSE [prologue EXCEPT !.directories = Append(@, s.size)]
      /\ at' = IF s.size = 0 THEN "files" ELSE at
      /\ TypedAt(at, pos, prologue, end_prologue)
      /\ Prologue!NamesFit => StandsAt(at, pos, prologue, end_prologue)
  BY DEF PrologueInv, Prologue!ReadDirectory, Prologue!section
<1>2. /\ size \in Nat /\ MaxSz \in Nat \ {0} /\ size <= Len(cells) /\ cells \in Seq(Nat)
      /\ nd \in Nat /\ DirAt(nd) \in Nat /\ DirAt(nd) < FirstFile /\ FirstFile \in Nat
      /\ FirstFile <= FileAt(Len(table.files)) /\ FileAt(Len(table.files)) \in Nat
      /\ Len(table.files) \in Nat
  BY <1>1, SizeFacts
<1>3. pos \in 0 .. size /\ prologue \in HeadRead
  BY <1>1 DEF TypedAt
<1>4. s.end \in pos .. size /\ s.size \in 0 .. MaxSz
  BY <1>2, <1>3, StringBounds
<1> DEFINE x == s.size
<1>5. x = 0 => prologue' = prologue /\ at' = "files"
  BY <1>1
<1>6. x # 0 => /\ prologue' \in HeadRead /\ prologue'.version = prologue.version
               /\ prologue'.opcode_base = prologue.opcode_base /\ prologue'.files = prologue.files
               /\ prologue'.directories = Append(prologue.directories, x) /\ at' = "directories"
  <2>1. SUFFICES ASSUME x # 0
        PROVE  /\ prologue' \in HeadRead /\ prologue'.version = prologue.version
               /\ prologue'.opcode_base = prologue.opcode_base /\ prologue'.files = prologue.files
               /\ prologue'.directories = Append(prologue.directories, x) /\ at' = "directories"
    OBVIOUS
  <2>2. x \in 1 .. MaxSz
    BY <1>2, <1>4, <2>1
  <2>3. prologue' = [prologue EXCEPT !.directories = Append(@, x)] /\ at' = "directories"
    BY <1>1, <2>1
  <2> HIDE DEF x
  <2> QED BY <1>2, <1>3, <2>2, <2>3, HeadFacts
<1>7. TypedAt(at', pos', prologue', end_prologue')
  <2>1. pos' \in 0 .. size
    BY <1>1, <1>2, <1>3, <1>4
  <2> QED BY <1>1, <1>5, <1>6, <2>1 DEF TypedAt
<1>8. ASSUME Prologue!NamesFit PROVE StandsAt(at', pos', prologue', end_prologue')
  <2>1. /\ prologue.files = <<>>
        /\ \/ \E k \in 0 .. nd :
                 pos = DirAt(k) /\ prologue.directories = SubSeq(dirs, 1, k)
                 /\ end_prologue = DefineAt(0)
           \/ pos = size /\ size <= DirAt(nd) /\ Prologue!Shortened(prologue.directories, dirs)
    BY <1>1, <1>8 DEF StandsAt, InDirectories
  <2>2. dirs \in Seq(Nat) /\ \A i \in 1 .. nd : dirs[i] \in Nat \ {0}
    <3>1. dirs \in Seq(Nat \ {0}) /\ \A i \in 1 .. nd : dirs[i] \in Nat \ {0}
      BY <1>1, RowFacts
    <3> QED BY <3>1
  <2>3. Prologue!Shortened(<<>>, Meant) /\ SubSeq(Meant, 1, 0) = <<>>
    BY <1>1, MeantFacts, ShortenedFacts
  (* A section that is at its end has no more names. *)
  <2>4. ASSUME x = 0, pos' = size, size <= DirAt(nd), Prologue!Shortened(prologue.directories, dirs)
        PROVE  InFiles(pos', prologue', end_prologue')
    <3>1. size <= FileAt(Len(table.files))
      BY <1>2, <2>4
    <3> QED BY <1>5, <2>1, <2>3, <2>4, <3>1 DEF InFiles
  <2>5. /\ x = 0 => InFiles(pos', prologue', end_prologue')
        /\ x # 0 => InDirectories(pos', prologue', end_prologue')
    <3>1. CASE pos = size
      <4>1. s = [size |-> 0, end |-> size]
        BY <1>2, <3>1, StringNone
      <4>2. x = 0 /\ pos' = size
        BY <1>1, <4>1
      <4>3. size <= DirAt(nd) /\ Prologue!Shortened(prologue.directories, dirs)
        <5>1. CASE \E k \in 0 .. nd : pos = DirAt(k) /\ prologue.directories = SubSeq(dirs, 1, k)
          BY <1>1, <1>2, <2>2, <3>1, <5>1, DirectoriesStand, ShortenedFacts
        <5> QED BY <2>1, <5>1
      <4> QED BY <2>4, <4>2, <4>3
    <3>2. CASE pos # size
      <4>1. PICK k \in 0 .. nd : /\ pos = DirAt(k) /\ prologue.directories = SubSeq(dirs, 1, k)
                                 /\ end_prologue = DefineAt(0)
        BY <2>1, <3>2
      <4>2. CASE k # nd
        <5> DEFINE n == dirs[k + 1]
        <5>1. k \in 0 .. nd - 1 /\ k + 1 \in 1 .. nd /\ k + 1 \in 0 .. nd
          BY <1>2, <4>2
        <5>2. /\ n \in Nat \ {0} /\ n < MaxSz /\ DirAt(k + 1) = DirAt(k) + n + 1
              /\ (\A j \in 1 .. n : cells[DirAt(k) + j] = 1) /\ cells[DirAt(k) + (n + 1)] = 0
          BY <1>1, <1>8, <5>1, DirectoriesStand, FitFacts
        <5>3. DirAt(k + 1) <= DirAt(nd) /\ DirAt(k + 1) \in Nat /\ DirAt(k) \in Nat
          BY <1>1, <5>1, DirectoriesStand
        <5> HIDE DEF n
        <5>4. /\ pos + (n + 1) <= size => s = [size |-> n, end |-> pos + (n + 1)]
              /\ pos + (n + 1) > size => s = [size |-> size - pos, end |-> size]
          <6>1. n \in Nat /\ (\A j \in 1 .. n : cells[pos + j] = 1) /\ cells[pos + (n + 1)] = 0
            BY <4>1, <5>2
          <6> QED BY <1>2, <1>3, <5>2, <6>1, StringFacts
        <5>5. CASE pos + (n + 1) <= size
          <6>1. x = n /\ pos' = pos + (n + 1) /\ x # 0
            <7>1. s.size = n /\ s.end = pos + (n + 1)
              BY <5>4, <5>5
            <7>2. pos' = s.end
              BY <1>1
            <7> QED BY <5>2, <7>1, <7>2
          <6>2. pos' = DirAt(k + 1)
            BY <4>1, <5>2, <5>3, <6>1
          <6>3. prologue'.directories = SubSeq(dirs, 1, k + 1)
            <7>1. Append(SubSeq(dirs, 1, k), dirs[k + 1]) = SubSeq(dirs, 1, k + 1)
              BY <2>2, <5>1, AppendedPart
            <7> QED BY <1>6, <4>1, <6>1, <7>1 DEF n
          <6>4. prologue'.files = <<>> /\ end_prologue' = DefineAt(0)
            BY <1>1, <1>6, <2>1, <4>1, <6>1
          <6> QED BY <5>1, <6>1, <6>2, <6>3, <6>4 DEF InDirectories
        <5>6. CASE pos + (n + 1) > size
          <6>1. x = size - pos /\ pos' = size /\ x # 0 /\ x \in Nat /\ x <= n
            <7>1. s.size = size - pos /\ s.end = size
              BY <5>4, <5>6
            <7>2. pos' = size
              BY <1>1, <7>1
            <7>3. /\ size \in Nat /\ pos \in 0 .. size /\ n \in Nat
                  /\ pos # size /\ pos + (n + 1) > size
              BY <1>2, <1>3, <3>2, <5>2, <5>6
            <7> HIDE DEF s
            <7>4. size - pos \in Nat \ {0} /\ size - pos <= n
              BY ONLY <7>3
            <7> QED BY <7>1, <7>2, <7>4
          <6>2. size <= DirAt(nd)
            BY <1>2, <4>1, <5>2, <5>3, <5>6
          <6>3. Prologue!Shortened(prologue'.directories, dirs)
            <7>1. x <= dirs[k + 1] /\ x \in Nat
              BY <6>1 DEF n
            <7>2. Prologue!Shortened(Append(SubSeq(dirs, 1, k), x), dirs)
              <8>1. nd = Len(dirs)
                OBVIOUS
              <8> HIDE DEF x, dirs, nd
              <8> QED BY <2>2, <5>1, <7>1, <8>1, CutFacts
            <7> QED BY <1>6, <4>1, <6>1, <7>2
          <6> QED BY <1>6, <2>1, <6>1, <6>2, <6>3 DEF InDirectories
        <5> QED BY <1>2, <1>3, <5>2, <5>5, <5>6
      <4>3. CASE k = nd
        <5>1. pos = DirAt(nd) /\ cells[pos + 1] = 0 /\ FirstFile = DirAt(nd) + 1 /\ FileAt(0) = FirstFile
          BY <1>1, <4>1, <4>3, DirectoriesStand, FilesStand
        <5>2. s = [size |-> 0, end |-> pos + 1]
          <6>1. 0 \in Nat /\ 0 < MaxSz /\ (\A j \in 1 .. 0 : cells[pos + j] = 1) /\ cells[pos + (0 + 1)] = 0
            BY <1>2, <5>1
          <6>2. pos + (0 + 1) <= size /\ pos + (0 + 1) = pos + 1
            BY <1>2, <1>3, <3>2
          <6>3. s = [size |-> 0, end |-> pos + (0 + 1)]
            BY <1>2, <1>3, <6>1, <6>2, StringFacts
          <6> QED BY <6>2, <6>3
        <5>3. x = 0 /\ pos' = FileAt(0)
          BY <1>1, <5>1, <5>2
        <5>4. prologue.directories = dirs
          BY <2>2, <4>1, <4>3, SubSeqFull
        <5>5. 0 \in 0 .. Len(table.files)
          BY <1>2
        <5> QED BY <1>1, <1>5, <2>1, <2>3, <4>1, <5>3, <5>4, <5>5 DEF InFiles
      <4> QED BY <4>2, <4>3
    <3> QED BY <3>1, <3>2
  <2>6. at' = IF x = 0 THEN "files" ELSE "directories"
    BY <1>1
  <2> QED BY <2>5, <2>6 DEF StandsAt, BeforeNames
<1> QED
  BY <1>1, <1>7, <1>8, SameTable

LEMMA ReadFileKeeps == ASSUME PrologueInv, Prologue!ReadFile PROVE PrologueInv'
<1> DEFINE s == Prologue!StringAt(pos)
           nf == Len(table.files)
           x == s.size
<1>1. /\ TableKept /\ UNCHANGED <<table, cells, size>> /\ at = "files"
      /\ pos' = IF x = 0 THEN s.end ELSE Prologue!Clamped(s.end + 3)
      /\ end_prologue' = end_prologue
      /\ prologue' = IF x = 0 THEN prologue
                     ELSE [prologue EXCEPT !.files = Append(@, x)]
      /\ at' = IF x = 0 THEN "program" ELSE at
      /\ TypedAt(at, pos, prologue, end_prologue)
      /\ Prologue!NamesFit => StandsAt(at, pos, prologue, end_prologue)
  BY DEF PrologueInv, Prologue!ReadFile, Prologue!section
<1>2. /\ size \in Nat /\ MaxSz \in Nat \ {0} /\ size <= Len(cells) /\ cells \in Seq(Nat)
      /\ nf \in Nat /\ FileAt(nf) \in Nat /\ FileAt(nf) < Behind /\ Behind \in Nat
      /\ Behind < Len(cells) /\ Len(cells) \in Nat /\ table.pad \in Nat
  <2>1. /\ size \in Nat /\ MaxSz \in Nat \ {0} /\ size <= Len(cells) /\ cells \in Seq(Nat)
        /\ nf \in Nat /\ FileAt(nf) \in Nat /\ FileAt(nf) < Behind /\ Behind \in Nat
        /\ DefineAt(0) = Behind + table.pad /\ DefineAt(0) <= DefineAt(Len(table.defined))
        /\ Len(cells) = DefineAt(Len(table.defined)) + 1 /\ table.pad \in Nat
        /\ DefineAt(0) \in Nat /\ DefineAt(Len(table.defined)) \in Nat
    BY <1>1, SizeFacts
  <2> QED BY <2>1
<1>3. pos \in 0 .. size /\ prologue \in HeadRead
  BY <1>1 DEF TypedAt
<1>4. s.end \in pos .. size /\ x \in 0 .. MaxSz
  BY <1>2, <1>3, StringBounds
<1>5. x = 0 => prologue' = prologue /\ at' = "program" /\ pos' = s.end
  BY <1>1
<1>6. x # 0 => /\ prologue' \in HeadRead /\ prologue'.version = prologue.version
               /\ prologue'.opcode_base = prologue.opcode_base
               /\ prologue'.directories = prologue.directories
               /\ prologue'.files = Append(prologue.files, x) /\ at' = "files"
               /\ pos' = Prologue!Clamped(s.end + 3)
  <2>1. SUFFICES ASSUME x # 0
        PROVE  /\ prologue' \in HeadRead /\ prologue'.version = prologue.version
               /\ prologue'.opcode_base = prologue.opcode_base
               /\ prologue'.directories = prologue.directories
               /\ prologue'.files = Append(prologue.files, x) /\ at' = "files"
               /\ pos' = Prologue!Clamped(s.end + 3)
    OBVIOUS
  <2>3. /\ prologue' = [prologue EXCEPT !.files = Append(@, x)] /\ at' = "files"
        /\ pos' = Prologue!Clamped(s.end + 3)
    BY <1>1, <2>1
  <2> HIDE DEF x, s
  <2> QED BY <1>2, <1>3, <1>4, <2>3, HeadFacts
<1>7. TypedAt(at', pos', prologue', end_prologue')
  <2>1. s.end \in 0 .. size /\ s.end + 3 \in Nat
    BY SMTT(30), <1>2, <1>3, <1>4
  <2>2. pos' \in 0 .. size
    BY <1>1, <1>2, <2>1 DEF Prologue!Clamped, Prologue!Least
  <2> QED BY <1>1, <1>5, <1>6, <2>2 DEF TypedAt
<1>8. ASSUME Prologue!NamesFit PROVE StandsAt(at', pos', prologue', end_prologue')
  <2>1. \/ /\ prologue.directories = table.dirs
           /\ \E k \in 0 .. nf :
                 pos = FileAt(k) /\ prologue.files = SubSeq(Meant, 1, k) /\ end_prologue = DefineAt(0)
        \/ /\ pos = size /\ size <= FileAt(nf)
           /\ Prologue!Shortened(prologue.directories, table.dirs)
           /\ Prologue!Shortened(prologue.files, Meant)
    BY <1>1, <1>8 DEF StandsAt, InFiles
  <2>2. /\ Meant \in Seq(Nat) /\ nf <= Len(Meant) /\ Len(Meant) \in Nat
        /\ \A i \in 1 .. nf : Meant[i] = table.files[i]
        /\ SubSeq(Meant, 1, nf) = table.files
    <3>1. /\ Meant \in Seq(Nat) /\ Len(Meant) = nf + Len(table.defined) /\ Len(table.defined) \in Nat
          /\ \A i \in 1 .. nf : Meant[i] = table.files[i]
          /\ SubSeq(Meant, 1, nf) = table.files
      BY <1>1, MeantFacts
    <3>2. nf <= Len(Meant) /\ Len(Meant) \in Nat
      <4> DEFINE m == Len(Meant)
                 g == Len(table.defined)
      <4>1. m = nf + g /\ nf \in Nat /\ g \in Nat
        BY <1>2, <3>1
      <4> HIDE DEF m, g, nf
      <4>2. nf <= m /\ m \in Nat
        BY <4>1
      <4> QED BY <4>2 DEF m, nf
    <3> QED BY <3>1, <3>2
  <2>3. Prologue!Shortened(table.dirs, table.dirs)
    <3>1. table.dirs \in Seq(Nat \ {0}) /\ Len(table.dirs) \in Nat
      BY <1>1, RowFacts
    <3>2. SubSeq(table.dirs, 1, Len(table.dirs)) = table.dirs
      BY <3>1, SubSeqFull
    <3>3. Prologue!Shortened(SubSeq(table.dirs, 1, Len(table.dirs)), table.dirs)
      BY <3>1, ShortenedFacts
    <3> QED BY <3>2, <3>3
  (* At the end of the section the program is one that reads nothing. *)
  <2>4. ASSUME x = 0, pos' = size, size <= FileAt(nf) PROVE InProgram(pos', prologue')
    BY <1>2, <2>4 DEF InProgram
  <2>5. /\ x = 0 => InProgram(pos', prologue')
        /\ x # 0 => InFiles(pos', prologue', end_prologue')
    <3>1. CASE pos = size
      <4>1. s = [size |-> 0, end |-> size]
        BY <1>2, <3>1, StringNone
      <4>2. x = 0 /\ pos' = size
        BY <1>5, <4>1
      <4>3. size <= FileAt(nf)
        <5>1. CASE \E k \in 0 .. nf : pos = FileAt(k)
          BY <1>1, <1>2, <3>1, <5>1, FilesStand
        <5> QED BY <2>1, <5>1
      <4> QED BY <2>4, <4>2, <4>3
    <3>2. CASE pos # size
      <4>0. prologue.directories = table.dirs
        BY <2>1, <3>2
      <4>1. PICK k \in 0 .. nf : /\ pos = FileAt(k) /\ prologue.files = SubSeq(Meant, 1, k)
                                 /\ end_prologue = DefineAt(0)
        BY <2>1, <3>2
      <4>2. CASE k # nf
        <5> DEFINE n == table.files[k + 1]
        <5>1. k \in 0 .. nf - 1 /\ k + 1 \in 1 .. nf /\ k + 1 \in 0 .. nf
          BY <1>2, <4>2
        <5>2. /\ n \in Nat \ {0} /\ n < MaxSz /\ FileAt(k + 1) = FileAt(k) + n + 4
              /\ (\A j \in 1 .. n : cells[FileAt(k) + j] = 1) /\ cells[FileAt(k) + (n + 1)] = 0
          BY <1>1, <1>8, <5>1, FilesStand, FitFacts
        <5>3. FileAt(k + 1) <= FileAt(nf) /\ FileAt(k + 1) \in Nat /\ FileAt(k) \in Nat
          BY <1>1, <5>1, FilesStand
        <5>0. n = Meant[k + 1] /\ k \in 0 .. Len(Meant) - 1
          BY <1>2, <2>2, <5>1
        <5> HIDE DEF n
        <5>4. /\ pos + (n + 1) <= size => s = [size |-> n, end |-> pos + (n + 1)]
              /\ pos + (n + 1) > size => s = [size |-> size - pos, end |-> size]
          <6>1. n \in Nat /\ (\A j \in 1 .. n : cells[pos + j] = 1) /\ cells[pos + (n + 1)] = 0
            BY <4>1, <5>2
          <6> QED BY <1>2, <1>3, <5>2, <6>1, StringFacts
        <5>5. CASE pos + (n + 1) <= size
          <6>1. x = n /\ x # 0 /\ s.end = pos + (n + 1)
            BY <5>2, <5>4, <5>5
          <6>2. pos' = IF FileAt(k + 1) < size THEN FileAt(k + 1) ELSE size
            <7>1. pos' = Prologue!Clamped(pos + (n + 1) + 3)
              BY <1>6, <6>1
            <7>2. pos + (n + 1) + 3 = FileAt(k + 1)
              BY <4>1, <5>2, <5>3
            <7> QED BY <7>1, <7>2 DEF Prologue!Clamped, Prologue!Least
          <6>3. prologue'.files = SubSeq(Meant, 1, k + 1)
            <7>1. Append(SubSeq(Meant, 1, k), Meant[k + 1]) = SubSeq(Meant, 1, k + 1)
              BY <2>2, <5>0, AppendedPart
            <7> QED BY <1>6, <4>1, <5>0, <6>1, <7>1
          <6>4. prologue'.directories = table.dirs /\ end_prologue' = DefineAt(0)
            BY <1>1, <1>6, <4>0, <4>1, <6>1
          <6>5. CASE FileAt(k + 1) < size
            <7>1. pos' = FileAt(k + 1)
              BY <6>2, <6>5
            <7> QED BY <5>1, <6>1, <6>3, <6>4, <7>1 DEF InFiles
          <6>6. CASE ~(FileAt(k + 1) < size)
            <7>1. pos' = size /\ size <= FileAt(nf)
              BY <1>2, <5>3, <6>2, <6>6
            <7>2. Prologue!Shortened(SubSeq(Meant, 1, k + 1), Meant)
              <8>1. k + 1 \in 0 .. Len(Meant)
                BY <2>2, <5>0
              <8> QED BY <2>2, <8>1, ShortenedFacts
            <7> QED BY <2>3, <6>1, <6>3, <6>4, <7>1, <7>2 DEF InFiles
          <6> QED BY <6>5, <6>6
        <5>6. CASE pos + (n + 1) > size
          <6>1. x = size - pos /\ s.end = size /\ x # 0 /\ x \in Nat /\ x <= n
            <7>1. s = [size |-> size - pos, end |-> size]
              BY <5>4, <5>6
            <7>2. x = size - pos /\ s.end = size
              BY <7>1
            <7> HIDE DEF x
            <7> QED BY <1>2, <1>3, <3>2, <5>2, <5>6, <7>2
          <6>2. size <= FileAt(nf)
            BY SMTT(30), <1>2, <4>1, <5>2, <5>3, <5>6
          <6>3. Prologue!Shortened(prologue'.files, Meant)
            <7>2. Prologue!Shortened(Append(SubSeq(Meant, 1, k), x), Meant)
              <8>1. x \in Nat /\ x <= Meant[k + 1]
                BY <5>0, <6>1
              <8> HIDE DEF x
              <8> QED BY <2>2, <5>0, <8>1, CutFacts
            <7> QED BY <1>6, <4>1, <6>1, <7>2
          <6>4. pos' = size
            <7>1. pos' = Prologue!Clamped(size + 3)
              BY <1>6, <6>1
            <7> QED BY <1>2, <7>1 DEF Prologue!Clamped, Prologue!Least
          <6>5. prologue'.directories = table.dirs
            BY <1>6, <4>0, <6>1
          <6> QED BY <2>3, <6>1, <6>2, <6>3, <6>4, <6>5 DEF InFiles
        <5> QED BY <1>2, <1>3, <5>2, <5>5, <5>6
      <4>3. CASE k = nf
        <5>1. pos = FileAt(nf) /\ cells[pos + 1] = 0 /\ Behind = FileAt(nf) + 1
          BY <1>1, <4>1, <4>3, FilesStand
        <5>2. s = [size |-> 0, end |-> pos + 1]
          <6>1. 0 \in Nat /\ 0 < MaxSz /\ (\A j \in 1 .. 0 : cells[pos + j] = 1) /\ cells[pos + (0 + 1)] = 0
            BY <1>2, <5>1
          <6>2. pos + (0 + 1) <= size /\ pos + (0 + 1) = pos + 1
            BY <1>2, <1>3, <3>2
          <6>3. s = [size |-> 0, end |-> pos + (0 + 1)]
            BY <1>2, <1>3, <6>1, <6>2, StringFacts
          <6> QED BY <6>2, <6>3
        <5>3. x = 0 /\ pos' = Behind
          BY <1>5, <5>1, <5>2
        <5>4. prologue.files = table.files
          BY <2>2, <4>1, <4>3
        <5>5. 0 \in 0 .. table.pad /\ Behind + 0 = Behind
          BY <1>2
        <5>6. \E j \in 0 .. table.pad : pos' = Behind + j
          BY <5>3, <5>5
        <5> QED BY <1>5, <4>0, <5>3, <5>4, <5>6 DEF InProgram
      <4> QED BY <4>2, <4>3
    <3> QED BY <3>1, <3>2
  <2>6. at' = IF x = 0 THEN "program" ELSE "files"
    BY <1>1
  <2> QED BY <2>5, <2>6 DEF StandsAt, BeforeNames
<1> QED
  BY <1>1, <1>7, <1>8, SameTable

LEMMA EndTablesKeeps == ASSUME PrologueInv, Prologue!EndTables PROVE PrologueInv'
<1>1. /\ TableKept /\ UNCHANGED <<table, cells, size, pos, prologue, end_prologue>>
      /\ at \in {"directories", "files"} /\ pos >= end_prologue
      /\ at' = IF at = "directories" THEN "files" ELSE "program"
      /\ TypedAt(at, pos, prologue, end_prologue)
      /\ Prologue!NamesFit => StandsAt(at, pos, prologue, end_prologue)
  BY DEF PrologueInv, Prologue!EndTables, Prologue!section
<1>2. /\ size \in Nat /\ Len(table.dirs) \in Nat /\ Len(table.files) \in Nat
      /\ DirAt(Len(table.dirs)) \in Nat /\ DirAt(Len(table.dirs)) < FirstFile /\ FirstFile \in Nat
      /\ FirstFile <= FileAt(Len(table.files)) /\ FileAt(Len(table.files)) \in Nat
      /\ FileAt(Len(table.files)) < Behind /\ Behind \in Nat /\ table.pad \in Nat
      /\ DefineAt(0) = Behind + table.pad /\ DefineAt(0) <= DefineAt(Len(table.defined))
      /\ Len(cells) = DefineAt(Len(table.defined)) + 1
      /\ DefineAt(0) \in Nat /\ DefineAt(Len(table.defined)) \in Nat
  BY <1>1, SizeFacts
<1>3. /\ DirAt(Len(table.dirs)) < DefineAt(0) /\ FileAt(Len(table.files)) < DefineAt(0)
      /\ DirAt(Len(table.dirs)) <= FileAt(Len(table.files))
      /\ FileAt(Len(table.files)) < Len(cells)
  BY <1>2
<1>4. TypedAt(at', pos', prologue', end_prologue')
  BY <1>1 DEF TypedAt
<1>5. ASSUME Prologue!NamesFit PROVE StandsAt(at', pos', prologue', end_prologue')
  <2>1. CASE at = "directories"
    <3>1. InDirectories(pos, prologue, end_prologue)
      BY <1>1, <1>5, <2>1 DEF StandsAt
    <3>2. ASSUME NEW k \in 0 .. Len(table.dirs), pos = DirAt(k), end_prologue = DefineAt(0) PROVE FALSE
      <4>1. DirAt(k) <= DirAt(Len(table.dirs)) /\ DirAt(k) \in Nat
        BY <1>1, DirectoriesStand
      <4> QED BY <1>1, <1>2, <1>3, <3>2, <4>1
    <3>3. /\ pos = size /\ size <= DirAt(Len(table.dirs)) /\ prologue.files = <<>>
          /\ Prologue!Shortened(prologue.directories, table.dirs)
      BY <3>1, <3>2 DEF InDirectories
    <3>4. size <= FileAt(Len(table.files))
      BY <1>2, <1>3, <3>3
    <3>5. Prologue!Shortened(<<>>, Meant)
      BY <1>1, MeantFacts, ShortenedFacts
    <3>6. InFiles(pos, prologue, end_prologue)
      BY <3>3, <3>4, <3>5 DEF InFiles
    <3>7. at' = "files"
      BY <1>1, <2>1
    <3> QED BY <1>1, <3>6, <3>7 DEF StandsAt, BeforeNames
  <2>2. CASE at = "files"
    <3>1. InFiles(pos, prologue, end_prologue)
      BY <1>1, <1>5, <2>2 DEF StandsAt
    <3>2. ASSUME NEW k \in 0 .. Len(table.files), pos = FileAt(k), end_prologue = DefineAt(0) PROVE FALSE
      <4>1. FileAt(k) <= FileAt(Len(table.files)) /\ FileAt(k) \in Nat
        BY <1>1, FilesStand
      <4> QED BY <1>1, <1>2, <1>3, <3>2, <4>1
    <3>3. pos = size /\ size <= FileAt(Len(table.files))
      BY <3>1, <3>2 DEF InFiles
    <3>4. size < Len(cells)
      BY <1>2, <1>3, <3>3
    <3>5. InProgram(pos, prologue)
      BY <3>3, <3>4 DEF InProgram
    <3>6. at' = "program"
      BY <1>1, <2>2
    <3> QED BY <1>1, <3>5, <3>6 DEF StandsAt, BeforeNames
  <2> QED BY <1>1, <2>1, <2>2
<1> QED
  BY <1>1, <1>4, <1>5, SameTable

(* A program that has read the section, or the table, to its end. *)
LEMMA EndProgramKeeps == ASSUME PrologueInv, Prologue!EndProgram PROVE PrologueInv'
<1>1. /\ TableKept /\ UNCHANGED <<table, cells, size, pos, prologue, end_prologue>>
      /\ at = "program" /\ pos >= Len(cells) /\ at' = "done"
      /\ TypedAt(at, pos, prologue, end_prologue)
      /\ Prologue!NamesFit => StandsAt(at, pos, prologue, end_prologue)
  BY DEF PrologueInv, Prologue!EndProgram, Prologue!section, Prologue!end_offset
<1>2. /\ size \in Nat /\ Len(cells) \in Nat /\ Len(table.defined) \in Nat
      /\ Behind \in Nat /\ table.pad \in Nat
      /\ DefineAt(0) = Behind + table.pad /\ DefineAt(0) <= DefineAt(Len(table.defined))
      /\ Len(cells) = DefineAt(Len(table.defined)) + 1
      /\ DefineAt(0) \in Nat /\ DefineAt(Len(table.defined)) \in Nat
  BY <1>1, SizeFacts
<1>3. TypedAt(at', pos', prologue', end_prologue')
  BY <1>1 DEF TypedAt
<1>4. ASSUME Prologue!NamesFit PROVE StandsAt(at', pos', prologue', end_prologue')
  <2>1. InProgram(pos, prologue)
    BY <1>1, <1>4 DEF StandsAt
  <2>2. ASSUME NEW j \in 0 .. table.pad, pos = Behind + j PROVE FALSE
    BY <1>1, <1>2, <2>2
  <2>3. ASSUME NEW k \in 0 .. Len(table.defined), pos = DefineAt(k) PROVE FALSE
    <3>1. DefineAt(k) <= DefineAt(Len(table.defined)) /\ DefineAt(k) \in Nat
      BY <1>1, DefinesStand
    <3> QED BY <1>1, <1>2, <2>3, <3>1
  <2>4. ~(pos = size /\ size < Len(cells))
    BY <1>1, <1>2
  <2>5. AllRead(pos, prologue)
    BY <2>1, <2>2, <2>3, <2>4 DEF InProgram
  <2>6. AtEnd(pos, prologue)
    BY <2>5 DEF AtEnd
  <2> QED BY <1>1, <2>6 DEF StandsAt, BeforeNames
<1> QED
  BY <1>1, <1>3, <1>4, SameTable

LEMMA ReadNothingKeeps == ASSUME PrologueInv, Prologue!ReadNothing PROVE PrologueInv'
<1>1. /\ TableKept /\ UNCHANGED <<table, cells, size, at, pos, end_prologue>>
      /\ at = "program" /\ pos < Len(cells) /\ pos >= size
      /\ prologue' = prologue \/ prologue' = [prologue EXCEPT !.files = Append(@, 0)]
      /\ TypedAt(at, pos, prologue, end_prologue)
      /\ Prologue!NamesFit => StandsAt(at, pos, prologue, end_prologue)
  BY DEF PrologueInv, Prologue!ReadNothing, Prologue!section, Prologue!end_offset
<1>2. size \in Nat /\ Len(cells) \in Nat /\ MaxSz \in Nat \ {0}
  BY <1>1, SizeFacts
<1>3. /\ prologue' \in HeadRead /\ prologue'.version = prologue.version
      /\ prologue'.opcode_base = prologue.opcode_base
  <2>1. prologue \in HeadRead /\ 0 \in 0 .. MaxSz
    BY <1>1, <1>2 DEF TypedAt
  <2>2. CASE prologue' = prologue
    BY <2>1, <2>2
  <2>3. CASE prologue' = [prologue EXCEPT !.files = Append(@, 0)]
    BY <1>2, <2>1, <2>3, HeadFacts
  <2> QED BY <1>1, <2>2, <2>3
<1>4. TypedAt(at', pos', prologue', end_prologue')
  BY <1>1, <1>3 DEF TypedAt
<1>5. StandsAt(at', pos', prologue', end_prologue')
  <2>1. pos' = size /\ size < Len(cells)
    BY <1>1, <1>2 DEF TypedAt
  <2>2. InProgram(pos', prologue')
    BY <2>1 DEF InProgram
  <2> QED BY <1>1, <2>2 DEF StandsAt, BeforeNames
<1> QED
  BY <1>1, <1>4, <1>5, SameTable

(* What the next opcode of a program is. *)
LEMMA OpcodeFacts ==
    ASSUME cells \in Seq(Nat), size \in Nat, size <= Len(cells), pos \in 0 .. size - 1
    PROVE  /\ pos + 3 > size => ~Prologue!IsDefine
           /\ pos + 3 <= size =>
                 (Prologue!IsDefine <=> /\ cells[pos + 1] = 0 /\ cells[pos + 2] = 0
                                        /\ cells[pos + 3] = 3)
<1> DEFINE w == Prologue!Least(pos + 3, size)
           q == SubSeq(cells, pos + 1, w)
           d == <<0, 0, 3>>
<1>0. Prologue!IsDefine <=> q = d
  BY DEF Prologue!IsDefine, Prologue!DEFINE_FILE
<1>1. w = IF pos + 3 < size THEN pos + 3 ELSE size
  BY DEF Prologue!Least
<1> HIDE DEF w
<1>2. /\ Len(cells) \in Nat /\ \A i \in 1 .. Len(cells) : cells[i] \in Nat
      /\ pos \in Nat /\ pos < size
  OBVIOUS
<1>3. /\ w \in Nat /\ w > pos /\ w <= size /\ w <= pos + 3
      /\ pos + 3 <= size => w = pos + 3
      /\ pos + 3 > size => w = size
  BY <1>1, <1>2
<1>4. /\ q \in Seq(Nat) /\ Len(q) = w - pos
      /\ \A i \in 1 .. w - pos : q[i] = cells[pos + i]
  <2> DEFINE p1 == pos + 1
  <2>1. p1 \in Int /\ w \in Int /\ \A i \in p1 .. w : cells[i] \in Nat
    BY <1>2, <1>3
  <2>2. p1 = pos + 1
    OBVIOUS
  <2> HIDE DEF p1
  <2>3. /\ SubSeq(cells, p1, w) \in Seq(Nat)
        /\ Len(SubSeq(cells, p1, w)) = IF p1 <= w THEN w - p1 + 1 ELSE 0
        /\ \A i \in 1 .. w - p1 + 1 : SubSeq(cells, p1, w)[i] = cells[p1 + i - 1]
    BY <2>1, SubSeqProperties
  <2>4. q = SubSeq(cells, p1, w)
    BY <2>2
  <2> HIDE DEF q
  <2>5. q \in Seq(Nat) /\ Len(q) = w - pos
    BY <1>2, <1>3, <2>2, <2>3, <2>4
  <2>6. ASSUME NEW i \in 1 .. w - pos PROVE q[i] = cells[pos + i]
    <3>1. i \in 1 .. w - p1 + 1 /\ p1 + i - 1 = pos + i
      BY <1>2, <1>3, <2>2
    <3> QED BY <2>3, <2>4, <3>1
  <2> QED BY <2>5, <2>6
<1> HIDE DEF q
<1>5. /\ d \in Seq(Nat) /\ Len(d) = 3 /\ d[1] = 0 /\ d[2] = 0 /\ d[3] = 3
  OBVIOUS
<1> HIDE DEF d
<1>6. CASE pos + 3 > size
  <2>1. Len(q) # 3
    BY <1>2, <1>3, <1>4, <1>6
  <2>2. q # d
    BY <1>5, <2>1
  <2> QED BY <1>0, <1>2, <1>6, <2>2
<1>7. CASE pos + 3 <= size
  <2>1. Len(q) = 3 /\ w - pos = 3
    BY <1>2, <1>3, <1>4, <1>7
  <2>2. q[1] = cells[pos + 1] /\ q[2] = cells[pos + 2] /\ q[3] = cells[pos + 3]
    BY SMTT(30), <1>4, <2>1
  <2>3. q = d <=> q[1] = d[1] /\ q[2] = d[2] /\ q[3] = d[3]
    <3>1. \A i \in 1 .. 3 : i = 1 \/ i = 2 \/ i = 3
      OBVIOUS
    <3>2. (\A i \in 1 .. 3 : q[i] = d[i]) => q = d
      BY <1>4, <1>5, <2>1, SeqEqual
    <3> QED BY <3>1, <3>2
  <2> QED BY <1>0, <1>2, <1>5, <1>7, <2>2, <2>3
<1> QED
  BY <1>2, <1>6, <1>7

(* The opcode behind which a program in its section stands: cells behind the
   files, a definition, or the end of the table. *)
LEMMA MoreFacts ==
    ASSUME PrologueInv, at = "program", Prologue!More, Prologue!NamesFit
    PROVE  /\ prologue.directories = table.dirs
           /\ \/ /\ cells[pos + 1] = 9 /\ prologue.files = table.files
                 /\ \E j \in 0 .. table.pad - 1 : pos = Behind + j
              \/ \E k \in 0 .. Len(table.defined) - 1 :
                    pos = DefineAt(k) /\ prologue.files = SubSeq(Meant, 1, Len(table.files) + k)
              \/ cells[pos + 1] = 9 /\ pos + 1 = Len(cells) /\ prologue.files = Meant
<1> DEFINE nf == Len(table.files)
           ng == Len(table.defined)
<1>1. /\ TableKept /\ pos < size /\ pos < Len(cells) /\ InProgram(pos, prologue)
  <2>1. StandsAt(at, pos, prologue, end_prologue)
    BY DEF PrologueInv
  <2>2. InProgram(pos, prologue)
    BY <2>1 DEF StandsAt
  <2> QED BY <2>2 DEF PrologueInv, Prologue!More, Prologue!end_offset
<1>2. /\ nf \in Nat /\ ng \in Nat /\ table.pad \in Nat /\ Behind \in Nat /\ Len(cells) \in Nat /\ size \in Nat
      /\ DefineAt(0) = Behind + table.pad
  BY <1>1, SizeFacts
<1>3. /\ cells[DefineAt(ng) + 1] = 9 /\ Len(cells) = DefineAt(ng) + 1
  BY <1>1, DefinesStand
<1>4. ASSUME NEW j \in 0 .. table.pad - 1 PROVE cells[Behind + j + 1] = 9
  <2> DEFINE d == [i \in 1 .. table.pad |-> 9]
  <2>1. Holds(cells, Behind, d)
    BY <1>1, PartFacts
  <2>2. j + 1 \in 1 .. table.pad /\ Len(d) = table.pad /\ Behind + (j + 1) = Behind + j + 1
    BY <1>2
  <2>3. cells[Behind + (j + 1)] = d[j + 1]
    BY <2>1, <2>2 DEF Holds
  <2>4. d[j + 1] = 9
    BY <2>2
  <2> QED BY <2>2, <2>3, <2>4
<1>5. /\ SubSeq(Meant, 1, nf) = table.files /\ SubSeq(Meant, 1, nf + ng) = Meant
  BY <1>1, MeantFacts
<1>6. ASSUME NEW k \in 0 .. ng, prologue.directories = table.dirs, pos = DefineAt(k),
             prologue.files = SubSeq(Meant, 1, nf + k)
      PROVE  /\ prologue.directories = table.dirs
             /\ \/ \E i \in 0 .. ng - 1 : pos = DefineAt(i) /\ prologue.files = SubSeq(Meant, 1, nf + i)
                \/ cells[pos + 1] = 9 /\ pos + 1 = Len(cells) /\ prologue.files = Meant
  <2>1. CASE k = ng
    BY <1>3, <1>5, <1>6, <2>1
  <2>2. CASE k # ng
    <3>1. k \in 0 .. ng - 1
      BY <1>2, <2>2
    <3> QED BY <1>6, <3>1
  <2> QED BY <2>1, <2>2
<1>7. CASE /\ prologue.directories = table.dirs /\ prologue.files = table.files
           /\ \E j \in 0 .. table.pad : pos = Behind + j
  <2>1. PICK j \in 0 .. table.pad : pos = Behind + j
    BY <1>7
  <2>2. CASE j = table.pad
    <3>1. 0 \in 0 .. ng /\ pos = DefineAt(0) /\ nf + 0 = nf
      BY <1>2, <2>1, <2>2
    <3>2. prologue.files = SubSeq(Meant, 1, nf + 0)
      BY <1>5, <1>7, <3>1
    <3> HIDE DEF nf, ng
    <3> QED BY <1>6, <1>7, <3>1, <3>2 DEF nf, ng
  <2>3. CASE j # table.pad
    <3>1. j \in 0 .. table.pad - 1
      BY <1>2, <2>3
    <3>2. cells[pos + 1] = 9
      BY <1>4, <2>1, <3>1
    <3> QED BY <1>7, <2>1, <3>1, <3>2
  <2> QED BY <2>2, <2>3
<1>8. CASE /\ prologue.directories = table.dirs
           /\ \E k \in 0 .. ng : pos = DefineAt(k) /\ prologue.files = SubSeq(Meant, 1, nf + k)
  BY <1>6, <1>8
<1>9. ~AllRead(pos, prologue) /\ ~(pos = size)
  BY <1>1, <1>2 DEF AllRead
<1> QED
  BY <1>1, <1>7, <1>8, <1>9 DEF InProgram

LEMMA DefineFileKeeps == ASSUME PrologueInv, Prologue!DefineFile PROVE PrologueInv'
<1> DEFINE s == Prologue!StringAt(pos + 3)
           nf == Len(table.files)
           ng == Len(table.defined)
           x == s.size
<1>1. /\ TableKept /\ UNCHANGED <<table, cells, size>> /\ at = "program" /\ at' = at
      /\ Prologue!More /\ Prologue!IsDefine
      /\ pos' = Prologue!Clamped(s.end + 3) /\ end_prologue' = end_prologue
      /\ prologue' = [prologue EXCEPT !.files = Append(@, x)]
      /\ TypedAt(at, pos, prologue, end_prologue)
  BY DEF PrologueInv, Prologue!DefineFile, Prologue!section
<1>2. /\ size \in Nat /\ MaxSz \in Nat \ {0} /\ size <= Len(cells) /\ cells \in Seq(Nat)
      /\ nf \in Nat /\ ng \in Nat /\ Len(cells) \in Nat
  BY <1>1, SizeFacts
<1>3. pos \in 0 .. size - 1 /\ pos \in Nat /\ prologue \in HeadRead
  BY <1>1, <1>2 DEF TypedAt, Prologue!More
<1>4. pos + 3 <= size /\ cells[pos + 1] = 0
  BY <1>1, <1>2, <1>3, OpcodeFacts
<1>5. pos + 3 \in 0 .. size
  BY <1>3, <1>4
<1>6. s.end \in pos + 3 .. size /\ x \in 0 .. MaxSz
  BY <1>2, <1>5, StringBounds
<1>7. /\ prologue' \in HeadRead /\ prologue'.version = prologue.version
      /\ prologue'.opcode_base = prologue.opcode_base
      /\ prologue'.directories = prologue.directories
      /\ prologue'.files = Append(prologue.files, x)
  <2> HIDE DEF x, s
  <2> QED BY <1>1, <1>2, <1>3, <1>6, HeadFacts
<1>8. TypedAt(at', pos', prologue', end_prologue')
  <2>1. s.end \in 0 .. size /\ s.end + 3 \in Nat
    BY SMTT(30), <1>2, <1>3, <1>6
  <2>2. pos' \in 0 .. size
    BY <1>1, <1>2, <2>1 DEF Prologue!Clamped, Prologue!Least
  <2> QED BY <1>1, <1>7, <2>2 DEF TypedAt
<1>9. ASSUME Prologue!NamesFit PROVE StandsAt(at', pos', prologue', end_prologue')
  <2>1. /\ prologue.directories = table.dirs
        /\ \E k \in 0 .. ng - 1 : pos = DefineAt(k) /\ prologue.files = SubSeq(Meant, 1, nf + k)
    BY <1>1, <1>4, <1>9, MoreFacts
  <2>2. PICK k \in 0 .. ng - 1 : pos = DefineAt(k) /\ prologue.files = SubSeq(Meant, 1, nf + k)
    BY <2>1
  <2> DEFINE n == table.defined[k + 1]
  <2>3. k + 1 \in 1 .. ng /\ k + 1 \in 0 .. ng /\ ng \in 0 .. ng
    BY <1>2
  <2>4. /\ n \in Nat /\ n < MaxSz /\ DefineAt(k + 1) = DefineAt(k) + n + 7
        /\ (\A j \in 1 .. n : cells[DefineAt(k) + 3 + j] = 1) /\ cells[DefineAt(k) + 3 + (n + 1)] = 0
        /\ DefineAt(k + 1) <= DefineAt(ng) /\ DefineAt(k + 1) \in Nat /\ DefineAt(ng) \in Nat
        /\ Len(cells) = DefineAt(ng) + 1
    BY <1>1, <1>9, <2>3, DefinesStand, FitFacts
  <2>5. /\ n = Meant[nf + k + 1] /\ nf + k \in 0 .. Len(Meant) - 1 /\ Meant \in Seq(Nat)
        /\ nf + k + 1 = nf + (k + 1)
    <3>1. /\ Len(Meant) = nf + ng /\ Meant[nf + (k + 1)] = n /\ Meant \in Seq(Nat)
      BY <1>1, <2>3, MeantFacts
    <3>2. nf + k + 1 = nf + (k + 1)
      <4> HIDE DEF nf, ng
      <4> QED BY <1>2
    <3> DEFINE m == Len(Meant)
    <3>3. m = nf + ng
      BY <3>1
    <3> HIDE DEF m, nf, ng
    <3>4. nf + k \in 0 .. m - 1
      BY <1>2, <3>3
    <3> QED BY <3>1, <3>2, <3>4 DEF m
  <2> HIDE DEF n
  <2>6. /\ pos + 3 + (n + 1) <= size => s = [size |-> n, end |-> pos + 3 + (n + 1)]
        /\ pos + 3 + (n + 1) > size => s = [size |-> size - (pos + 3), end |-> size]
    <3> DEFINE p == pos + 3
    <3>1. n \in Nat /\ n < MaxSz /\ (\A j \in 1 .. n : cells[p + j] = 1) /\ cells[p + (n + 1)] = 0
      BY <2>2, <2>4
    <3>2. p \in 0 .. size /\ s = Prologue!StringAt(p)
      BY <1>5
    <3> HIDE DEF p, s
    <3>3. /\ p + (n + 1) <= size => s = [size |-> n, end |-> p + (n + 1)]
          /\ p + (n + 1) > size => s = [size |-> size - p, end |-> size]
      BY <1>2, <3>1, <3>2, StringFacts
    <3> QED BY <3>3 DEF p
  <2>7. CASE pos + 3 + (n + 1) <= size
    <3>1. x = n /\ s.end = pos + 3 + (n + 1)
      BY <2>6, <2>7
    <3>2. pos' = IF DefineAt(k + 1) < size THEN DefineAt(k + 1) ELSE size
      <4>1. pos + 3 + (n + 1) + 3 = DefineAt(k + 1)
        BY <1>3, <2>2, <2>4
      <4>2. pos' = Prologue!Clamped(pos + 3 + (n + 1) + 3)
        BY <1>1, <3>1
      <4> QED BY <4>1, <4>2 DEF Prologue!Clamped, Prologue!Least
    <3>3. prologue'.files = SubSeq(Meant, 1, nf + (k + 1))
      <4>1. Append(SubSeq(Meant, 1, nf + k), Meant[nf + k + 1]) = SubSeq(Meant, 1, nf + k + 1)
        BY <2>5, AppendedPart
      <4> QED BY <1>7, <2>2, <2>5, <3>1, <4>1
    <3>4. CASE DefineAt(k + 1) < size
      <4>1. pos' = DefineAt(k + 1) /\ prologue'.directories = table.dirs
        BY <1>7, <2>1, <3>2, <3>4
      <4>2. InProgram(pos', prologue')
        BY <2>3, <3>3, <4>1 DEF InProgram
      <4> QED BY <1>1, <4>2 DEF StandsAt, BeforeNames
    <3>5. CASE ~(DefineAt(k + 1) < size)
      <4>1. pos' = size /\ size < Len(cells)
        BY <1>2, <2>4, <3>2, <3>5
      <4>2. InProgram(pos', prologue')
        BY <4>1 DEF InProgram
      <4> QED BY <1>1, <4>2 DEF StandsAt, BeforeNames
    <3> QED BY <3>4, <3>5
  <2>8. CASE pos + 3 + (n + 1) > size
    <3>1. s.end = size
      BY <2>6, <2>8
    <3>2. pos' = size
      <4>1. pos' = Prologue!Clamped(size + 3)
        BY <1>1, <3>1
      <4> QED BY <1>2, <4>1 DEF Prologue!Clamped, Prologue!Least
    <3>3. size < Len(cells)
      <4> DEFINE a == DefineAt(k)
                 b == DefineAt(k + 1)
                 c == DefineAt(ng)
                 l == Len(cells)
      <4>1. /\ b = a + n + 7 /\ b <= c /\ l = c + 1 /\ pos = a /\ pos + 3 + (n + 1) > size
            /\ pos \in Nat /\ n \in Nat /\ size \in Nat /\ b \in Nat /\ c \in Nat
        BY <1>2, <1>3, <2>2, <2>4, <2>8
      <4> HIDE DEF a, b, c, l
      <4> QED BY <4>1 DEF l
    <3>4. InProgram(pos', prologue')
      BY <3>2, <3>3 DEF InProgram
    <3> QED BY <1>1, <3>4 DEF StandsAt, BeforeNames
  <2> QED BY <1>2, <1>3, <2>4, <2>7, <2>8
<1> QED
  BY <1>1, <1>8, <1>9, SameTable

LEMMA OtherOpcodeKeeps == ASSUME PrologueInv, Prologue!OtherOpcode PROVE PrologueInv'
<1> DEFINE ng == Len(table.defined)
<1>1. /\ TableKept /\ UNCHANGED <<table, cells, size, at, prologue, end_prologue>> /\ at = "program"
      /\ Prologue!More /\ ~Prologue!IsDefine
      /\ pos' = IF cells[pos + 1] = 0 /\ pos + 3 > size THEN size ELSE pos + 1
      /\ TypedAt(at, pos, prologue, end_prologue)
  BY DEF PrologueInv, Prologue!OtherOpcode, Prologue!section, Prologue!NUL
<1>2. /\ size \in Nat /\ size <= Len(cells) /\ cells \in Seq(Nat) /\ Len(cells) \in Nat
      /\ ng \in Nat /\ table.pad \in Nat /\ Behind \in Nat
  BY <1>1, SizeFacts
<1>3. pos \in 0 .. size - 1 /\ pos \in Nat
  BY <1>1, <1>2 DEF TypedAt, Prologue!More
<1>4. pos' \in 0 .. size
  BY <1>1, <1>2, <1>3
<1>5. TypedAt(at', pos', prologue', end_prologue')
  BY <1>1, <1>4 DEF TypedAt
<1>6. ASSUME Prologue!NamesFit PROVE StandsAt(at', pos', prologue', end_prologue')
  <2>1. /\ prologue.directories = table.dirs
        /\ \/ /\ cells[pos + 1] = 9 /\ prologue.files = table.files
              /\ \E j \in 0 .. table.pad - 1 : pos = Behind + j
           \/ \E k \in 0 .. ng - 1 :
                 pos = DefineAt(k) /\ prologue.files = SubSeq(Meant, 1, Len(table.files) + k)
           \/ cells[pos + 1] = 9 /\ pos + 1 = Len(cells) /\ prologue.files = Meant
    BY <1>1, <1>6, MoreFacts
  <2>2. SUFFICES InProgram(pos', prologue')
    BY <1>1 DEF StandsAt, BeforeNames
  <2>3. CASE /\ cells[pos + 1] = 9 /\ prologue.files = table.files
             /\ \E j \in 0 .. table.pad - 1 : pos = Behind + j
    <3>1. PICK j \in 0 .. table.pad - 1 : pos = Behind + j
      BY <2>3
    <3>2. pos' = pos + 1
      BY <1>1, <2>3
    <3>3. j + 1 \in 0 .. table.pad /\ pos' = Behind + (j + 1)
      BY <1>2, <3>1, <3>2
    <3> QED BY <1>1, <2>1, <2>3, <3>3 DEF InProgram
  <2>4. CASE \E k \in 0 .. ng - 1 :
                pos = DefineAt(k) /\ prologue.files = SubSeq(Meant, 1, Len(table.files) + k)
    <3>1. PICK k \in 0 .. ng - 1 : pos = DefineAt(k)
      BY <2>4
    <3>2. /\ cells[pos + 1] = 0 /\ cells[pos + 2] = 0 /\ cells[pos + 3] = 3
          /\ DefineAt(k + 1) = pos + table.defined[k + 1] + 7 /\ table.defined[k + 1] \in Nat
      BY <1>1, <3>1, DefinesStand
    <3>3. pos + 3 > size
      BY <1>1, <1>2, <1>3, <3>2, OpcodeFacts
    <3>4. pos' = size
      BY <1>1, <3>2, <3>3
    <3>5. size < Len(cells)
      <4>1. k + 1 \in 0 .. ng
        BY <1>2
      <4>2. DefineAt(k + 1) <= DefineAt(ng) /\ Len(cells) = DefineAt(ng) + 1 /\ DefineAt(k + 1) \in Nat
        BY <1>1, <4>1, DefinesStand
      <4>3. DefineAt(ng) \in Nat
        BY <1>1, SizeFacts
      <4> QED BY SMTT(30), <1>2, <1>3, <3>2, <3>3, <4>2, <4>3
    <3> QED BY <3>4, <3>5 DEF InProgram
  <2>5. CASE cells[pos + 1] = 9 /\ pos + 1 = Len(cells) /\ prologue.files = Meant
    <3>1. pos' = Len(cells)
      BY <1>1, <2>5
    <3>2. AllRead(pos', prologue')
      BY <1>1, <2>1, <2>5, <3>1 DEF AllRead
    <3> QED BY <3>2 DEF InProgram
  <2> QED BY <2>1, <2>3, <2>4, <2>5
<1> QED
  BY <1>1, <1>5, <1>6, SameTable

LEMMA PrologueNextKeeps ==
    ASSUME PrologueInv, Prologue!Next \/ UNCHANGED Prologue!vars PROVE PrologueInv'
<1>1. CASE UNCHANGED Prologue!vars
  <2>1. /\ UNCHANGED <<table, cells, size>> /\ at' = at /\ pos' = pos /\ prologue' = prologue
        /\ end_prologue' = end_prologue
    BY <1>1 DEF Prologue!vars, Prologue!section
  <2>2. /\ TableKept /\ TypedAt(at, pos, prologue, end_prologue)
        /\ Prologue!NamesFit => StandsAt(at, pos, prologue, end_prologue)
    BY DEF PrologueInv
  <2>3. TypedAt(at', pos', prologue', end_prologue')
    BY <2>1, <2>2
  <2>4. Prologue!NamesFit => StandsAt(at', pos', prologue', end_prologue')
    BY <2>1, <2>2
  <2> QED BY <2>1, <2>2, <2>3, <2>4, SameTable
<1> QED
  BY <1>1, ReadHeadKeeps, ReadLengthsKeeps, ReadDirectoryKeeps, ReadFileKeeps, EndTablesKeeps,
     DefineFileKeeps, OtherOpcodeKeeps, EndProgramKeeps, ReadNothingKeeps DEF Prologue!Next

(* What it means for directories and files. *)
LEMMA PrologueInvImplies ==
    ASSUME PrologueInv
    PROVE  Prologue!TypeOK /\ Prologue!FilesAreTheProducers /\ Prologue!CutIsPrefix
<1> DEFINE h == prologue
           nd == Len(table.dirs)
           nf == Len(table.files)
           ng == Len(table.defined)
           Cut == Prologue!Shortened(h.directories, table.dirs) /\ Prologue!Shortened(h.files, Meant)
<1>1. /\ TableKept /\ TypedAt(at, pos, h, end_prologue)
      /\ Prologue!NamesFit => StandsAt(at, pos, h, end_prologue)
  BY DEF PrologueInv
<1>2. /\ nd \in Nat /\ nf \in Nat /\ ng \in Nat /\ size \in Nat /\ Len(cells) \in Nat
      /\ Behind \in Nat /\ table.pad \in Nat /\ FileAt(nf) \in Nat /\ FileAt(nf) < Behind
      /\ DefineAt(0) = Behind + table.pad /\ DefineAt(0) <= DefineAt(ng)
      /\ Len(cells) = DefineAt(ng) + 1 /\ DefineAt(ng) \in Nat
  BY <1>1, SizeFacts
<1>3. Prologue!TypeOK
  <2>1. table \in Tables
    BY <1>1 DEF TableKept
  <2>2. h.directories \in Seq(1 .. MaxSz) /\ h.files \in Seq(0 .. MaxSz)
    BY <1>1 DEF TypedAt, HeadRead
  <2> QED BY <1>1, <2>1, <2>2 DEF TypedAt, Prologue!TypeOK
<1>4. /\ Meant \in Seq(Nat) /\ Len(Meant) = nf + ng
      /\ SubSeq(Meant, 1, nf) = table.files /\ SubSeq(Meant, 1, nf + ng) = Meant
  BY <1>1, MeantFacts
<1>5. /\ \A k \in 0 .. nf + ng : Prologue!Shortened(SubSeq(Meant, 1, k), Meant)
      /\ Prologue!Shortened(<<>>, Meant)
  BY <1>4, ShortenedFacts
<1>6. /\ \A k \in 0 .. nd : Prologue!Shortened(SubSeq(table.dirs, 1, k), table.dirs)
      /\ Prologue!Shortened(<<>>, table.dirs) /\ SubSeq(table.dirs, 1, nd) = table.dirs
  <2>1. table.dirs \in Seq(Nat \ {0})
    BY <1>1, RowFacts
  <2> QED BY <2>1, ShortenedFacts, SubSeqFull
<1>7. Prologue!Shortened(table.dirs, table.dirs)
  <2>1. nd \in 0 .. nd
    BY <1>2
  <2> QED BY <1>6, <2>1
<1>8. ASSUME NEW k \in 0 .. nf + ng, h.directories = table.dirs, h.files = SubSeq(Meant, 1, k) PROVE Cut
  BY <1>5, <1>7, <1>8
<1>9. nf \in 0 .. nf + ng /\ nf + ng \in 0 .. nf + ng
  <2> HIDE DEF nf, ng
  <2> QED BY <1>2
<1>10. ASSUME Prologue!NamesFit, at = "program" => pos < size PROVE Cut
  <2>1. StandsAt(at, pos, h, end_prologue) /\ h.files = h.files
    BY <1>1, <1>10
  <2>2. CASE h.directories = <<>> /\ h.files = <<>>
    BY <1>5, <1>6, <2>2
  <2>3. ASSUME AllRead(pos, h) PROVE Cut
    <3>1. h.directories = table.dirs /\ h.files = SubSeq(Meant, 1, nf + ng)
      BY <1>4, <2>3 DEF AllRead
    <3> QED BY <1>8, <1>9, <3>1
  <2>4. CASE at \in {"idle", "lengths"}
    BY <2>1, <2>2, <2>4 DEF StandsAt, BeforeNames
  <2>5. CASE at = "directories"
    <3>1. InDirectories(pos, h, end_prologue)
      BY <2>1, <2>5 DEF StandsAt
    <3> QED BY <1>5, <1>6, <3>1 DEF InDirectories
  <2>6. CASE at = "files"
    <3>1. InFiles(pos, h, end_prologue)
      BY <2>1, <2>6 DEF StandsAt
    <3>2. CASE h.directories = table.dirs /\ \E k \in 0 .. nf : h.files = SubSeq(Meant, 1, k)
      <4>1. PICK k \in 0 .. nf : h.files = SubSeq(Meant, 1, k)
        BY <3>2
      <4>2. k \in 0 .. nf + ng
        <5> HIDE DEF nf, ng
        <5> QED BY <1>2
      <4> QED BY <1>8, <3>2, <4>1, <4>2
    <3> QED BY <3>1, <3>2 DEF InFiles
  <2>7. CASE at = "program"
    <3>1. InProgram(pos, h)
      BY <2>1, <2>7 DEF StandsAt
    <3>2. CASE h.directories = table.dirs /\ h.files = table.files
      BY <1>4, <1>8, <1>9, <3>2
    <3>3. CASE h.directories = table.dirs /\ \E k \in 0 .. ng : h.files = SubSeq(Meant, 1, nf + k)
      <4>1. PICK k \in 0 .. ng : h.files = SubSeq(Meant, 1, nf + k)
        BY <3>3
      <4>2. nf + k \in 0 .. nf + ng
        <5> HIDE DEF nf, ng
        <5> QED BY <1>2
      <4> QED BY <1>8, <3>3, <4>1, <4>2
    <3>4. ~(pos = size)
      BY <1>2, <1>10, <2>7
    <3> QED BY <2>3, <3>1, <3>2, <3>3, <3>4 DEF InProgram
  <2>8. CASE at = "done"
    <3>1. AtEnd(pos, h)
      BY <2>1, <2>8 DEF StandsAt
    <3> QED BY <2>2, <2>3, <3>1 DEF AtEnd
  <2> QED BY <1>1, <2>4, <2>5, <2>6, <2>7, <2>8 DEF TypedAt
<1>11. Prologue!CutIsPrefix
  <2>1. Meant = table.files \o table.defined
    BY DEF Meant
  <2> QED BY <1>10, <2>1 DEF Prologue!CutIsPrefix
<1>12. ASSUME at = "done", Prologue!IsWhole, Prologue!NamesFit, table.version \in 2 .. 4
       PROVE  h.directories = table.dirs /\ h.files = table.files \o table.defined
  <2>1. AtEnd(pos, h)
    BY <1>1, <1>12 DEF StandsAt
  <2>2. size = Len(cells)
    BY <1>12 DEF Prologue!IsWhole, Prologue!end_offset
  <2>3. ~(size < 2)
    BY <1>2, <2>2
  <2>4. AllRead(pos, h)
    BY <1>12, <2>1, <2>3 DEF AtEnd
  <2> QED BY <2>4 DEF AllRead, Meant
<1>13. Prologue!FilesAreTheProducers
  BY <1>12 DEF Prologue!FilesAreTheProducers
<1> QED
  BY <1>3, <1>11, <1>13

-------------------------------------------------------------------------------
(* What holds of the part that runs. *)
IInv ==
    /\ part = "ranges" => RangesInv
    /\ part = "lines" => LinesInv
    /\ part = "abbrevs" => AbbrevInv
    /\ part = "prologue" => PrologueInv

(* Tables, in whatever order they are asked, hold what their sections say and
   are ordered whenever they are searched; a parse of declarations or of a
   prologue stands where the part of the producer's that is read ends. *)
THEOREM TablesInvariant == Spec => []IInv
<1>1. Init => IInv
  BY InitHolds, AbbrevInitHolds, PrologueInitHolds DEF Init, IInv
<1>2. IInv /\ [Next]_all => IInv'
  <2>1. ASSUME [Next]_all
        PROVE  /\ part' = part
               /\ part = "ranges" => Ranges!Next \/ UNCHANGED all
               /\ part = "lines" => Lines!Call \/ Lines!Run \/ UNCHANGED all
               /\ part = "abbrevs" => Abbrevs!Next \/ UNCHANGED all
               /\ part = "prologue" => Prologue!Next \/ UNCHANGED all
    <3>1. CASE RangesAsked
      BY <3>1 DEF RangesAsked
    <3>2. CASE Asked
      BY <3>2 DEF Asked
    <3>3. CASE Parse
      BY <3>3 DEF Parse, Ran, AbbrevsRead, PrologueRead
    <3>4. CASE UNCHANGED all
      BY <3>4 DEF all
    <3> QED BY <2>1, <3>1, <3>2, <3>3, <3>4 DEF Next
  <2>2. ASSUME IInv, [Next]_all, part = "ranges" PROVE RangesInv'
    BY <2>1, <2>2, RangesNextKeeps, StutterKeeps DEF IInv
  <2>3. ASSUME IInv, [Next]_all, part = "lines" PROVE LinesInv'
    BY <2>1, <2>3, LinesNextKeeps, StutterKeeps DEF IInv
  <2>4. ASSUME IInv, [Next]_all, part = "abbrevs" PROVE AbbrevInv'
    BY <2>1, <2>4, AbbrevNextKeeps DEF IInv
  <2>5. ASSUME IInv, [Next]_all, part = "prologue" PROVE PrologueInv'
    <3>1. UNCHANGED all => UNCHANGED Prologue!vars
      BY DEF all, Prologue!vars, Prologue!section
    <3> QED BY <2>1, <2>5, <3>1, PrologueNextKeeps DEF IInv
  <2> QED BY <2>1, <2>2, <2>3, <2>4, <2>5 DEF IInv
<1> QED
  BY <1>1, <1>2, PTL DEF Spec

(* For every section and any calls in any order: whether an address is in the
   ranges at an offset is what the section says there, the table of an offset
   is the one the section has, none is kept twice, and the table found for an
   address is the one whose rows span it.  About CDWARFRangeTable::isInRange,
   CDWARFDebugLine::extractLineTableByOffset, parse and getLineTable. *)
THEOREM KeptTablesAlwaysAnswer == Spec => []KeptTablesAnswer
<1>1. IInv => KeptTablesAnswer
  BY RangesInvImplies, LinesInvImplies DEF IInv, KeptTablesAnswer
<1> QED
  BY <1>1, TablesInvariant, PTL

(* For every set of declarations, every prologue, and every place a section may
   be cut at: the declaration kept for a code is the producer's first one of
   it, whole unless the cut is inside it, and the directories and files are the
   producer's in their order, with the last name cut at most.  About
   CDWARFAbbreviationTable::parse, CDWARFAbbreviationDeclaration::parse,
   CDWARFPrologue::ParsePrologue and DW_LNE_define_file. *)
THEOREM ProducersAlwaysRead == Spec => []ProducersAreRead
<1>1. IInv => ProducersAreRead
  BY AbbrevInvImplies, PrologueInvImplies DEF IInv, ProducersAreRead
<1> QED
  BY <1>1, TablesInvariant, PTL

(* The state of every parser keeps its type.  About the members of
   CDWARFRangeTable, CDWARFDebugLine, CDWARFAbbreviationTable and
   CDWARFPrologue. *)
THEOREM TypeCorrect == Spec => []TypeOK
<1>1. ASSUME RangesInv PROVE Ranges!TypeOK
  <2>1. section \in RangeSections /\ table \in Seq(RangeSet) /\ inRange \in BOOLEAN
    BY <1>1 DEF RangesInv, ListsKept, RangeAnswered
  <2>2. query = NULL \/ query.address \in Ranges!Address
    BY <1>1 DEF RangesInv, RangeAnswered
  <2>3. ASSUME NEW i \in DOMAIN table
        PROVE  /\ table[i].Offset \in 0 .. Len(section)
               /\ table[i].Collection \in Seq((Ranges!Address \X Ranges!Address) \ {Ranges!EndOfList})
    <3> DEFINE p == table[i].Offset
               list == Ranges!ListFrom(p)
               Entries == (Ranges!Address \X Ranges!Address) \ {Ranges!EndOfList}
    <3>1. Len(section) \in Nat
      BY <2>1, RangeFacts
    <3>2. table[i] \in RangeSet /\ p <= Len(section) /\ table[i] = Lists[p]
      BY <1>1, <2>1 DEF RangesInv, ListsKept
    <3>3. p \in 0 .. Len(section)
      BY <3>1, <3>2 DEF RangeSet
    <3> HIDE DEF p
    <3>4. table[i].Collection = list
      BY <3>2, <3>3 DEF Lists, Ranges!SetRead
    <3> HIDE DEF list
    <3>5. PICK n \in Nat :
            /\ Len(list) = n /\ list \in Seq(Ranges!Address \X Ranges!Address)
            /\ \A k \in 1 .. n : list[k] = section[p + k] /\ section[p + k] # Ranges!EndOfList
      BY <2>1, <3>3, ListFacts DEF list
    <3>6. \A k \in 1 .. n : list[k] \in Entries
      BY <3>5
    <3>7. list \in [1 .. n -> Entries]
      <4>1. list = [k \in 1 .. n |-> list[k]]
        BY <3>5
      <4> HIDE DEF Entries
      <4> QED BY <3>6, <4>1
    <3>8. list \in Seq(Entries)
      BY <3>7, SeqDef
    <3> QED BY <3>3, <3>4, <3>8 DEF p
  <2> QED BY <2>1, <2>2, <2>3 DEF Ranges!TypeOK
<1>2. ASSUME LinesInv PROVE Lines!TypeOK
  <2>1. TablesKept /\ CallStands /\ answer \in Answers
    BY <1>2 DEF LinesInv, LineAnswered
  <2>2. section \in LineSections /\ table \in Seq(TableNode) /\ Len(section) \in Nat
    BY <2>1, LineFacts DEF TablesKept
  <2> DEFINE Node == [Offset : 0 .. Lines!Size, min : Nat, max : Nat]
  <2>3. \A o \in Starts : Nodes[o] \in TableNode => Nodes[o] \in Node
    BY <2>2 DEF Starts, Nodes, TableNode, Lines!Accepted, Lines!Size, Lines!Read
  <2>4. table \in Seq(Node)
    <3>1. ASSUME NEW i \in 1 .. Len(table) PROVE table[i] \in Node
      <4>1. table[i] \in TableNode /\ table[i].Offset \in Starts /\ table[i] = Nodes[table[i].Offset]
        BY <2>1, <2>2 DEF TablesKept
      <4> HIDE DEF Node
      <4> QED BY <2>3, <4>1
    <3>2. table = [i \in 1 .. Len(table) |-> table[i]] /\ Len(table) \in Nat
      BY <2>2
    <3> HIDE DEF Node
    <3>3. table \in [1 .. Len(table) -> Node]
      BY <3>1, <3>2
    <3> QED BY <3>2, <3>3, SeqDef
  <2>5. answer.found = NULL \/ answer.found \in Node
    <3>1. CASE answer.found = NULL
      BY <3>1
    <3>2. CASE at = "idle" /\ answer.offset # NULL
      <4>1. answer.found = IF answer.offset \in Starts THEN Nodes[answer.offset] ELSE NULL
        BY <1>2, <3>2 DEF LinesInv, LineAnswered
      <4>2. answer.found \in TableNode \cup {NULL}
        BY <2>1 DEF Answers
      <4> HIDE DEF Node
      <4> QED BY <2>3, <4>1, <4>2
    <3>3. CASE answer.address # NULL
      <4>1. PICK i \in 1 .. Len(table) + 1 :
              answer.found = IF i <= Len(table) THEN table[i] ELSE NULL
        BY <1>2, <3>3 DEF LinesInv, LineAnswered
      <4> HIDE DEF Node
      <4> QED BY <2>4, <4>1
    <3>4. CASE at # "idle"
      <4>1. whole \in BOOLEAN /\ (whole => answer = Lines!NoAnswer) /\ (~whole => answer.found = NULL)
        BY <2>1, <3>4 DEF CallStands
      <4>2. Lines!NoAnswer.found = NULL
        BY DEF Lines!NoAnswer
      <4> QED BY <4>1, <4>2
    <3>5. CASE answer.offset = NULL /\ answer.address = NULL
      BY <1>2, <3>5 DEF LinesInv, LineAnswered
    <3> QED BY <3>1, <3>2, <3>3, <3>4, <3>5
  <2> QED BY <2>1, <2>2, <2>4, <2>5 DEF CallStands, Lines!TypeOK, Lines!Size
<1>3. IInv => TypeOK
  BY <1>1, <1>2, AbbrevInvImplies, PrologueInvImplies DEF IInv, TypeOK
<1> QED
  BY <1>3, TablesInvariant, PTL
===============================================================================
