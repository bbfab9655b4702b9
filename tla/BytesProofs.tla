------------------------------ MODULE BytesProofs ------------------------------
(***************************************************************************)
(* Proofs about the four parts that MCBytes composes: a stream in memory   *)
(* is a tape of bytes on which numbers, texts and copies are found as they *)
(* were put; LEB128 numbers are exact as far as they fit an int; the two   *)
(* readers of an attribute stay in step; and a value holds a string        *)
(* exactly while its form says so.                                         *)
(***************************************************************************)
EXTENDS MCBytes, FiniteSetTheorems, WellFoundedInduction, SequenceTheorems, TLAPS

-------------------------------------------------------------------------------
(* A set of natural numbers has a least one. *)
LEMMA LeastNatural ==
    ASSUME NEW T, T \subseteq Nat, T # {}
    PROVE  \E x \in T : \A y \in T : x <= y
<1> DEFINE R == {p \in Nat \X Nat : p[1] < p[2]}
<1>1. OpToRel(<, Nat) = R
  BY Zenon DEF OpToRel
<1>2. IsWellFoundedOn(R, Nat)
  BY NatLessThanWellFounded, <1>1, Zenon
<1>3. PICK x \in T : \A y \in T : <<y, x>> \notin R
  BY WFMin, <1>2
<1>4. ASSUME NEW y \in T, y < x PROVE FALSE
  <2>1. <<y, x>> \in R
    BY <1>4
  <2> QED BY <1>3, <2>1
<1> QED
  BY <1>4

(* Induction, for a set of natural numbers. *)
LEMMA Induction ==
    ASSUME NEW B, 0 \in B, \A n \in Nat : n \in B => n + 1 \in B
    PROVE  \A n \in Nat : n \in B
<1> DEFINE Without == {n \in Nat : n \notin B}
<1>1. SUFFICES ASSUME Without # {} PROVE FALSE
  OBVIOUS
<1>2. PICK n \in Without : \A m \in Without : n <= m
  BY <1>1, LeastNatural
<1>3. n \in Nat /\ n # 0
  BY <1>2
<1>4. n - 1 \in Nat /\ n - 1 \notin Without
  BY <1>2, <1>3
<1> QED
  BY <1>2, <1>3, <1>4

(* Sums of the first elements: what the recursive functions of the models
   are. *)
SumAt(a, f, i) == IF i = 0 THEN 0 ELSE f[i - 1] + a[i]

LEMMA SumExists ==
    ASSUME NEW a, NEW n \in Nat
    PROVE  \E f : f = [i \in 0 .. n |-> SumAt(a, f, i)]
<1> DEFINE Has(m) == \E f : f = [i \in 0 .. m |-> SumAt(a, f, i)]
           B == {m \in Nat : Has(m)}
<1>1. Has(0)
  <2>1. PICK f : f = [i \in 0 .. 0 |-> 0]
    OBVIOUS
  <2>2. [i \in 0 .. 0 |-> 0] = [i \in 0 .. 0 |-> SumAt(a, f, i)]
    BY DEF SumAt
  <2> QED BY <2>1, <2>2
<1>2. ASSUME NEW m \in Nat, Has(m) PROVE Has(m + 1)
  <2>1. PICK f : f = [i \in 0 .. m |-> SumAt(a, f, i)]
    BY <1>2
  <2> DEFINE g == [i \in 0 .. m + 1 |-> IF i = m + 1 THEN SumAt(a, f, i) ELSE f[i]]
  <2>2. \A i \in 0 .. m + 1 : i # 0 => g[i - 1] = f[i - 1]
    OBVIOUS
  <2>3. \A i \in 0 .. m + 1 : SumAt(a, g, i) = SumAt(a, f, i)
    BY <2>2 DEF SumAt
  <2>4. \A i \in 0 .. m : f[i] = SumAt(a, f, i)
    BY <2>1
  <2>5. \A i \in 0 .. m + 1 : g[i] = SumAt(a, g, i)
    BY <2>3, <2>4
  <2>6. g = [i \in 0 .. m + 1 |-> g[i]]
    OBVIOUS
  <2>7. g = [i \in 0 .. m + 1 |-> SumAt(a, g, i)]
    BY <2>5, <2>6
  <2> QED BY <2>7
<1> HIDE DEF Has
<1>3. 0 \in B /\ \A m \in Nat : m \in B => m + 1 \in B
  BY <1>1, <1>2
<1> HIDE DEF B
<1>4. \A m \in Nat : m \in B
  BY <1>3, Induction
<1> QED
  BY <1>4 DEF B, Has

LEMMA SumFacts ==
    ASSUME NEW a, NEW n \in Nat, \A i \in 1 .. n : a[i] \in Nat,
           NEW f, f = [i \in 0 .. n |-> SumAt(a, f, i)]
    PROVE  /\ f[0] = 0 /\ \A i \in 0 .. n : f[i] \in Nat
           /\ \A i \in 1 .. n : f[i] = f[i - 1] + a[i]
<1>1. \A i \in 0 .. n : f[i] = SumAt(a, f, i)
  OBVIOUS
<1>2. f[0] = 0 /\ \A i \in 1 .. n : f[i] = f[i - 1] + a[i]
  BY <1>1 DEF SumAt
<1> DEFINE B == {m \in Nat : m <= n => f[m] \in Nat}
<1>3. 0 \in B
  BY <1>2
<1>4. ASSUME NEW m \in Nat, m \in B PROVE m + 1 \in B
  <2>1. ASSUME m + 1 <= n PROVE f[m + 1] \in Nat
    <3>1. m + 1 \in 1 .. n /\ m <= n /\ (m + 1) - 1 = m
      BY <2>1
    <3>2. f[m] \in Nat /\ a[m + 1] \in Nat
      BY <1>4, <3>1
    <3>3. f[m + 1] = f[m] + a[m + 1]
      BY <1>2, <3>1
    <3> QED BY <3>2, <3>3
  <2> QED BY <2>1
<1> HIDE DEF B
<1>5. \A m \in Nat : m \in B
  BY <1>3, <1>4, Induction
<1>6. ASSUME NEW i \in 0 .. n PROVE f[i] \in Nat
  <2>1. i \in Nat /\ i <= n
    OBVIOUS
  <2> QED BY <1>5, <2>1 DEF B
<1> QED
  BY <1>2, <1>6

-------------------------------------------------------------------------------
(* Values of attributes. *)
HeldInv == Held!TypeOK /\ Held!StringsAreTyped /\ Held!NoDamage

LEMMA HeldInit == ASSUME Held!Init PROVE HeldInv
  BY DEF Held!Init, HeldInv, Held!TypeOK, Held!StringsAreTyped, Held!NoDamage

LEMMA HeldStep == ASSUME HeldInv, [Held!Next]_(Held!vars) PROVE HeldInv'
<1> DEFINE Typed == /\ exists \subseteq Slots /\ string \subseteq Slots
                    /\ m_type \in [Slots -> Forms \cup {"Invalid"}]
<1>1. /\ Typed /\ damaged = FALSE
      /\ \A s \in Slots : s \in string <=> s \in exists /\ Held!type(s) = "cstr"
  BY DEF HeldInv, Held!TypeOK, Held!StringsAreTyped, Held!NoDamage
<1>2. SUFFICES /\ Typed' /\ damaged' = FALSE
               /\ \A s \in Slots : s \in string' <=> s \in exists' /\ Held!type(s)' = "cstr"
  BY DEF HeldInv, Held!TypeOK, Held!StringsAreTyped, Held!NoDamage
<1>3. Held!ConvertFormToType("Invalid") = "invalid"
      /\ Held!ConvertFormToType("indirect") = "invalid"
  BY DEF Held!ConvertFormToType
<1>4. ASSUME NEW s \in Slots, NEW f \in Forms, Held!construct(s, f)
      PROVE  <1>2!1
  BY <1>1, <1>4 DEF Held!construct, Held!Installed, Held!DamagedBy, Held!type
<1>5. ASSUME NEW s \in Slots, NEW f \in Forms, Held!Follow(s, f)
      PROVE  <1>2!1
  BY <1>1, <1>3, <1>5
     DEF Held!Follow, Held!Installed, Held!Uninstalled, Held!DamagedBy, Held!type
<1>6. ASSUME NEW s \in Slots, NEW t \in Slots, Held!constructCopy(s, t)
      PROVE  <1>2!1
  BY <1>1, <1>6 DEF Held!constructCopy, Held!Installed, Held!DamagedBy, Held!type
<1>7. ASSUME NEW s \in Slots, NEW t \in Slots, Held!assign(s, t)
      PROVE  <1>2!1
  BY <1>1, <1>3, <1>7
     DEF Held!assign, Held!Installed, Held!Uninstalled, Held!DamagedBy, Held!DamagedByEnd, Held!type
<1>8. ASSUME NEW s \in Slots, Held!parse(s) PROVE <1>2!1
  BY <1>1, <1>8 DEF Held!parse, Held!type
<1>9. ASSUME NEW s \in Slots, Held!destroy(s) PROVE <1>2!1
  BY <1>1, <1>3, <1>9 DEF Held!destroy, Held!Uninstalled, Held!DamagedByEnd, Held!type
<1>10. ASSUME UNCHANGED Held!vars PROVE <1>2!1
  BY <1>1, <1>10 DEF Held!vars, Held!type
<1> QED
  BY <1>4, <1>5, <1>6, <1>7, <1>8, <1>9, <1>10 DEF Held!Next

-------------------------------------------------------------------------------
(* Readers of attributes. *)
Attrs == entry.attrs
Heads(i) == Reader!Start(i) + Attrs[i].indirect + Reader!HeadSize(Attrs[i])
IsLong(i) == Attrs[i].form = "string" /\ Attrs[i].count > StringLimit

LEMMA StartFacts ==
    ASSUME entry \in Entries, unit \in Units
    PROVE  /\ Len(Attrs) \in Nat /\ entry.cut \in Nat
           /\ \A i \in 1 .. Len(Attrs) :
                /\ Attrs[i] \in Reader!Attribute
                /\ Reader!HeadSize(Attrs[i]) \in Nat /\ Reader!BodySize(Attrs[i]) \in Nat
                /\ Reader!Start(i) \in Nat /\ Reader!Start(i + 1) \in Nat
                /\ Reader!Start(i + 1) = Reader!Start(i) + Attrs[i].indirect
                        + Reader!HeadSize(Attrs[i]) + Reader!BodySize(Attrs[i])
           /\ Reader!Start(1) = 0
<1>1. /\ entry.cut \in Nat /\ Attrs \in Seq(Reader!Attribute)
      /\ unit.addrSize \in {4, 8}
  BY FormReaderAssumption DEF Reader!FormReaderAssumption, Attrs
<1>2. Len(Attrs) \in Nat /\ \A i \in 1 .. Len(Attrs) : Attrs[i] \in Reader!Attribute
  BY <1>1
<1>3. ASSUME NEW i \in 1 .. Len(Attrs)
      PROVE  /\ Reader!HeadSize(Attrs[i]) \in Nat /\ Reader!BodySize(Attrs[i]) \in Nat
             /\ Attrs[i].indirect \in Nat
  <2>1. Attrs[i].count \in Nat /\ Attrs[i].indirect \in Nat
    BY <1>2 DEF Reader!Attribute
  <2> QED BY <1>1, <2>1 DEF Reader!HeadSize, Reader!BodySize
<1> DEFINE n == Len(Attrs)
           a == [i \in 1 .. n |-> Reader!SizeOf(Attrs[i])]
           f == CHOOSE f : f = [i \in 0 .. n |-> IF i = 0 THEN 0 ELSE f[i - 1] + Reader!SizeOf(Attrs[i])]
<1>4. \A i \in 1 .. n : a[i] \in Nat
  BY <1>3 DEF Reader!SizeOf
<1>5. f = [i \in 0 .. n |-> IF i = 0 THEN 0 ELSE f[i - 1] + Reader!SizeOf(Attrs[i])]
  <2>1. PICK g : g = [i \in 0 .. n |-> SumAt(a, g, i)]
    BY <1>2, SumExists
  <2>2. \A i \in 0 .. n : SumAt(a, g, i) = IF i = 0 THEN 0 ELSE g[i - 1] + Reader!SizeOf(Attrs[i])
    BY <1>2 DEF SumAt
  <2> HIDE DEF a
  <2>3. g = [i \in 0 .. n |-> IF i = 0 THEN 0 ELSE g[i - 1] + Reader!SizeOf(Attrs[i])]
    BY <2>1, <2>2
  <2> QED BY <2>3
<1>6. \A i : Reader!Start(i) = f[i - 1]
  BY Zenon DEF Reader!Start, Attrs
<1>7. f = [i \in 0 .. n |-> SumAt(a, f, i)]
  <2>1. \A i \in 0 .. n : SumAt(a, f, i) = IF i = 0 THEN 0 ELSE f[i - 1] + Reader!SizeOf(Attrs[i])
    BY <1>2 DEF SumAt
  <2> HIDE DEF a, f
  <2> QED BY <1>5, <2>1
<1> HIDE DEF f
<1>8. /\ f[0] = 0 /\ \A i \in 0 .. n : f[i] \in Nat
      /\ \A i \in 1 .. n : f[i] = f[i - 1] + a[i]
  BY <1>2, <1>4, <1>7, SumFacts
<1>9. ASSUME NEW i \in 1 .. n
      PROVE  /\ Reader!Start(i) \in Nat /\ Reader!Start(i + 1) \in Nat
             /\ Reader!Start(i + 1) = Reader!Start(i) + Attrs[i].indirect
                     + Reader!HeadSize(Attrs[i]) + Reader!BodySize(Attrs[i])
  <2>1. i - 1 \in 0 .. n /\ i \in 0 .. n /\ (i + 1) - 1 = i
    BY <1>2
  <2>2. f[i] = f[i - 1] + Reader!SizeOf(Attrs[i])
    BY <1>8
  <2>3. Reader!Start(i) = f[i - 1] /\ Reader!Start(i + 1) = f[i]
    BY <1>6, <2>1
  <2>4. f[i - 1] \in Nat /\ f[i] \in Nat
    BY <1>8, <2>1
  <2>5. Reader!SizeOf(Attrs[i]) = Attrs[i].indirect + Reader!HeadSize(Attrs[i]) + Reader!BodySize(Attrs[i])
    BY DEF Reader!SizeOf
  <2>6. /\ Attrs[i].indirect \in Nat /\ Reader!HeadSize(Attrs[i]) \in Nat
        /\ Reader!BodySize(Attrs[i]) \in Nat
    BY <1>3
  <2> DEFINE x == Attrs[i].indirect
             y == Reader!HeadSize(Attrs[i])
             z == Reader!BodySize(Attrs[i])
             g == f[i - 1]
             h == f[i]
  <2>7. x \in Nat /\ y \in Nat /\ z \in Nat /\ g \in Nat /\ h = g + (x + y + z)
    BY <2>2, <2>4, <2>5, <2>6
  <2> HIDE DEF x, y, z, g, h
  <2>8. h = g + x + y + z
    BY ONLY <2>7
  <2> QED BY <2>3, <2>4, <2>8 DEF x, y, z, g, h
<1>10. Reader!Start(1) = 0
  BY <1>6, <1>8
<1> QED
  BY <1>1, <1>2, <1>3, <1>9, <1>10
(* What a reader makes of attribute n, read from where it begins. *)
After(n) ==
    LET a == Attrs[n]
        v == Reader!Value(a.form, a.count, Reader!ParseWidth(a.form),
                          Reader!Clamped(Reader!Start(n) + a.indirect))
    IN [read |-> n, pos |-> v.pos, ok |-> v.ok]

(* The heads of the first n attributes are in the stream, and no string in
   front of the last is cut. *)
Fits(n) == \A i \in 1 .. n : Heads(i) <= entry.cut /\ (i < n => ~IsLong(i))
ReaderKept(r) ==
    /\ r \in Reader!Reading
    /\ r.read = 0 => r = Reader!Fresh
    /\ r.read # 0 /\ Fits(r.read) => r = After(r.read)
ReaderInv ==
    /\ entry \in Entries /\ unit \in Units
    /\ \A r \in {parsed, skipped} : ReaderKept(r)

LEMMA WidthsAgree ==
    ASSUME unit \in Units
    PROVE  \A form : /\ Reader!ParseWidth(form) = Reader!SkipWidth(form)
                     /\ Reader!ParseWidth(form) \in Nat
<1>1. unit.addrSize \in {4, 8} /\ unit.version \in 2 .. 4
  BY FormReaderAssumption DEF Reader!FormReaderAssumption
<1>2. 32 \div 8 = 4
  OBVIOUS
<1> QED
  BY <1>1, <1>2 DEF Reader!ParseWidth, Reader!SkipWidth

(* The head of an attribute that is all there is read for what it is. *)
LEMMA HeadsAgree ==
    ASSUME unit \in Units, NEW a \in Reader!Attribute,
           a.form # "unknown", a.form = "string" => a.count <= StringLimit
    PROVE  Reader!FixedPart(a.form, a.count, Reader!ParseWidth(a.form)) = Reader!HeadSize(a)
<1>1. unit.addrSize \in {4, 8} /\ unit.version \in 2 .. 4 /\ StringLimit \in Nat
  BY FormReaderAssumption DEF Reader!FormReaderAssumption
<1>2. a.count \in Nat /\ a.form \in Reader!KnownForms
  BY DEF Reader!Attribute
<1>3. CASE a.form \in Reader!Leb
  BY <1>3 DEF Reader!FixedPart, Reader!HeadSize, Reader!Leb
<1>4. CASE a.form = "string"
  BY <1>1, <1>2, <1>4
     DEF Reader!FixedPart, Reader!HeadSize, Reader!Leb, Reader!StringRead
<1>5. CASE a.form \in Reader!Block
  BY <1>5 DEF Reader!FixedPart, Reader!HeadSize, Reader!ParseWidth, Reader!Leb, Reader!Block
<1>6. CASE a.form \in Reader!Fixed
  BY <1>1, <1>6 DEF Reader!FixedPart, Reader!HeadSize, Reader!ParseWidth, Reader!Leb, Reader!Fixed
<1> QED
  BY <1>2, <1>3, <1>4, <1>5, <1>6 DEF Reader!KnownForms

LEMMA InsideIsKept ==
    ASSUME NEW x \in Nat, entry.cut \in Nat, x <= entry.cut
    PROVE  Reader!Clamped(x) = x
BY DEF Reader!Clamped

(* From one attribute to the next. *)
LEMMA AfterFacts ==
    ASSUME entry \in Entries, unit \in Units, NEW n \in 1 .. Len(Attrs), Heads(n) <= entry.cut
    PROVE  /\ After(n).read = n
           /\ After(n).ok /\ ~IsLong(n) => After(n).pos = Reader!Start(n + 1)
           /\ Reader!Good(n) => After(n).ok
<1> DEFINE a == Attrs[n]
           p == Reader!Start(n) + a.indirect
           head == Reader!Clamped(p + Reader!FixedPart(a.form, a.count, Reader!ParseWidth(a.form)))
<1>1. /\ entry.cut \in Nat /\ a \in Reader!Attribute /\ a.count \in Nat /\ a.indirect \in Nat
      /\ Reader!HeadSize(a) \in Nat /\ Reader!BodySize(a) \in Nat /\ Reader!Start(n) \in Nat
      /\ Reader!Start(n + 1) = p + Reader!HeadSize(a) + Reader!BodySize(a)
      /\ p + Reader!HeadSize(a) <= entry.cut
  BY StartFacts DEF Reader!Attribute, Heads
<1>2. Reader!Clamped(p) = p
  <2> HIDE DEF a, p, head
  <2>1. p \in Nat
    BY <1>1 DEF p
  <2>2. p <= entry.cut
    BY <1>1, <2>1
  <2> QED BY <1>1, <2>1, <2>2, InsideIsKept
<1>3. /\ After(n).read = n
      /\ After(n).pos = Reader!Value(a.form, a.count, Reader!ParseWidth(a.form), p).pos
      /\ After(n).ok = Reader!Value(a.form, a.count, Reader!ParseWidth(a.form), p).ok
  BY <1>2 DEF After
<1>4. ASSUME a.form # "unknown", ~IsLong(n)
      PROVE  head = p + Reader!HeadSize(a)
  <2>1. Reader!FixedPart(a.form, a.count, Reader!ParseWidth(a.form)) = Reader!HeadSize(a)
    <3>1. StringLimit \in Nat
      BY FormReaderAssumption DEF Reader!FormReaderAssumption
    <3>2. a.form = "string" => a.count <= StringLimit
      BY <1>1, <1>4, <3>1 DEF IsLong
    <3> QED BY <1>1, <1>4, <3>2, HeadsAgree
  <2>2. head = Reader!Clamped(p + Reader!HeadSize(a))
    BY <2>1
  <2> HIDE DEF a, p, head
  <2>3. p \in Nat
    BY <1>1 DEF p
  <2>4. p + Reader!HeadSize(a) \in Nat
    BY <1>1, <2>3
  <2> QED BY <1>1, <2>2, <2>4, InsideIsKept
<1> DEFINE v == Reader!Value(a.form, a.count, Reader!ParseWidth(a.form), p)
<1>5. /\ a.form = "unknown" => v.ok = FALSE
      /\ a.form \in Reader!Block => v = Reader!BlockFits(head, a.count)
      /\ a.form # "unknown" /\ a.form \notin Reader!Block => v = [pos |-> head, ok |-> TRUE]
  BY DEF Reader!Value, Reader!Block
<1> HIDE DEF v, head, p, a
<1>6. ASSUME v.ok, ~IsLong(n) PROVE v.pos = Reader!Start(n + 1)
  <2>1. a.form # "unknown"
    BY <1>5, <1>6
  <2>2. head = p + Reader!HeadSize(a)
    BY <1>4, <1>6, <2>1
  <2>3. CASE a.form \in Reader!Block
    <3>1. v = Reader!BlockFits(head, a.count) /\ Reader!BodySize(a) = a.count
      BY <1>5, <2>3 DEF Reader!BodySize
    <3> QED BY <1>1, <1>6, <2>2, <3>1 DEF Reader!BlockFits
  <2>4. CASE a.form \notin Reader!Block
    <3>1. v = [pos |-> head, ok |-> TRUE] /\ Reader!BodySize(a) = 0
      BY <1>5, <2>1, <2>4 DEF Reader!BodySize
    <3>2. p \in Nat
      BY <1>1 DEF p
    <3> QED BY <1>1, <2>2, <3>1, <3>2
  <2> QED BY <2>3, <2>4
<1>7. ASSUME Reader!Good(n) PROVE v.ok
  <2>1. a.form # "unknown" /\ Reader!Start(n) + Reader!SizeOf(a) <= entry.cut
        /\ (a.form = "string" => a.count <= StringLimit)
    BY <1>7 DEF Reader!Good, a, Attrs
  <2>2. CASE a.form \in Reader!Block
    <3>1. v = Reader!BlockFits(head, a.count) /\ Reader!BodySize(a) = a.count
      BY <1>5, <2>2 DEF Reader!BodySize
    <3>2. ~IsLong(n)
      BY <2>2 DEF Reader!Block, IsLong, a
    <3>3. head + a.count <= entry.cut
      BY <1>1, <1>4, <2>1, <3>1, <3>2 DEF Reader!SizeOf, p
    <3> QED BY <3>1, <3>3 DEF Reader!BlockFits
  <2>3. CASE a.form \notin Reader!Block
    BY <1>5, <2>1, <2>3
  <2> QED BY <2>2, <2>3
<1> QED
  BY <1>3, <1>6, <1>7 DEF v, a
(* One attribute more. *)
LEMMA ReadKeeps ==
    ASSUME entry \in Entries, unit \in Units,
           NEW r, ReaderKept(r), r.ok, r.read < Len(Attrs), NEW full \in BOOLEAN,
           NEW v \in Reader!ReadOne(r.read + 1, r.pos, full)
    PROVE  ReaderKept([read |-> r.read + 1, pos |-> v.pos, ok |-> v.ok])
<1> DEFINE n == r.read + 1
           a == Attrs[n]
           s == [read |-> n, pos |-> v.pos, ok |-> v.ok]
           p == Reader!Clamped(r.pos + a.indirect)
<1>1. /\ r \in Reader!Reading /\ n \in 1 .. Len(Attrs) /\ r.read \in Nat /\ r.pos \in Nat
      /\ Len(Attrs) \in Nat /\ entry.cut \in Nat /\ Counts \subseteq Nat /\ StringLimit \in Nat
  BY StartFacts, FormReaderAssumption
     DEF ReaderKept, Reader!Reading, Reader!FormReaderAssumption, Attrs
<1>2. a \in Reader!Attribute /\ a.count \in Nat /\ a.indirect \in Nat
  BY <1>1, StartFacts DEF Reader!Attribute
<1>3. PICK f \in Reader!FormsAt(n, r.pos), c \in Reader!CountsAt(n, r.pos) :
        v = Reader!Value(f, c, Reader!Width(f, full), p)
  BY DEF Reader!ReadOne, Attrs
<1>4. c \in Nat /\ Reader!Width(f, full) \in Nat
      /\ Reader!Width(f, full) = Reader!ParseWidth(f)
  BY <1>1, <1>2, <1>3, WidthsAgree DEF Reader!CountsAt, Reader!Width, Attrs
<1>5. p \in 0 .. entry.cut
  BY <1>1, <1>2 DEF Reader!Clamped
<1> HIDE DEF a, p, n
<1>6. s \in Reader!Reading
  <2> DEFINE fixed == Reader!FixedPart(f, c, Reader!Width(f, full))
             head == Reader!Clamped(p + fixed)
  <2>1. fixed \in Nat
    BY <1>1, <1>4 DEF Reader!FixedPart, Reader!StringRead
  <2>2. head \in 0 .. entry.cut
    BY <1>1, <1>5, <2>1 DEF Reader!Clamped
  <2>3. v = [pos |-> p, ok |-> FALSE] \/ v = Reader!BlockFits(head, c)
        \/ v = [pos |-> head, ok |-> TRUE]
    BY <1>3 DEF Reader!Value
  <2> HIDE DEF head, fixed
  <2>4. v.pos \in 0 .. entry.cut /\ v.ok \in BOOLEAN
    <3>1. CASE v = Reader!BlockFits(head, c) /\ head + c <= entry.cut
      <4>1. v = [pos |-> head + c, ok |-> TRUE]
        BY <3>1 DEF Reader!BlockFits
      <4>2. head + c \in 0 .. entry.cut
        BY <1>1, <1>4, <2>2, <3>1
      <4> QED BY <4>1, <4>2
    <3>2. CASE v = Reader!BlockFits(head, c) /\ ~(head + c <= entry.cut)
      <4>1. v = [pos |-> head, ok |-> FALSE]
        BY <3>2 DEF Reader!BlockFits
      <4> QED BY <2>2, <4>1
    <3>3. CASE v = [pos |-> p, ok |-> FALSE]
      BY <1>5, <3>3
    <3>4. CASE v = [pos |-> head, ok |-> TRUE]
      BY <2>2, <3>4
    <3> QED BY <2>3, <3>1, <3>2, <3>3, <3>4
  <2>5. n \in 0 .. Len(entry.attrs)
    BY <1>1 DEF Attrs
  <2> QED BY <2>4, <2>5 DEF Reader!Reading
<1>7. ASSUME Fits(n) PROVE s = After(n)
  <2>1. Heads(n) <= entry.cut /\ Fits(r.read) /\ (r.read # 0 => ~IsLong(r.read) /\ Heads(r.read) <= entry.cut)
    BY <1>1, <1>7 DEF Fits, n
  <2>2. r.pos = Reader!Start(n)
    <3>1. CASE r.read = 0
      <4>1. r.pos = 0 /\ n = 1
        BY <3>1 DEF ReaderKept, Reader!Fresh, n
      <4> QED BY <4>1, StartFacts
    <3>2. CASE r.read # 0
      <4>1. r = After(r.read) /\ r.read \in 1 .. Len(Attrs)
        BY <1>1, <2>1, <3>2 DEF ReaderKept
      <4>2. After(r.read).pos = Reader!Start(r.read + 1)
        BY <2>1, <3>2, <4>1, AfterFacts
      <4> QED BY <4>1, <4>2 DEF n
    <3> QED BY <3>1, <3>2
  <2>3. Reader!Whole(n, r.pos)
    BY <2>1, <2>2 DEF Reader!Whole, Heads, Attrs
  <2>4. f = a.form /\ c = a.count
    BY <1>3, <2>3 DEF Reader!FormsAt, Reader!CountsAt, a, Attrs
  <2> QED BY <1>3, <1>4, <2>2, <2>4 DEF After, p, a
<1> QED
  BY <1>1, <1>6, <1>7 DEF ReaderKept, n

LEMMA ReaderInit == ASSUME Reader!Init PROVE ReaderInv
<1>1. entry \in Entries /\ unit \in Units /\ parsed = Reader!Fresh /\ skipped = Reader!Fresh
  BY DEF Reader!Init
<1>2. Reader!Fresh \in Reader!Reading /\ Reader!Fresh.read = 0
  <2>1. Len(entry.attrs) \in Nat /\ entry.cut \in Nat
    BY <1>1, StartFacts DEF Attrs
  <2> QED BY <2>1 DEF Reader!Fresh, Reader!Reading
<1> QED
  BY <1>1, <1>2 DEF ReaderInv, ReaderKept

LEMMA ReaderStep == ASSUME ReaderInv, [Reader!Next]_(Reader!vars) PROVE ReaderInv'
<1>1. /\ entry \in Entries /\ unit \in Units /\ \A r \in {parsed, skipped} : ReaderKept(r)
      /\ UNCHANGED <<entry, unit>>
  BY DEF ReaderInv, Reader!Next, Reader!parse, Reader!Skip, Reader!vars
<1>2. ASSUME NEW r, ReaderKept(r) PROVE ReaderKept(r)'
  <2>1. entry' = entry /\ unit' = unit /\ Attrs' = Attrs
    BY <1>1 DEF Attrs
  <2>2. \A a : Reader!HeadSize(a)' = Reader!HeadSize(a) /\ Reader!SizeOf(a)' = Reader!SizeOf(a)
    BY <2>1 DEF Reader!HeadSize, Reader!SizeOf, Reader!BodySize
  <2>3. \A i : Reader!Start(i)' = Reader!Start(i)
    BY <2>1, <2>2 DEF Reader!Start
  <2>4. \A n : Fits(n)' = Fits(n)
    BY <2>1, <2>2, <2>3 DEF Fits, Heads, IsLong
  <2>5. \A f : Reader!ParseWidth(f)' = Reader!ParseWidth(f)
    BY <2>1 DEF Reader!ParseWidth
  <2>6. \A x : Reader!Clamped(x)' = Reader!Clamped(x)
    BY <2>1 DEF Reader!Clamped
  <2>7. \A f, c, w, x : Reader!Value(f, c, w, x)' = Reader!Value(f, c, w, x)
    <3>1. \A x, c : Reader!BlockFits(x, c)' = Reader!BlockFits(x, c)
      BY <2>1 DEF Reader!BlockFits
    <3>2. ASSUME NEW f, NEW c, NEW w PROVE Reader!FixedPart(f, c, w)' = Reader!FixedPart(f, c, w)
      BY Zenon DEF Reader!FixedPart, Reader!StringRead
    <3> QED BY <2>6, <3>1, <3>2, Zenon DEF Reader!Value
  <2>8. \A n : After(n)' = After(n)
    BY <2>1, <2>3, <2>5, <2>6, <2>7 DEF After
  <2>9. Reader!Reading' = Reader!Reading
    BY <2>1 DEF Reader!Reading
  <2> QED BY <1>2, <2>4, <2>8, <2>9 DEF ReaderKept
<1>3. ASSUME Reader!parse PROVE ReaderInv'
  <2>1. PICK v \in Reader!ReadOne(parsed.read + 1, parsed.pos, TRUE) :
          parsed' = [read |-> parsed.read + 1, pos |-> v.pos, ok |-> v.ok]
    BY <1>3 DEF Reader!parse
  <2>2. parsed.ok /\ parsed.read < Len(Attrs) /\ skipped' = skipped
    BY <1>3 DEF Reader!parse, Attrs
  <2> DEFINE r == [read |-> parsed.read + 1, pos |-> v.pos, ok |-> v.ok]
  <2>3. ReaderKept(r)
    BY <1>1, <2>2, ReadKeeps
  <2>4. \A s \in {parsed', skipped'} : ReaderKept(s)
    BY <1>1, <2>1, <2>2, <2>3
  <2> QED BY <1>1, <1>2, <2>4 DEF ReaderInv
<1>4. ASSUME Reader!Skip PROVE ReaderInv'
  <2>1. PICK v \in Reader!ReadOne(skipped.read + 1, skipped.pos, FALSE) :
          skipped' = [read |-> skipped.read + 1, pos |-> v.pos, ok |-> v.ok]
    BY <1>4 DEF Reader!Skip
  <2>2. skipped.ok /\ skipped.read < Len(Attrs) /\ parsed' = parsed
    BY <1>4 DEF Reader!Skip, Attrs
  <2> DEFINE r == [read |-> skipped.read + 1, pos |-> v.pos, ok |-> v.ok]
  <2>3. ReaderKept(r)
    BY <1>1, <2>2, ReadKeeps
  <2>4. \A s \in {parsed', skipped'} : ReaderKept(s)
    BY <1>1, <2>1, <2>2, <2>3
  <2> QED BY <1>1, <1>2, <2>4 DEF ReaderInv
<1>5. ASSUME UNCHANGED Reader!vars PROVE ReaderInv'
  <2>1. \A s \in {parsed', skipped'} : ReaderKept(s)
    BY <1>1, <1>5 DEF Reader!vars
  <2> QED BY <1>1, <1>2, <2>1 DEF ReaderInv
<1> QED
  BY <1>3, <1>4, <1>5 DEF Reader!Next

LEMMA ReaderInvImplies ==
    ASSUME ReaderInv
    PROVE  Reader!TypeOK /\ Reader!InStep /\ Reader!ReadersAgree
<1>1. /\ entry \in Entries /\ unit \in Units /\ \A r \in {parsed, skipped} : ReaderKept(r)
      /\ StringLimit \in Nat
  BY FormReaderAssumption DEF ReaderInv, Reader!FormReaderAssumption
<1>2. \A r \in {parsed, skipped} :
          /\ r.read \in 0 .. Len(Attrs) /\ r.read \in Nat
          /\ r.read = 0 => r = Reader!Fresh
          /\ r.read # 0 /\ Fits(r.read) => r = After(r.read)
  BY <1>1, StartFacts DEF ReaderKept, Reader!Reading, Attrs
<1>3. Reader!TypeOK
  BY <1>1 DEF ReaderKept, Reader!TypeOK
<1>4. ASSUME NEW r \in {parsed, skipped}, \A i \in 1 .. r.read : Reader!Good(i)
      PROVE  r.ok /\ r.pos = Reader!Start(r.read + 1)
  <2>1. CASE r.read = 0
    <3>1. r.ok = TRUE /\ r.pos = 0
      BY <1>2, <2>1 DEF Reader!Fresh
    <3> QED BY <1>1, <2>1, <3>1, StartFacts
  <2>2. CASE r.read # 0
    <3>1. ASSUME NEW i \in 1 .. r.read PROVE Heads(i) <= entry.cut /\ ~IsLong(i)
      <4>1. i \in 1 .. Len(Attrs)
        BY <1>1, <1>2, StartFacts
      <4>2. /\ Reader!Start(i) \in Nat /\ Attrs[i].indirect \in Nat /\ entry.cut \in Nat
            /\ Reader!HeadSize(Attrs[i]) \in Nat /\ Reader!BodySize(Attrs[i]) \in Nat
            /\ Attrs[i].count \in Nat
        BY <1>1, <4>1, StartFacts DEF Reader!Attribute
      <4>3. /\ Reader!Start(i) + (Attrs[i].indirect + Reader!HeadSize(Attrs[i]) + Reader!BodySize(Attrs[i])) <= entry.cut
            /\ Attrs[i].form = "string" => Attrs[i].count <= StringLimit
        BY <1>4 DEF Reader!Good, Reader!SizeOf, Attrs
      <4>4. Heads(i) <= entry.cut
        BY <4>2, <4>3 DEF Heads
      <4>5. ~IsLong(i)
        BY <1>1, <4>2, <4>3 DEF IsLong
      <4> QED BY <4>4, <4>5
    <3>2. Fits(r.read)
      BY <3>1 DEF Fits
    <3>3. r = After(r.read) /\ r.read \in 1 .. Len(Attrs)
      BY <1>2, <2>2, <3>2
    <3>4. Heads(r.read) <= entry.cut /\ ~IsLong(r.read) /\ Reader!Good(r.read)
      BY <1>2, <1>4, <2>2, <3>1
    <3> QED BY <1>1, <3>3, <3>4, AfterFacts
  <2> QED BY <2>1, <2>2
<1>5. Reader!InStep
  BY <1>4 DEF Reader!InStep
<1>6. ASSUME parsed.read = skipped.read,
             \A i \in 1 .. parsed.read :
                Heads(i) <= entry.cut /\ (IsLong(i) => i = parsed.read)
      PROVE  parsed = skipped
  <2>1. Fits(parsed.read)
    BY <1>2, <1>6 DEF Fits
  <2>2. CASE parsed.read = 0
    BY <1>2, <1>6, <2>2
  <2>3. CASE parsed.read # 0
    <3>1. parsed = After(parsed.read)
      BY <1>2, <2>1, <2>3
    <3>2. skipped = After(skipped.read)
      BY <1>2, <1>6, <2>1, <2>3
    <3> QED BY <1>6, <3>1, <3>2
  <2> QED BY <2>2, <2>3
<1>7. Reader!ReadersAgree
  BY <1>6 DEF Reader!ReadersAgree, Heads, IsLong, Attrs
<1> QED
  BY <1>3, <1>5, <1>7

-------------------------------------------------------------------------------
(* Powers of two, counted as the subsets of an interval. *)
LEMMA PowerFacts ==
    ASSUME NEW n \in Nat
    PROVE  2 ^ n \in Nat \ {0} /\ 2 ^ (n + 1) = 2 * 2 ^ n /\ 2 ^ 0 = 1
<1> DEFINE A == 1 .. n
           B == 1 .. (n + 1)
           x == n + 1
           P == SUBSET A
           Q == SUBSET B
           With == {T \cup {x} : T \in P}
<1>1. /\ IsFiniteSet(A) /\ Cardinality(A) = n /\ IsFiniteSet(B) /\ Cardinality(B) = n + 1
  BY FS_Interval
<1>2. x \notin A /\ B = A \cup {x}
  OBVIOUS
<1> HIDE DEF A, B, x
<1>3. /\ IsFiniteSet(P) /\ Cardinality(P) = 2 ^ Cardinality(A)
      /\ IsFiniteSet(Q) /\ Cardinality(Q) = 2 ^ Cardinality(B)
  BY <1>1, FS_SUBSET
<1>4. (\A U : U \in P <=> U \subseteq A) /\ (\A U : U \in Q <=> U \subseteq B)
  OBVIOUS
<1> HIDE DEF P, Q
<1>5. \A U : U \in With <=> \E T \in P : U = T \cup {x}
  OBVIOUS
<1>6. \A T \in P : x \notin T /\ T \in Q /\ T \cup {x} \in Q
  BY <1>2, <1>4
<1>7. IsFiniteSet(With) /\ Cardinality(With) = Cardinality(P)
  <2> DEFINE f == [T \in P |-> T \cup {x}]
  <2>1. f \in [P -> With]
    OBVIOUS
  <2>2. ASSUME NEW S \in P, NEW T \in P, f[S] = f[T] PROVE S = T
    <3>1. S \cup {x} = T \cup {x} /\ x \notin S /\ x \notin T
      BY <1>6, <2>2
    <3> QED BY <3>1
  <2>3. \A U \in With : \E T \in P : f[T] = U
    OBVIOUS
  <2> HIDE DEF f, With
  <2>4. f \in Injection(P, With)
    BY <2>1, <2>2, Zenon DEF Injection, IsInjective
  <2>5. f \in Surjection(P, With)
    BY <2>1, <2>3, Zenon DEF Surjection
  <2>6. ExistsBijection(P, With)
    BY <2>4, <2>5, Zenon DEF Bijection, ExistsBijection
  <2> QED BY <1>3, <2>6, FS_Bijection
<1> HIDE DEF With
<1>8. Q = P \cup With
  <2>1. ASSUME NEW U \in Q PROVE U \in P \cup With
    <3>1. CASE x \in U
      <4> DEFINE T == U \ {x}
      <4>1. U = T \cup {x}
        BY <3>1
      <4>2. T \subseteq A
        BY <1>2, <1>4
      <4> HIDE DEF T
      <4> QED BY <1>4, <1>5, <4>1, <4>2
    <3>2. CASE x \notin U
      <4>1. U \subseteq A
        BY <1>2, <1>4, <3>2
      <4> QED BY <1>4, <4>1
    <3> QED BY <3>1, <3>2
  <2>2. ASSUME NEW U \in With PROVE U \in Q
    BY <1>5, <1>6
  <2> QED BY <1>6, <2>1, <2>2
<1>9. P \cap With = {}
  <2>1. ASSUME NEW U \in P, U \in With PROVE FALSE
    <3>1. PICK T \in P : U = T \cup {x}
      BY <1>5, <2>1
    <3> QED BY <1>6, <3>1
  <2> QED BY <2>1
<1>10. Cardinality(Q) = Cardinality(P) + Cardinality(P) - 0
  <2>1. Cardinality(P \cap With) = 0
    BY <1>9, FS_EmptySet
  <2>2. Cardinality(P \cup With) = Cardinality(P) + Cardinality(With) - Cardinality(P \cap With)
    BY <1>3, <1>7, FS_Union
  <2> QED BY <1>7, <1>8, <2>1, <2>2
<1>11. Cardinality(P) \in Nat \ {0}
  <2>1. {} \in P
    BY <1>4
  <2> QED BY <1>3, <2>1, FS_CardinalityType, FS_EmptySet
<1>12. 2 ^ 0 = 1
  OBVIOUS
<1> QED
  BY <1>1, <1>3, <1>10, <1>11, <1>12

LEMMA PowersMultiply ==
    ASSUME NEW m \in Nat, NEW n \in Nat
    PROVE  2 ^ (m + n) = 2 ^ m * 2 ^ n
<1> DEFINE B == {i \in Nat : 2 ^ (m + i) = 2 ^ m * 2 ^ i}
<1>1. 0 \in B
  <2>1. m + 0 = m /\ 2 ^ m \in Nat /\ 2 ^ 0 = 1
    BY PowerFacts
  <2>2. 2 ^ (m + 0) = 2 ^ m
    BY <2>1
  <2>3. 2 ^ m * 2 ^ 0 = 2 ^ m
    BY <2>1
  <2> QED BY <2>2, <2>3
<1>2. ASSUME NEW i \in Nat, i \in B PROVE i + 1 \in B
  <2>1. m + (i + 1) = (m + i) + 1 /\ m + i \in Nat
    OBVIOUS
  <2> DEFINE p == 2 ^ m
             q == 2 ^ i
  <2>2. p \in Nat /\ q \in Nat /\ 2 ^ (i + 1) = 2 * q
    BY PowerFacts
  <2>3. 2 ^ ((m + i) + 1) = 2 * 2 ^ (m + i)
    BY <2>1, PowerFacts
  <2>4. 2 ^ (m + i) = p * q
    BY <1>2
  <2>5. 2 ^ (m + (i + 1)) = 2 * (p * q)
    BY <2>1, <2>3, <2>4
  <2> HIDE DEF p, q
  <2>6. p * (2 * q) = 2 * (p * q)
    BY <2>2
  <2>7. 2 ^ (m + (i + 1)) = p * 2 ^ (i + 1)
    BY <2>2, <2>5, <2>6
  <2> QED BY <2>7 DEF p
<1> HIDE DEF B
<1>3. \A i \in Nat : i \in B
  BY <1>1, <1>2, Induction
<1> QED
  BY <1>3 DEF B

LEMMA PowersGrow ==
    ASSUME NEW m \in Nat, NEW n \in Nat
    PROVE  /\ m <= n => 2 ^ m <= 2 ^ n
           /\ m < n => \E k \in Nat : 2 ^ n = (2 * k) * 2 ^ m
           /\ m <= n => \E k \in Nat : 2 ^ n = k * 2 ^ m
<1>1. 2 ^ m \in Nat \ {0} /\ 2 ^ n \in Nat \ {0}
  BY PowerFacts
<1>2. ASSUME m <= n PROVE \E k \in Nat \ {0} : 2 ^ n = k * 2 ^ m
  <2>1. n - m \in Nat /\ (n - m) + m = n
    BY <1>2
  <2>2. 2 ^ ((n - m) + m) = 2 ^ (n - m) * 2 ^ m
    BY <2>1, PowersMultiply
  <2>3. 2 ^ (n - m) \in Nat \ {0}
    BY <2>1, PowerFacts
  <2> QED BY <2>1, <2>2, <2>3
<1>3. ASSUME m < n PROVE \E k \in Nat : 2 ^ n = (2 * k) * 2 ^ m
  <2>1. n - m - 1 \in Nat /\ (n - m - 1) + 1 = n - m /\ n - m \in Nat /\ (n - m) + m = n
    BY <1>3
  <2>2. 2 ^ ((n - m) + m) = 2 ^ (n - m) * 2 ^ m
    BY <2>1, PowersMultiply
  <2>3. 2 ^ (n - m - 1) \in Nat /\ 2 ^ ((n - m - 1) + 1) = 2 * 2 ^ (n - m - 1)
    BY <2>1, PowerFacts
  <2>4. 2 ^ n = (2 * 2 ^ (n - m - 1)) * 2 ^ m
    BY <2>1, <2>2, <2>3
  <2> QED BY <2>3, <2>4
<1>4. ASSUME m <= n PROVE 2 ^ m <= 2 ^ n
  <2>1. PICK k \in Nat \ {0} : 2 ^ n = k * 2 ^ m
    BY <1>2, <1>4
  <2> DEFINE p == 2 ^ m
  <2>2. p \in Nat
    BY <1>1
  <2> HIDE DEF p
  <2>3. p <= k * p
    BY <2>2
  <2> QED BY <2>1, <2>3 DEF p
<1> QED
  BY <1>2, <1>3, <1>4

(* Quotient and remainder. *)
LEMMA Division ==
    ASSUME NEW a \in Nat, NEW d \in Nat \ {0}
    PROVE  a \div d \in Nat /\ a % d \in 0 .. (d - 1) /\ a = d * (a \div d) + (a % d)
OBVIOUS

LEMMA Quotient ==
    ASSUME NEW a \in Nat, NEW d \in Nat \ {0}, NEW q \in Nat, NEW r \in 0 .. (d - 1), a = d * q + r
    PROVE  a \div d = q /\ a % d = r
<1> DEFINE q0 == a \div d
           r0 == a % d
<1>1. q0 \in Nat /\ r0 \in 0 .. (d - 1) /\ a = d * q0 + r0
  OBVIOUS
<1> HIDE DEF q0, r0
<1>2. q0 = q /\ r0 = r
  <2>1. ~(q < q0)
    <3>1. SUFFICES ASSUME q < q0 PROVE FALSE
      OBVIOUS
    <3>2. PICK k \in Nat : q0 = q + 1 + k
      <4>1. q0 - q - 1 \in Nat /\ q0 = q + 1 + (q0 - q - 1)
        BY <1>1, <3>1
      <4> QED BY <4>1
    <3>3. d * q0 = d * q + d + d * k /\ d * k \in Nat
      BY <1>1, <3>2
    <3> QED BY <1>1, <3>3
  <2>2. ~(q0 < q)
    <3>1. SUFFICES ASSUME q0 < q PROVE FALSE
      OBVIOUS
    <3>2. PICK k \in Nat : q = q0 + 1 + k
      <4>1. q - q0 - 1 \in Nat /\ q = q0 + 1 + (q - q0 - 1)
        BY <1>1, <3>1
      <4> QED BY <4>1
    <3>3. d * q = d * q0 + d + d * k /\ d * k \in Nat
      BY <1>1, <3>2
    <3> QED BY <1>1, <3>3
  <2> QED BY <1>1, <2>1, <2>2
<1> QED
  BY <1>2, Zenon DEF q0, r0

LEMMA Small == ASSUME NEW a \in Nat, NEW d \in Nat, a < d PROVE a \div d = 0 /\ a % d = a
<1>1. d \in Nat \ {0} /\ a \in 0 .. (d - 1) /\ a = d * 0 + a /\ 0 \in Nat
  OBVIOUS
<1> QED
  BY <1>1, Quotient, Zenon

(* Bits. *)
LEMMA NextBit ==
    ASSUME NEW c \in Nat, NEW n \in Nat
    PROVE  /\ Leb!Bit(c, n) \in {0, 1}
           /\ c % 2 ^ (n + 1) = (c % 2 ^ n) + (IF Leb!Bit(c, n) = 1 THEN 2 ^ n ELSE 0)
<1> DEFINE p == 2 ^ n
           q == c \div p
           r == c % p
           b == q % 2
           h == q \div 2
<1>1. p \in Nat \ {0} /\ 2 ^ (n + 1) = 2 * p
  BY PowerFacts
<1> HIDE DEF p
<1>2. q \in Nat /\ r \in 0 .. (p - 1) /\ c = p * q + r
  BY <1>1, Division
<1> HIDE DEF q, r
<1>3. b \in {0, 1} /\ h \in Nat /\ q = 2 * h + b
  BY <1>2
<1>4. Leb!Bit(c, n) = b
  BY DEF Leb!Bit, b, q, p
<1> HIDE DEF b, h
<1>5. c = (2 * p) * h + (r + p * b)
  <2>1. p * (2 * h + b) = (2 * p) * h + p * b
    BY <1>1, <1>3
  <2>2. p * b \in Nat /\ (2 * p) * h \in Nat
    BY <1>1, <1>3
  <2> QED BY <1>1, <1>2, <1>3, <2>1, <2>2
<1>6. p * b = IF b = 1 THEN p ELSE 0
  BY <1>1, <1>3
<1>7. r + p * b \in 0 .. (2 * p - 1) /\ 2 * p \in Nat \ {0}
  BY <1>1, <1>2, <1>3, <1>6
<1>8. c % (2 * p) = r + p * b
  BY <1>3, <1>5, <1>7, Quotient, Zenon
<1> QED
  BY <1>1, <1>3, <1>4, <1>6, <1>8 DEF p, r

(* A multiple of a power has none of the bits below it, what is less than the
   power none of the others. *)
LEMMA BitsTogether ==
    ASSUME NEW s \in Nat, NEW a \in 0 .. (2 ^ s - 1), NEW k \in Nat, NEW n \in Nat
    PROVE  Leb!Bit(a + k * 2 ^ s, n) = 1 <=> Leb!Bit(a, n) = 1 \/ Leb!Bit(k * 2 ^ s, n) = 1
<1> DEFINE e == 2 ^ s
           p == 2 ^ n
           b == k * e
<1>1. e \in Nat \ {0} /\ p \in Nat \ {0} /\ a \in Nat /\ a < e
  BY PowerFacts
<1>2. b \in Nat
  <2> HIDE DEF e
  <2> QED BY <1>1
<1> DEFINE qa == a \div p
           ra == a % p
           qb == b \div p
           rb == b % p
<1>3. Leb!Bit(a + b, n) = ((a + b) \div p) % 2 /\ Leb!Bit(a, n) = qa % 2 /\ Leb!Bit(b, n) = qb % 2
  BY DEF Leb!Bit
<1>4. CASE n < s
  <2>1. PICK m \in Nat : e = (2 * m) * p
    BY <1>4, PowersGrow
  <2> HIDE DEF e, p
  <2>2. b = p * (2 * (k * m)) + 0 /\ k * m \in Nat
    BY <1>1, <2>1
  <2> DEFINE j == k * m
  <2> HIDE DEF j
  <2>3. qb = 2 * j /\ j \in Nat
    <3>1. j \in Nat /\ 2 * j \in Nat /\ b = p * (2 * j) + 0 /\ 0 \in 0 .. (p - 1)
      BY <1>1, <2>2 DEF j
    <3> HIDE DEF b
    <3>2. b \div p = 2 * j
      BY <1>1, <1>2, <3>1, Quotient, Zenon
    <3> QED BY <3>1, <3>2
  <2>4. qa \in Nat /\ ra \in 0 .. (p - 1) /\ a = p * qa + ra
    BY <1>1, Division
  <2> HIDE DEF qa, ra
  <2>5. a + b = p * (qa + 2 * j) + ra
    <3>1. b = p * (2 * j)
      BY <1>1, <2>2 DEF j
    <3> HIDE DEF b
    <3> QED BY <1>1, <2>3, <2>4, <3>1
  <2> HIDE DEF b
  <2>6. (a + b) \div p = qa + 2 * j
    <3>1. a + b \in Nat /\ qa + 2 * j \in Nat
      BY <1>1, <1>2, <2>3, <2>4
    <3> QED BY <1>1, <2>4, <2>5, <3>1, Quotient, Zenon
  <2>7. (qa + 2 * j) % 2 = qa % 2 /\ (2 * j) % 2 = 0
    BY <2>3, <2>4
  <2>8. (Leb!Bit(a + b, n) = 1) <=> (Leb!Bit(a, n) = 1 \/ Leb!Bit(b, n) = 1)
    BY <1>3, <2>3, <2>6, <2>7
  <2> QED BY <2>8 DEF b, e
<1>5. CASE ~(n < s)
  <2>0. s <= n
    BY <1>5
  <2>1. PICK m \in Nat : p = m * e
    BY <2>0, PowersGrow, Zenon
  <2> HIDE DEF e, p
  <2>2. m # 0 /\ e <= p
    <3>1. m # 0
      BY <1>1, <2>1
    <3> QED BY <1>1, <2>1, <3>1
  <2>3. qa = 0
    <3>1. a < p /\ a \in Nat /\ p \in Nat
      BY <1>1, <2>2
    <3> QED BY <3>1, Small
  <2>4. qb \in Nat /\ rb \in 0 .. (p - 1) /\ b = p * qb + rb
    <3> HIDE DEF b
    <3> QED BY <1>1, <1>2, Division
  <2> HIDE DEF qb, rb, qa
  <2>5. a + rb < p
    <3>1. rb = e * (k - m * qb)
      <4>1. p * qb = e * (m * qb) /\ b = e * k
        BY <1>1, <2>1, <2>4
      <4>2. e * (k - m * qb) = e * k - e * (m * qb)
        BY <1>1, <2>1, <2>4
      <4>3. rb = b - p * qb
        <5> HIDE DEF b
        <5> QED BY <1>1, <1>2, <2>4
      <4> QED BY <4>1, <4>2, <4>3
    <3> DEFINE t == k - m * qb
    <3>2. t \in Int
      BY <2>1, <2>4
    <3> HIDE DEF t
    <3>3. t < m
      <4>1. SUFFICES ASSUME m <= t PROVE FALSE
        BY <2>1, <3>2
      <4>2. e * m <= e * t
        BY <1>1, <2>1, <3>2, <4>1
      <4> QED BY <1>1, <2>1, <2>4, <3>1, <4>2 DEF t
    <3>4. e * (t + 1) <= e * m
      BY <1>1, <2>1, <3>2, <3>3
    <3>5. e * (t + 1) = e * t + e
      BY <1>1, <3>2
    <3>6. rb = e * t /\ p = e * m
      BY <1>1, <2>1, <3>1 DEF t
    <3> QED BY <1>1, <2>4, <3>4, <3>5, <3>6
  <2> HIDE DEF b
  <2>6. a + b = p * qb + (a + rb) /\ a + rb \in 0 .. (p - 1) /\ a + b \in Nat
    BY <1>1, <1>2, <2>4, <2>5
  <2>7. (a + b) \div p = qb
    BY <1>1, <2>4, <2>6, Quotient, Zenon
  <2>8. (Leb!Bit(a + b, n) = 1) <=> (Leb!Bit(a, n) = 1 \/ Leb!Bit(b, n) = 1)
    BY <1>3, <2>3, <2>7
  <2> QED BY <2>8 DEF b, e
<1> QED
  BY <1>4, <1>5

(* The bits of two longs together are a long; they are the sum where one has
   only bits below those of the other. *)
LEMMA OrFacts ==
    ASSUME NEW a, NEW b
    PROVE  /\ Leb!Or(a, b) \in 0 .. (2 ^ LongBits - 1)
           /\ \A c \in 0 .. (2 ^ LongBits - 1) :
                (\A n \in 0 .. LongBits : Leb!Bit(c, n) = 1 <=> Leb!Bit(a, n) = 1 \/ Leb!Bit(b, n) = 1)
                    => Leb!Or(a, b) = c
<1>1. LongBits \in Nat
  BY LebAssumption DEF Leb!LebAssumption
<1> DEFINE Set(i) == Leb!Bit(a, i - 1) = 1 \/ Leb!Bit(b, i - 1) = 1
           w == [i \in 1 .. LongBits |-> IF Set(i) THEN 2 ^ (i - 1) ELSE 0]
           f == CHOOSE f : f = [n \in 0 .. LongBits |->
                    IF n = 0 THEN 0
                    ELSE IF Set(n) THEN f[n - 1] + 2 ^ (n - 1)
                    ELSE f[n - 1]]
<1>2. \A i \in 1 .. LongBits : i - 1 \in Nat /\ 2 ^ (i - 1) \in Nat /\ 2 ^ ((i - 1) + 1) = 2 * 2 ^ (i - 1)
                               /\ (i - 1) + 1 = i /\ i \in Nat
  BY <1>1, PowerFacts
<1>3. PICK g : g = [i \in 0 .. LongBits |-> SumAt(w, g, i)]
  BY <1>1, SumExists
<1>4. /\ g[0] = 0 /\ \A i \in 0 .. LongBits : g[i] \in Nat
      /\ \A i \in 1 .. LongBits : g[i] = g[i - 1] + w[i]
  <2>1. \A i \in 1 .. LongBits : w[i] \in Nat
    BY <1>2
  <2> HIDE DEF w
  <2> QED BY <1>1, <1>3, <2>1, SumFacts
<1> DEFINE Then(h, n) == IF n = 0 THEN 0
                         ELSE IF Set(n) THEN h[n - 1] + 2 ^ (n - 1)
                         ELSE h[n - 1]
<1>5. f = [n \in 0 .. LongBits |-> Then(f, n)]
  <2>1. \A n \in 0 .. LongBits : Then(g, n) = SumAt(w, g, n)
    <3>1. ASSUME NEW n \in 0 .. LongBits, n # 0 PROVE Then(g, n) = SumAt(w, g, n)
      <4>1. n \in 1 .. LongBits /\ n - 1 \in 0 .. LongBits
        BY <1>1, <3>1
      <4>2. w[n] = (IF Set(n) THEN 2 ^ (n - 1) ELSE 0) /\ g[n - 1] \in Nat
        BY <1>4, <4>1
      <4> HIDE DEF w, Set
      <4> QED BY <3>1, <4>2 DEF SumAt
    <3>2. Then(g, 0) = SumAt(w, g, 0)
      BY DEF SumAt
    <3> QED BY <3>1, <3>2
  <2> HIDE DEF Then, w
  <2>2. g = [n \in 0 .. LongBits |-> Then(g, n)]
    BY <1>3, <2>1
  <2>3. \E h : h = [n \in 0 .. LongBits |-> Then(h, n)]
    BY <2>2
  <2> HIDE DEF Set
  <2> QED BY <2>3, Zenon DEF Then
<1>6. Leb!Or(a, b) = f[LongBits]
  BY Zenon DEF Leb!Or
<1> HIDE DEF f
<1>7. f[0] = 0 /\ \A n \in 1 .. LongBits : f[n] = IF Set(n) THEN f[n - 1] + 2 ^ (n - 1) ELSE f[n - 1]
  <2> HIDE DEF Then
  <2>1. \A n \in 0 .. LongBits : f[n] = Then(f, n)
    BY <1>5
  <2>2. 0 \in 0 .. LongBits /\ \A n \in 1 .. LongBits : n \in 0 .. LongBits /\ n # 0
    BY <1>1
  <2> HIDE DEF Set
  <2> QED BY <2>1, <2>2 DEF Then
<1> HIDE DEF Then, w, Set
<1>8. \A n \in Nat : n <= LongBits => f[n] \in 0 .. (2 ^ n - 1)
  <2> DEFINE B == {n \in Nat : n <= LongBits => f[n] \in 0 .. (2 ^ n - 1)}
  <2>1. 0 \in B
    BY <1>7, PowerFacts
  <2>2. ASSUME NEW n \in Nat, n \in B, n + 1 <= LongBits PROVE f[n + 1] \in 0 .. (2 ^ (n + 1) - 1)
    <3>1. n + 1 \in 1 .. LongBits /\ (n + 1) - 1 = n /\ n <= LongBits
      BY <1>1, <2>2
    <3>2. f[n + 1] = IF Set(n + 1) THEN f[n] + 2 ^ n ELSE f[n]
      BY <1>7, <3>1
    <3>3. 2 ^ n \in Nat /\ 2 ^ (n + 1) = 2 * 2 ^ n
      BY PowerFacts
    <3>4. f[n] \in 0 .. (2 ^ n - 1)
      BY <2>2, <3>1
    <3> DEFINE p == 2 ^ n
    <3>5. p \in Nat /\ f[n] \in 0 .. (p - 1) /\ 2 ^ (n + 1) = 2 * p
          /\ f[n + 1] = (IF Set(n + 1) THEN f[n] + p ELSE f[n])
      BY <3>2, <3>3, <3>4
    <3> HIDE DEF p
    <3>6. f[n + 1] \in 0 .. (2 * p - 1)
      BY <3>5
    <3> QED BY <3>5, <3>6
  <2>3. \A n \in Nat : n \in B => n + 1 \in B
    BY <2>2
  <2> HIDE DEF B
  <2>4. \A n \in Nat : n \in B
    BY <2>1, <2>3, Induction
  <2> QED BY <2>4 DEF B
<1>9. ASSUME NEW c \in 0 .. (2 ^ LongBits - 1),
             \A n \in 0 .. LongBits : Leb!Bit(c, n) = 1 <=> Leb!Bit(a, n) = 1 \/ Leb!Bit(b, n) = 1
      PROVE  f[LongBits] = c
  <2> DEFINE B == {n \in Nat : n <= LongBits => f[n] = c % 2 ^ n}
  <2>1. c \in Nat
    BY <1>1, PowerFacts
  <2>2. 0 \in B
    BY <1>7, <2>1
  <2>3. ASSUME NEW n \in Nat, n \in B, n + 1 <= LongBits PROVE f[n + 1] = c % 2 ^ (n + 1)
    <3>1. n + 1 \in 1 .. LongBits /\ (n + 1) - 1 = n /\ n <= LongBits /\ n \in 0 .. LongBits
      BY <1>1, <2>3
    <3>2. f[n + 1] = (IF Set(n + 1) THEN f[n] + 2 ^ n ELSE f[n]) /\ f[n] = c % 2 ^ n
      BY <1>7, <2>3, <3>1
    <3>3. c % 2 ^ (n + 1) = (c % 2 ^ n) + (IF Leb!Bit(c, n) = 1 THEN 2 ^ n ELSE 0)
      BY <2>1, NextBit
    <3>4. Set(n + 1) <=> Leb!Bit(c, n) = 1
      <4>1. Set(n + 1) <=> Leb!Bit(a, n) = 1 \/ Leb!Bit(b, n) = 1
        BY <3>1 DEF Set
      <4> QED BY <1>9, <3>1, <4>1
    <3>5. c % 2 ^ n \in Nat
      BY <2>1, PowerFacts, Division
    <3> QED BY <3>2, <3>3, <3>4, <3>5
  <2>4. \A n \in Nat : n \in B => n + 1 \in B
    BY <2>3
  <2> HIDE DEF B
  <2>5. \A n \in Nat : n \in B
    BY <2>2, <2>4, Induction
  <2>6. f[LongBits] = c % 2 ^ LongBits
    BY <1>1, <2>5 DEF B
  <2> DEFINE p == 2 ^ LongBits
  <2>7. p \in Nat \ {0} /\ c \in 0 .. (p - 1)
    BY <1>1, PowerFacts
  <2> HIDE DEF p
  <2>8. c % p = c
    <3>1. c \in Nat /\ c < p /\ p \in Nat
      BY <2>1, <2>7
    <3> QED BY <3>1, Small
  <2> QED BY <2>6, <2>8 DEF p
<1> QED
  BY <1>1, <1>6, <1>8, <1>9

LEMMA OrIsSum ==
    ASSUME NEW s \in Nat, NEW a \in 0 .. (2 ^ s - 1), NEW k \in Nat,
           a + k * 2 ^ s < 2 ^ LongBits
    PROVE  Leb!Or(a, k * 2 ^ s) = a + k * 2 ^ s
<1>1. LongBits \in Nat
  BY LebAssumption DEF Leb!LebAssumption
<1>2. k * 2 ^ s \in Nat /\ a \in Nat /\ 2 ^ LongBits \in Nat
  <2> DEFINE e == 2 ^ s
  <2>1. e \in Nat /\ a \in 0 .. (e - 1)
    BY PowerFacts
  <2> HIDE DEF e
  <2>2. k * e \in Nat /\ a \in Nat
    BY <2>1
  <2> QED BY <1>1, <2>2, PowerFacts DEF e
<1> DEFINE b == k * 2 ^ s
<1> HIDE DEF b
<1>3. \A n \in 0 .. LongBits : Leb!Bit(a + b, n) = 1 <=> Leb!Bit(a, n) = 1 \/ Leb!Bit(b, n) = 1
  BY <1>1, BitsTogether DEF b
<1>4. a + b \in 0 .. (2 ^ LongBits - 1)
  BY <1>2 DEF b
<1>5. Leb!Or(a, b) = a + b
  BY <1>3, <1>4, OrFacts
<1> QED
  BY <1>5 DEF b

LEMMA SumsAgree ==
    ASSUME NEW n \in Nat, NEW m \in Nat, n <= m, NEW a, NEW b, NEW f, NEW g,
           \A i \in 1 .. n : a[i] = b[i],
           \A i \in 0 .. n : f[i] = SumAt(a, f, i), \A i \in 0 .. m : g[i] = SumAt(b, g, i)
    PROVE  f[n] = g[n] /\ f[n] = SumAt(a, f, n) /\ g[m] = SumAt(b, g, m)
<1>1. /\ \A i \in 0 .. n : f[i] = SumAt(a, f, i)
      /\ \A i \in 0 .. m : g[i] = SumAt(b, g, i)
  OBVIOUS
<1>2. f[0] = 0 /\ g[0] = 0
  BY <1>1 DEF SumAt
<1> DEFINE B == {i \in Nat : i <= n => f[i] = g[i]}
<1>3. ASSUME NEW i \in Nat, i \in B, i + 1 <= n PROVE f[i + 1] = g[i + 1]
  <2>1. i + 1 \in 1 .. n /\ i + 1 \in 0 .. n /\ i + 1 \in 0 .. m /\ (i + 1) - 1 = i /\ i + 1 # 0 /\ i <= n
    BY <1>3
  <2>2. f[i + 1] = f[i] + a[i + 1] /\ g[i + 1] = g[i] + b[i + 1]
    BY <1>1, <2>1 DEF SumAt
  <2> QED BY <1>3, <2>1, <2>2
<1>4. 0 \in B /\ \A i \in Nat : i \in B => i + 1 \in B
  BY <1>2, <1>3
<1> HIDE DEF B
<1>5. \A i \in Nat : i \in B
  BY <1>4, Induction
<1> QED
  BY <1>1, <1>5 DEF B

-------------------------------------------------------------------------------
(* LEB128 numbers. *)
Weighed(bs) == [i \in 1 .. Len(bs) |-> bs[i] * 2 ^ (DigitBits * (i - 1))]
NumberOf(bs) ==
    LET Sum[n \in 0 .. Len(bs)] ==
            IF n = 0 THEN 0 ELSE Sum[n - 1] + bs[n] * 2 ^ (DigitBits * (n - 1))
    IN  Sum[Len(bs)]

LEMMA NumberIs ==
    ASSUME NEW bs, Len(bs) \in Nat
    PROVE  \E f : f = [n \in 0 .. Len(bs) |-> SumAt(Weighed(bs), f, n)] /\ NumberOf(bs) = f[Len(bs)]
<1> DEFINE Then(h, n) == IF n = 0 THEN 0 ELSE h[n - 1] + bs[n] * 2 ^ (DigitBits * (n - 1))
           f == CHOOSE f : f = [n \in 0 .. Len(bs) |->
                    IF n = 0 THEN 0 ELSE f[n - 1] + bs[n] * 2 ^ (DigitBits * (n - 1))]
<1>1. ASSUME NEW h, NEW n \in 0 .. Len(bs) PROVE Then(h, n) = SumAt(Weighed(bs), h, n)
  <2>1. CASE n # 0
    <3>1. n \in 1 .. Len(bs)
      BY <2>1
    <3>2. Weighed(bs)[n] = bs[n] * 2 ^ (DigitBits * (n - 1))
      BY <3>1, Zenon DEF Weighed
    <3> DEFINE x == bs[n] * 2 ^ (DigitBits * (n - 1))
    <3> HIDE DEF x
    <3>3. Then(h, n) = h[n - 1] + x
      BY <2>1 DEF x
    <3>4. SumAt(Weighed(bs), h, n) = h[n - 1] + x
      BY <2>1, <3>2 DEF SumAt, x
    <3> QED BY <3>3, <3>4
  <2>2. CASE n = 0
    BY <2>2 DEF SumAt
  <2> QED BY <2>1, <2>2
<1>2. PICK g : g = [n \in 0 .. Len(bs) |-> SumAt(Weighed(bs), g, n)]
  BY SumExists
<1> HIDE DEF Then
<1>3. g = [n \in 0 .. Len(bs) |-> Then(g, n)]
  BY <1>1, <1>2
<1>4. \E h : h = [n \in 0 .. Len(bs) |-> Then(h, n)]
  BY <1>3
<1>5. f = [n \in 0 .. Len(bs) |-> Then(f, n)]
  BY <1>4, Zenon DEF Then
<1>6. NumberOf(bs) = f[Len(bs)]
  BY Zenon DEF NumberOf
<1> HIDE DEF f
<1>7. f = [n \in 0 .. Len(bs) |-> SumAt(Weighed(bs), f, n)]
  BY <1>1, <1>5
<1> QED
  BY <1>6, <1>7

LEMMA NumberAppend ==
    ASSUME NEW bs \in Seq(Nat), NEW d \in Nat, NumberOf(bs) \in Nat
    PROVE  NumberOf(Append(bs, d)) = NumberOf(bs) + d * 2 ^ (DigitBits * Len(bs))
<1> DEFINE cs == Append(bs, d)
           n == Len(bs)
<1>1. n \in Nat /\ Len(cs) = n + 1 /\ \A i \in 1 .. n : cs[i] = bs[i]
  OBVIOUS
<1>2. cs[n + 1] = d
  OBVIOUS
<1> HIDE DEF cs, n
<1>3. PICK f : f = [i \in 0 .. n |-> SumAt(Weighed(bs), f, i)] /\ NumberOf(bs) = f[n]
  BY <1>1, NumberIs DEF n
<1>4. PICK g : g = [i \in 0 .. n + 1 |-> SumAt(Weighed(cs), g, i)] /\ NumberOf(cs) = g[n + 1]
  BY <1>1, NumberIs
<1>5. \A i \in 1 .. n : Weighed(bs)[i] = Weighed(cs)[i]
  <2>1. ASSUME NEW i \in 1 .. n PROVE Weighed(bs)[i] = Weighed(cs)[i]
    <3>1. i \in 1 .. Len(bs) /\ i \in 1 .. Len(cs) /\ cs[i] = bs[i]
      BY <1>1 DEF n
    <3> QED BY <3>1, Zenon DEF Weighed
  <2> QED BY <2>1
<1>6. f[n] = g[n]
  <2> DEFINE m == n + 1
             a == Weighed(bs)
             b == Weighed(cs)
  <2>1. m \in Nat /\ n <= m /\ n \in Nat
    BY <1>1
  <2>2. \A i \in 1 .. n : a[i] = b[i]
    BY <1>5
  <2>3. (\A i \in 0 .. n : f[i] = SumAt(a, f, i)) /\ (\A i \in 0 .. m : g[i] = SumAt(b, g, i))
    BY <1>3, <1>4
  <2> HIDE DEF m, a, b
  <2>4. f[n] = g[n] /\ f[n] = SumAt(a, f, n) /\ g[m] = SumAt(b, g, m)
    BY ONLY <2>1, <2>2, <2>3, SumsAgree
  <2> QED BY <2>4
<1>7. g[n + 1] = g[n] + Weighed(cs)[n + 1]
  <2>1. n + 1 \in 0 .. n + 1 /\ n + 1 # 0 /\ (n + 1) - 1 = n
    BY <1>1
  <2>2. g[n + 1] = SumAt(Weighed(cs), g, n + 1)
    BY <1>4, <2>1
  <2> QED BY <2>1, <2>2 DEF SumAt
<1>8. Weighed(cs)[n + 1] = d * 2 ^ (DigitBits * n)
  <2>1. n + 1 \in 1 .. Len(cs)
    BY <1>1
  <2>2. Weighed(cs)[n + 1] = cs[n + 1] * 2 ^ (DigitBits * ((n + 1) - 1))
    BY <2>1, Zenon DEF Weighed
  <2>3. (n + 1) - 1 = n
    BY <1>1
  <2> QED BY <1>2, <2>2, <2>3
<1> QED
  BY <1>3, <1>4, <1>6, <1>7, <1>8 DEF cs, n

LEMMA NumberNone == NumberOf(<<>>) = 0
<1>1. PICK f : f = [n \in 0 .. Len(<<>>) |-> SumAt(Weighed(<<>>), f, n)] /\ NumberOf(<<>>) = f[Len(<<>>)]
  BY NumberIs
<1>2. f[0] = SumAt(Weighed(<<>>), f, 0) /\ NumberOf(<<>>) = f[0]
  BY <1>1
<1> QED
  BY <1>2 DEF SumAt

(* The payloads read are a number below the power of their width, and the
   result so far is that number as long as it fits an int. *)
LebInv ==
    /\ bytes \in Seq(Nat)
    /\ shift = Leb!Width /\ shift \in Nat
    /\ NumberOf(bytes) \in 0 .. (2 ^ shift - 1)
    /\ out \in 0 .. (2 ^ LongBits - 1)
    /\ ~done /\ NumberOf(bytes) < 2 ^ IntBits => out = NumberOf(bytes)
    /\ Leb!SmallExact

LEMMA LebConstants ==
    /\ DigitBits \in Nat \ {0} /\ IntBits \in Nat \ {0} /\ LongBits \in Nat
    /\ IntBits < LongBits /\ Digits \subseteq 0 .. (2 ^ DigitBits - 1)
    /\ 2 ^ IntBits \in Nat \ {0} /\ 2 ^ LongBits \in Nat \ {0} /\ 2 ^ IntBits < 2 ^ LongBits
<1>1. /\ DigitBits \in Nat \ {0} /\ IntBits \in Nat \ {0} /\ LongBits \in Nat
      /\ IntBits < LongBits /\ Digits \subseteq 0 .. (2 ^ DigitBits - 1)
  BY LebAssumption DEF Leb!LebAssumption
<1>2. 2 ^ IntBits \in Nat \ {0} /\ 2 ^ LongBits \in Nat \ {0}
  BY <1>1, PowerFacts
<1>3. PICK k \in Nat : 2 ^ LongBits = (2 * k) * 2 ^ IntBits
  BY <1>1, PowersGrow
<1> DEFINE p == 2 ^ IntBits
           q == 2 ^ LongBits
<1>4. p \in Nat \ {0} /\ q \in Nat \ {0} /\ q = (2 * k) * p
  BY <1>2, <1>3
<1> HIDE DEF p, q
<1>5. k # 0
  BY <1>4
<1>6. p * 1 <= p * k
  BY <1>4, <1>5
<1>7. p < q
  <2>1. (2 * k) * p = 2 * (p * k) /\ p * k \in Nat
    BY <1>4
  <2> QED BY <1>4, <1>6, <2>1
<1> QED
  BY <1>1, <1>2, <1>7 DEF p, q

LEMMA LebInit == ASSUME Leb!Init PROVE LebInv
<1>1. bytes = <<>> /\ shift = 0 /\ out = 0 /\ done = FALSE
  BY DEF Leb!Init
<1>2. Leb!Width = 0
  BY <1>1, LebConstants DEF Leb!Width
<1>3. NumberOf(bytes) = 0
  BY <1>1, NumberNone
<1> QED
  BY <1>1, <1>2, <1>3, LebConstants, PowerFacts DEF LebInv, Leb!SmallExact

(* A payload's place: below an int's width it is where the number has it;
   from there on only a payload of no bits leaves the number an int. *)
LEMMA LebReads == ASSUME LebInv, Leb!Next, ~done, UNCHANGED done PROVE LebInv'
<1> DEFINE u == NumberOf(bytes)
           p == 2 ^ shift
           I == 2 ^ IntBits
           L == 2 ^ LongBits
<1>1. /\ bytes \in Seq(Nat) /\ shift = DigitBits * Len(bytes) /\ shift \in Nat
      /\ u \in 0 .. (p - 1) /\ out \in 0 .. (L - 1)
      /\ u < I => out = u
  BY DEF LebInv, Leb!Width
<1>2. p \in Nat \ {0} /\ I \in Nat \ {0} /\ L \in Nat \ {0} /\ I < L
  BY <1>1, LebConstants, PowerFacts
<1>3. PICK d \in Digits, continued \in BOOLEAN : Leb!ReadByte(d, continued)
  BY DEF Leb!Next, Leb!Return
<1>4. PICK x \in Leb!Shifted(d) : out' = Leb!Or(out, x)
  BY <1>3 DEF Leb!ReadByte
<1>5. bytes' = Append(bytes, d) /\ shift' = shift + DigitBits /\ signed' = signed
  BY <1>3 DEF Leb!ReadByte
<1>6. d \in Nat /\ d < 2 ^ DigitBits /\ DigitBits \in Nat \ {0} /\ 2 ^ DigitBits \in Nat \ {0}
  BY LebConstants, PowerFacts
<1>7. bytes' \in Seq(Nat) /\ Len(bytes') = Len(bytes) + 1 /\ Len(bytes) \in Nat
  BY <1>1, <1>5, <1>6
<1>8. shift' = Leb!Width' /\ shift' \in Nat
  <2>1. DigitBits * (Len(bytes) + 1) = DigitBits * Len(bytes) + DigitBits
    BY <1>6, <1>7
  <2> QED BY <1>1, <1>5, <1>6, <1>7, <2>1 DEF Leb!Width
<1>9. NumberOf(bytes') = u + d * p
  <2>1. u \in Nat
    BY <1>1, <1>2
  <2> QED BY <1>1, <1>5, <1>6, <2>1, NumberAppend
<1>10. NumberOf(bytes') \in 0 .. (2 ^ shift' - 1)
  <2>1. 2 ^ (shift + DigitBits) = 2 ^ shift * 2 ^ DigitBits
    BY <1>1, <1>6, PowersMultiply
  <2> DEFINE w == 2 ^ DigitBits
  <2>2. 2 ^ shift' = p * w /\ w \in Nat \ {0} /\ d < w
    BY <1>5, <1>6, <2>1
  <2> HIDE DEF p, w, u
  <2>3. p * (d + 1) <= p * w
    BY <1>2, <1>6, <2>2
  <2>4. p * (d + 1) = d * p + p /\ d * p \in Nat /\ p * w \in Nat
    BY <1>2, <1>6, <2>2
  <2> QED BY <1>1, <1>2, <1>9, <2>2, <2>3, <2>4
<1>11. out' \in 0 .. (2 ^ LongBits - 1)
  BY <1>4, OrFacts
<1>12. ASSUME NumberOf(bytes') < 2 ^ IntBits PROVE out' = NumberOf(bytes')
  <2> HIDE DEF p, I, L, u
  <2>1. u + d * p < I /\ d * p \in Nat /\ u \in Nat
    BY <1>1, <1>2, <1>6, <1>9, <1>12 DEF I
  <2>2. u < I /\ out = u
    BY <1>1, <1>2, <2>1
  <2>3. x = d * p
    <3>1. CASE shift < IntBits
      <4>1. x = (d * p) % I
        BY <3>1 DEF Leb!Shifted, Leb!AsInt, p, I
      <4>2. d * p = I * 0 + d * p /\ d * p \in 0 .. (I - 1)
        BY <1>2, <2>1
      <4> DEFINE y == d * p
      <4> HIDE DEF y
      <4>3. y \in Nat /\ I \in Nat /\ y < I
        BY <1>2, <2>1, <4>2 DEF y
      <4>4. y % I = y
        BY <4>3, Small
      <4> QED BY <4>1, <4>4 DEF y
    <3>2. CASE ~(shift < IntBits)
      <4>1. I <= p
        BY <1>1, <3>2, LebConstants, PowersGrow DEF I, p
      <4>2. d = 0
        <5>1. SUFFICES ASSUME d # 0 PROVE FALSE
          OBVIOUS
        <5>2. p * 1 <= p * d
          BY <1>2, <1>6, <5>1
        <5> QED BY <1>2, <1>6, <2>1, <4>1, <5>2
      <4> DEFINE e == 2 ^ (shift % IntBits)
      <4>3. e \in Nat
        <5>1. shift % IntBits \in Nat
          BY <1>1, LebConstants
        <5> QED BY <5>1, PowerFacts
      <4>4. x \in {(0 * e) % I, 0}
        BY <3>2, <4>2 DEF Leb!Shifted, Leb!AsInt, I
      <4> HIDE DEF e
      <4>5. (0 * e) % I = 0
        BY <1>2, <4>3
      <4>6. x = 0
        BY <4>4, <4>5
      <4> QED BY <1>2, <4>2, <4>6
    <3> QED BY <3>1, <3>2
  <2>4. Leb!Or(u, d * p) = u + d * p
    <3>1. u \in 0 .. (2 ^ shift - 1) /\ u + d * 2 ^ shift < 2 ^ LongBits
      BY <1>1, <1>2, <1>6, <2>1 DEF p, L
    <3> QED BY <1>1, <1>6, <3>1, OrIsSum DEF p
  <2> QED BY <1>4, <1>9, <2>2, <2>3, <2>4
<1>13. done' = FALSE
  BY <1>3 DEF Leb!ReadByte
<1> HIDE DEF u, p, I, L
<1>14. Leb!SmallExact'
  BY <1>13 DEF Leb!SmallExact
<1> QED
  BY <1>7, <1>8, <1>10, <1>11, <1>12, <1>14 DEF LebInv

LEMMA LebReturns == ASSUME LebInv, Leb!Return PROVE LebInv'
<1> DEFINE u == NumberOf(bytes)
           p == 2 ^ shift
           L == 2 ^ LongBits
<1>1. /\ bytes \in Seq(Nat) /\ shift = DigitBits * Len(bytes) /\ shift = Leb!Width /\ shift \in Nat
      /\ u \in 0 .. (p - 1) /\ out \in 0 .. (L - 1)
      /\ u < 2 ^ IntBits => out = u
      /\ done' = TRUE /\ UNCHANGED <<signed, bytes, shift>>
  BY DEF LebInv, Leb!Width, Leb!Return
<1>2. p \in Nat \ {0} /\ L \in Nat \ {0} /\ 2 ^ IntBits \in Nat \ {0} /\ 2 ^ IntBits < L
  BY <1>1, LebConstants, PowerFacts
<1>3. Leb!Unsigned = u /\ u \in Nat
  <2>1. Leb!Unsigned = u
    BY Zenon DEF Leb!Unsigned, NumberOf
  <2> QED BY <1>1, <1>2, <2>1
<1>4. /\ signed /\ Leb!Negative => \E e \in Leb!Extension : out' = Leb!Or(out, e)
      /\ ~(signed /\ Leb!Negative) => out' = out
  BY DEF Leb!Return
<1> HIDE DEF u, p, L
<1>5. out' \in 0 .. (L - 1)
  BY <1>1, <1>4, OrFacts DEF L
<1>6. u < L => Leb!AsLong(u) = u
  <2>1. ASSUME u < L PROVE u % L = u
    <3>1. u \in Nat /\ L \in Nat
      BY <1>2, <1>3
    <3> QED BY <2>1, <3>1, Small
  <2> QED BY <2>1 DEF Leb!AsLong, L
<1>7. ASSUME ~signed, u < 2 ^ IntBits PROVE out' = Leb!Encoded
  <2>1. out' = u /\ u < L
    BY <1>1, <1>2, <1>3, <1>4, <1>7
  <2>2. Leb!Encoded = Leb!AsLong(u)
    BY <1>3, <1>7 DEF Leb!Encoded
  <2> QED BY <1>6, <2>1, <2>2
<1>8. ASSUME signed, Leb!Width < IntBits PROVE out' = Leb!Encoded
  <2>1. shift < IntBits /\ shift < LongBits
    BY <1>1, <1>8, LebConstants
  <2>2. p <= 2 ^ IntBits
    BY <1>1, <2>1, LebConstants, PowersGrow DEF p
  <2>3. u < 2 ^ IntBits /\ u < L /\ out = u /\ u < p
    BY <1>1, <1>2, <1>3, <2>2
  <2>4. CASE Leb!IsNegative
    <3>1. Leb!Negative
      BY <2>1, <2>4 DEF Leb!Negative
    <3>2. out' = Leb!Or(out, L - p)
      BY <1>4, <1>8, <2>1, <3>1 DEF Leb!Extension, L, p
    <3>3. PICK k \in Nat : L = (2 * k) * p
      BY <1>1, <2>1, LebConstants, PowersGrow DEF L, p
    <3>4. k # 0
      BY <1>2, <3>3
    <3> DEFINE j == 2 * k - 1
    <3>5. j \in Nat /\ 2 * k = j + 1
      BY <3>4
    <3> HIDE DEF j
    <3>6. L - p = j * p
      BY <1>2, <3>3, <3>5
    <3>7. u + j * p < L
      BY <1>2, <1>3, <2>3, <3>5, <3>6
    <3>8. Leb!Or(u, j * p) = u + j * p
      <4>1. u \in 0 .. (2 ^ shift - 1) /\ u + j * 2 ^ shift < 2 ^ LongBits
        BY <1>1, <3>7 DEF p, L
      <4> QED BY <1>1, <3>5, <4>1, OrIsSum DEF p
    <3>9. Leb!Encoded = L - (p - u)
      BY <1>1, <1>3, <1>8, <2>1, <2>4 DEF Leb!Encoded, L, p
    <3>10. out' = u + (L - p)
      BY <2>3, <3>2, <3>6, <3>8
    <3> QED BY <1>2, <1>3, <3>9, <3>10
  <2>5. CASE ~Leb!IsNegative
    <3>1. out' = u
      BY <1>4, <2>3, <2>5 DEF Leb!Negative
    <3>2. Leb!Encoded = Leb!AsLong(u)
      BY <1>3, <2>5 DEF Leb!Encoded
    <3> QED BY <1>6, <2>3, <3>1, <3>2
  <2> QED BY <2>4, <2>5
<1>9. /\ Leb!Unsigned' = Leb!Unsigned /\ Leb!Width' = Leb!Width /\ Leb!Encoded' = Leb!Encoded
      /\ NumberOf(bytes)' = u
  <2>1. bytes' = bytes /\ signed' = signed
    BY <1>1
  <2>2. Leb!Unsigned' = Leb!Unsigned /\ Leb!Width' = Leb!Width /\ Leb!IsNegative' = Leb!IsNegative
    BY <2>1 DEF Leb!Unsigned, Leb!Width, Leb!IsNegative
  <2>3. Leb!Encoded' = Leb!Encoded
    BY <2>1, <2>2 DEF Leb!Encoded, Leb!AsLong
  <2> QED BY <2>1, <2>2, <2>3 DEF u
<1>10. Leb!SmallExact'
  BY <1>1, <1>3, <1>7, <1>8, <1>9 DEF Leb!SmallExact
<1> QED
  BY <1>1, <1>5, <1>9, <1>10 DEF LebInv, u, p, L

LEMMA LebStep == ASSUME LebInv, [Leb!Next]_(Leb!vars) PROVE LebInv'
<1>1. CASE Leb!Return
  BY <1>1, LebReturns
<1>2. CASE Leb!Next /\ ~Leb!Return
  <2>1. ~done /\ UNCHANGED done
    BY <1>2 DEF Leb!Next, Leb!ReadByte
  <2> QED BY <1>2, <2>1, LebReads
<1>3. CASE UNCHANGED Leb!vars
  <2>1. UNCHANGED <<signed, bytes, more, shift, out, done>>
    BY <1>3 DEF Leb!vars
  <2>2. NumberOf(bytes)' = NumberOf(bytes) /\ Leb!Width' = Leb!Width /\ Leb!Unsigned' = Leb!Unsigned
        /\ Leb!IsNegative' = Leb!IsNegative
    BY <2>1 DEF NumberOf, Leb!Width, Leb!Unsigned, Leb!IsNegative
  <2>3. Leb!Encoded' = Leb!Encoded
    BY <2>1, <2>2 DEF Leb!Encoded, Leb!AsLong
  <2>4. Leb!SmallExact'
    BY <2>1, <2>2, <2>3 DEF LebInv, Leb!SmallExact
  <2> QED BY <2>1, <2>2, <2>4 DEF LebInv
<1> QED
  BY <1>1, <1>2, <1>3

LEMMA LebInvImplies == ASSUME LebInv PROVE Leb!TypeOK /\ Leb!SmallExact
BY DEF LebInv, Leb!TypeOK

-------------------------------------------------------------------------------
(* Streams in memory. *)
ByteSet == Stream!Byte
Grown(m, n) == IF m > n THEN m ELSE n

CopyRecords == [src : Seq(ByteSet), size : Nat, done : Nat, from : Nat, all : Seq(ByteSet)]
StreamTyped ==
    /\ buffer \in Seq(ByteSet) /\ Len(buffer) <= MaxSize /\ pos \in 0 .. Len(buffer)
    /\ reserved \in Nat /\ held \in Nat /\ Len(buffer) <= reserved
    /\ val \in 0 .. (Base * Base - 1)
    /\ copying \in CopyRecords /\ copying.done <= copying.size
    /\ overrun \in BOOLEAN /\ copied \in BOOLEAN

(* A stream that is no copy has the reserve it thinks it has. *)
BlockKept == ~copied => held = reserved /\ ~overrun

(* As far as it went, a copy from another stream has put what the other had,
   and has the rest of it left, unless there was no room. *)
Putting ==
    copying # Stream!NotCopying =>
        /\ answer = Stream!Nothing
        /\ overrun \/ /\ pos = copying.from + copying.done
                      /\ copying.done <= Len(copying.all)
                      /\ SubSeq(buffer, copying.from + 1, pos) = SubSeq(copying.all, 1, copying.done)
                      /\ \/ copying.src = SubSeq(copying.all, copying.done + 1, Len(copying.all))
                         \/ ~grows /\ pos = Len(buffer)

Answered == Stream!NumbersKept /\ Stream!TextEnds /\ Stream!SwriteWhole
StreamInv == StreamTyped /\ BlockKept /\ Putting /\ Answered

LEMMA StreamConstants ==
    /\ Base \in Nat \ {0, 1} /\ ByteSet = 0 .. (Base - 1) /\ 0 \in ByteSet /\ 1 \in ByteSet
    /\ MaxSize \in Nat /\ kSIZE \in Nat \ {0} /\ Sources \subseteq Seq(ByteSet)
BY MemoryAssumption DEF Stream!MemoryAssumption, ByteSet, Stream!Byte

(* Part of a sequence, by its elements. *)
LEMMA PartFacts ==
    ASSUME NEW S, NEW s \in Seq(S), NEW m \in Nat, NEW n \in Nat, m + n <= Len(s)
    PROVE  /\ SubSeq(s, m + 1, m + n) \in Seq(S) /\ Len(SubSeq(s, m + 1, m + n)) = n
           /\ \A i \in 1 .. n : SubSeq(s, m + 1, m + n)[i] = s[m + i]
<1>1. Len(s) \in Nat /\ \A i \in 1 .. Len(s) : s[i] \in S
  OBVIOUS
<1>2. m + 1 \in Int /\ m + n \in Int
  OBVIOUS
<1>3. \A i \in m + 1 .. m + n : s[i] \in S
  BY <1>1
<1> DEFINE a == m + 1
           b == m + n
           t == SubSeq(s, a, b)
<1>4. /\ t \in Seq(S) /\ Len(t) = IF a <= b THEN b - a + 1 ELSE 0
      /\ \A i \in 1 .. b - a + 1 : t[i] = s[a + i - 1]
  <2> HIDE DEF a, b
  <2>1. a \in Int /\ b \in Int /\ \A i \in a .. b : s[i] \in S
    BY <1>2, <1>3 DEF a, b
  <2> QED BY <2>1, SubSeqProperties
<1> HIDE DEF t
<1>5. Len(t) = n /\ \A i \in 1 .. n : t[i] = s[m + i]
  <2>1. \A i \in 1 .. n : i \in 1 .. b - a + 1 /\ a + i - 1 = m + i
    OBVIOUS
  <2>2. \A i \in 1 .. n : t[i] = s[m + i]
    BY <1>4, <2>1
  <2> QED BY <1>4, <2>2
<1> QED
  BY <1>4, <1>5 DEF t

(* Bytes put over others. *)
LEMMA OverFacts ==
    ASSUME buffer \in Seq(ByteSet), pos \in 0 .. Len(buffer), NEW bs \in Seq(ByteSet)
    PROVE  /\ Stream!Over(bs) \in Seq(ByteSet)
           /\ Len(Stream!Over(bs)) = Grown(pos + Len(bs), Len(buffer))
           /\ \A i \in 1 .. pos : Stream!Over(bs)[i] = buffer[i]
           /\ \A i \in 1 .. Len(bs) : Stream!Over(bs)[pos + i] = bs[i]
           /\ SubSeq(Stream!Over(bs), pos + 1, pos + Len(bs)) = bs
           /\ bs = <<>> => Stream!Over(bs) = buffer
<1> DEFINE n == Grown(pos + Len(bs), Len(buffer))
           e(i) == IF i > pos /\ i <= pos + Len(bs) THEN bs[i - pos] ELSE buffer[i]
           o == Stream!Over(bs)
<1>1. /\ Len(bs) \in Nat /\ Len(buffer) \in Nat /\ pos \in Nat /\ pos <= Len(buffer)
      /\ (\A i \in 1 .. Len(bs) : bs[i] \in ByteSet) /\ \A i \in 1 .. Len(buffer) : buffer[i] \in ByteSet
  OBVIOUS
<1>2. n \in Nat /\ n >= Len(buffer) /\ n >= pos + Len(bs)
  BY <1>1 DEF Grown
<1>3. o = [i \in 1 .. n |-> e(i)]
  BY DEF Stream!Over, Grown
<1>4. \A i \in 1 .. n : e(i) \in ByteSet
  <2>1. ASSUME NEW i \in 1 .. n PROVE e(i) \in ByteSet
    <3>1. CASE i > pos /\ i <= pos + Len(bs)
      <4>1. i - pos \in 1 .. Len(bs)
        BY <1>1, <3>1
      <4> QED BY <1>1, <3>1, <4>1
    <3>2. CASE ~(i > pos /\ i <= pos + Len(bs))
      <4>1. i \in 1 .. Len(buffer)
        BY <1>1, <3>2 DEF Grown
      <4> QED BY <1>1, <3>2, <4>1
    <3> QED BY <3>1, <3>2
  <2> QED BY <2>1
<1> HIDE DEF n, e
<1>5. o \in Seq(ByteSet) /\ Len(o) = n
  BY <1>2, <1>3, <1>4
<1>6. \A i \in 1 .. pos : o[i] = buffer[i]
  <2>1. \A i \in 1 .. pos : i \in 1 .. n /\ e(i) = buffer[i]
    BY <1>1, <1>2 DEF e
  <2> QED BY <1>3, <2>1
<1>7. \A i \in 1 .. Len(bs) : o[pos + i] = bs[i]
  <2>1. ASSUME NEW i \in 1 .. Len(bs) PROVE o[pos + i] = bs[i]
    <3>1. pos + i \in 1 .. n /\ pos + i > pos /\ pos + i <= pos + Len(bs) /\ (pos + i) - pos = i
      BY <1>1, <1>2
    <3>2. e(pos + i) = bs[i]
      BY <3>1 DEF e
    <3> QED BY <1>3, <3>1, <3>2
  <2> QED BY <2>1
<1> HIDE DEF o
<1>8. SubSeq(o, pos + 1, pos + Len(bs)) = bs
  <2> DEFINE t == SubSeq(o, pos + 1, pos + Len(bs))
  <2>1. t \in Seq(ByteSet) /\ Len(t) = Len(bs) /\ \A i \in 1 .. Len(bs) : t[i] = o[pos + i]
    BY <1>1, <1>2, <1>5, PartFacts
  <2> HIDE DEF t
  <2>2. t = bs
    BY <1>7, <2>1, SeqEqual
  <2> QED BY <2>2 DEF t
<1>9. ASSUME bs = <<>> PROVE o = buffer
  <2>1. Len(bs) = 0
    BY <1>9
  <2>2. n = Len(buffer)
    BY <1>1, <2>1 DEF n, Grown
  <2>3. \A i \in 1 .. n : o[i] = buffer[i]
    <3>1. \A i \in 1 .. n : e(i) = buffer[i]
      BY <1>1, <2>1, <2>2 DEF e
    <3> QED BY <1>3, <3>1
  <2> QED BY <1>5, <2>2, <2>3, SeqEqual
<1> QED
  BY <1>5, <1>6, <1>7, <1>8, <1>9 DEF o, n

(* What a write does: as many bytes as it says are put at the position, or it
   leaves a copy's block. *)
LEMMA WriteFacts ==
    ASSUME StreamTyped, BlockKept, ~overrun, NEW bs \in Seq(ByteSet), Stream!write(bs)
    PROVE  /\ Stream!Written(bs) \in 0 .. Len(bs)
           /\ buffer' \in Seq(ByteSet) /\ Len(buffer') <= MaxSize /\ pos' \in 0 .. Len(buffer')
           /\ reserved' \in Nat /\ held' \in Nat /\ Len(buffer') <= reserved'
           /\ overrun' \in BOOLEAN /\ (~copied => held' = reserved' /\ ~overrun')
           /\ \/ overrun' /\ UNCHANGED <<buffer, pos>>
              \/ /\ ~overrun' /\ pos' = pos + Stream!Written(bs)
                 /\ buffer' = Stream!Over(SubSeq(bs, 1, Stream!Written(bs)))
                 /\ SubSeq(buffer', pos + 1, pos') = SubSeq(bs, 1, Stream!Written(bs))
                 /\ \A i \in 1 .. pos : buffer'[i] = buffer[i]
                 /\ Stream!Written(bs) < Len(bs) => ~grows /\ pos' = Len(buffer')
<1> DEFINE n == Stream!Written(bs)
           cs == SubSeq(bs, 1, n)
           room == Len(buffer) - pos
<1>1. /\ buffer \in Seq(ByteSet) /\ Len(buffer) \in Nat /\ Len(buffer) <= MaxSize /\ MaxSize \in Nat
      /\ pos \in 0 .. Len(buffer) /\ pos \in Nat /\ room \in Nat /\ Len(bs) \in Nat
      /\ reserved \in Nat /\ held \in Nat /\ Len(buffer) <= reserved /\ overrun = FALSE
      /\ ~copied => held = reserved
  BY StreamConstants DEF StreamTyped, BlockKept
<1>2. n \in 0 .. Len(bs)
  BY <1>1 DEF Stream!Written, Stream!Lesser
<1>3. cs \in Seq(ByteSet) /\ Len(cs) = n
  <2> HIDE DEF n
  <2>1. 0 + 1 = 1 /\ 0 + n = n /\ n \in Nat /\ 0 + n <= Len(bs)
    BY <1>1, <1>2
  <2>2. SubSeq(bs, 0 + 1, 0 + n) \in Seq(ByteSet) /\ Len(SubSeq(bs, 0 + 1, 0 + n)) = n
    BY <2>1, PartFacts
  <2> QED BY <2>1, <2>2
<1> DEFINE o == Stream!Over(cs)
<1>4. /\ o \in Seq(ByteSet) /\ Len(o) = Grown(pos + n, Len(buffer))
      /\ (\A i \in 1 .. pos : o[i] = buffer[i])
      /\ SubSeq(o, pos + 1, pos + n) = cs
  <2> HIDE DEF cs, n
  <2> QED BY <1>1, <1>3, OverFacts
<1>5. Len(o) \in Nat /\ Len(o) >= Len(buffer) /\ Len(o) >= pos + n
      /\ (pos + n <= Len(buffer) => Len(o) = Len(buffer)) /\ (pos + n > Len(buffer) => Len(o) = pos + n)
  <2> HIDE DEF o, n, cs
  <2>1. n \in Nat /\ pos + n \in Nat /\ Len(o) = IF pos + n > Len(buffer) THEN pos + n ELSE Len(buffer)
    BY <1>1, <1>2, <1>4 DEF Grown
  <2> QED BY <1>1, <2>1
<1> HIDE DEF o, n, cs
(* Bytes are put, and the block is right. *)
<1>6. ASSUME buffer' = o, pos' = pos + n, overrun' = overrun, Len(o) <= MaxSize,
             reserved' \in Nat, held' \in Nat, Len(o) <= reserved', ~copied => held' = reserved',
             n < Len(bs) => ~grows /\ pos + n = Len(o)
      PROVE  /\ buffer' \in Seq(ByteSet) /\ Len(buffer') <= MaxSize /\ pos' \in 0 .. Len(buffer')
             /\ reserved' \in Nat /\ held' \in Nat /\ Len(buffer') <= reserved'
             /\ overrun' \in BOOLEAN /\ (~copied => held' = reserved' /\ ~overrun')
             /\ \/ overrun' /\ UNCHANGED <<buffer, pos>>
                \/ /\ ~overrun' /\ pos' = pos + n /\ buffer' = o
                   /\ SubSeq(buffer', pos + 1, pos') = cs
                   /\ \A i \in 1 .. pos : buffer'[i] = buffer[i]
                   /\ n < Len(bs) => ~grows /\ pos' = Len(buffer')
  <2>1. pos' \in 0 .. Len(buffer')
    BY <1>1, <1>2, <1>5, <1>6
  <2>2. SubSeq(buffer', pos + 1, pos') = cs
    BY <1>4, <1>6
  <2> QED BY <1>1, <1>4, <1>6, <2>1, <2>2
<1>7. CASE grows
  <2>1. n = Len(bs) /\ cs = bs
    <3>1. n = Len(bs)
      BY <1>7 DEF n, Stream!Written
    <3> QED BY <3>1, SubSeqFull DEF cs
  <2>2. Stream!WriteGrowing(bs) /\ pos + n <= MaxSize
    BY <1>7, <2>1 DEF Stream!write, Stream!WriteGrowing
  <2>3. o = Stream!Over(bs)
    BY <2>1 DEF o
  <2>4. Len(o) <= MaxSize
    BY <1>1, <1>2, <1>5, <2>2
  <2>5. CASE pos + n > Len(buffer) /\ pos + n > reserved
    <3>1. reserved' = 2 * (pos + n) /\ held' = 2 * (pos + n) /\ buffer' = o /\ pos' = pos + n
          /\ overrun' = overrun
      BY <2>1, <2>2, <2>3, <2>5 DEF Stream!WriteGrowing, Stream!Reallocate
    <3>2. reserved' \in Nat /\ held' \in Nat /\ Len(o) <= reserved' /\ held' = reserved'
      BY <1>1, <1>2, <1>5, <2>5, <3>1
    <3>3. ~(n < Len(bs))
      BY <1>1, <2>1
    <3> QED BY <1>2, <1>6, <2>4, <3>1, <3>2, <3>3 DEF n, o, cs
  <2>6. CASE ~(pos + n > Len(buffer) /\ pos + n > reserved) /\ pos + n <= held
    <3>1. reserved' = reserved /\ held' = held /\ buffer' = o /\ pos' = pos + n /\ overrun' = overrun
      BY <2>1, <2>2, <2>3, <2>6 DEF Stream!WriteGrowing
    <3>2. Len(o) <= reserved
      BY <1>1, <1>2, <1>5, <2>6
    <3>3. ~(n < Len(bs))
      BY <1>1, <2>1
    <3> QED BY <1>1, <1>2, <1>6, <2>4, <3>1, <3>2, <3>3 DEF n, o, cs
  <2>7. CASE ~(pos + n > Len(buffer) /\ pos + n > reserved) /\ ~(pos + n <= held)
    <3>1. reserved' = reserved /\ held' = held /\ buffer' = buffer /\ pos' = pos /\ overrun' = TRUE
      BY <2>1, <2>2, <2>3, <2>7 DEF Stream!WriteGrowing
    <3>2. copied
      BY <1>1, <1>2, <2>7
    <3> QED BY <1>1, <1>2, <3>1, <3>2 DEF n
  <2> QED BY <2>5, <2>6, <2>7
<1>8. CASE ~grows
  <2>1. n = Stream!Lesser(room, Len(bs)) /\ Stream!WriteFixed(bs)
    BY <1>8 DEF n, Stream!Written, Stream!write
  <2>2. reserved' = reserved /\ held' = held /\ buffer' = o /\ pos' = pos + n /\ overrun' = overrun
    BY <2>1 DEF Stream!WriteFixed, o, cs
  <2>3. n <= room /\ (n < Len(bs) => n = room)
    BY <1>1, <2>1 DEF Stream!Lesser
  <2>4. Len(o) = Len(buffer) /\ (n < Len(bs) => pos + n = Len(o))
    BY <1>1, <1>2, <1>5, <2>3
  <2> QED BY <1>1, <1>2, <1>6, <1>8, <2>2, <2>4 DEF n, o, cs
<1> QED
  BY <1>7, <1>8

(* Numbers: what is put has the value, and what is got is the value. *)
LEMMA EncodedFacts ==
    ASSUME NEW w \in Stream!Widths, NEW v \in 0 .. (Stream!Weight[w] * Base - 1)
    PROVE  /\ Stream!encoded(v, w) \in Seq(ByteSet) /\ Len(Stream!encoded(v, w)) = w
           /\ Stream!Value(Stream!encoded(v, w)) = v
<1>1. Base \in Nat \ {0} /\ ByteSet = 0 .. (Base - 1)
  BY StreamConstants
<1>2. Stream!Weight[1] = 1 /\ Stream!Weight[2] = Base
  BY DEF Stream!Weight
<1>3. CASE w = 1
  <2>1. v \in 0 .. (Base - 1)
    BY <1>1, <1>2, <1>3
  <2>2. v \div 1 = v /\ v % Base = v
    <3>1. v = 1 * v + 0 /\ v \in Nat /\ 0 \in 0 .. (1 - 1) /\ 1 \in Nat \ {0}
      BY <2>1
    <3>2. v \div 1 = v
      BY <3>1, Quotient, Zenon
    <3>3. v < Base /\ Base \in Nat
      BY <1>1, <2>1
    <3>4. v % Base = v
      BY <3>1, <3>3, Small
    <3> QED BY <3>2, <3>4
  <2>3. Stream!Digit(v, 1) = v
    BY <1>2, <2>2 DEF Stream!Digit
  <2>4. Stream!encoded(v, w) = [i \in 1 .. 1 |-> v]
    <3>1. Stream!le_encode(v, 1) = [i \in 1 .. 1 |-> v]
      <4>1. \A i \in 1 .. 1 : Stream!Digit(v, i) = v
        BY <2>3
      <4> QED BY <4>1 DEF Stream!le_encode
    <3>2. Stream!be_encode(v, 1) = [i \in 1 .. 1 |-> v]
      <4>1. \A i \in 1 .. 1 : Stream!Digit(v, 1 + 1 - i) = v
        BY <2>3
      <4> QED BY <4>1 DEF Stream!be_encode
    <3> QED BY <1>3, <3>1, <3>2 DEF Stream!encoded
  <2>5. [i \in 1 .. 1 |-> v] \in Seq(ByteSet) /\ Len([i \in 1 .. 1 |-> v]) = 1
    BY <1>1, <2>1
  <2> DEFINE s == Stream!encoded(v, w)
  <2>6. s \in Seq(ByteSet) /\ Len(s) = 1 /\ s[1] = v
    BY <2>4, <2>5
  <2> HIDE DEF s
  <2>7. Stream!Value(s) = v
    BY <2>6 DEF Stream!Value
  <2> QED BY <1>3, <2>6, <2>7 DEF s
<1>4. CASE w = 2
  <2> DEFINE q == v \div Base
             r == v % Base
  <2>1. v \in 0 .. (Base * Base - 1) /\ v \in Nat
    <3> DEFINE bb == Base * Base
    <3>1. bb \in Nat /\ Stream!Weight[w] * Base = bb
      BY <1>1, <1>2, <1>4
    <3> HIDE DEF bb
    <3>2. v \in 0 .. (bb - 1) /\ v \in Nat
      BY <3>1
    <3> QED BY <3>2 DEF bb
  <2>2. q \in Nat /\ r \in 0 .. (Base - 1) /\ v = Base * q + r
    BY <1>1, <2>1, Division
  <2>3. Stream!Digit(v, 1) = r /\ Stream!Digit(v, 2) = q % Base
    <3>1. v = 1 * v + 0 /\ v \in Nat /\ 0 \in 0 .. (1 - 1) /\ 1 \in Nat \ {0}
      BY <2>1
    <3>2. v \div 1 = v
      BY <3>1, Quotient, Zenon
    <3> QED BY <1>2, <3>2 DEF Stream!Digit
  <2> HIDE DEF q, r
  <2>4. q < Base
    <3>1. SUFFICES ASSUME Base <= q PROVE FALSE
      BY <1>1, <2>2
    <3>2. Base * Base <= Base * q
      BY <1>1, <2>2, <3>1
    <3> QED BY <1>1, <2>1, <2>2, <3>2
  <2>5. q % Base = q
    <3>1. q \in Nat /\ Base \in Nat
      BY <1>1, <2>2
    <3> QED BY <2>4, <3>1, Small
  <2>6. Stream!Digit(v, 1) = r /\ Stream!Digit(v, 2) = q
    BY <2>3, <2>5
  <2> DEFINE s == Stream!encoded(v, w)
  <2>7. s = [i \in 1 .. 2 |-> IF big THEN Stream!Digit(v, 2 + 1 - i) ELSE Stream!Digit(v, i)]
    <3>1. CASE big
      BY <1>4, <3>1 DEF Stream!encoded, Stream!be_encode
    <3>2. CASE ~big
      BY <1>4, <3>2 DEF Stream!encoded, Stream!le_encode
    <3> QED BY <3>1, <3>2
  <2>8. s = [i \in 1 .. 2 |-> IF (big <=> i = 1) THEN q ELSE r]
    <3>1. \A i \in 1 .. 2 : (IF big THEN Stream!Digit(v, 2 + 1 - i) ELSE Stream!Digit(v, i))
                            = IF (big <=> i = 1) THEN q ELSE r
      <4>1. \A i \in 1 .. 2 : i = 1 \/ i = 2
        OBVIOUS
      <4>2. 2 + 1 - 1 = 2 /\ 2 + 1 - 2 = 1
        OBVIOUS
      <4> QED BY <2>6, <4>1, <4>2
    <3> QED BY <2>7, <3>1
  <2> HIDE DEF s
  <2>9. q \in ByteSet /\ r \in ByteSet
    BY <1>1, <2>2, <2>4
  <2>10. s \in Seq(ByteSet) /\ Len(s) = 2
    BY <2>8, <2>9
  <2>11. Stream!Value(s) = v
    <3>1. s[1] = (IF big THEN q ELSE r) /\ s[2] = IF big THEN r ELSE q
      BY <2>8
    <3>2. Stream!Value(s) = IF big THEN s[1] * Base + s[2] ELSE s[2] * Base + s[1]
      BY <2>10 DEF Stream!Value
    <3>3. q * Base + r = v
      BY <1>1, <2>2
    <3> QED BY <3>1, <3>2, <3>3
  <2> QED BY <1>4, <2>10, <2>11 DEF s
<1> QED
  BY <1>3, <1>4 DEF Stream!Widths

LEMMA LittleDecoded ==
    ASSUME NEW bs \in Seq(ByteSet), Len(bs) \in {1, 2}
    PROVE  Stream!le_decode(bs) = IF Len(bs) = 1 THEN bs[1] ELSE bs[2] * Base + bs[1]
<1>1. Base \in Nat /\ Len(bs) \in Nat /\ \A i \in 1 .. Len(bs) : bs[i] \in Nat
  BY StreamConstants
<1> DEFINE n == Len(bs)
           Then(h, i) == IF i > n THEN 0 ELSE h[i + 1] * Base + bs[i]
           f == CHOOSE f : f = [i \in 1 .. Len(bs) + 1 |-> IF i > Len(bs) THEN 0 ELSE f[i + 1] * Base + bs[i]]
           last == bs[n]
           g == [i \in 1 .. n + 1 |-> IF i > n THEN 0
                                      ELSE IF i = n THEN bs[i] ELSE bs[i + 1] * Base + bs[i]]
<1>2. \A i \in 1 .. n + 1 : g[i] = Then(g, i)
  <2>1. ASSUME NEW i \in 1 .. n + 1 PROVE g[i] = Then(g, i)
    <3>1. CASE i > n
      BY <1>1, <3>1
    <3>2. CASE i = n
      <4>1. g[i] = bs[i] /\ g[i + 1] = 0 /\ bs[i] \in Nat
        BY <1>1, <3>2
      <4>2. 0 * Base + bs[i] = bs[i]
        BY <1>1, <4>1
      <4> HIDE DEF g
      <4> QED BY <1>1, <3>2, <4>1, <4>2
    <3>3. CASE i < n
      <4>1. i = 1 /\ n = 2
        <5>1. n \in {1, 2} /\ i \in Nat /\ i >= 1
          OBVIOUS
        <5> HIDE DEF n, g
        <5> QED BY <3>3, <5>1
      <4>2. g[1] = bs[2] * Base + bs[1] /\ g[2] = bs[2]
        BY <4>1
      <4> HIDE DEF g
      <4> QED BY <4>1, <4>2
    <3> QED BY <1>1, <3>1, <3>2, <3>3
  <2> QED BY <2>1
<1>3. g = [i \in 1 .. n + 1 |-> Then(g, i)]
  <2> HIDE DEF Then
  <2> QED BY <1>2
<1>4. \E h : h = [i \in 1 .. n + 1 |-> Then(h, i)]
  <2> HIDE DEF Then, g
  <2> QED BY <1>3
<1>5. f = [i \in 1 .. n + 1 |-> Then(f, i)]
  BY <1>4, Zenon
<1>6. Stream!le_decode(bs) = f[1]
  BY Zenon DEF Stream!le_decode
<1> HIDE DEF f, g
<1>7. \A i \in 1 .. n + 1 : f[i] = Then(f, i)
  <2> HIDE DEF Then
  <2> QED BY <1>5
<1>8. CASE n = 1
  <2>1. f[1] = f[2] * Base + bs[1] /\ f[2] = 0 /\ bs[1] \in Nat
    BY <1>1, <1>7, <1>8
  <2>2. f[1] = bs[1]
    BY <1>1, <2>1
  <2> QED BY <1>6, <1>8, <2>2
<1>9. CASE n = 2
  <2>1. f[1] = f[2] * Base + bs[1] /\ f[2] = f[3] * Base + bs[2] /\ f[3] = 0
        /\ bs[1] \in Nat /\ bs[2] \in Nat
    BY <1>1, <1>7, <1>9
  <2>2. f[2] = bs[2]
    BY <1>1, <2>1
  <2> QED BY <1>6, <1>9, <2>1, <2>2
<1> QED
  BY <1>8, <1>9

LEMMA DecodedFacts ==
    ASSUME NEW bs \in Seq(ByteSet), Len(bs) \in {1, 2}
    PROVE  /\ (IF big THEN Stream!be_decode(bs) ELSE Stream!le_decode(bs)) = Stream!Value(bs)
           /\ Stream!Value(bs) \in 0 .. (Base * Base - 1)
<1>1. /\ Base \in Nat \ {0} /\ ByteSet = 0 .. (Base - 1)
      /\ bs[1] \in ByteSet /\ (Len(bs) = 2 => bs[2] \in ByteSet)
  BY StreamConstants
<1>2. Stream!le_decode(bs) = IF Len(bs) = 1 THEN bs[1] ELSE bs[2] * Base + bs[1]
  BY LittleDecoded
<1> DEFINE r == Stream!Reverse(bs)
<1>3. r = [i \in 1 .. Len(bs) |-> bs[(Len(bs) - i) + 1]]
  BY DEF Stream!Reverse
<1>4. /\ r \in Seq(ByteSet) /\ Len(r) = Len(bs)
      /\ Len(bs) = 1 => r[1] = bs[1]
      /\ Len(bs) = 2 => r[1] = bs[2] /\ r[2] = bs[1]
  <2>1. CASE Len(bs) = 1
    <3>1. r = [i \in 1 .. 1 |-> bs[1]]
      <4>1. \A i \in 1 .. 1 : (1 - i) + 1 = 1
        OBVIOUS
      <4> QED BY <1>3, <2>1, <4>1
    <3> HIDE DEF r
    <3> QED BY <1>1, <2>1, <3>1
  <2>2. CASE Len(bs) = 2
    <3>1. r = [i \in 1 .. 2 |-> bs[(2 - i) + 1]]
      BY <1>3, <2>2
    <3>2. \A i \in 1 .. 2 : bs[(2 - i) + 1] \in ByteSet
      <4>1. \A i \in 1 .. 2 : (2 - i) + 1 \in {1, 2}
        OBVIOUS
      <4> QED BY <1>1, <2>2, <4>1
    <3>3. (2 - 1) + 1 = 2 /\ (2 - 2) + 1 = 1
      OBVIOUS
    <3> HIDE DEF r
    <3>4. r \in Seq(ByteSet) /\ Len(r) = 2
      BY <3>1, <3>2
    <3>5. r[1] = bs[2] /\ r[2] = bs[1]
      BY <3>1, <3>3
    <3> QED BY <2>2, <3>4, <3>5
  <2> QED BY <2>1, <2>2
<1> HIDE DEF r
<1>5. Stream!be_decode(bs) = IF Len(bs) = 1 THEN bs[1] ELSE bs[1] * Base + bs[2]
  <2>1. Stream!le_decode(r) = IF Len(r) = 1 THEN r[1] ELSE r[2] * Base + r[1]
    BY <1>4, LittleDecoded
  <2>2. Stream!be_decode(bs) = Stream!le_decode(r)
    BY DEF Stream!be_decode, r
  <2> QED BY <1>4, <2>1, <2>2
<1>6. (IF big THEN Stream!be_decode(bs) ELSE Stream!le_decode(bs)) = Stream!Value(bs)
  BY <1>2, <1>5 DEF Stream!Value
<1>7. ASSUME NEW a \in ByteSet, NEW b \in ByteSet
      PROVE  a * Base + b \in 0 .. (Base * Base - 1) /\ a \in 0 .. (Base * Base - 1)
  <2>1. a \in Nat /\ b \in Nat /\ a + 1 <= Base /\ b + 1 <= Base
    BY <1>1
  <2>2. (a + 1) * Base <= Base * Base
    BY <1>1, <2>1
  <2>3. (a + 1) * Base = a * Base + Base /\ a * Base \in Nat /\ Base * Base \in Nat
    BY <1>1, <2>1
  <2>4. a * 1 <= a * Base
    BY <1>1, <2>1
  <2> DEFINE ab == a * Base
             bb == Base * Base
  <2>5. ab \in Nat /\ bb \in Nat /\ ab + Base <= bb /\ a <= ab
    BY <2>1, <2>2, <2>3, <2>4
  <2> HIDE DEF ab, bb
  <2>6. ab + b \in 0 .. (bb - 1) /\ a \in 0 .. (bb - 1)
    BY <1>1, <2>1, <2>5
  <2> QED BY <2>6 DEF ab, bb
<1>8. Stream!Value(bs) \in 0 .. (Base * Base - 1)
  <2>1. CASE Len(bs) = 1
    BY <1>1, <1>7, <2>1 DEF Stream!Value
  <2>2. CASE Len(bs) = 2
    <3>1. /\ bs[1] * Base + bs[2] \in 0 .. (Base * Base - 1)
          /\ bs[2] * Base + bs[1] \in 0 .. (Base * Base - 1)
      BY <1>1, <1>7, <2>2
    <3>2. Stream!Value(bs) = IF big THEN bs[1] * Base + bs[2] ELSE bs[2] * Base + bs[1]
      BY <2>2 DEF Stream!Value
    <3> QED BY <3>1, <3>2
  <2> QED BY <2>1, <2>2
<1> QED
  BY <1>6, <1>8

(* The text at the position: up to its zero, or what there is of it. *)
LEMMA TextFacts ==
    ASSUME buffer \in Seq(ByteSet), pos \in 0 .. Len(buffer), NEW max \in Nat
    PROVE  /\ Stream!Readable(max) \in Nat /\ Stream!Readable(max) <= max
           /\ Stream!Readable(max) <= Len(buffer) - pos
           /\ Stream!Readable(max) < max => Stream!Readable(max) = Len(buffer) - pos
           /\ Stream!SizeOfText(max) \in 0 .. Stream!Readable(max)
           /\ \A i \in 1 .. (Stream!SizeOfText(max) - 1) : buffer[pos + i] # 0
           /\ \/ Stream!SizeOfText(max) = Stream!Readable(max)
              \/ Stream!SizeOfText(max) > 0 /\ buffer[pos + Stream!SizeOfText(max)] = 0
<1> DEFINE r == Stream!Readable(max)
           Stops(n) == n = r \/ (n > 0 /\ buffer[pos + n] = 0)
           Fit(n) == /\ \A i \in 1 .. (n - 1) : buffer[pos + i] # 0
                     /\ Stops(n)
           T == {n \in 0 .. r : Stops(n)}
<1>1. Len(buffer) \in Nat /\ pos \in Nat /\ Len(buffer) - pos \in Nat
  OBVIOUS
<1>2. /\ r \in Nat /\ r <= max /\ r <= Len(buffer) - pos
      /\ r < max => r = Len(buffer) - pos
  BY <1>1 DEF Stream!Readable, Stream!Lesser
<1> HIDE DEF r, Stops
<1>3. r \in T
  BY <1>2 DEF Stops
<1>4. PICK n \in T : \A m \in T : n <= m
  <2>1. T \subseteq Nat /\ T # {}
    BY <1>2, <1>3
  <2> HIDE DEF T
  <2> QED BY <2>1, LeastNatural
<1>5. Fit(n) /\ n \in 0 .. r
  <2>1. ASSUME NEW i \in 1 .. (n - 1), buffer[pos + i] = 0 PROVE FALSE
    <3>1. n \in Nat /\ n <= r /\ i \in 0 .. r /\ i > 0 /\ i < n
      BY <1>2, <1>4
    <3>2. i \in T
      BY <2>1, <3>1 DEF Stops
    <3> QED BY <1>4, <3>1, <3>2
  <2> QED BY <1>4, <2>1
<1>6. \E m \in 0 .. r : Fit(m)
  BY <1>5
<1> HIDE DEF Fit
<1> DEFINE k == CHOOSE k \in 0 .. r : Fit(k)
<1>7. k \in 0 .. r /\ Fit(k)
  BY <1>6
<1>8. Stream!SizeOfText(max) = k
  BY Zenon DEF Stream!SizeOfText, Fit, Stops, r
<1> HIDE DEF k
<1> QED
  BY <1>2, <1>7, <1>8 DEF Fit, Stops, r

(* What each answer has to be. *)
LEMMA Answers ==
    /\ answer'.to \in {"none", "seek", "write_sz"} => Answered'
    /\ answer'.to = "t_write"
       /\ (answer'.n = answer'.width /\ ~overrun'
             => Stream!Value(Stream!Bytes(answer.from, answer.n))' = answer'.value) => Answered'
    /\ answer'.to = "t_read"
       /\ (val' = IF answer'.n = answer'.width THEN Stream!Value(Stream!Bytes(answer.from, answer.n))'
                  ELSE answer'.value) => Answered'
    /\ answer'.to = "read_sz" /\ Stream!TextEnds' => Answered'
    /\ answer'.to = "swrite" /\ Stream!SwriteWhole' => Answered'
BY DEF Answered, Stream!NumbersKept, Stream!TextEnds, Stream!SwriteWhole

LEMMA StreamInit == ASSUME Stream!Init PROVE StreamInv /\ buffer \in Seq(ByteSet) /\ pos = 0
<1>1. /\ buffer \in UNION {[1 .. n -> {0}] : n \in 0 .. (MaxSize \div 2)}
      /\ pos = 0 /\ reserved = Len(buffer) /\ held = Len(buffer) /\ copying = Stream!NotCopying
      /\ val = 0 /\ answer = Stream!Nothing /\ copied = FALSE /\ overrun = FALSE
  BY DEF Stream!Init
<1>2. PICK n \in 0 .. (MaxSize \div 2) : buffer \in [1 .. n -> {0}]
  BY <1>1
<1>3. n \in Nat /\ n <= MaxSize
  BY StreamConstants
<1>4. buffer \in Seq(ByteSet) /\ Len(buffer) = n
  <2>1. buffer \in [1 .. n -> ByteSet]
    BY <1>2, StreamConstants
  <2> QED BY <1>3, <2>1
<1>5. 0 \in 0 .. (Base * Base - 1)
  <2>1. Base * 1 <= Base * Base /\ Base * Base \in Nat /\ Base \in Nat \ {0}
    BY StreamConstants
  <2> DEFINE bb == Base * Base
  <2>2. bb \in Nat \ {0}
    BY <2>1
  <2> HIDE DEF bb
  <2>3. 0 \in 0 .. (bb - 1)
    BY <2>2
  <2> QED BY <2>3 DEF bb
<1>6. Stream!NotCopying \in CopyRecords /\ Stream!NotCopying.done <= Stream!NotCopying.size
  BY DEF Stream!NotCopying, CopyRecords
<1>7. StreamTyped
  <2>1. Len(buffer) \in Nat /\ Len(buffer) <= MaxSize /\ reserved = Len(buffer) /\ held = Len(buffer)
        /\ pos \in 0 .. Len(buffer)
    BY <1>1, <1>3, <1>4
  <2>2. val \in 0 .. (Base * Base - 1)
    BY <1>1, <1>5
  <2>3. copying \in CopyRecords /\ copying.done <= copying.size
    BY <1>1, <1>6
  <2>4. overrun \in BOOLEAN /\ copied \in BOOLEAN
    BY <1>1
  <2> QED BY <1>4, <2>1, <2>2, <2>3, <2>4 DEF StreamTyped
<1>8. BlockKept /\ Putting
  BY <1>1 DEF BlockKept, Putting
<1>9. Answered
  BY <1>1 DEF Answered, Stream!NumbersKept, Stream!TextEnds, Stream!SwriteWhole, Stream!Nothing
<1> QED
  BY <1>1, <1>4, <1>7, <1>8, <1>9 DEF StreamInv

(* Numbers. *)
LEMMA NumberWritten ==
    ASSUME StreamInv, NEW w \in Stream!Widths, NEW v \in 0 .. (Stream!Weight[w] * Base - 1),
           Stream!t_write(v, w)
    PROVE  StreamInv'
<1> DEFINE bs == Stream!encoded(v, w)
           n == Stream!Written(bs)
<1>1. /\ StreamTyped /\ BlockKept /\ ~overrun /\ copying = Stream!NotCopying
      /\ UNCHANGED <<grows, big, copying, val, copied>>
      /\ answer' = [Stream!Nothing EXCEPT !.to = "t_write", !.n = n, !.width = w,
                                          !.from = pos, !.value = v]
  BY DEF StreamInv, Stream!t_write, Stream!Free
<1>2. Stream!write(bs)
  BY DEF Stream!t_write, Stream!be_write, Stream!le_write, Stream!encoded
<1>3. bs \in Seq(ByteSet) /\ Len(bs) = w /\ Stream!Value(bs) = v /\ w \in {1, 2}
  BY EncodedFacts DEF Stream!Widths
<1>4. /\ answer'.to = "t_write" /\ answer'.n = n /\ answer'.width = w /\ answer'.from = pos
      /\ answer'.value = v
  BY <1>1 DEF Stream!Nothing
<1> HIDE DEF bs, n
<1>5. /\ n \in 0 .. Len(bs)
      /\ buffer' \in Seq(ByteSet) /\ Len(buffer') <= MaxSize /\ pos' \in 0 .. Len(buffer')
      /\ reserved' \in Nat /\ held' \in Nat /\ Len(buffer') <= reserved'
      /\ overrun' \in BOOLEAN /\ (~copied => held' = reserved' /\ ~overrun')
      /\ ~overrun' => pos' = pos + n /\ SubSeq(buffer', pos + 1, pos') = SubSeq(bs, 1, n)
  BY <1>1, <1>2, <1>3, WriteFacts DEF n
<1>6. StreamTyped' /\ BlockKept' /\ Putting'
  BY <1>1, <1>5 DEF StreamTyped, BlockKept, Putting
<1>7. ASSUME n = w, ~overrun' PROVE Stream!Value(Stream!Bytes(answer.from, answer.n))' = v
  <2>1. SubSeq(bs, 1, n) = bs
    BY <1>3, <1>7, SubSeqFull
  <2>2. SubSeq(buffer', pos + 1, pos + n) = bs
    BY <1>5, <1>7, <2>1
  <2>3. Stream!Bytes(answer.from, answer.n)' = bs
    BY <1>4, <2>2 DEF Stream!Bytes
  <2> QED BY <1>1, <1>3, <2>3 DEF Stream!Value
<1>8. Answered'
  BY <1>4, <1>7, Answers
<1> QED
  BY <1>6, <1>8 DEF StreamInv

LEMMA NumberRead == ASSUME StreamInv, NEW w \in Stream!Widths, Stream!t_read(w) PROVE StreamInv'
<1> DEFINE n == Stream!Readable(w)
           bs == Stream!Bytes(pos, w)
<1>1. /\ StreamTyped /\ BlockKept /\ ~overrun /\ copying = Stream!NotCopying
      /\ UNCHANGED <<grows, buffer, reserved, held, overrun, big, copying, copied>>
      /\ pos' = pos + n
      /\ val' = IF n = w THEN (IF big THEN Stream!be_decode(bs) ELSE Stream!le_decode(bs)) ELSE val
      /\ answer' = [Stream!Nothing EXCEPT !.to = "t_read", !.n = n, !.width = w,
                                          !.from = pos, !.value = val]
  BY DEF StreamInv, Stream!t_read, Stream!Free, Stream!be_value, Stream!le_value
<1>2. /\ buffer \in Seq(ByteSet) /\ Len(buffer) \in Nat /\ pos \in 0 .. Len(buffer) /\ w \in {1, 2}
      /\ val \in 0 .. (Base * Base - 1)
  BY <1>1 DEF StreamTyped, Stream!Widths
<1>3. n \in Nat /\ n <= w /\ n <= Len(buffer) - pos
  BY <1>2 DEF Stream!Readable, Stream!Lesser
<1>4. /\ answer'.to = "t_read" /\ answer'.n = n /\ answer'.width = w /\ answer'.from = pos
      /\ answer'.value = val
  BY <1>1 DEF Stream!Nothing
<1> HIDE DEF n
<1>5. ASSUME n = w
      PROVE  /\ (IF big THEN Stream!be_decode(bs) ELSE Stream!le_decode(bs)) = Stream!Value(bs)
             /\ Stream!Value(bs) \in 0 .. (Base * Base - 1)
  <2>1. bs \in Seq(ByteSet) /\ Len(bs) = w
    <3>1. w \in Nat /\ pos \in Nat /\ pos + w <= Len(buffer)
      BY <1>2, <1>3, <1>5
    <3> QED BY <1>2, <3>1, PartFacts DEF Stream!Bytes
  <2> HIDE DEF bs
  <2> QED BY <1>2, <2>1, DecodedFacts
<1>6. val' = (IF n = w THEN Stream!Value(bs) ELSE val) /\ val' \in 0 .. (Base * Base - 1)
  BY <1>1, <1>2, <1>5
<1>7. pos' \in 0 .. Len(buffer)
  BY <1>1, <1>2, <1>3
<1>8. StreamTyped'
  BY <1>1, <1>6, <1>7 DEF StreamTyped
<1>9. BlockKept' /\ Putting'
  BY <1>1 DEF BlockKept, Putting
<1>10. n = w => Stream!Value(Stream!Bytes(answer.from, answer.n))' = Stream!Value(bs)
  <2>1. SUFFICES ASSUME n = w
        PROVE  Stream!Value(Stream!Bytes(answer.from, answer.n))' = Stream!Value(bs)
    OBVIOUS
  <2>2. Stream!Bytes(answer.from, answer.n)' = bs
    BY <1>1, <1>4, <2>1 DEF Stream!Bytes
  <2> HIDE DEF bs
  <2> QED BY <1>1, <2>2 DEF Stream!Value
<1>11. Answered'
  BY <1>4, <1>6, <1>10, Answers
<1> QED
  BY <1>8, <1>9, <1>11 DEF StreamInv

(* Texts. *)
LEMMA TextTyped == ASSUME NEW text \in Stream!Texts PROVE Append(text, 0) \in Seq(ByteSet)
<1>1. 0 \in ByteSet /\ 1 \in ByteSet
  BY StreamConstants
<1>2. <<>> \in Seq(ByteSet) /\ <<1>> \in Seq(ByteSet) /\ <<1, 1>> \in Seq(ByteSet)
  BY <1>1
<1>3. text \in Seq(ByteSet)
  BY <1>2 DEF Stream!Texts
<1> QED
  BY <1>1, <1>3

LEMMA TextWritten ==
    ASSUME StreamInv, NEW text \in Stream!Texts, Stream!write_sz(text)
    PROVE  StreamInv'
<1> DEFINE bs == Append(text, 0)
           n == Stream!Written(bs)
<1>1. /\ StreamTyped /\ BlockKept /\ ~overrun /\ copying = Stream!NotCopying
      /\ UNCHANGED <<grows, big, copying, val, copied>> /\ Stream!write(bs)
      /\ answer' = [Stream!Nothing EXCEPT !.to = "write_sz", !.n = n]
  BY DEF StreamInv, Stream!write_sz, Stream!Free
<1>2. bs \in Seq(ByteSet)
  BY TextTyped
<1>3. answer'.to = "write_sz"
  BY <1>1 DEF Stream!Nothing
<1> HIDE DEF bs, n
<1>4. /\ buffer' \in Seq(ByteSet) /\ Len(buffer') <= MaxSize /\ pos' \in 0 .. Len(buffer')
      /\ reserved' \in Nat /\ held' \in Nat /\ Len(buffer') <= reserved'
      /\ overrun' \in BOOLEAN /\ (~copied => held' = reserved' /\ ~overrun')
  BY <1>1, <1>2, WriteFacts
<1>5. StreamTyped' /\ BlockKept' /\ Putting'
  BY <1>1, <1>4 DEF StreamTyped, BlockKept, Putting
<1>6. Answered'
  BY <1>3, Answers
<1> QED
  BY <1>5, <1>6 DEF StreamInv

LEMMA TextRead ==
    ASSUME StreamInv, NEW max \in 1 .. MaxSize, Stream!read_sz(max)
    PROVE  StreamInv'
<1> DEFINE n == Stream!SizeOfText(max)
           r == Stream!Readable(max)
           bs == Stream!Bytes(pos, n)
<1>1. /\ StreamTyped /\ BlockKept /\ ~overrun /\ copying = Stream!NotCopying
      /\ UNCHANGED <<grows, buffer, reserved, held, overrun, big, copying, val, copied>>
      /\ pos' = pos + n
      /\ answer' = [Stream!Nothing EXCEPT !.to = "read_sz", !.n = n, !.width = max,
                                          !.from = pos, !.bytes = bs]
  BY DEF StreamInv, Stream!read_sz, Stream!Free
<1>2. /\ buffer \in Seq(ByteSet) /\ Len(buffer) \in Nat /\ pos \in 0 .. Len(buffer) /\ pos \in Nat
      /\ max \in Nat
  BY <1>1, StreamConstants DEF StreamTyped
<1>3. /\ r \in Nat /\ r <= max /\ r <= Len(buffer) - pos /\ (r < max => r = Len(buffer) - pos)
      /\ n \in 0 .. r /\ (\A i \in 1 .. (n - 1) : buffer[pos + i] # 0)
      /\ n = r \/ (n > 0 /\ buffer[pos + n] = 0)
  BY <1>2, TextFacts
<1> HIDE DEF n, r
<1>4. bs \in Seq(ByteSet) /\ Len(bs) = n /\ \A i \in 1 .. n : bs[i] = buffer[pos + i]
  <2>1. n \in Nat /\ pos + n <= Len(buffer)
    BY <1>2, <1>3
  <2> QED BY <1>2, <2>1, PartFacts DEF Stream!Bytes
<1>5. answer'.to = "read_sz" /\ answer'.n = n /\ answer'.width = max /\ answer'.bytes = bs
  BY <1>1 DEF Stream!Nothing
<1> HIDE DEF bs
<1>6. pos' \in 0 .. Len(buffer)
  BY <1>1, <1>2, <1>3
<1>7. StreamTyped' /\ BlockKept' /\ Putting'
  BY <1>1, <1>6 DEF StreamTyped, BlockKept, Putting
<1>8. \A i \in 1 .. (n - 1) : bs[i] # 0
  BY <1>3, <1>4
<1>9. ASSUME n < max, pos' < Len(buffer) PROVE Stream!Last(bs) = 0
  <2>1. n # r
    BY <1>1, <1>2, <1>3, <1>9
  <2>2. n \in 1 .. n /\ buffer[pos + n] = 0
    BY <1>3, <2>1
  <2> QED BY <1>4, <2>2 DEF Stream!Last
<1>10. Stream!TextEnds'
  BY <1>1, <1>5, <1>8, <1>9 DEF Stream!TextEnds, Stream!Last
<1>11. Answered'
  BY <1>5, <1>10, Answers
<1> QED
  BY <1>7, <1>11 DEF StreamInv

(* Copies from another stream. *)
LEMMA CopyBegins ==
    ASSUME StreamInv, NEW src \in Sources, NEW size \in 1 .. MaxSize, Stream!BeginSwrite(src, size)
    PROVE  StreamInv'
<1>1. /\ StreamTyped /\ BlockKept /\ ~overrun
      /\ UNCHANGED <<grows, buffer, pos, reserved, held, overrun, big, val, copied>>
      /\ copying' = [src |-> src, size |-> size, done |-> 0, from |-> pos, all |-> src]
      /\ answer' = Stream!Nothing
  BY DEF StreamInv, Stream!BeginSwrite, Stream!Free, Stream!stream
<1>2. src \in Seq(ByteSet) /\ size \in Nat /\ pos \in Nat /\ Len(buffer) \in Nat
      /\ buffer \in Seq(ByteSet) /\ Len(src) \in Nat
  BY <1>1, StreamConstants DEF StreamTyped
<1>3. copying' \in CopyRecords /\ copying'.done <= copying'.size
  BY <1>1, <1>2 DEF CopyRecords
<1>4. StreamTyped' /\ BlockKept'
  BY <1>1, <1>3 DEF StreamTyped, BlockKept
<1>5. Putting'
  <2>1. SubSeq(buffer, pos + 1, pos) = <<>> /\ SubSeq(src, 1, 0) = <<>>
    BY <1>2, SubSeqEmpty
  <2>2. src = SubSeq(src, 0 + 1, Len(src))
    <3>1. 0 + 1 = 1
      OBVIOUS
    <3> QED BY <1>2, <3>1, SubSeqFull
  <2>3. /\ copying'.from = pos /\ copying'.done = 0 /\ copying'.all = src /\ copying'.src = src
    BY <1>1
  <2>4. pos' = copying'.from + copying'.done /\ copying'.done <= Len(copying'.all)
    BY <1>1, <1>2, <2>3
  <2> QED BY <1>1, <2>1, <2>2, <2>3, <2>4 DEF Putting
<1>6. Answered'
  <2>1. answer'.to = "none"
    BY <1>1 DEF Stream!Nothing
  <2> QED BY <2>1, Answers
<1> QED
  BY <1>4, <1>5, <1>6 DEF StreamInv

LEMMA PortionTyped == ASSUME StreamTyped, copying.done < copying.size PROVE Stream!Portion \in Seq(ByteSet)
<1> DEFINE c == copying
           l == Stream!Lesser(Len(c.src), Stream!Lesser(kSIZE, c.size - c.done))
<1>1. /\ c.src \in Seq(ByteSet) /\ Len(c.src) \in Nat /\ c.size \in Nat /\ c.done \in Nat
      /\ c.done < c.size /\ kSIZE \in Nat
  BY StreamConstants DEF StreamTyped, CopyRecords
<1>2. l \in Nat /\ l <= Len(c.src)
  BY <1>1 DEF Stream!Lesser
<1>3. Stream!Portion = SubSeq(c.src, 1, l)
  BY DEF Stream!Portion
<1> HIDE DEF c, l
<1>4. 0 + 1 = 1 /\ 0 + l = l /\ 0 \in Nat
  BY <1>2
<1>5. SubSeq(c.src, 0 + 1, 0 + l) \in Seq(ByteSet)
  BY <1>1, <1>2, <1>4, PartFacts
<1> QED
  BY <1>3, <1>4, <1>5

LEMMA CopyGoesOn == ASSUME StreamInv, Stream!SwriteSome PROVE StreamInv'
<1> DEFINE c == copying
           bs == Stream!Portion
           n == Stream!Written(bs)
           k == Len(bs)
<1>1. /\ StreamTyped /\ BlockKept /\ Putting /\ ~overrun /\ c # Stream!NotCopying
      /\ c.done < c.size /\ Stream!write(bs) /\ n > 0
      /\ UNCHANGED <<grows, big, val, answer, copied>>
      /\ copying' = [c EXCEPT !.src = SubSeq(c.src, k + 1, Len(c.src)), !.done = c.done + n]
  BY DEF StreamInv, Stream!SwriteSome, Stream!Swriting
<1>2. /\ c \in CopyRecords /\ buffer \in Seq(ByteSet) /\ pos \in 0 .. Len(buffer)
      /\ c.src \in Seq(ByteSet) /\ c.all \in Seq(ByteSet) /\ c.size \in Nat /\ c.done \in Nat
      /\ c.from \in Nat /\ Len(c.src) \in Nat /\ Len(c.all) \in Nat /\ Len(buffer) \in Nat
      /\ kSIZE \in Nat /\ pos \in Nat
  BY <1>1, StreamConstants DEF StreamTyped, CopyRecords
<1> DEFINE l == Stream!Lesser(Len(c.src), Stream!Lesser(kSIZE, c.size - c.done))
<1>3. l \in Nat /\ l <= Len(c.src) /\ l <= c.size - c.done
  BY <1>1, <1>2 DEF Stream!Lesser
<1>4. bs \in Seq(ByteSet) /\ k = l /\ \A i \in 1 .. k : bs[i] = c.src[i]
  <2>1. bs = SubSeq(c.src, 1, l)
    BY DEF Stream!Portion
  <2> HIDE DEF l, bs
  <2>2. 0 + 1 = 1 /\ 0 + l = l /\ 0 + l <= Len(c.src)
    BY <1>3
  <2>3. /\ SubSeq(c.src, 0 + 1, 0 + l) \in Seq(ByteSet) /\ Len(SubSeq(c.src, 0 + 1, 0 + l)) = l
        /\ \A i \in 1 .. l : SubSeq(c.src, 0 + 1, 0 + l)[i] = c.src[0 + i]
    BY <1>2, <1>3, <2>2, PartFacts
  <2> QED BY <2>1, <2>2, <2>3
<1> HIDE DEF bs, n, l
<1>5. /\ n \in 0 .. k /\ n \in Nat /\ k \in Nat
      /\ buffer' \in Seq(ByteSet) /\ Len(buffer') <= MaxSize /\ pos' \in 0 .. Len(buffer')
      /\ reserved' \in Nat /\ held' \in Nat /\ Len(buffer') <= reserved'
      /\ overrun' \in BOOLEAN /\ (~copied => held' = reserved' /\ ~overrun')
      /\ ~overrun' => /\ pos' = pos + n
                      /\ SubSeq(buffer', pos + 1, pos') = SubSeq(bs, 1, n)
                      /\ \A i \in 1 .. pos : buffer'[i] = buffer[i]
                      /\ n < k => ~grows /\ pos' = Len(buffer')
  <2> HIDE DEF k
  <2>1. k \in Nat /\ bs \in Seq(ByteSet) /\ k = Len(bs)
    BY <1>3, <1>4 DEF k
  <2>2. Stream!Written(bs) \in 0 .. Len(bs)
    BY <1>1, <2>1, WriteFacts
  <2>3. /\ buffer' \in Seq(ByteSet) /\ Len(buffer') <= MaxSize /\ pos' \in 0 .. Len(buffer')
        /\ reserved' \in Nat /\ held' \in Nat /\ Len(buffer') <= reserved'
        /\ overrun' \in BOOLEAN /\ (~copied => held' = reserved' /\ ~overrun')
    BY <1>1, <2>1, WriteFacts
  <2>4. \/ overrun'
        \/ /\ ~overrun' /\ pos' = pos + Stream!Written(bs)
           /\ SubSeq(buffer', pos + 1, pos') = SubSeq(bs, 1, Stream!Written(bs))
           /\ \A i \in 1 .. pos : buffer'[i] = buffer[i]
           /\ Stream!Written(bs) < Len(bs) => ~grows /\ pos' = Len(buffer')
    BY <1>1, <2>1, WriteFacts
  <2>5. n = Stream!Written(bs)
    BY DEF n
  <2>6. n \in 0 .. k /\ n \in Nat
    BY <2>1, <2>2, <2>5
  <2>7. ~overrun' => /\ pos' = pos + n /\ SubSeq(buffer', pos + 1, pos') = SubSeq(bs, 1, n)
                     /\ \A i \in 1 .. pos : buffer'[i] = buffer[i]
                     /\ n < k => ~grows /\ pos' = Len(buffer')
    BY <2>1, <2>4, <2>5
  <2> QED BY <2>1, <2>3, <2>6, <2>7
<1>6. /\ copying'.src = SubSeq(c.src, k + 1, Len(c.src)) /\ copying'.done = c.done + n
      /\ copying'.size = c.size /\ copying'.from = c.from /\ copying'.all = c.all
      /\ copying' \in CopyRecords
  <2>1. SubSeq(c.src, k + 1, Len(c.src)) \in Seq(ByteSet)
    <3>1. k + (Len(c.src) - k) = Len(c.src) /\ Len(c.src) - k \in Nat
      BY <1>2, <1>3, <1>4
    <3> DEFINE z == Len(c.src) - k
    <3> HIDE DEF z
    <3>2. k + z = Len(c.src) /\ z \in Nat /\ k \in Nat /\ k + z <= Len(c.src)
      BY <1>2, <1>5, <3>1 DEF z
    <3>3. SubSeq(c.src, k + 1, k + z) \in Seq(ByteSet)
      BY <1>2, <3>2, PartFacts
    <3> QED BY <3>2, <3>3
  <2>2. c.done + n \in Nat
    BY <1>2, <1>5
  <2> HIDE DEF k
  <2> QED BY <1>1, <1>2, <2>1, <2>2 DEF CopyRecords
<1>7. copying'.done <= copying'.size
  BY <1>2, <1>3, <1>4, <1>5, <1>6
<1>8. StreamTyped' /\ BlockKept'
  BY <1>1, <1>5, <1>6, <1>7 DEF StreamTyped, BlockKept
<1>9. /\ answer = Stream!Nothing /\ pos = c.from + c.done /\ c.done <= Len(c.all)
      /\ SubSeq(buffer, c.from + 1, pos) = SubSeq(c.all, 1, c.done)
      /\ c.src = SubSeq(c.all, c.done + 1, Len(c.all)) \/ (~grows /\ pos = Len(buffer))
  BY <1>1 DEF Putting
<1>10. c.src = SubSeq(c.all, c.done + 1, Len(c.all))
  <2>1. SUFFICES ASSUME ~grows, pos = Len(buffer) PROVE FALSE
    BY <1>9
  <2>2. n = Stream!Lesser(0, k)
    BY <1>2, <2>1 DEF n, Stream!Written
  <2> HIDE DEF k
  <2> QED BY <1>1, <1>5, <2>2 DEF Stream!Lesser
<1> DEFINE d == c.done
           m == Len(c.all) - d
<1> HIDE DEF k, c
<1>11. /\ d \in Nat /\ Len(c.all) \in Nat /\ d <= Len(c.all) /\ c.from \in Nat /\ pos = c.from + d
       /\ pos <= Len(buffer) /\ Len(buffer) \in Nat /\ buffer \in Seq(ByteSet) /\ c.all \in Seq(ByteSet)
  BY <1>2, <1>9
<1> HIDE DEF d
<1>12. m \in Nat /\ d + m = Len(c.all) /\ d + m <= Len(c.all)
  BY <1>11
<1> HIDE DEF m
<1>13. n \in Nat /\ k \in Nat /\ n <= k /\ k <= Len(c.src)
  BY <1>3, <1>4, <1>5
<1>14. /\ Len(c.src) = m /\ m \in Nat /\ n <= m /\ k <= m /\ d \in Nat
       /\ \A i \in 1 .. m : c.src[i] = c.all[d + i]
  <2>1. m \in Nat /\ d \in Nat /\ d + m = Len(c.all) /\ d + m <= Len(c.all)
    BY <1>11, <1>12
  <2>2. /\ Len(SubSeq(c.all, d + 1, d + m)) = m
        /\ \A i \in 1 .. m : SubSeq(c.all, d + 1, d + m)[i] = c.all[d + i]
    BY <1>11, <2>1, PartFacts
  <2>3. c.src = SubSeq(c.all, d + 1, d + m)
    BY <1>10, <2>1 DEF d
  <2> QED BY <1>13, <2>1, <2>2, <2>3
<1>15. \A i \in 1 .. d : buffer[c.from + i] = c.all[i]
  <2>1. d \in Nat /\ c.from + d = pos /\ c.from + d <= Len(buffer) /\ 0 + 1 = 1 /\ 0 + d = d
        /\ 0 + d <= Len(c.all)
    BY <1>11
  <2>2. \A i \in 1 .. d : SubSeq(buffer, c.from + 1, c.from + d)[i] = buffer[c.from + i]
    <3> DEFINE f == c.from
    <3>1. f \in Nat /\ f + d <= Len(buffer)
      BY <1>11, <2>1
    <3> HIDE DEF f
    <3>2. \A i \in 1 .. d : SubSeq(buffer, f + 1, f + d)[i] = buffer[f + i]
      BY <1>11, <2>1, <3>1, PartFacts
    <3> QED BY <3>2 DEF f
  <2>3. \A i \in 1 .. d : SubSeq(c.all, 0 + 1, 0 + d)[i] = c.all[0 + i]
    BY <1>2, <2>1, PartFacts
  <2>4. SubSeq(buffer, c.from + 1, c.from + d) = SubSeq(c.all, 0 + 1, 0 + d)
    BY <1>9, <2>1 DEF d
  <2>5. \A i \in 1 .. d : 0 + i = i
    OBVIOUS
  <2> QED BY <2>2, <2>3, <2>4, <2>5
<1>16. ASSUME ~overrun' PROVE SubSeq(buffer', c.from + 1, pos') = SubSeq(c.all, 1, d + n)
  <2>1. /\ pos' = pos + n /\ pos = c.from + d /\ pos' = c.from + (d + n) /\ d + n \in Nat
        /\ Len(buffer') \in Nat /\ pos' <= Len(buffer') /\ d + n <= Len(c.all)
    <3>1. pos' = pos + n /\ Len(buffer') \in Nat /\ pos' <= Len(buffer')
      BY <1>5, <1>16
    <3> QED BY <1>14, <1>11, <1>12, <1>13, <3>1
  <2> DEFINE s == SubSeq(buffer', c.from + 1, c.from + (d + n))
             t == SubSeq(c.all, 0 + 1, 0 + (d + n))
  <2>2. s \in Seq(ByteSet) /\ Len(s) = d + n /\ \A i \in 1 .. d + n : s[i] = buffer'[c.from + i]
    <3>1. buffer' \in Seq(ByteSet) /\ c.from \in Nat /\ d + n \in Nat /\ c.from + (d + n) <= Len(buffer')
      BY <1>5, <1>11, <2>1
    <3> QED BY <3>1, PartFacts
  <2>3. t \in Seq(ByteSet) /\ Len(t) = d + n /\ \A i \in 1 .. d + n : t[i] = c.all[0 + i]
    <3>1. 0 \in Nat /\ 0 + (d + n) <= Len(c.all)
      BY <2>1
    <3> QED BY <1>11, <2>1, <3>1, PartFacts
  <2> HIDE DEF s, t
  <2>4. \A j \in 1 .. n : buffer'[pos + j] = c.all[d + j]
    <3>1. \A j \in 1 .. n : SubSeq(buffer', pos + 1, pos + n)[j] = buffer'[pos + j]
      <4>1. buffer' \in Seq(ByteSet) /\ pos \in Nat /\ n \in Nat /\ pos + n <= Len(buffer')
        BY <1>5, <1>11, <1>13, <2>1
      <4> QED BY <4>1, PartFacts
    <3>2. \A j \in 1 .. n : SubSeq(bs, 0 + 1, 0 + n)[j] = bs[0 + j]
      <4>1. 0 \in Nat /\ 0 + n <= Len(bs)
        BY <1>5 DEF k
      <4> QED BY <1>4, <1>5, <4>1, PartFacts
    <3>3. SubSeq(buffer', pos + 1, pos + n) = SubSeq(bs, 0 + 1, 0 + n)
      <4>1. 0 + 1 = 1 /\ 0 + n = n
        BY <1>5
      <4> QED BY <1>5, <1>16, <2>1, <4>1
    <3>4. \A j \in 1 .. n : 0 + j = j /\ j \in 1 .. k /\ j \in 1 .. m
      BY <1>5, <1>14
    <3> QED BY <1>4, <1>14, <3>1, <3>2, <3>3, <3>4
  <2>5. ASSUME NEW i \in 1 .. d + n PROVE s[i] = t[i]
    <3>1. s[i] = buffer'[c.from + i] /\ t[i] = c.all[i]
      BY <2>2, <2>3
    <3>2. CASE i <= d
      <4>1. i \in 1 .. d /\ c.from + i \in 1 .. pos
        BY <1>11, <2>1, <3>2
      <4> QED BY <1>5, <1>15, <1>16, <3>1, <4>1
    <3>3. CASE i > d
      <4>1. i - d \in 1 .. n /\ pos + (i - d) = c.from + i /\ d + (i - d) = i
        BY <1>11, <1>13, <2>1, <3>3
      <4> QED BY <2>4, <3>1, <4>1
    <3> QED BY <1>14, <3>2, <3>3
  <2>6. s = t
    BY <2>2, <2>3, <2>5, SeqEqual
  <2>7. c.from + (d + n) = pos' /\ 0 + 1 = 1 /\ 0 + (d + n) = d + n
    BY <1>11, <1>13, <2>1
  <2>8. SubSeq(buffer', c.from + 1, c.from + (d + n)) = SubSeq(c.all, 0 + 1, 0 + (d + n))
    BY <2>6 DEF s, t
  <2> QED BY <2>7, <2>8
<1>17. ASSUME n = k PROVE copying'.src = SubSeq(c.all, (d + n) + 1, Len(c.all))
  <2> DEFINE z == m - k
  <2>1. z \in Nat /\ k + z = m
    BY ONLY <1>13, <1>14
  <2> HIDE DEF z
  <2>2. (d + k) + z = Len(c.all) /\ d + k \in Nat
    BY ONLY <1>12, <1>13, <1>14, <2>1
  <2>3. (d + k) + z <= Len(c.all) /\ k + z <= Len(c.src)
    BY ONLY <1>11, <1>14, <2>1, <2>2
  <2> DEFINE s == SubSeq(c.src, k + 1, k + z)
             t == SubSeq(c.all, (d + k) + 1, (d + k) + z)
  <2>4. s \in Seq(ByteSet) /\ Len(s) = z /\ \A i \in 1 .. z : s[i] = c.src[k + i]
    <3>1. c.src \in Seq(ByteSet)
      BY <1>2 DEF c
    <3> QED BY <1>13, <2>1, <2>3, <3>1, PartFacts
  <2>5. t \in Seq(ByteSet) /\ Len(t) = z /\ \A i \in 1 .. z : t[i] = c.all[(d + k) + i]
    <3> DEFINE w == d + k
    <3>1. w \in Nat /\ w + z <= Len(c.all)
      BY <2>2, <2>3
    <3> HIDE DEF w
    <3>2. /\ SubSeq(c.all, w + 1, w + z) \in Seq(ByteSet) /\ Len(SubSeq(c.all, w + 1, w + z)) = z
          /\ \A i \in 1 .. z : SubSeq(c.all, w + 1, w + z)[i] = c.all[w + i]
      BY <1>11, <2>1, <3>1, PartFacts
    <3> QED BY <3>2 DEF w
  <2>6. \A i \in 1 .. z : c.src[k + i] = c.all[(d + k) + i]
    <3>1. ASSUME NEW i \in 1 .. z PROVE c.src[k + i] = c.all[(d + k) + i]
      <4>1. k + i \in 1 .. m /\ d + (k + i) = (d + k) + i
        BY ONLY <1>13, <1>14, <2>1, i \in 1 .. z
      <4> QED BY <1>14, <4>1
    <3> QED BY <3>1
  <2> HIDE DEF s, t
  <2>7. s = t
    BY <2>4, <2>5, <2>6, SeqEqual
  <2>8. copying'.src = SubSeq(c.src, k + 1, k + z)
    BY <1>6, <1>14, <2>1
  <2> QED BY <1>17, <2>2, <2>7, <2>8 DEF s, t
<1>18. Putting'
  <2>1. SUFFICES ASSUME ~overrun'
        PROVE  /\ pos' = c.from + (d + n) /\ d + n <= Len(c.all)
               /\ SubSeq(buffer', c.from + 1, pos') = SubSeq(c.all, 1, d + n)
               /\ \/ copying'.src = SubSeq(c.all, (d + n) + 1, Len(c.all))
                  \/ ~grows /\ pos' = Len(buffer')
    BY <1>1, <1>6, <1>9 DEF Putting, d
  <2>2. pos' = c.from + (d + n) /\ d + n <= Len(c.all)
    <3>1. pos' = pos + n
      BY <1>5, <2>1
    <3> QED BY <1>14, <1>11, <1>12, <1>13, <3>1
  <2>3. n = k \/ (~grows /\ pos' = Len(buffer'))
    BY <1>5, <2>1
  <2> QED BY <1>16, <1>17, <2>1, <2>2, <2>3
<1>19. Answered'
  <2>1. answer'.to = "none"
    BY <1>1, <1>9 DEF Stream!Nothing
  <2> QED BY <2>1, Answers
<1> QED
  BY <1>8, <1>18, <1>19 DEF StreamInv

LEMMA CopyReturns == ASSUME StreamInv, Stream!SwriteFails \/ Stream!SwriteEnds PROVE StreamInv'
<1> DEFINE c == copying
<1>1. /\ StreamTyped /\ BlockKept /\ Putting /\ ~overrun /\ c # Stream!NotCopying
      /\ UNCHANGED <<grows, buffer, pos, reserved, held, overrun, big, val, copied>>
      /\ copying' = Stream!NotCopying
  BY DEF StreamInv, Stream!SwriteFails, Stream!SwriteEnds, Stream!Swriting, Stream!stream
<1>2. Stream!NotCopying \in CopyRecords /\ Stream!NotCopying.done <= Stream!NotCopying.size
  BY DEF Stream!NotCopying, CopyRecords
<1>3. StreamTyped' /\ BlockKept' /\ Putting'
  BY <1>1, <1>2 DEF StreamTyped, BlockKept, Putting
<1>4. answer'.to = "swrite"
  BY DEF Stream!SwriteFails, Stream!SwriteEnds, Stream!Nothing
<1>5. CASE Stream!SwriteFails
  <2>1. answer'.n = 0
    BY <1>5 DEF Stream!SwriteFails, Stream!Nothing
  <2>2. Stream!SwriteWhole'
    BY <2>1 DEF Stream!SwriteWhole
  <2> QED BY <1>3, <1>4, <2>2, Answers DEF StreamInv
<1>6. CASE Stream!SwriteEnds
  <2>1. /\ c.done = c.size /\ answer'.n = c.done /\ answer'.from = c.from
        /\ answer'.width = c.size /\ answer'.bytes = c.all
    BY <1>6 DEF Stream!SwriteEnds, Stream!Nothing
  <2>2. pos = c.from + c.done /\ SubSeq(buffer, c.from + 1, pos) = SubSeq(c.all, 1, c.done)
    BY <1>1 DEF Putting
  <2>3. Stream!Bytes(answer.from, answer.n)' = SubSeq(c.all, 1, c.done)
    BY <1>1, <2>1, <2>2 DEF Stream!Bytes
  <2>4. Stream!SwriteWhole'
    BY <2>1, <2>3 DEF Stream!SwriteWhole
  <2> QED BY <1>3, <1>4, <2>4, Answers DEF StreamInv
<1> QED
  BY <1>5, <1>6

(* The other operations. *)
LEMMA OthersKeep ==
    ASSUME StreamInv,
           \/ Stream!set_encoding
           \/ \E offset \in 0 .. MaxSize : Stream!seek(offset)
           \/ Stream!Copy
    PROVE  StreamInv'
<1>1. /\ StreamTyped /\ BlockKept /\ copying = Stream!NotCopying /\ ~overrun
      /\ UNCHANGED <<buffer, reserved, overrun, copying, val>>
  BY DEF StreamInv, Stream!set_encoding, Stream!seek, Stream!Copy, Stream!Free, Stream!stream
<1>2. UNCHANGED <<copied, held>> \/ (copied' = TRUE /\ held' = Len(buffer))
  <2>1. CASE Stream!set_encoding
    BY <2>1 DEF Stream!set_encoding, Stream!stream
  <2>2. CASE \E offset \in 0 .. MaxSize : Stream!seek(offset)
    BY <2>2 DEF Stream!seek
  <2>3. CASE Stream!Copy
    BY <2>3 DEF Stream!Copy
  <2> QED BY <2>1, <2>2, <2>3
<1>3. Len(buffer) \in Nat /\ pos \in 0 .. Len(buffer)
  BY <1>1 DEF StreamTyped
<1>4. pos' \in 0 .. Len(buffer)
  <2>1. CASE \E offset \in 0 .. MaxSize : Stream!seek(offset)
    BY <1>3, <2>1, StreamConstants DEF Stream!seek
  <2>2. CASE Stream!set_encoding \/ Stream!Copy
    BY <1>3, <2>2 DEF Stream!set_encoding, Stream!Copy, Stream!stream
  <2> QED BY <2>1, <2>2
<1>5. StreamTyped' /\ BlockKept' /\ Putting'
  BY <1>1, <1>2, <1>3, <1>4 DEF StreamTyped, BlockKept, Putting
<1>6. answer'.to \in {"none", "seek"}
  <2>1. CASE Stream!set_encoding \/ Stream!Copy
    BY <2>1 DEF Stream!set_encoding, Stream!Copy, Stream!Nothing
  <2>2. CASE \E offset \in 0 .. MaxSize : Stream!seek(offset)
    BY <2>2 DEF Stream!seek, Stream!Nothing
  <2> QED BY <2>1, <2>2
<1> QED
  BY <1>5, <1>6, Answers DEF StreamInv

LEMMA StreamStep == ASSUME StreamInv, [Stream!Next]_(Stream!vars) PROVE StreamInv'
<1>1. CASE UNCHANGED Stream!vars
  <2>1. UNCHANGED <<grows, buffer, pos, reserved, held, big, copying, val, answer, copied, overrun>>
    BY <1>1 DEF Stream!vars
  <2>2. StreamTyped' /\ BlockKept' /\ Putting'
    BY <2>1 DEF StreamInv, StreamTyped, BlockKept, Putting
  <2>3. Stream!NumbersKept'
    BY <2>1 DEF StreamInv, Answered, Stream!NumbersKept, Stream!Value, Stream!Bytes
  <2>4. Stream!TextEnds' /\ Stream!SwriteWhole'
    BY <2>1 DEF StreamInv, Answered, Stream!TextEnds, Stream!SwriteWhole, Stream!Bytes, Stream!Last
  <2> QED BY <2>2, <2>3, <2>4 DEF StreamInv, Answered
<1>2. CASE \E w \in Stream!Widths : \E v \in 0 .. (Stream!Weight[w] * Base - 1) : Stream!t_write(v, w)
  BY <1>2, NumberWritten
<1>3. CASE \E w \in Stream!Widths : Stream!t_read(w)
  BY <1>3, NumberRead
<1>4. CASE \E text \in Stream!Texts : Stream!write_sz(text)
  BY <1>4, TextWritten
<1>5. CASE \E max \in 1 .. MaxSize : Stream!read_sz(max)
  BY <1>5, TextRead
<1>6. CASE \E src \in Sources : \E size \in 1 .. MaxSize : Stream!BeginSwrite(src, size)
  BY <1>6, CopyBegins
<1>7. CASE Stream!Swrite
  BY <1>7, CopyGoesOn, CopyReturns DEF Stream!Swrite
<1>8. CASE \/ Stream!set_encoding
           \/ \E offset \in 0 .. MaxSize : Stream!seek(offset)
           \/ Stream!Copy
  BY <1>8, OthersKeep
<1> QED
  BY <1>1, <1>2, <1>3, <1>4, <1>5, <1>6, <1>7, <1>8 DEF Stream!Next

LEMMA StreamInvImplies ==
    ASSUME StreamInv
    PROVE  /\ Stream!TypeOK /\ Stream!InBlock /\ Stream!NumbersKept /\ Stream!TextEnds
           /\ Stream!SwriteWhole
<1>1. Stream!TypeOK
  BY DEF StreamInv, StreamTyped, Stream!TypeOK, ByteSet
<1>2. Stream!InBlock
  <2>1. Len(buffer) \in Nat /\ reserved \in Nat /\ Len(buffer) <= reserved
        /\ (~copied => held = reserved /\ ~overrun)
    BY DEF StreamInv, StreamTyped, BlockKept
  <2> QED BY <2>1 DEF Stream!InBlock
<1> QED
  BY <1>1, <1>2 DEF StreamInv, Answered

-------------------------------------------------------------------------------
(* The stream and the tape. *)
TapeMoves ==
    \/ pos' > pos /\ pos' <= Len(buffer')
       /\ buffer' = Stream!Over(SubSeq(buffer', pos + 1, pos'))
    \/ pos' \in 0 .. Len(buffer) /\ UNCHANGED buffer

LEMMA WritePuts ==
    ASSUME StreamTyped, BlockKept, ~overrun, NEW bs \in Seq(ByteSet), Stream!write(bs)
    PROVE  TapeMoves
<1> DEFINE n == Stream!Written(bs)
           cs == SubSeq(bs, 1, n)
<1>1. pos \in 0 .. Len(buffer) /\ buffer \in Seq(ByteSet) /\ Len(buffer) \in Nat /\ pos \in Nat
  BY DEF StreamTyped
<1>2. n \in 0 .. Len(bs) /\ Len(bs) \in Nat /\ n \in Nat
  BY WriteFacts
<1>3. pos' \in 0 .. Len(buffer') /\ buffer' \in Seq(ByteSet)
  BY WriteFacts
<1>4. \/ UNCHANGED <<buffer, pos>>
      \/ pos' = pos + n /\ buffer' = Stream!Over(cs) /\ SubSeq(buffer', pos + 1, pos') = cs
  BY WriteFacts
<1> HIDE DEF n, cs
<1>5. CASE UNCHANGED <<buffer, pos>>
  BY <1>1, <1>5 DEF TapeMoves
<1>6. CASE /\ pos' = pos + n /\ buffer' = Stream!Over(cs) /\ SubSeq(buffer', pos + 1, pos') = cs
           /\ n > 0
  <2>1. pos' > pos /\ pos' <= Len(buffer')
    BY <1>1, <1>2, <1>3, <1>6
  <2>2. buffer' = Stream!Over(SubSeq(buffer', pos + 1, pos'))
    BY <1>6
  <2> QED BY <2>1, <2>2 DEF TapeMoves
<1>7. CASE pos' = pos + n /\ buffer' = Stream!Over(cs) /\ n = 0
  <2>1. cs = <<>>
    BY <1>7, SubSeqEmpty DEF cs
  <2>2. <<>> \in Seq(ByteSet)
    OBVIOUS
  <2>3. Stream!Over(<<>>) = buffer
    BY <1>1, <2>2, OverFacts
  <2>4. buffer' = buffer
    BY <1>7, <2>1, <2>3
  <2>5. pos' = pos
    BY <1>1, <1>7
  <2> QED BY <1>1, <2>4, <2>5 DEF TapeMoves
<1>8. n > 0 \/ n = 0
  BY <1>2
<1> QED
  BY <1>4, <1>5, <1>6, <1>7, <1>8

LEMMA TapeStep == ASSUME StreamInv, [Stream!Next]_(Stream!vars) PROVE TapeMoves
<1>1. /\ StreamTyped /\ BlockKept /\ buffer \in Seq(ByteSet) /\ pos \in 0 .. Len(buffer)
      /\ Len(buffer) \in Nat /\ pos \in Nat
  BY DEF StreamInv, StreamTyped
<1>2. ASSUME UNCHANGED <<buffer, pos>> PROVE TapeMoves
  BY <1>1, <1>2 DEF TapeMoves
<1>3. ASSUME UNCHANGED buffer, StreamInv' PROVE TapeMoves
  BY <1>3 DEF StreamInv, StreamTyped, TapeMoves
<1>4. StreamInv'
  BY StreamStep
<1>5. CASE UNCHANGED Stream!vars
  BY <1>2, <1>5 DEF Stream!vars
<1>6. ASSUME NEW w \in Stream!Widths, NEW v \in 0 .. (Stream!Weight[w] * Base - 1),
             Stream!t_write(v, w)
      PROVE  TapeMoves
  <2>1. Stream!write(Stream!encoded(v, w)) /\ ~overrun
    BY <1>6 DEF Stream!t_write, Stream!be_write, Stream!le_write, Stream!encoded, Stream!Free
  <2> QED BY <1>1, <2>1, EncodedFacts, WritePuts
<1>7. ASSUME NEW text \in Stream!Texts, Stream!write_sz(text) PROVE TapeMoves
  <2>1. Stream!write(Append(text, 0)) /\ ~overrun
    BY <1>7 DEF Stream!write_sz, Stream!Free
  <2>2. Append(text, 0) \in Seq(ByteSet)
    BY TextTyped
  <2> QED BY <1>1, <2>1, <2>2, WritePuts
<1>8. CASE Stream!Swrite
  <2>1. CASE Stream!SwriteSome
    <3>1. Stream!write(Stream!Portion) /\ ~overrun
      BY <2>1 DEF Stream!SwriteSome, Stream!Swriting
    <3>2. Stream!Portion \in Seq(ByteSet)
      BY <1>1, <2>1, PortionTyped DEF Stream!SwriteSome
    <3> QED BY <1>1, <3>1, <3>2, WritePuts
  <2>2. CASE Stream!SwriteFails \/ Stream!SwriteEnds
    BY <1>2, <2>2 DEF Stream!SwriteFails, Stream!SwriteEnds, Stream!stream
  <2> QED BY <1>8, <2>1, <2>2 DEF Stream!Swrite
<1>9. CASE \E w \in Stream!Widths : Stream!t_read(w)
  BY <1>3, <1>4, <1>9 DEF Stream!t_read
<1>10. CASE \E max \in 1 .. MaxSize : Stream!read_sz(max)
  BY <1>3, <1>4, <1>10 DEF Stream!read_sz
<1>11. CASE \E offset \in 0 .. MaxSize : Stream!seek(offset)
  BY <1>3, <1>4, <1>11 DEF Stream!seek
<1>12. CASE Stream!set_encoding
  BY <1>2, <1>12 DEF Stream!set_encoding, Stream!stream
<1>13. CASE Stream!Copy
  BY <1>3, <1>4, <1>13 DEF Stream!Copy
<1>14. CASE \E src \in Sources : \E size \in 1 .. MaxSize : Stream!BeginSwrite(src, size)
  BY <1>2, <1>14 DEF Stream!BeginSwrite, Stream!stream
<1> QED
  BY <1>5, <1>6, <1>7, <1>8, <1>9, <1>10, <1>11, <1>12, <1>13, <1>14 DEF Stream!Next

-------------------------------------------------------------------------------
(* The four parts. *)
BytesInv ==
    \/ part = "stream" /\ StreamInv
    \/ part = "leb" /\ LebInv
    \/ part = "reader" /\ ReaderInv
    \/ part = "held" /\ HeldInv

LEMMA BytesInit == ASSUME Init PROVE BytesInv
<1>1. CASE part = "stream" /\ Stream!Init
  BY <1>1, StreamInit DEF BytesInv
<1>2. CASE part = "leb" /\ Leb!Init
  BY <1>2, LebInit DEF BytesInv
<1>3. CASE part = "reader" /\ Reader!Init
  BY <1>3, ReaderInit DEF BytesInv
<1>4. CASE part = "held" /\ Held!Init
  BY <1>4, HeldInit DEF BytesInv
<1> QED
  BY <1>1, <1>2, <1>3, <1>4 DEF Init

(* A step of the project is one of its part. *)
LEMMA PartSteps ==
    ASSUME [Next]_all
    PROVE  /\ part' = part
           /\ part = "stream" => [Stream!Next]_(Stream!vars)
           /\ part = "leb" => [Leb!Next]_(Leb!vars)
           /\ part = "reader" => [Reader!Next]_(Reader!vars)
           /\ part = "held" => [Held!Next]_(Held!vars)
<1>1. CASE UNCHANGED all
  BY <1>1 DEF all, streamOnly, lebOnly, readerOnly, heldOnly,
              Stream!vars, Leb!vars, Reader!vars, Held!vars
<1>2. CASE part = "stream" /\ Stream!Next /\ NotOfStream
  BY <1>2 DEF NotOfStream
<1>3. CASE part = "leb" /\ Leb!Next /\ UNCHANGED <<part, streamOnly, readerOnly, heldOnly>>
  BY <1>3
<1>4. CASE part = "reader" /\ Reader!Next /\ UNCHANGED <<part, streamOnly, lebOnly, heldOnly>>
  BY <1>4
<1>5. CASE part = "held" /\ Held!Next /\ UNCHANGED <<part, streamOnly, lebOnly, readerOnly>>
  BY <1>5
<1> QED
  BY <1>1, <1>2, <1>3, <1>4, <1>5 DEF Next

LEMMA BytesStep == ASSUME BytesInv, [Next]_all PROVE BytesInv'
<1>1. CASE part = "stream" /\ StreamInv
  <2>1. StreamInv' /\ part' = "stream"
    BY <1>1, PartSteps, StreamStep
  <2> QED BY <2>1 DEF BytesInv
<1>2. CASE part = "leb" /\ LebInv
  <2>1. LebInv' /\ part' = "leb"
    BY <1>2, PartSteps, LebStep
  <2> QED BY <2>1 DEF BytesInv
<1>3. CASE part = "reader" /\ ReaderInv
  <2>1. ReaderInv' /\ part' = "reader"
    BY <1>3, PartSteps, ReaderStep
  <2> QED BY <2>1 DEF BytesInv
<1>4. CASE part = "held" /\ HeldInv
  <2>1. HeldInv' /\ part' = "held"
    BY <1>4, PartSteps, HeldStep
  <2> QED BY <2>1 DEF BytesInv
<1> QED
  BY <1>1, <1>2, <1>3, <1>4 DEF BytesInv

(* In each part its inductive invariant holds: what is read from a stream, of
   a number, of an entry or of a value is what the code has to find there. *)
THEOREM BytesInvariant == Spec => []BytesInv
<1>1. Init => BytesInv
  BY BytesInit
<1>2. BytesInv /\ [Next]_all => BytesInv'
  BY BytesStep
<1> QED
  BY <1>1, <1>2, PTL DEF Spec

LEMMA BytesInvImplies == ASSUME BytesInv PROVE TypeOK /\ StreamKeeps /\ AttributesKept
<1>1. CASE part = "stream" /\ StreamInv
  BY <1>1, StreamInvImplies DEF TypeOK, StreamKeeps, AttributesKept
<1>2. CASE part = "leb" /\ LebInv
  BY <1>2, LebInvImplies DEF TypeOK, StreamKeeps, AttributesKept
<1>3. CASE part = "reader" /\ ReaderInv
  BY <1>3, ReaderInvImplies DEF TypeOK, StreamKeeps, AttributesKept
<1>4. CASE part = "held" /\ HeldInv
  BY <1>4 DEF TypeOK, StreamKeeps, AttributesKept, HeldInv
<1> QED
  BY <1>1, <1>2, <1>3, <1>4 DEF BytesInv

(* The state of each of the four parts is one the code can be in: a stream's
   position is among its bytes, a number has not more bits than its type, a
   reader is at an attribute of its entry. *)
THEOREM TypeCorrect == Spec => []TypeOK
<1>1. BytesInv => TypeOK
  BY BytesInvImplies
<1> QED
  BY <1>1, BytesInvariant, PTL

(* No stream but a copy is written to outside its block, numbers come back in
   either byte order, texts end with their zero, and what swrite reports it
   has put there. *)
THEOREM StreamAlwaysKeeps == Spec => []StreamKeeps
<1>1. BytesInv => StreamKeeps
  BY BytesInvImplies
<1> QED
  BY <1>1, BytesInvariant, PTL

(* Whatever the entry, the reader that keeps values and the one that skips
   them stay in step; LEB128 numbers that fit an int are exact; a value has a
   string exactly while its form says so. *)
THEOREM AttributesAlwaysKept == Spec => []AttributesKept
<1>1. BytesInv => AttributesKept
  BY BytesInvImplies
<1> QED
  BY <1>1, BytesInvariant, PTL

(* A stream in memory is a tape: a step puts bytes from its position on, or
   moves the position among the bytes there are, and changes no other byte. *)
THEOREM StreamIsATape == Spec => ImplementsTape
<1> DEFINE tape == IF part = "stream" THEN buffer ELSE <<>>
           at == IF part = "stream" THEN pos ELSE 0
<1>1. Init => Tape!Init
  <2>1. SUFFICES ASSUME Init PROVE Tape!Init
    OBVIOUS
  <2>2. CASE part = "stream" /\ Stream!Init
    BY <2>2, StreamInit DEF Tape!Init, ByteSet
  <2>3. CASE part # "stream"
    BY <2>3 DEF Tape!Init
  <2> QED BY <2>1, <2>2, <2>3 DEF Init
<1>2. BytesInv /\ [Next]_all => [Tape!Next]_<<tape, at>>
  <2>1. SUFFICES ASSUME BytesInv, [Next]_all PROVE [Tape!Next]_<<tape, at>>
    OBVIOUS
  <2>2. part' = part
    BY <2>1, PartSteps
  <2>3. CASE part = "stream"
    <3>1. tape = buffer /\ at = pos /\ tape' = buffer' /\ at' = pos'
      BY <2>2, <2>3
    <3>2. TapeMoves
      BY <2>1, <2>3, PartSteps, TapeStep DEF BytesInv
    <3>3. Tape!Next
      BY <2>2, <2>3, <3>2
         DEF TapeMoves, Tape!Next, Tape!Put, Tape!Move, Tape!Overlay, Stream!Over
    <3> QED BY <3>3
  <2>4. CASE part # "stream"
    BY <2>2, <2>4
  <2> QED BY <2>3, <2>4
<1> QED
  BY <1>1, <1>2, BytesInvariant, PTL DEF Spec, ImplementsTape, Tape!Spec

===============================================================================
