---------------------------- MODULE LineTableProofs ----------------------------
(***************************************************************************)
(* The line of an address, for every program of opcodes.  The parse keeps  *)
(* what it emitted and how far the ends of sequences reach (Emitted); the  *)
(* table it leaves holds the same rows in order (Arranged); a lookup then  *)
(* answers with a nearest row, which in a well-formed table is the one     *)
(* that describes the byte.                                                *)
(***************************************************************************)
EXTENDS LineTable, TLAPS, WellFoundedInduction

(* The registers: only a row that is emitted ends a sequence. *)
Registers == {r \in Row : r.EndSequence = FALSE}

(* While it parses: the rows in the order they were emitted, and every end of
   a sequence inside the extent.  Nobody asks before the parse is over. *)
Emitted ==
    /\ encoder \in Encoders /\ parsing \in BOOLEAN /\ opcodes \in 0 .. encoder.max
    /\ row \in Registers /\ rows \in Seq(Row) /\ emitted \in Seq(Row)
    /\ minAddr \in Address /\ maxAddr \in Address
    /\ \A i \in DOMAIN emitted : emitted[i].EndSequence => emitted[i].Address <= maxAddr
    /\ parsing => rows = emitted /\ asked = BAD_ROW /\ found = BAD_ROW

(* After it: the same rows, by address. *)
Arranged ==
    ~parsing =>
        /\ Ordered(RowAddresses)
        /\ \A i \in DOMAIN emitted : \E r \in DOMAIN rows : rows[r] = emitted[i]
        /\ \A r \in DOMAIN rows : \E i \in DOMAIN emitted : rows[r] = emitted[i]

Answered ==
    /\ asked \in Address \cup {BAD_ROW}
    /\ found \in DOMAIN rows \cup {BAD_ROW}
    /\ NearestRow

IInv == Emitted /\ Arranged /\ Answered

-------------------------------------------------------------------------------
(* What the registers are set to keeps its width. *)
LEMMA Widths ==
    /\ FreshRow \in Registers
    /\ \A adjust \in Nat : AddressStep(adjust) \in Nat /\ LineStep(adjust) \in Int
    /\ \A r \in Registers, n \in Nat : Moved(r, n) \in Registers
    /\ \A r \in Registers, n \in Int : Stepped(r, n) \in Registers
    /\ LastOpcode - Prologue.opcodeBase \in Nat
    /\ Prologue.minInstLength \in Nat
<1>1. /\ Prologue.minInstLength \in Nat /\ Prologue.lineBase \in Int
      /\ Prologue.lineRange \in Nat \ {0} /\ Prologue.opcodeBase \in Nat
      /\ Lines \in Nat \ {0, 1} /\ Files \in Nat \ {0, 1} /\ Top \in Nat \ {0} /\ LastOpcode \in Nat
      /\ Prologue.opcodeBase <= LastOpcode
  BY PrologueAssumption
<1>2. FreshRow \in Registers
  BY <1>1 DEF FreshRow, Registers, Row, Address
<1>3. ASSUME NEW adjust \in Nat
      PROVE  AddressStep(adjust) \in Nat /\ LineStep(adjust) \in Int
  <2>1. adjust \div Prologue.lineRange \in Nat /\ adjust % Prologue.lineRange \in Nat
    BY <1>1
  <2>2. (adjust \div Prologue.lineRange) * Prologue.minInstLength \in Nat
    BY <1>1, <2>1
  <2> QED BY <1>1, <2>1, <2>2 DEF AddressStep, LineStep
<1>4. ASSUME NEW r \in Registers, NEW n \in Nat PROVE Moved(r, n) \in Registers
  <2>1. (r.Address + n) % Top \in Address
    BY <1>1 DEF Registers, Row, Address
  <2> QED BY <2>1 DEF Moved, Registers, Row
<1>5. ASSUME NEW r \in Registers, NEW n \in Int PROVE Stepped(r, n) \in Registers
  <2>1. r.Line + n \in Int
    BY DEF Registers, Row
  <2>2. (r.Line + n) % Lines \in 0 .. Lines - 1
    BY <1>1, <2>1
  <2> QED BY <2>2 DEF Stepped, Registers, Row
<1>6. LastOpcode - Prologue.opcodeBase \in Nat /\ Prologue.minInstLength \in Nat
  BY <1>1
<1> QED
  BY <1>2, <1>3, <1>4, <1>5, <1>6

(* An opcode that only moves registers. *)
LEMMA RegisterKeeps ==
    ASSUME IInv, Fetch, NEW r \in Registers, Register(r)
    PROVE  IInv'
<1>1. /\ parsing /\ opcodes < encoder.max /\ opcodes' = opcodes + 1 /\ row' = r
      /\ UNCHANGED <<encoder, parsing, rows, minAddr, maxAddr, emitted, asked, found>>
  BY DEF Fetch, Register, table, lookup
<1>2. opcodes' \in 0 .. encoder'.max
  <2>1. encoder.max \in Nat
    BY PrologueAssumption DEF IInv, Emitted
  <2> QED BY <1>1, <2>1 DEF IInv, Emitted
<1>3. Emitted'
  BY <1>1, <1>2 DEF IInv, Emitted
<1>4. Arranged' /\ Answered'
  BY <1>1 DEF IInv, Arranged, Answered, NearestRow, RowAddresses
<1> QED
  BY <1>3, <1>4 DEF IInv

(* An opcode that emits a row; an end of a sequence extends the table. *)
LEMMA EmitKeeps ==
    ASSUME IInv, Fetch, NEW r \in Row, Emit(r), row' \in Registers,
           minAddr' \in Address, maxAddr' \in Address, maxAddr <= maxAddr',
           r.EndSequence => r.Address <= maxAddr'
    PROVE  IInv'
<1>1. /\ parsing /\ opcodes < encoder.max /\ opcodes' = opcodes + 1
      /\ UNCHANGED <<encoder, parsing, asked, found>>
      /\ rows' = Append(rows, r) /\ emitted' = Append(emitted, r)
  BY DEF Fetch, Emit, lookup
<1>2. opcodes' \in 0 .. encoder'.max
  <2>1. encoder.max \in Nat
    BY PrologueAssumption DEF IInv, Emitted
  <2> QED BY <1>1, <2>1 DEF IInv, Emitted
<1>3. rows = emitted /\ emitted \in Seq(Row) /\ asked = BAD_ROW /\ found = BAD_ROW
  BY <1>1 DEF IInv, Emitted
<1>4. /\ rows' \in Seq(Row) /\ emitted' \in Seq(Row) /\ rows' = emitted'
      /\ DOMAIN emitted = 1 .. Len(emitted) /\ DOMAIN emitted' = 1 .. Len(emitted) + 1
      /\ \A i \in 1 .. Len(emitted) : emitted'[i] = emitted[i]
      /\ emitted'[Len(emitted) + 1] = r
      /\ Len(emitted) \in Nat
  BY <1>1, <1>3
<1>5. ASSUME NEW i \in DOMAIN emitted', emitted'[i].EndSequence
      PROVE  emitted'[i].Address <= maxAddr'
  <2>1. CASE i = Len(emitted) + 1
    BY <1>4, <1>5, <2>1
  <2>2. CASE i \in 1 .. Len(emitted)
    <3>1. emitted[i] \in Row
      BY <1>3, <2>2
    <3>2. emitted[i].Address \in Int
      BY <3>1 DEF Row, Address
    <3>3. emitted[i].Address <= maxAddr /\ maxAddr \in Int /\ maxAddr' \in Int
      BY <1>4, <1>5, <2>2 DEF IInv, Emitted, Address
    <3> QED BY <1>4, <2>2, <3>2, <3>3
  <2> QED BY <1>4, <2>1, <2>2
<1>6. Emitted'
  BY <1>1, <1>2, <1>3, <1>4, <1>5 DEF IInv, Emitted
<1>7. Arranged' /\ Answered'
  BY <1>1, <1>3 DEF IInv, Arranged, Answered, NearestRow
<1> QED
  BY <1>6, <1>7 DEF IInv

(* The extent only grows, and up to the row that moves it. *)
LEMMA ExtendReaches ==
    ASSUME NEW a \in Address, minAddr \in Address, maxAddr \in Address, Extend(a)
    PROVE  /\ minAddr' \in Address /\ maxAddr' \in Address
           /\ maxAddr <= maxAddr' /\ a <= maxAddr'
  BY DEF Extend, Address

(* Every opcode keeps the invariant, with the registers in their widths. *)
LEMMA OpcodeKeeps ==
    ASSUME IInv, Opcode
    PROVE  IInv'
<1>1. /\ row \in Registers /\ minAddr \in Address /\ maxAddr \in Address
      /\ maxAddr <= maxAddr /\ row \in Row /\ row.Address \in Address /\ ~row.EndSequence
  BY DEF IInv, Emitted, Registers, Row, Address
<1>2. /\ encoder.adjusts \subseteq Nat /\ encoder.advances \subseteq Nat
      /\ encoder.lines \subseteq Int /\ encoder.files \subseteq Nat
      /\ encoder.addresses \subseteq Address
  BY PrologueAssumption DEF IInv, Emitted, Address
<1>3. ASSUME NEW adjust \in encoder.adjusts, Special(adjust) PROVE IInv'
  <2>1. /\ Fetch /\ Emit(row') /\ Extend(row'.Address)
        /\ row' = Moved(Stepped(row, LineStep(adjust)), AddressStep(adjust))
    BY <1>3 DEF Special
  <2>2. row' \in Registers /\ row' \in Row /\ row'.Address \in Address
    <3>1. Stepped(row, LineStep(adjust)) \in Registers /\ AddressStep(adjust) \in Nat
      BY <1>1, <1>2, Widths
    <3>2. row' \in Registers
      BY <2>1, <3>1, Widths
    <3> QED BY <3>2 DEF Registers, Row
  <2> QED BY <1>1, <2>1, <2>2, ExtendReaches, EmitKeeps
<1>4. ASSUME DW_LNS_copy PROVE IInv'
  <2>1. Fetch /\ Emit(row) /\ UNCHANGED <<row, minAddr, maxAddr>>
    BY <1>4 DEF DW_LNS_copy
  <2> QED BY <1>1, <2>1, EmitKeeps
<1>5. ASSUME DW_LNE_end_sequence PROVE IInv'
  <2> DEFINE r == [row EXCEPT !.EndSequence = TRUE]
  <2>1. Fetch /\ Emit(r) /\ Extend(row.Address) /\ row' = FreshRow
    BY <1>5 DEF DW_LNE_end_sequence
  <2>2. r \in Row /\ r.Address = row.Address
    BY <1>1 DEF Row
  <2> HIDE DEF r
  <2> QED BY <1>1, <2>1, <2>2, Widths, ExtendReaches, EmitKeeps
<1>6. ASSUME DW_LNS_const_add_pc PROVE IInv'
  <2>1. Moved(row, AddressStep(LastOpcode - Prologue.opcodeBase)) \in Registers
    BY <1>1, Widths
  <2> QED BY <1>6, <2>1, RegisterKeeps DEF DW_LNS_const_add_pc
<1>7. ASSUME Idle PROVE IInv'
  BY <1>1, <1>7, RegisterKeeps DEF Idle
<1>8. ASSUME NEW n \in encoder.advances, DW_LNS_advance_pc(n) \/ DW_LNS_fixed_advance_pc(n)
      PROVE  IInv'
  <2>1. n \in Nat /\ n * Prologue.minInstLength \in Nat
    <3>1. n \in Nat /\ Prologue.minInstLength \in Nat
      BY <1>2, Widths
    <3> QED BY <3>1
  <2>2. Moved(row, n * Prologue.minInstLength) \in Registers /\ Moved(row, n) \in Registers
    BY <1>1, <2>1, Widths
  <2> QED BY <1>8, <2>2, RegisterKeeps DEF DW_LNS_advance_pc, DW_LNS_fixed_advance_pc
<1>9. ASSUME NEW n \in encoder.lines, DW_LNS_advance_line(n) PROVE IInv'
  <2>1. Stepped(row, n) \in Registers
    BY <1>1, <1>2, Widths
  <2> QED BY <1>9, <2>1, RegisterKeeps DEF DW_LNS_advance_line
<1>10. ASSUME NEW n \in encoder.files, DW_LNS_set_file(n) PROVE IInv'
  <2>1. n % Files \in 0 .. Files - 1
    BY <1>2, PrologueAssumption
  <2>2. [row EXCEPT !.File = n % Files] \in Registers
    BY <1>1, <2>1 DEF Registers, Row
  <2> QED BY <1>10, <2>2, RegisterKeeps DEF DW_LNS_set_file
<1>11. ASSUME NEW n \in encoder.addresses, DW_LNE_set_address(n) PROVE IInv'
  <2>1. [row EXCEPT !.Address = n] \in Registers
    BY <1>1, <1>2 DEF Registers, Row
  <2> QED BY <1>11, <2>1, RegisterKeeps DEF DW_LNE_set_address
<1> QED
  BY <1>3, <1>4, <1>5, <1>6, <1>7, <1>8, <1>9, <1>10, <1>11 DEF Opcode

(* Sorting keeps the rows and orders them. *)
LEMMA ParseEndArranges ==
    ASSUME IInv, ParseEnd
    PROVE  IInv'
<1>1. /\ parsing /\ parsing' = FALSE
      /\ UNCHANGED <<encoder, opcodes, row, minAddr, maxAddr, emitted, asked, found>>
      /\ rows' \in Sorts(rows, RowAddresses)
  BY DEF ParseEnd, OrderedByAddress, lookup
<1>2. rows = emitted /\ rows \in Seq(Row) /\ asked = BAD_ROW /\ found = BAD_ROW
  BY <1>1 DEF IInv, Emitted
<1>3. PICK p \in F!Bijection(DOMAIN rows, DOMAIN rows) :
         /\ Ordered([i \in DOMAIN rows |-> RowAddresses[p[i]]])
         /\ rows' = [i \in DOMAIN rows |-> rows[p[i]]]
  BY <1>1 DEF Sorts
<1>4. /\ p \in [DOMAIN rows -> DOMAIN rows]
      /\ \A i \in DOMAIN rows : \E j \in DOMAIN rows : p[j] = i
  BY DEF F!Bijection, F!Injection, F!Surjection
<1>5. DOMAIN rows = 1 .. Len(rows) /\ Len(rows) \in Nat
      /\ \A i \in DOMAIN rows : rows[i] \in Row
  BY <1>2
<1>6. /\ rows' \in Seq(Row)
      /\ DOMAIN rows' = DOMAIN rows
      /\ \A i \in DOMAIN rows : rows'[i] = rows[p[i]]
  <2>1. rows' \in [1 .. Len(rows) -> Row]
    BY <1>3, <1>4, <1>5
  <2> QED BY <1>3, <1>5, <2>1
<1>7. Ordered(RowAddresses)'
  <2>1. RowAddresses' = [i \in DOMAIN rows |-> RowAddresses[p[i]]]
    BY <1>3, <1>4, <1>6 DEF RowAddresses
  <2> QED BY <1>3, <2>1 DEF Ordered
<1>8. Emitted'
  BY <1>1, <1>6 DEF IInv, Emitted
<1>9. Arranged'
  <2>1. ASSUME NEW i \in DOMAIN emitted PROVE \E r \in DOMAIN rows' : rows'[r] = emitted[i]
    BY <1>2, <1>4, <1>6
  <2>2. ASSUME NEW r \in DOMAIN rows' PROVE \E i \in DOMAIN emitted : rows'[r] = emitted[i]
    BY <1>2, <1>4, <1>6
  <2> QED BY <1>1, <1>7, <2>1, <2>2 DEF Arranged
<1>10. Answered'
  BY <1>1, <1>2 DEF Answered, NearestRow
<1> QED
  BY <1>8, <1>9, <1>10 DEF IInv

(* std::lower_bound, and the step back from it, find a nearest row. *)
LEMMA LookupAnswers ==
    ASSUME IInv, NEW a \in Address, lookupAddress(a)
    PROVE  IInv'
<1>1. /\ ~parsing /\ asked' = a
      /\ UNCHANGED <<encoder, parsing, opcodes, row, rows, minAddr, maxAddr, emitted>>
  BY DEF lookupAddress, table
<1>2. PICK i \in 1 .. Len(rows) + 1 :
         IsLowerBound(RowAddresses, a, i) /\ found' = RowOf(i, a)
  BY DEF lookupAddress, Places
<1>3. /\ rows \in Seq(Row) /\ DOMAIN rows = 1 .. Len(rows) /\ Len(rows) \in Nat
      /\ a \in Int
  BY DEF IInv, Emitted, Address
<1>4. /\ DOMAIN RowAddresses = 1 .. Len(rows) /\ Len(RowAddresses) = Len(rows)
      /\ \A r \in 1 .. Len(rows) : RowAddresses[r] = rows[r].Address
  BY <1>3 DEF RowAddresses
<1>5. \A r \in 1 .. Len(rows) : rows[r].Address \in Int
  <2>1. \A r \in 1 .. Len(rows) : rows[r] \in Row
    BY <1>3
  <2> QED BY <2>1 DEF Row, Address
<1>6. /\ i <= Len(rows) => rows[i].Address >= a
      /\ \A r \in 1 .. Len(rows) : r < i => rows[r].Address < a
      /\ \A r, s \in 1 .. Len(rows) : r <= s => rows[r].Address <= rows[s].Address
  <2>1. Ordered(RowAddresses) /\ IsLowerBound(RowAddresses, a, i)
    BY <1>1, <1>2 DEF IInv, Arranged
  <2>2. \A r, s \in 1 .. Len(rows) : r <= s => rows[r].Address <= rows[s].Address
    BY <1>4, <2>1 DEF Ordered
  <2>3. \A r \in 1 .. Len(rows) : r < i => rows[r].Address < a
    BY <1>4, <2>1 DEF IsLowerBound
  <2>4. i <= Len(rows) => rows[i].Address >= a
    <3>1. i <= Len(rows) => i \in 1 .. Len(rows)
      BY <1>3
    <3> QED BY <1>4, <2>1, <3>1 DEF IsLowerBound
  <2> QED BY <2>2, <2>3, <2>4
<1>7. /\ found' \in DOMAIN rows \cup {BAD_ROW}
      /\ IF found' = BAD_ROW
         THEN \/ \A r \in DOMAIN rows : rows[r].Address > a
              \/ \A r \in DOMAIN rows : rows[r].Address < a
         ELSE /\ rows[found'].Address <= a
              /\ \A r \in DOMAIN rows : \/ rows[r].Address <= rows[found'].Address
                                         \/ rows[r].Address > a
  <2>1. CASE i = Len(rows) + 1
    <3>1. found' = BAD_ROW
      BY <1>2, <1>3, <2>1 DEF RowOf
    <3> QED BY <1>3, <1>6, <2>1, <3>1
  <2>2. CASE i <= Len(rows) /\ rows[i].Address = a
    <3>1. found' = i /\ i \in DOMAIN rows /\ i # BAD_ROW
      BY <1>2, <1>3, <2>2, BadRowAssumption DEF RowOf
    <3> QED BY <1>3, <1>5, <2>2, <3>1
  <2>3. CASE i <= Len(rows) /\ rows[i].Address # a /\ i > 1
    <3>1. found' = i - 1 /\ i - 1 \in DOMAIN rows /\ i - 1 # BAD_ROW
      BY <1>2, <1>3, <2>3, BadRowAssumption DEF RowOf
    <3>2. ASSUME NEW r \in DOMAIN rows
          PROVE  rows[r].Address <= rows[i - 1].Address \/ rows[r].Address > a
      <4>1. r <= i - 1 \/ i <= r
        BY <1>3
      <4> QED BY <1>3, <1>5, <1>6, <2>3, <3>1, <4>1
    <3> QED BY <1>3, <1>5, <1>6, <3>1, <3>2
  <2>4. CASE i <= Len(rows) /\ rows[i].Address # a /\ i = 1
    <3>1. found' = BAD_ROW
      BY <1>2, <1>3, <2>4 DEF RowOf
    <3>2. ASSUME NEW r \in DOMAIN rows PROVE rows[r].Address > a
      BY <1>3, <1>5, <1>6, <2>4
    <3> QED BY <3>1, <3>2
  <2> QED BY <1>2, <1>3, <2>1, <2>2, <2>3, <2>4
<1>8. Answered'
  BY <1>1, <1>7 DEF Answered, NearestRow
<1>9. Emitted' /\ Arranged'
  BY <1>1 DEF IInv, Emitted, Arranged, RowAddresses
<1> QED
  BY <1>8, <1>9 DEF IInv

-------------------------------------------------------------------------------
(* The inductive invariant of every parse and every lookup. *)
THEOREM TableInvariant == Spec => []IInv
<1>1. Init => IInv
  <2> SUFFICES ASSUME Init PROVE IInv
    OBVIOUS
  <2>1. FreshRow \in Registers
    BY Widths
  <2>2. opcodes \in 0 .. encoder.max /\ minAddr \in Address /\ maxAddr \in Address
    BY PrologueAssumption DEF Init, Address
  <2>3. <<>> \in Seq(Row) /\ DOMAIN <<>> = {}
    OBVIOUS
  <2> QED BY <2>1, <2>2, <2>3 DEF Init, IInv, Emitted, Arranged, Answered, NearestRow
<1>2. IInv /\ [Next]_vars => IInv'
  <2> SUFFICES ASSUME IInv, [Next]_vars PROVE IInv'
    OBVIOUS
  <2>1. CASE UNCHANGED vars
    BY <2>1 DEF vars, IInv, Emitted, Arranged, Answered, NearestRow, RowAddresses
  <2>2. CASE Next
    BY <2>2, OpcodeKeeps, ParseEndArranges, LookupAnswers DEF Next
  <2> QED BY <2>1, <2>2
<1> QED
  BY <1>1, <1>2, PTL DEF Spec

(* The registers and every row stay in their widths, and a lookup returns an
   index into the table or none (CDWARFLineTable, its opcodes). *)
THEOREM TypeCorrect == Spec => []TypeOK
<1>1. IInv => TypeOK
  BY DEF IInv, Emitted, Answered, TypeOK, Registers
<1> QED
  BY <1>1, TableInvariant, PTL

(* lookupAddress answers with a nearest row, and with none exactly when every
   row is on one side of the address. *)
THEOREM NearestAlwaysFound == Spec => []NearestRow
<1>1. IInv => NearestRow
  BY DEF IInv, Answered
<1> QED
  BY <1>1, TableInvariant, PTL

(* In a well-formed table no row lies behind the extent: going on from one that
   did, every later row would. *)
LEMMA ExtentReaches ==
    ASSUME IInv, WellFormed
    PROVE  \A i \in DOMAIN emitted : emitted[i].Address <= maxAddr
<1> DEFINE n == Len(emitted)
           Behind == {k \in Nat : n - k \in DOMAIN emitted /\ emitted[n - k].Address > maxAddr}
<1>1. emitted \in Seq(Row) /\ DOMAIN emitted = 1 .. n /\ n \in Nat /\ maxAddr \in Int
  BY DEF IInv, Emitted, Address
<1>2. \A i \in 1 .. n : emitted[i] \in Row
  BY <1>1
<1>3. \A i \in 1 .. n : emitted[i].Address \in Int
  BY <1>2 DEF Row, Address
<1>4. ASSUME Behind # {} PROVE FALSE
  <2> DEFINE R == {p \in Nat \X Nat : p[1] < p[2]}
  <2>1. OpToRel(<, Nat) = R
    BY Zenon DEF OpToRel
  <2>2. IsWellFoundedOn(R, Nat)
    BY NatLessThanWellFounded, <2>1, Zenon
  <2>3. PICK k \in Behind : \A m \in Behind : <<m, k>> \notin R
    <3>1. Behind \subseteq Nat
      OBVIOUS
    <3> HIDE DEF Behind
    <3> QED BY WFMin, <1>4, <2>2, <3>1
  <2> DEFINE i == n - k
  <2>4. i \in 1 .. n /\ emitted[i].Address > maxAddr
    BY <1>1
  <2>5. ~emitted[i].EndSequence
    BY <1>1, <1>3, <2>4 DEF IInv, Emitted
  <2>6. i # n
    <3>1. emitted # <<>>
      BY <1>1, <2>4
    <3>2. emitted[n].EndSequence
      BY <3>1 DEF WellFormed
    <3> QED BY <2>5, <3>2
  <2>7. i + 1 \in 1 .. n /\ emitted[i].Address < emitted[i + 1].Address
    <3>1. i + 1 \in 1 .. n
      <4> HIDE DEF n, i
      <4> QED BY <1>1, <2>4, <2>6
    <3> QED BY <1>1, <2>4, <2>5, <3>1 DEF WellFormed
  <2>8. k - 1 \in Behind
    <3>1. n - (k - 1) = i + 1 /\ k - 1 \in Nat
      BY <1>1, <2>4, <2>7
    <3> QED BY <1>1, <1>3, <2>4, <2>7, <3>1
  <2>9. <<k - 1, k>> \in R
    BY <2>8
  <2> QED BY <2>3, <2>8, <2>9
<1>5. ASSUME NEW i \in 1 .. n PROVE emitted[i].Address <= maxAddr
  <2>1. n - i \in Nat /\ n - (n - i) = i
    <3> HIDE DEF n
    <3> QED BY <1>1
  <2>2. ~(emitted[n - (n - i)].Address > maxAddr)
    BY <1>1, <1>4, <2>1
  <2> QED BY <1>1, <1>3, <2>1, <2>2
<1> QED
  BY <1>1, <1>5

(* In a well-formed table every byte gets the row that describes it, whatever
   order the program gave its sequences, and the extent reaches every row. *)
THEOREM DescribingRowFound == Spec => []RowOfByte
<1>1. ASSUME IInv PROVE RowOfByte
  <2>1. /\ rows \in Seq(Row) /\ emitted \in Seq(Row)
        /\ DOMAIN emitted = 1 .. Len(emitted)
        /\ \A i \in DOMAIN emitted : emitted[i].Address \in Int
    <3>1. rows \in Seq(Row) /\ emitted \in Seq(Row)
      BY <1>1 DEF IInv, Emitted
    <3>2. \A i \in DOMAIN emitted : emitted[i] \in Row
      BY <3>1
    <3> QED BY <3>1, <3>2 DEF Row, Address
  <2>2. ASSUME asked # BAD_ROW, WellFormed, Separate,
               NEW i \in DOMAIN emitted, Describes(i, asked)
        PROVE  found # BAD_ROW /\ rows[found] = emitted[i]
    <3>1. ~parsing /\ asked \in Int
      BY <1>1, <2>2 DEF IInv, Emitted, Answered, Address
    <3>2. /\ i + 1 \in DOMAIN emitted
          /\ emitted[i].Address <= asked /\ asked < emitted[i + 1].Address
          /\ ~emitted[i].EndSequence
      BY <2>2 DEF Describes
    <3>3. PICK r \in DOMAIN rows : rows[r] = emitted[i]
      BY <1>1, <3>1 DEF IInv, Arranged
    <3>4. PICK s \in DOMAIN rows : rows[s] = emitted[i + 1]
      BY <1>1, <3>1, <3>2 DEF IInv, Arranged
    <3>5. found # BAD_ROW
      BY <1>1, <2>1, <2>2, <3>1, <3>2, <3>3, <3>4 DEF IInv, Answered, NearestRow
    <3>6. found \in DOMAIN rows /\ rows[found].Address <= asked
          /\ rows[r].Address <= rows[found].Address
      BY <1>1, <2>1, <2>2, <3>1, <3>2, <3>3, <3>5 DEF IInv, Answered, NearestRow
    <3>7. PICK j \in DOMAIN emitted : rows[found] = emitted[j]
      BY <1>1, <3>1, <3>6 DEF IInv, Arranged
    <3>8. Describes(i, emitted[j].Address)
      BY <2>1, <3>1, <3>2, <3>3, <3>6, <3>7 DEF Describes
    <3>9. i = j
      BY <2>2, <3>8 DEF WellFormed, Separate
    <3> QED BY <3>5, <3>7, <3>9
  <2>3. ASSUME ~parsing, WellFormed, NEW r \in DOMAIN rows
        PROVE  rows[r].Address <= maxAddr
    BY <1>1, <2>3, ExtentReaches DEF IInv, Arranged
  <2> QED BY <2>2, <2>3 DEF RowOfByte
<1> QED
  BY <1>1, TableInvariant, PTL
===============================================================================
