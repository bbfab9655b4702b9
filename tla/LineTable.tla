------------------------------- MODULE LineTable ------------------------------
(***************************************************************************)
(* dwarf::CDWARFDebugLine::CDWARFLineTable: the program of one unit in     *)
(* __debug_line is run by a register machine that emits rows; the rows are *)
(* then ordered by address, and the line of a code address is looked up    *)
(* among them.                                                             *)
(* The program is chosen opcode by opcode: any opcode may come next.       *)
(* Registers nobody reads after the parse (column, isa, the statement and  *)
(* block flags) and the names of the file table are left out; the opcodes  *)
(* that set them are Idle.                                                 *)
(* A definition marked mutant is a plausible bug in the one below it; no   *)
(* behaviour uses it.                                                      *)
(***************************************************************************)
EXTENDS SortedTable

CONSTANTS
    Prologue,    \* m_minInstLength, m_lineBase, m_lineRange, m_opcodeBase
    Encoders,    \* what the programs use: special opcodes, less m_opcodeBase
                 \* (adjusts), operands of advance_pc and fixed_advance_pc
                 \* (advances), of advance_line (lines), set_file (files) and
                 \* set_address (addresses), and how many opcodes (max, a bound)
    LastOpcode,  \* 255
    Lines,       \* 2^32: the line register wraps
    Files,       \* 2^16: the file register keeps that much of a number
    Top,         \* 2^64: so does the address
    MaxRows,     \* bound on its rows
    BAD_ROW      \* kBAD_ROW_IDX

ASSUME PrologueAssumption ==
    /\ Prologue \in [minInstLength : Nat, lineBase : Int, lineRange : Nat \ {0},
                     opcodeBase : Nat \ {0}]
    /\ Lines \in Nat \ {0, 1} /\ Files \in Nat \ {0, 1} /\ Top \in Nat \ {0}
    /\ \A e \in Encoders :
        /\ e.adjusts \subseteq Nat /\ e.advances \subseteq Nat /\ e.lines \subseteq Int
        /\ e.files \subseteq Nat /\ e.addresses \subseteq 0 .. Top - 1 /\ e.max \in Nat
    /\ LastOpcode \in Nat /\ Prologue.opcodeBase <= LastOpcode

ASSUME BadRowAssumption == BAD_ROW \notin Nat

VARIABLES
    encoder,  \* constant
    parsing,  \* parse() has not returned
    opcodes,  \* opcodes executed
    row,      \* the registers
    rows,     \* m_rows
    minAddr,  \* m_min_addr
    maxAddr,  \* m_max_addr
    emitted,  \* history: the rows in the order the program emitted them
    asked,    \* address of the last lookup
    found     \* index into m_rows it returned

vars == <<encoder, parsing, opcodes, row, rows, minAddr, maxAddr, emitted, asked, found>>
table == <<rows, minAddr, maxAddr, emitted>>
lookup == <<asked, found>>

Address == 0 .. Top - 1
FreshRow == [Address |-> 0, Line |-> 1, File |-> 1, EndSequence |-> FALSE]

Init ==
    /\ encoder \in Encoders
    /\ parsing = TRUE
    /\ opcodes = 0
    /\ row = FreshRow
    /\ rows = <<>> /\ emitted = <<>>
    /\ minAddr = Top - 1 /\ maxAddr = 0
    /\ asked = BAD_ROW /\ found = BAD_ROW

-------------------------------------------------------------------------------
MovedUnwrapped(r, bytes) == [r EXCEPT !.Address = @ + bytes]        \* mutant
Moved(r, bytes) == [r EXCEPT !.Address = (@ + bytes) % Top]

Stepped(r, lines) == [r EXCEPT !.Line = (@ + lines) % Lines]

(* What an opcode less m_opcodeBase adds to the address, and to the line. *)
AddressStep(adjust) == (adjust \div Prologue.lineRange) * Prologue.minInstLength
LineStep(adjust) == Prologue.lineBase + (adjust % Prologue.lineRange)

Emit(r) ==
    /\ Len(rows) < MaxRows
    /\ rows' = Append(rows, r) /\ emitted' = Append(emitted, r)

(* The extent follows special opcodes and ends of sequences only. *)
Extend(a) ==
    /\ minAddr' = IF a < minAddr THEN a ELSE minAddr
    /\ maxAddr' = IF a > maxAddr THEN a ELSE maxAddr

Fetch ==
    /\ parsing /\ opcodes < encoder.max
    /\ opcodes' = opcodes + 1
    /\ UNCHANGED <<encoder, parsing, lookup>>

Register(r) == row' = r /\ UNCHANGED table

Special(adjust) ==
    /\ Fetch
    /\ row' = Moved(Stepped(row, LineStep(adjust)), AddressStep(adjust))
    /\ Emit(row')
    /\ Extend(row'.Address)

DW_LNS_copy ==
    /\ Fetch
    /\ Emit(row)
    /\ UNCHANGED <<row, minAddr, maxAddr>>

DW_LNS_advance_pc(n) == Fetch /\ Register(Moved(row, n * Prologue.minInstLength))
DW_LNS_advance_line(n) == Fetch /\ Register(Stepped(row, n))
DW_LNS_set_file(n) == Fetch /\ Register([row EXCEPT !.File = n % Files])
DW_LNS_const_add_pc ==
    Fetch /\ Register(Moved(row, AddressStep(LastOpcode - Prologue.opcodeBase)))
DW_LNS_fixed_advance_pc(n) == Fetch /\ Register(Moved(row, n))
DW_LNE_set_address(n) == Fetch /\ Register([row EXCEPT !.Address = n])

EndSequenceUnextended ==                                            \* mutant
    /\ Fetch
    /\ Emit([row EXCEPT !.EndSequence = TRUE])
    /\ row' = FreshRow
    /\ UNCHANGED <<minAddr, maxAddr>>
DW_LNE_end_sequence ==
    /\ Fetch
    /\ Emit([row EXCEPT !.EndSequence = TRUE])
    /\ Extend(row.Address)
    /\ row' = FreshRow

(* Every other opcode: its operands are consumed, nothing else happens. *)
Idle == Fetch /\ Register(row)

Opcode ==
    \/ \E adjust \in encoder.adjusts : Special(adjust)
    \/ DW_LNS_copy
    \/ DW_LNS_const_add_pc
    \/ DW_LNE_end_sequence
    \/ Idle
    \/ \E n \in encoder.advances : DW_LNS_advance_pc(n) \/ DW_LNS_fixed_advance_pc(n)
    \/ \E n \in encoder.lines : DW_LNS_advance_line(n)
    \/ \E n \in encoder.files : DW_LNS_set_file(n)
    \/ \E n \in encoder.addresses : DW_LNE_set_address(n)

RowAddresses == [i \in DOMAIN rows |-> rows[i].Address]

OrderedUnsorted == UNCHANGED rows                                   \* mutant
OrderedByAddress == rows' \in Sorts(rows, RowAddresses)

ParseEnd ==
    /\ parsing
    /\ parsing' = FALSE
    /\ OrderedByAddress
    /\ UNCHANGED <<encoder, opcodes, row, minAddr, maxAddr, emitted, lookup>>

RowOfFirst(i, a) == IF i > Len(rows) THEN BAD_ROW ELSE i            \* mutant
(* The row to answer with, i being the first at the address or behind it. *)
RowOf(i, a) == IF i > Len(rows) THEN BAD_ROW
               ELSE IF rows[i].Address = a THEN i
               ELSE IF i > 1 THEN i - 1 ELSE BAD_ROW

lookupAddress(a) ==
    /\ ~parsing
    /\ asked' = a
    /\ \E i \in Places(rows) :
        /\ IsLowerBound(RowAddresses, a, i)
        /\ found' = RowOf(i, a)
    /\ UNCHANGED <<encoder, parsing, opcodes, row, table>>

Next == Opcode \/ ParseEnd \/ \E a \in Address : lookupAddress(a)

Spec == Init /\ [][Next]_vars

-------------------------------------------------------------------------------
Row == [Address : Address, Line : 0 .. Lines - 1, File : 0 .. Files - 1, EndSequence : BOOLEAN]

(* Type invariant: the registers and every row stay in their widths. *)
TypeOK ==
    /\ encoder \in Encoders /\ parsing \in BOOLEAN
    /\ opcodes \in 0 .. encoder.max
    /\ row \in Row
    /\ rows \in Seq(Row) /\ emitted \in Seq(Row)
    /\ minAddr \in Address /\ maxAddr \in Address
    /\ asked \in Address \cup {BAD_ROW}
    /\ found \in DOMAIN rows \cup {BAD_ROW}

(* lookupAddress answers with a nearest row at or below the address, and with
   kBAD_ROW_IDX exactly when all rows are above it or all are below it: the
   caller, which indexes the table with the answer, is safe for every address
   the table spans. *)
NearestRow ==
    asked # BAD_ROW =>
        IF found = BAD_ROW
        THEN \/ \A r \in DOMAIN rows : rows[r].Address > asked
             \/ \A r \in DOMAIN rows : rows[r].Address < asked
        ELSE /\ rows[found].Address <= asked
             /\ \A r \in DOMAIN rows : \/ rows[r].Address <= rows[found].Address
                                        \/ rows[r].Address > asked

(* The bytes a row describes: from its address to the next row's, the last
   row of a sequence describing none. *)
Describes(i, a) ==
    /\ i + 1 \in DOMAIN emitted /\ ~emitted[i].EndSequence
    /\ emitted[i].Address <= a /\ a < emitted[i + 1].Address

(* A table as compilers write it: every sequence is ended, addresses grow
   within it, and no row lies in what another row describes, except that a
   sequence may begin where another ends. *)
WellFormed ==
    /\ emitted = <<>> \/ emitted[Len(emitted)].EndSequence
    /\ \A i \in DOMAIN emitted :
        i + 1 \in DOMAIN emitted /\ ~emitted[i].EndSequence
            => emitted[i].Address < emitted[i + 1].Address
    /\ \A i, j \in DOMAIN emitted :
        Describes(i, emitted[j].Address) =>
            \/ i = j
            \/ emitted[j].EndSequence /\ emitted[j].Address = emitted[i].Address

Separate == \A i, j \in DOMAIN emitted :
                emitted[i].Address = emitted[j].Address => i = j

(* In a well-formed table whose sequences do not touch, every byte of code
   gets the row that describes it, whatever order the program gave its
   sequences, if the table is asked: the extent by which the section finds it
   reaches as far as its rows, although DW_LNS_copy does not move it. *)
RowOfByte ==
    /\ (asked # BAD_ROW /\ WellFormed /\ Separate) =>
        \A i \in DOMAIN emitted :
            Describes(i, asked) => found # BAD_ROW /\ rows[found] = emitted[i]
    /\ (~parsing /\ WellFormed) => \A r \in DOMAIN rows : rows[r].Address <= maxAddr

(* What the change log claims of v1.2.0.7: the line of an address is not the
   line of the row before the one that describes it. *)
LineOfByte ==
    (asked # BAD_ROW /\ WellFormed) =>
        \A i \in DOMAIN emitted :
            Describes(i, asked) => found # BAD_ROW /\ rows[found].Line = emitted[i].Line
===============================================================================
