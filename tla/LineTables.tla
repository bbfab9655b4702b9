------------------------------- MODULE LineTables ------------------------------
(***************************************************************************)
(* dwarf::CDWARFDebugLine: the line tables of one __debug_line section.    *)
(* extractLineTableByOffset reads the table of a unit when it is first     *)
(* asked for and files it by its highest address; parse reads the whole    *)
(* section, one table behind the other.                                    *)
(* The section is what a parse meets at each of its offsets: a prologue    *)
(* that is refused or accepted, the length it claims, and the addresses    *)
(* its rows span.  A prologue takes Header units of the section, an opcode *)
(* one; what opcodes do is LineTable's.                                    *)
(* A definition marked mutant is a plausible bug in the one below it; no   *)
(* behaviour uses it.                                                      *)
(***************************************************************************)
EXTENDS SortedTable

CONSTANTS
    Sections,  \* contents the section may have
    Header,    \* units of a prologue
    Offsets,   \* unit offsets asked for (DW_AT_stmt_list), also behind the end
    Addresses, \* addresses getLineTable is asked for
    NULL

(* A table that no row has extended keeps the extent it was made with: from
   2^64 - 1 to 0. *)
Claim == {c \in [accepted : BOOLEAN, length : Nat, min : Nat, max : Nat] :
            c.min <= c.max \/ c.max = 0}

LineTablesAssumption ==
    /\ \A s \in Sections : s \in Seq(Claim)
    /\ Header \in Nat \ {0}
    /\ Offsets \subseteq Nat /\ Addresses \subseteq Nat
    /\ NULL \notin Nat

VARIABLES
    section, \* constant: section[o + 1] is met at offset o
    at,      \* "idle", or where the call is: "prologue" or "program"
    whole,   \* the call is parse(), not extract()
    pos,     \* position of the stream
    node,    \* Offset of the table being read
    table,   \* m_table
    answer   \* last answer: to an offset, an address, or NULL

vars == <<section, at, whole, pos, node, table, answer>>

Size == Len(section)
NoAnswer == [offset |-> NULL, address |-> NULL, found |-> NULL]

Init ==
    /\ section \in Sections
    /\ at = "idle" /\ whole = FALSE
    /\ pos = 0 /\ node = 0
    /\ table = <<>>
    /\ answer = NoAnswer

(* Nothing is accepted at the end of the section: the version stays 0. *)
Accepted(o) == o < Size /\ section[o + 1].accepted
EndOffset(o) == o + section[o + 1].length
ClampedNot(o) == o                                                  \* mutant
Clamped(o) == IF o < Size THEN o ELSE Size
Read(o) == [Offset |-> o, min |-> section[o + 1].min, max |-> section[o + 1].max]

(* CDWARFLineTable::operator< *)
MaxAddrs == [i \in DOMAIN table |-> table[i].max]

KnownAfter(o) == {i \in DOMAIN table : table[i].Offset >= o}          \* mutant
Known(o) == {i \in DOMAIN table : table[i].Offset = o}

-------------------------------------------------------------------------------
getLineTableByOffset(o) ==
    /\ at = "idle" /\ Known(o) # {}
    /\ \E i \in Known(o) :
        /\ \A j \in Known(o) : i <= j
        /\ answer' = [NoAnswer EXCEPT !.offset = o, !.found = table[i]]
    /\ UNCHANGED <<section, at, whole, pos, node, table>>

extractLineTableByOffset(o) ==
    /\ at = "idle" /\ Known(o) = {}
    /\ at' = "prologue" /\ whole' = FALSE
    /\ pos' = Clamped(o) /\ node' = Clamped(o)
    /\ answer' = [NoAnswer EXCEPT !.offset = o]
    /\ UNCHANGED <<section, table>>

ParseKeeping ==                                                     \* mutant
    /\ at = "idle"
    /\ at' = "prologue" /\ whole' = TRUE
    /\ pos' = 0 /\ node' = 0
    /\ answer' = NoAnswer
    /\ UNCHANGED <<section, table>>
(* A stream of its own, at the beginning. *)
parse ==
    /\ at = "idle"
    /\ at' = "prologue" /\ whole' = TRUE
    /\ pos' = 0 /\ node' = 0
    /\ table' = <<>>
    /\ answer' = NoAnswer
    /\ UNCHANGED section

PrologueRefused ==
    /\ at = "prologue" /\ ~(whole /\ pos = Size) /\ ~Accepted(pos)
    /\ at' = "idle"
    /\ table' = IF whole THEN <<>> ELSE table
    /\ UNCHANGED <<section, whole, pos, node, answer>>

PrologueAccepted ==
    /\ at = "prologue" /\ Accepted(pos)
    /\ at' = "program"
    /\ node' = pos
    /\ pos' = Clamped(pos + Header)
    /\ UNCHANGED <<section, whole, table, answer>>

ExecuteStuck == at = "program" /\ pos < EndOffset(node) /\ UNCHANGED vars \* mutant
(* One opcode of the program; none is left at the end of the section. *)
Execute ==
    /\ at = "program" /\ pos < EndOffset(node)
    /\ pos' = Clamped(pos + 1)
    /\ UNCHANGED <<section, at, whole, node, table, answer>>

InsertAtEnd(e) == table' = Append(table, e)                         \* mutant
insert(e) == \E i \in Places(table) :
    /\ IsLowerBound(MaxAddrs, e.max, i)
    /\ table' = PutAt(table, i, e)

ExtractEnd ==
    /\ at = "program" /\ ~whole /\ pos >= EndOffset(node)
    /\ at' = "idle"
    /\ insert(Read(node))
    /\ answer' = [answer EXCEPT !.found = Read(node)]
    /\ UNCHANGED <<section, whole, pos, node>>

TableEnd ==
    /\ at = "program" /\ whole /\ pos >= EndOffset(node)
    /\ at' = "prologue"
    /\ table' = Append(table, Read(node))
    /\ UNCHANGED <<section, whole, pos, node, answer>>

ParseEnd ==
    /\ at = "prologue" /\ whole /\ pos = Size
    /\ at' = "idle"
    /\ table' \in Sorts(table, MaxAddrs)
    /\ UNCHANGED <<section, whole, pos, node, answer>>

getLineTable(a) ==
    /\ at = "idle"
    /\ \E i \in Places(table) :
        /\ IsLowerBound(MaxAddrs, a, i)
        /\ answer' = [NoAnswer EXCEPT !.address = a,
                        !.found = IF i <= Len(table) THEN table[i] ELSE NULL]
    /\ UNCHANGED <<section, at, whole, pos, node, table>>

Call ==
    \/ parse
    \/ \E o \in Offsets : getLineTableByOffset(o) \/ extractLineTableByOffset(o)
    \/ \E a \in Addresses : getLineTable(a)

Run == PrologueRefused \/ PrologueAccepted \/ Execute \/ ExtractEnd \/ TableEnd \/ ParseEnd

Next == Call \/ Run

(* A call, once made, runs: the process is sequential and never waits. *)
Spec == Init /\ [][Next]_vars /\ WF_vars(Run)

-------------------------------------------------------------------------------
TypeOK ==
    /\ section \in Sections
    /\ at \in {"idle", "prologue", "program"} /\ whole \in BOOLEAN
    /\ pos \in 0 .. Size /\ node \in 0 .. Size
    /\ table \in Seq([Offset : 0 .. Size, min : Nat, max : Nat])
    /\ answer.found = NULL \/ answer.found \in [Offset : 0 .. Size, min : Nat, max : Nat]

(* What extractLineTableByOffset returns is the table the section has at the
   offset, and NULL only where it has none, whatever was read before: by other
   calls, in whole, or in a parse that was given up. *)
AnswerIsTheSections ==
    (at = "idle" /\ answer.offset # NULL) =>
        answer.found = IF Accepted(answer.offset) THEN Read(answer.offset) ELSE NULL

(* No table is read and filed twice: a parse of the whole section drops what
   was extracted before, an extraction finds what is there. *)
EachTableOnce ==
    \A i, j \in DOMAIN table : table[i].Offset = table[j].Offset => i = j

(* getLineTable answers with the table whose rows span the address, if the
   tables read so far span disjoint parts of the code: insert and parse keep
   the order the search relies on.  At 0 a table without rows may answer. *)
SpanningTable ==
    (answer.address \notin {NULL, 0}
     /\ \A i, j \in DOMAIN table : i # j =>
            \/ table[i].max < table[j].min
            \/ table[j].max < table[i].min) =>
        \A i \in DOMAIN table :
            (table[i].min <= answer.address /\ answer.address <= table[i].max)
                => answer.found = table[i]

(* Every table at which a call may arrive ends within the section. *)
Complete == \A o \in 0 .. Size - 1 : Accepted(o) => EndOffset(o) <= Size

(* In a section that is as long as its prologues claim every call returns.
   Nothing holds the loop over opcodes back in a shorter one. *)
CallsReturn == Complete => [](at # "idle" => <>(at = "idle"))
===============================================================================
