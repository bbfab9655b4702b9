------------------------------ MODULE LinePrologue ------------------------------
(***************************************************************************)
(* dwarf::CDWARFDebugLine::CDWARFPrologue: the head of a line table, with  *)
(* the directories and files, and DW_LNE_define_file, which adds to them.  *)
(* Rows name files by their place in this list.  The stream is a sequence  *)
(* of cells: a character other than NUL is 1, a LEB128 number is one cell, *)
(* and so is every number of the head; the section may end at any cell.    *)
(* A definition marked mutant is a plausible bug in the one below it; no   *)
(* behaviour uses it.                                                      *)
(***************************************************************************)
EXTENDS Integers, Sequences, SequencesExt

CONSTANTS
    Tables, \* line tables of producers
    MaxSz,  \* size of the buffer of a string: 4096
    MaxFiles \* bound on the files a loop that never ends adds

LinePrologueAssumption ==
    /\ MaxSz \in Nat \ {0} /\ MaxFiles \in Nat
    /\ Tables \subseteq [version : Nat, lengths : Seq(Nat), dirs : Seq(Nat \ {0}),
                         files : Seq(Nat \ {0}), defined : Seq(Nat), pad : Nat]

(* NUL, any opcode without operands, and the cells of DW_LNE_define_file. *)
NUL == 0
SINGLE == 9
DEFINE_FILE == <<0, 0, 3>>

VARIABLES
    table,  \* constant: version, lengths (of opcodes), dirs, files and
            \* defined (sizes of the names), and pad (how many opcodes without
            \* operands stand between the files and the program)
    cells,  \* constant: its cells
    size,   \* constant: where the section ends
    at,     \* "idle", "lengths", "directories", "files", "program" or "done"
    pos,
    prologue, \* version, opcode_base, directories and files (sizes read)
    end_prologue

section == <<table, cells, size>>
vars == <<section, at, pos, prologue, end_prologue>>

Name(n) == [i \in 1 .. n |-> 1] \o <<NUL>>
File(n) == Name(n) \o <<1, 1, 1>>
Names(s) == FlattenSeq([i \in DOMAIN s |-> Name(s[i])]) \o <<NUL>>
FilesOf(s) == FlattenSeq([i \in DOMAIN s |-> File(s[i])]) \o <<NUL>>

(* total_length, version, prologue_length, and six numbers, or five before
   version 4. *)
HeadSize(version) == 3 + IF version >= 4 THEN 6 ELSE 5
HeadOf(t) == [i \in 1 .. HeadSize(t.version) |-> 1] \o t.lengths
TablesOf(t) == Names(t.dirs) \o FilesOf(t.files) \o [i \in 1 .. t.pad |-> SINGLE]
ProgramOf(t) ==
    FlattenSeq([i \in DOMAIN t.defined |-> DEFINE_FILE \o File(t.defined[i])]) \o <<SINGLE>>
end_offset == Len(cells)

Empty == [version |-> 0, opcode_base |-> 0, directories |-> <<>>, files |-> <<>>]

Init ==
    /\ table \in Tables
    /\ cells = HeadOf(table) \o TablesOf(table) \o ProgramOf(table)
    /\ size \in 0 .. Len(cells)
    /\ at = "idle" /\ pos = 0 /\ prologue = Empty /\ end_prologue = 0

-------------------------------------------------------------------------------
Least(a, b) == IF a < b THEN a ELSE b
Clamped(p) == Least(p, size)

(* read_sz: up to NUL, the size of the buffer, or the end of the section. *)
StringAt(p) ==
    LET ends == {q \in p + 1 .. size : cells[q] = NUL \/ q = size \/ q - p = MaxSz}
        end == IF ends = {} THEN p ELSE CHOOSE q \in ends : \A r \in ends : q <= r
    IN [size |-> IF end > p /\ cells[end] = NUL THEN end - p - 1 ELSE end - p, end |-> end]

(* A number the section has no more room for stays 0, so a section without a
   version is refused. *)
ReadHead ==
    /\ at = "idle"
    /\ pos' = Clamped(HeadSize(table.version))
    /\ LET version == IF size >= 2 THEN table.version ELSE 0 IN
        /\ prologue' = [Empty EXCEPT !.version = version,
              !.opcode_base = IF size >= HeadSize(table.version)
                              THEN Len(table.lengths) + 1 ELSE 0]
        /\ end_prologue' = IF size >= 3 THEN Len(HeadOf(table)) + Len(TablesOf(table))
                                                ELSE Clamped(3)
        /\ at' = IF version \in 2 .. 4 THEN "lengths" ELSE "done"
    /\ UNCHANGED section

ReadLengthsAll ==                                                   \* mutant
    /\ at = "lengths"
    /\ pos' = Clamped(pos + prologue.opcode_base)
    /\ at' = "directories"
    /\ UNCHANGED <<section, prologue, end_prologue>>
ReadLengths ==
    /\ at = "lengths"
    /\ pos' = IF prologue.opcode_base = 0 THEN pos ELSE Clamped(pos + prologue.opcode_base - 1)
    /\ at' = "directories"
    /\ UNCHANGED <<section, prologue, end_prologue>>

ReadDirectory ==
    /\ at = "directories" /\ pos < end_prologue
    /\ LET s == StringAt(pos) IN
        /\ pos' = s.end
        /\ prologue' = IF s.size = 0 THEN prologue
                       ELSE [prologue EXCEPT !.directories = Append(@, s.size)]
        /\ at' = IF s.size = 0 THEN "files" ELSE at
    /\ UNCHANGED <<section, end_prologue>>

ReadFile ==
    /\ at = "files" /\ pos < end_prologue
    /\ LET s == StringAt(pos) IN
        /\ pos' = IF s.size = 0 THEN s.end ELSE Clamped(s.end + 3)
        /\ prologue' = IF s.size = 0 THEN prologue
                       ELSE [prologue EXCEPT !.files = Append(@, s.size)]
        /\ at' = IF s.size = 0 THEN "program" ELSE at
    /\ UNCHANGED <<section, end_prologue>>

(* The program is read from where the tables ended, not from end_prologue. *)
EndTables ==
    /\ at \in {"directories", "files"} /\ pos >= end_prologue
    /\ at' = IF at = "directories" THEN "files" ELSE "program"
    /\ UNCHANGED <<section, pos, prologue, end_prologue>>

More == pos < end_offset /\ pos < size
IsDefine == SubSeq(cells, pos + 1, Least(pos + 3, size)) = DEFINE_FILE

DefineFileFirst ==                                                  \* mutant
    /\ at = "program" /\ More /\ IsDefine
    /\ LET s == StringAt(pos + 3) IN
        /\ prologue' = [prologue EXCEPT !.files = <<s.size>> \o @]
        /\ pos' = Clamped(s.end + 3)
    /\ UNCHANGED <<section, at, end_prologue>>
DefineFile ==
    /\ at = "program" /\ More /\ IsDefine
    /\ LET s == StringAt(pos + 3) IN
        /\ prologue' = [prologue EXCEPT !.files = Append(@, s.size)]
        /\ pos' = Clamped(s.end + 3)
    /\ UNCHANGED <<section, at, end_prologue>>
(* cells that are not meant as an opcode are one, too. *)
OtherOpcode ==
    /\ at = "program" /\ More /\ ~IsDefine
    /\ pos' = IF cells[pos + 1] = NUL /\ pos + 3 > size THEN size ELSE pos + 1
    /\ UNCHANGED <<section, at, prologue, end_prologue>>

EndProgramEarly ==                                                  \* mutant
    /\ at = "program" /\ pos > end_offset
    /\ at' = "done"
    /\ UNCHANGED <<section, pos, prologue, end_prologue>>
EndProgram ==
    /\ at = "program" /\ pos >= end_offset
    /\ at' = "done"
    /\ UNCHANGED <<section, pos, prologue, end_prologue>>
(* Where the section ends before the table the position can no longer reach
   the end of the table: the loop goes on with whatever opcode was left, which
   may be one that adds a file. *)
ReadNothing ==
    /\ at = "program" /\ pos < end_offset /\ pos >= size
    /\ \/ UNCHANGED prologue
       \/ /\ Len(prologue.files) < MaxFiles
          /\ prologue' = [prologue EXCEPT !.files = Append(@, 0)]
    /\ UNCHANGED <<section, at, pos, end_prologue>>

Next ==
    \/ ReadHead \/ ReadLengths \/ ReadDirectory \/ ReadFile \/ EndTables
    \/ DefineFile \/ OtherOpcode \/ EndProgram \/ ReadNothing

(* A parse that was started runs on. *)
Spec == Init /\ [][Next]_vars /\ WF_vars(Next)

-------------------------------------------------------------------------------
TypeOK ==
    /\ table \in Tables /\ pos \in 0 .. size
    /\ at \in {"idle", "lengths", "directories", "files", "program", "done"}
    /\ prologue.version \in {0, table.version} /\ prologue.opcode_base \in 0 .. Len(table.lengths) + 1
    /\ prologue.directories \in Seq(1 .. MaxSz) /\ prologue.files \in Seq(0 .. MaxSz)

NamesFit == \A s \in {table.dirs, table.files, table.defined} : \A i \in DOMAIN s : s[i] < MaxSz
IsWhole == size = end_offset

(* A file number means the file the producer meant: the files of the head in
   order, then those the program defines, none lost and none out of step,
   whatever stands in front of them. *)
FilesAreTheProducers ==
    (at = "done" /\ IsWhole /\ NamesFit /\ table.version \in 2 .. 4) =>
        /\ prologue.directories = table.dirs
        /\ prologue.files = table.files \o table.defined

Shortened(read, meant) ==
    \/ IsPrefix(read, meant)
    \/ /\ read # <<>> /\ Len(read) <= Len(meant)
       /\ IsPrefix(Front(read), meant) /\ Last(read) < meant[Len(read)]

(* In a section that ends inside the table the files that are read are the
   first ones, in their places; only the last name may be cut.  (Not so once
   the loop has run past the section.) *)
CutIsPrefix ==
    (NamesFit /\ (at = "program" => pos < size)) =>
        /\ Shortened(prologue.directories, table.dirs)
        /\ Shortened(prologue.files, table.files \o table.defined)

(* A parse ends, if the section is not shorter than the table says. *)
ParseEnds == IsWhole => <>(at = "done")
===============================================================================
