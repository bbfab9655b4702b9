------------------------------- MODULE MiniMachO -------------------------------
(***************************************************************************)
(* MachOBuilder::BuildMiniMachO: an object reduced to its UUID, its symbol *)
(* table and where its text is, written into a buffer of a size computed   *)
(* beforehand, and what a reader of it finds.  Sizes and offsets are in    *)
(* words of four bytes.  A word of a symbol is <<"symbol", i, j>>, of a    *)
(* string table <<"string", i>>; of the head only the symbol table command *)
(* is kept, the other words are what the command is.                       *)
(* A definition marked mutant is a plausible bug in the one below it; no   *)
(* behaviour uses it.                                                      *)
(***************************************************************************)
EXTENDS Integers, Sequences

CONSTANTS MaxSymbols, MaxStrings \* symbols and words of strings of an object

MiniAssumption == MaxSymbols \in Nat /\ MaxStrings \in Nat

VARIABLES
    object, \* constant: x64, count (of symbols), strings (their words) and
            \* gap, the words between the two in its file
    size,   \* full_size
    out,    \* the memory stream, up to its position
    at      \* what is written next

vars == <<object, size, out, at>>

-------------------------------------------------------------------------------
mach_header_size == 7
mach_header_64_size == 8
uuid_command_size == 6
symtab_command_size == 6
segment_command_size == 14
segment_command_64_size == 18
nlist_size == 3
nlist_64_size == 4

Entry == IF object.x64 THEN nlist_64_size ELSE nlist_size
Header == IF object.x64 THEN mach_header_64_size ELSE mach_header_size
commands_size ==
    symtab_command_size + uuid_command_size
        + IF object.x64 THEN segment_command_64_size ELSE segment_command_size

(* The object's file from its symbol table on; behind its end nothing is read
   and the words are whatever memory holds. *)
Symbols == [k \in 1 .. object.count * Entry |->
               <<"symbol", ((k - 1) \div Entry) + 1, ((k - 1) % Entry) + 1>>]
Strings == [i \in 1 .. object.strings |-> <<"string", i>>]
InFile == Symbols \o [i \in 1 .. object.gap |-> <<"other", i>>] \o Strings

(* CSymbolTable::load takes the size of the entry of the other kind. *)
loadEntry == IF object.x64 THEN nlist_64_size ELSE nlist_size       \* mutant
LoadedEntry == IF object.x64 THEN nlist_size ELSE nlist_64_size
symtabmem ==
    [i \in 1 .. object.count * LoadedEntry |->
        IF i <= Len(InFile) THEN InFile[i] ELSE <<"memory", i>>]

full_size == mach_header_size + commands_size + Len(symtabmem) + object.strings

symtabNominal ==                                                    \* mutant
    [symoff |-> Header + commands_size,
     nsyms |-> object.count,
     stroff |-> Header + commands_size + object.count * Entry,
     strsize |-> object.strings]
symtab ==
    [symoff |-> Header + commands_size,
     nsyms |-> object.count,
     stroff |-> Header + commands_size + Len(symtabmem),
     strsize |-> object.strings]

Init ==
    /\ object \in [x64 : BOOLEAN, count : 0 .. MaxSymbols, strings : 0 .. MaxStrings, gap : 0 .. 1]
    /\ size = full_size
    /\ out = <<>> /\ at = "header"

-------------------------------------------------------------------------------
PutAll(words) == out' = out \o words                                \* mutant
(* As much as the buffer still has room for, whatever is lost. *)
Put(words) == out' = out \o SubSeq(words, 1, IF size - Len(out) < Len(words)
                                              THEN size - Len(out) ELSE Len(words))
Words(name, n) == [i \in 1 .. n |-> <<name, i>>]

WriteHeader ==
    /\ at = "header"
    /\ Put(Words("header", Header)) /\ at' = "uuid"
    /\ UNCHANGED <<object, size>>
WriteUUID ==
    /\ at = "uuid"
    /\ Put(Words("uuid", uuid_command_size)) /\ at' = "symtab"
    /\ UNCHANGED <<object, size>>
WriteSymtab ==
    /\ at = "symtab"
    /\ Put(<<<<"symtab", 1>>, <<"symtab", 2>>, symtab.symoff, symtab.nsyms,
             symtab.stroff, symtab.strsize>>)
    /\ at' = "segment"
    /\ UNCHANGED <<object, size>>
WriteSegment ==
    /\ at = "segment"
    /\ Put(Words("segment", IF object.x64 THEN segment_command_64_size ELSE segment_command_size))
    /\ at' = "symbols"
    /\ UNCHANGED <<object, size>>
WriteSymbols ==
    /\ at = "symbols" /\ Put(symtabmem) /\ at' = "strings"
    /\ UNCHANGED <<object, size>>
WriteStrings ==
    /\ at = "strings" /\ Put(Strings) /\ at' = "done"
    /\ UNCHANGED <<object, size>>

Next ==
    \/ WriteHeader \/ WriteUUID \/ WriteSymtab \/ WriteSegment
    \/ WriteSymbols \/ WriteStrings

Spec == Init /\ [][Next]_vars

-------------------------------------------------------------------------------
TypeOK ==
    /\ object.x64 \in BOOLEAN /\ object.count \in 0 .. MaxSymbols
    /\ at \in {"header", "uuid", "symtab", "segment", "symbols", "strings", "done"}
    /\ Len(out) \in 0 .. size /\ (at = "done" => Len(out) = size)

(* A reader of the finished object: the command behind header and UUID. *)
Read == [n \in 1 .. 4 |-> out[Header + uuid_command_size + 2 + n]]
WordAt(n) == IF n \in DOMAIN out THEN out[n] ELSE <<"end">>
SymbolRead(i) == [j \in 1 .. Entry |-> WordAt(Read[1] + (i - 1) * Entry + j)]
SymbolOf(i) == [j \in 1 .. Entry |-> <<"symbol", i, j>>]
StringsRead == [j \in 1 .. Read[4] |-> WordAt(Read[3] + j)]

(* What is read back from a 32-bit object is the object: every symbol and the
   whole string table, although more of the file is copied than the table. *)
RoundTrip32 ==
    (at = "done" /\ ~object.x64) =>
        /\ Read[2] = object.count /\ Read[4] = object.strings
        /\ \A i \in 1 .. object.count : SymbolRead(i) = SymbolOf(i)
        /\ StringsRead = Strings

(* Of a 64-bit object with a string table the symbols that fit into three
   quarters of the symbol table are read back, and all of the string table but
   its last word: the rest is cut off without anybody noticing. *)
RoundTrip64 ==
    (at = "done" /\ object.x64 /\ object.strings > 0) =>
        /\ Read[2] = object.count
        /\ \A i \in 1 .. object.count : SymbolRead(i) = SymbolOf(i) <=> 4 * i <= 3 * object.count
        /\ \A j \in 1 .. object.strings : StringsRead[j] = Strings[j] <=> j < object.strings
===============================================================================
