------------------------------- MODULE SymbolPack ------------------------------
(***************************************************************************)
(* SymbolPackage: the symbols of many libraries in one file, asked for by  *)
(* the UUID of a library and an address.  The list of records and the      *)
(* strings are read at the first question that finds them missing, the     *)
(* symbols of a record at every question.  Compression is external: a part *)
(* of the file is intact or does not unpack.                               *)
(* A definition marked mutant is a plausible bug in the one below it; no   *)
(* behaviour uses it.                                                      *)
(***************************************************************************)
EXTENDS SortedTable

CONSTANTS
    Packs,     \* contents of packages: [records, strings]
    UUIDs,     \* libraries asked for
    Addresses, \* addresses asked for
    NoName     \* the empty string

PackAssumption ==
    /\ \A p \in Packs :
        /\ p.strings \in Nat   \* size of the strings, 0 if they do not unpack
        /\ p.records \in Seq([uuid : UUIDs,
                              nodes : Seq([stridx : Nat, value : Nat])])
    /\ Addresses \subseteq Nat /\ NoName \notin Nat

VARIABLES
    pack,    \* the file
    there,   \* it can be opened
    records, \* m_offsets: a set of records, one for a UUID
    strings, \* size of m_str
    last     \* last question and its answer

vars == <<pack, there, records, strings, last>>

Init ==
    /\ pack \in Packs
    /\ there \in BOOLEAN
    /\ records = {} /\ strings = 0
    /\ last = [uuid |-> "none", address |-> 0, name |-> NoName]

FirstOfUUID ==                                                      \* mutant
    {pack.records[i] : i \in {i \in DOMAIN pack.records :
        \A j \in DOMAIN pack.records :
            pack.records[j].uuid = pack.records[i].uuid => i <= j}}
(* Where two records have one UUID the later one replaces the other. *)
LastOfUUID ==
    {pack.records[i] : i \in {i \in DOMAIN pack.records :
        \A j \in DOMAIN pack.records :
            pack.records[j].uuid = pack.records[i].uuid => j <= i}}

getRecords == IF records = {} THEN LastOfUUID ELSE records
getStrings == IF strings = 0 THEN pack.strings ELSE strings

Values(nodes) == [i \in DOMAIN nodes |-> nodes[i].value]

PickedFirst(nodes, i) == IF i <= Len(nodes) THEN <<nodes[i]>> ELSE <<>> \* mutant
(* The symbol in front of the first behind the address, or that one if there
   is none in front; nothing behind the last symbol. *)
Picked(nodes, i) ==
    IF i > Len(nodes) THEN <<>> ELSE <<nodes[IF i > 1 THEN i - 1 ELSE i]>>

NameUnchecked(node) == node.stridx                                  \* mutant
Name(node) == IF 0 < node.stridx /\ node.stridx < getStrings THEN node.stridx ELSE NoName

(* Names the package may give: nodes of equal value come in any order. *)
NamesIn(nodes, a) ==
    UNION {{IF Picked(t, i) = <<>> THEN NoName ELSE Name(Picked(t, i)[1]) :
               i \in {i \in Places(t) : IsUpperBound(Values(t), a, i)}} :
           t \in Sorts(nodes, Values(nodes))}

getSymbol(uuid, a) ==
    /\ there
    /\ records' = getRecords /\ strings' = getStrings
    /\ \E name \in IF \E r \in getRecords : r.uuid = uuid
                   THEN UNION {NamesIn(r.nodes, a) :
                                  r \in {r \in getRecords : r.uuid = uuid}}
                   ELSE {NoName} :
        last' = [uuid |-> uuid, address |-> a, name |-> name]
    /\ UNCHANGED <<pack, there>>

getSymbolUnopened(uuid, a) ==
    /\ ~there
    /\ last' = [uuid |-> uuid, address |-> a, name |-> NoName]
    /\ UNCHANGED <<pack, there, records, strings>>

SourceChanges == there' = ~there /\ UNCHANGED <<pack, records, strings, last>>

Next ==
    \/ \E u \in UUIDs, a \in Addresses : getSymbol(u, a) \/ getSymbolUnopened(u, a)
    \/ SourceChanges

Spec == Init /\ [][Next]_vars

-------------------------------------------------------------------------------
(* Type invariant: names are offsets into the strings, behind the first byte. *)
TypeOK ==
    /\ pack \in Packs /\ there \in BOOLEAN
    /\ records \subseteq {pack.records[i] : i \in DOMAIN pack.records}
    /\ strings \in {0, pack.strings}
    /\ last.name \in 1 .. pack.strings - 1 \cup {NoName}

(* One record answers for a UUID: the later one of the file. *)
OneRecordPerUUID ==
    \A r \in records :
        /\ \A s \in records : r.uuid = s.uuid => r = s
        /\ \E i \in DOMAIN pack.records :
            /\ r = pack.records[i]
            /\ \A j \in i + 1 .. Len(pack.records) : pack.records[j].uuid # r.uuid

(* A name is that of a nearest symbol at or below the address in the library
   asked for, or, below all of them, of its lowest symbol, although records,
   strings and symbols are read at different times (CSymbolTable finds nothing
   below its lowest symbol). *)
NameIsNearest ==
    \A k \in DOMAIN pack.records :
        (last.uuid = pack.records[k].uuid
         /\ \A j \in k + 1 .. Len(pack.records) : pack.records[j].uuid # last.uuid) =>
            LET nodes == pack.records[k].nodes
                below == {i \in DOMAIN nodes : nodes[i].value <= last.address}
                above == DOMAIN nodes \ below
            IN last.name # NoName =>
                \E i \in DOMAIN nodes :
                    /\ nodes[i].stridx = last.name
                    /\ IF below # {}
                       THEN i \in below /\ \A j \in below : nodes[j].value <= nodes[i].value
                       ELSE \A j \in above : nodes[i].value <= nodes[j].value
===============================================================================
