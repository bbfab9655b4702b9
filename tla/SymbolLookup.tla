------------------------------ MODULE SymbolLookup -----------------------------
(***************************************************************************)
(* macho::CSymbolTable and its four readers: the symbol list and the name  *)
(* at an offset of the interface (CFATW), the fallback of the DWARF        *)
(* aggregator, and the names of a line table dump (CNameResolverByAddress).*)
(* The table is read when it is first used and found empty; every symbol   *)
(* then caches its demangled name, which the readers share.                *)
(* A name is the symbol's identity in the file, NoName the empty string.   *)
(* A definition marked mutant is a plausible bug in the one below it; no   *)
(* behaviour uses it.                                                      *)
(***************************************************************************)
EXTENDS SortedTable

CONSTANTS
    Files,     \* contents of symbol tables: sequences of [address, kind]
    Addresses, \* what is asked for
    NoName,
    NoIndex    \* kINVALID_SYMBLO_IDX

Kinds == {"defined", "undefined", "stab"}

SymbolAssumption ==
    /\ \A f \in Files : f \in Seq([address : Nat, kind : Kinds])
    /\ Addresses \subseteq Nat /\ NoName \notin Nat /\ NoIndex \notin Nat

VARIABLES
    file,    \* the symbols of the object, in file order
    there,   \* the source can be opened
    symbols, \* m_symbols: [address, kind, name, demangled]
    last     \* last question and its answer

vars == <<file, there, symbols, last>>

NoQuestion == [by |-> "none", address |-> 0, index |-> NoIndex, name |-> NoName]

Init ==
    /\ file \in Files
    /\ there \in BOOLEAN
    /\ symbols = <<>>
    /\ last = NoQuestion

AddressesOf(t) == [i \in DOMAIN t |-> t[i].address]

FromFile == [i \in DOMAIN file |->
                [address |-> file[i].address, kind |-> file[i].kind,
                 name |-> i, demangled |-> NoName]]

PreloadUnsorted == IF symbols = <<>> /\ there THEN {FromFile} ELSE {symbols} \* mutant
(* The tables a call may work with: read now if there is none and it can be. *)
Preload == IF symbols = <<>> /\ there
           THEN Sorts(FromFile, AddressesOf(FromFile))
           ELSE {symbols}

IndexBelow(t, i) == IF i > 1 THEN i - 1 ELSE NoIndex                \* mutant
(* Only between two symbols: behind the last one nothing is found. *)
IndexFor(t, i) == IF i <= Len(t) /\ i > 1 THEN i - 1 ELSE NoIndex

getSymbolIdxFirstAtRange(t, a, index) ==
    \E i \in Places(t) :
        /\ IsUpperBound(AddressesOf(t), a, i)
        /\ index = IndexFor(t, i)

(* A name is read from the string table, when the source can be opened. *)
getSymbolAt(s) == IF there THEN s.name ELSE NoName

Demangled(t, i, name) == [t EXCEPT ![i].demangled = name]

Says(by, a, index, name) ==
    last' = [by |-> by, address |-> a, index |-> index, name |-> name]

-------------------------------------------------------------------------------
NameOnceStale(t, i) ==                                              \* mutant
    IF \E j \in DOMAIN t : t[j].demangled # NoName
    THEN t[CHOOSE j \in DOMAIN t : t[j].demangled # NoName].demangled
    ELSE getSymbolAt(t[i])
(* The cached name, or the one in the string table if none is cached. *)
NameOnce(t, i) == IF t[i].demangled # NoName THEN t[i].demangled ELSE getSymbolAt(t[i])

(* CDWARFAggregator::getInfoBySymbolTable *)
getInfoBySymbolTable(a) ==
    /\ \E t \in Preload : \E index \in DOMAIN t \cup {NoIndex} :
        /\ getSymbolIdxFirstAtRange(t, a, index)
        /\ IF index # NoIndex /\ t[index].kind = "defined"
           THEN /\ symbols' = Demangled(t, index, NameOnce(t, index))
                /\ Says("aggregator", a, index, NameOnce(t, index))
           ELSE symbols' = t /\ Says("aggregator", a, index, NoName)
    /\ UNCHANGED <<file, there>>

(* CFATW::GetSymbolNameAt reads the string table every time. *)
GetSymbolNameAt(a) ==
    /\ \E t \in Preload : \E index \in DOMAIN t \cup {NoIndex} :
        /\ getSymbolIdxFirstAtRange(t, a, index)
        /\ IF index # NoIndex /\ t[index].kind = "defined"
           THEN /\ symbols' = Demangled(t, index, getSymbolAt(t[index]))
                /\ Says("wrapper", a, index, getSymbolAt(t[index]))
           ELSE symbols' = t /\ Says("wrapper", a, index, NoName)
    /\ UNCHANGED <<file, there>>

(* CNameResolverByAddress::resolve trusts a cached name of any symbol. *)
resolve(a) ==
    /\ \E t \in Preload : \E index \in DOMAIN t \cup {NoIndex} :
        /\ getSymbolIdxFirstAtRange(t, a, index)
        /\ IF index # NoIndex /\ (t[index].kind = "defined" \/ t[index].demangled # NoName)
           THEN /\ symbols' = Demangled(t, index, NameOnce(t, index))
                /\ Says("resolver", a, index, NameOnce(t, index))
           ELSE symbols' = t /\ Says("resolver", a, index, NoName)
    /\ UNCHANGED <<file, there>>

GetSymbolsAll ==                                                    \* mutant
    /\ \E t \in Preload :
        symbols' = [i \in DOMAIN t |-> [t[i] EXCEPT !.demangled = NameOnce(t, i)]]
    /\ last' = NoQuestion
    /\ UNCHANGED <<file, there>>
(* CFATW::GetSymbols names every symbol that is not a STAB. *)
GetSymbols ==
    /\ \E t \in Preload :
        symbols' = [i \in DOMAIN t |->
                       IF t[i].kind = "stab" THEN t[i]
                       ELSE [t[i] EXCEPT !.demangled = NameOnce(t, i)]]
    /\ last' = NoQuestion
    /\ UNCHANGED <<file, there>>

SourceChanges == there' = ~there /\ last' = NoQuestion /\ UNCHANGED <<file, symbols>>

Next ==
    \/ \E a \in Addresses : getInfoBySymbolTable(a) \/ GetSymbolNameAt(a) \/ resolve(a)
    \/ GetSymbols
    \/ SourceChanges

Spec == Init /\ [][Next]_vars

-------------------------------------------------------------------------------
TypeOK ==
    /\ file \in Files /\ there \in BOOLEAN
    /\ symbols \in Seq([address : Nat, kind : Kinds, name : DOMAIN file,
                        demangled : DOMAIN file \cup {NoName}])
    /\ last.index \in DOMAIN symbols \cup {NoIndex}

(* The symbols of the file around an address. *)
AtOrBelow(a) == {i \in DOMAIN file : file[i].address <= a}
Above(a) == {i \in DOMAIN file : file[i].address > a}
NearestBelow(a) ==
    {i \in AtOrBelow(a) : \A j \in AtOrBelow(a) : file[j].address <= file[i].address}

(* While the source can be opened, a lookup finds a nearest symbol at or below
   the address if the file has another one above it, and nothing otherwise:
   an address in the code of the last symbol has no name. *)
NearestFound ==
    (there /\ last.by # "none") =>
        IF AtOrBelow(last.address) # {} /\ Above(last.address) # {}
        THEN /\ last.index # NoIndex
             /\ symbols[last.index].name \in NearestBelow(last.address)
        ELSE last.index = NoIndex

(* A name that is given, by whichever reader and in whatever order they came,
   is that of a nearest symbol; none of them spoils the cache of another. *)
NameIsNearest ==
    last.name # NoName => last.name \in NearestBelow(last.address)

(* All three ways to name an address agree, while the source can be opened,
   if the nearest symbol is the only one at its address and is defined. *)
NamedIfDefined ==
    (there /\ last.by # "none" /\ Above(last.address) # {}) =>
        \A i \in NearestBelow(last.address) :
            NearestBelow(last.address) = {i} /\ file[i].kind = "defined"
                => last.name = i

(* Only symbols that are no debugging entries (STAB) ever have a name cached. *)
StabsUnnamed ==
    \A i \in DOMAIN symbols : symbols[i].kind = "stab" => symbols[i].demangled = NoName
===============================================================================
