--------------------------- MODULE AddressNamesProofs --------------------------
(***************************************************************************)
(* Proofs about SymbolLookup, SymbolPack, DebugTables, CompileUnit and     *)
(* Aggregator, as MCAddressNames composes them: for every table of         *)
(* symbols, every package, every file of debug tables and every unit,      *)
(* through any calls, a name is that of a nearest symbol, an address gets  *)
(* the unit the file has for it, the entries of a unit give back its tree, *)
(* and a frame is named after the entry its references lead to and has the *)
(* line it is at.  What is kept between calls is always what the file      *)
(* says, so the answers of one call never depend on the calls before.      *)
(***************************************************************************)
EXTENDS MCAddressNames, WellFoundedInduction, SequenceTheorems, FiniteSetTheorems, TLAPS

(* A table of symbols: those of the file, all of them, by address.  A cached
   name is the symbol's own, and a STAB has none. *)
SymbolEntry ==
    [address : Nat, kind : Symbols!Kinds, name : Nat, demangled : Nat \cup {NoName}]
TableOf(t) ==
    /\ t \in Seq(SymbolEntry)
    /\ \A i \in DOMAIN t :
          /\ t[i].name \in DOMAIN file
          /\ t[i].address = file[t[i].name].address
          /\ t[i].kind = file[t[i].name].kind
          /\ t[i].demangled \in {NoName, t[i].name}
          /\ t[i].kind = "stab" => t[i].demangled = NoName
    /\ \A j \in DOMAIN file : \E i \in DOMAIN t : t[i].name = j
    /\ Symbols!Ordered(Symbols!AddressesOf(t))

(* It is there whole, or was not read yet. *)
SymbolsKept ==
    /\ file \in SymbolFiles /\ there \in BOOLEAN
    /\ symbols # <<>> => TableOf(symbols)

SymbolsInv ==
    /\ SymbolsKept
    /\ Symbols!NearestFound /\ Symbols!NameIsNearest /\ Symbols!NamedIfDefined

(* What was read of a package is what the file has. *)
PackKept ==
    /\ pack \in Packs
    /\ records \in {{}, Package!LastOfUUID}
    /\ strings \in {0, pack.strings}
PackInv == PackKept /\ Package!NameIsNearest

(* Debug tables: whole or not there, and at each step of a question what the
   steps before it have made; a question under way has no answer yet. *)
TablesInv ==
    /\ file \in DebugFiles
    /\ arange \in {NULL, file.cu} /\ abbr \in {NULL, TRUE}
    /\ Tables!Made \in Seq(file.good)
    /\ Tables!TablesWhole
    /\ at \in {"idle", "aranges", "find", "abbreviations", "extract", "lookup", "ask"}
    /\ at # "idle" => answer = NULL /\ ~fault
    /\ at \in {"find", "abbreviations", "extract", "lookup", "ask"} => arange = file.cu
    /\ at = "lookup" => (Tables!IsParsed(file.cu[asked]) <=> file.cu[asked] \in file.good)
    /\ at = "ask" => file.cu[asked] \in file.good
    /\ Tables!AnswerOfFile
    /\ Tables!FaultOnlyGone

-------------------------------------------------------------------------------
(* t has the elements of s in the order of their keys. *)
Arranged(t, s, keys) ==
    \E p \in [DOMAIN s -> DOMAIN s] :
        /\ \A i \in DOMAIN s : t[i] = s[p[i]]
        /\ \A j \in DOMAIN s : \E i \in DOMAIN s : p[i] = j
        /\ \A i, j \in DOMAIN s : i <= j => keys[p[i]] <= keys[p[j]]

(* Sorting keeps the elements of a table and orders them. *)
LEMMA SortFacts ==
    ASSUME NEW S, NEW s \in Seq(S), NEW keys \in [DOMAIN s -> Nat],
           NEW t \in Symbols!Sorts(s, keys)
    PROVE  t \in Seq(S) /\ DOMAIN t = DOMAIN s /\ Arranged(t, s, keys)
<1>1. PICK p \in Symbols!F!Bijection(DOMAIN s, DOMAIN s) :
         /\ Symbols!Ordered([i \in DOMAIN s |-> keys[p[i]]])
         /\ t = [i \in DOMAIN s |-> s[p[i]]]
  BY DEF Symbols!Sorts
<1>2. p \in [DOMAIN s -> DOMAIN s] /\ \A j \in DOMAIN s : \E i \in DOMAIN s : p[i] = j
  BY DEF Symbols!F!Bijection, Symbols!F!Injection, Symbols!F!Surjection, Symbols!F!IsInjective
<1>3. \A i \in DOMAIN s : t[i] = s[p[i]] /\ s[p[i]] \in S
  BY <1>1, <1>2
<1>4. DOMAIN t = DOMAIN s
  BY <1>1
<1>5. t \in Seq(S)
  <2>1. Len(s) \in Nat /\ DOMAIN s = 1 .. Len(s)
    OBVIOUS
  <2>2. t \in [1 .. Len(s) -> S]
    BY <1>1, <1>3, <2>1
  <2> QED BY <2>1, <2>2
<1>6. \A i, j \in DOMAIN s : i <= j => keys[p[i]] <= keys[p[j]]
  BY <1>1 DEF Symbols!Ordered
<1>7. Arranged(t, s, keys)
  BY <1>2, <1>3, <1>6 DEF Arranged
<1> QED
  BY <1>4, <1>5, <1>7

FileSymbol == [address : Nat, kind : Symbols!Kinds]

(* The symbols of a file. *)
LEMMA FileFacts ==
    ASSUME file \in SymbolFiles
    PROVE  /\ Len(file) \in Nat /\ DOMAIN file = 1 .. Len(file)
           /\ \A i \in DOMAIN file : file[i].address \in Nat /\ file[i].kind \in Symbols!Kinds
           /\ NoName \notin Nat /\ NoIndex \notin Nat
<1>1. /\ file \in Seq(FileSymbol)
      /\ NoName \notin Nat /\ NoIndex \notin Nat
  BY SymbolAssumption DEF Symbols!SymbolAssumption, FileSymbol
<1>2. Len(file) \in Nat /\ DOMAIN file = 1 .. Len(file)
  BY <1>1
<1>3. \A i \in 1 .. Len(file) : file[i] \in FileSymbol
  BY <1>1
<1> QED BY <1>1, <1>2, <1>3 DEF FileSymbol

(* A call works with the table of the file, or with none while it is away. *)
LEMMA PreloadFacts ==
    ASSUME SymbolsKept, NEW t \in Symbols!Preload
    PROVE  (there \/ t # <<>>) => TableOf(t)
<1>1. CASE symbols = <<>> /\ there
  <2> DEFINE s == Symbols!FromFile
             keys == Symbols!AddressesOf(s)
  <2>1. t \in Symbols!Sorts(s, keys)
    BY <1>1 DEF Symbols!Preload
  <2>2. /\ s \in Seq(SymbolEntry) /\ DOMAIN s = DOMAIN file
        /\ \A i \in DOMAIN file : s[i] = [address |-> file[i].address, kind |-> file[i].kind,
                                          name |-> i, demangled |-> NoName]
    <3>1. /\ Len(file) \in Nat /\ DOMAIN file = 1 .. Len(file)
          /\ \A i \in DOMAIN file : file[i].address \in Nat /\ file[i].kind \in Symbols!Kinds
      BY FileFacts DEF SymbolsKept
    <3>2. s \in [1 .. Len(file) -> SymbolEntry]
      BY <3>1 DEF Symbols!FromFile, SymbolEntry
    <3> QED BY <3>1, <3>2 DEF Symbols!FromFile
  <2>3. keys \in [DOMAIN s -> Nat] /\ \A i \in DOMAIN s : keys[i] = s[i].address
    BY <2>2 DEF Symbols!AddressesOf, SymbolEntry
  <2> HIDE DEF s, keys
  <2>4. t \in Seq(SymbolEntry) /\ DOMAIN t = DOMAIN s /\ Arranged(t, s, keys)
    BY <2>1, <2>2, <2>3, SortFacts
  <2>5. PICK p \in [DOMAIN s -> DOMAIN s] :
             /\ \A i \in DOMAIN s : t[i] = s[p[i]]
             /\ \A j \in DOMAIN s : \E i \in DOMAIN s : p[i] = j
             /\ \A i, j \in DOMAIN s : i <= j => keys[p[i]] <= keys[p[j]]
    BY <2>4 DEF Arranged
  <2>6. \A i \in DOMAIN t : t[i] = [address |-> file[p[i]].address, kind |-> file[p[i]].kind,
                                    name |-> p[i], demangled |-> NoName]
    BY <2>2, <2>4, <2>5
  <2>7. \A j \in DOMAIN file : \E i \in DOMAIN t : t[i].name = j
    BY <2>2, <2>4, <2>5, <2>6
  <2>8. Symbols!Ordered(Symbols!AddressesOf(t))
    BY <2>2, <2>3, <2>4, <2>5 DEF Symbols!Ordered, Symbols!AddressesOf
  <2>9. \A i \in DOMAIN t : p[i] \in DOMAIN file
    BY <2>2, <2>4
  <2>10. \A i \in DOMAIN t :
            /\ t[i].name \in DOMAIN file
            /\ t[i].address = file[t[i].name].address
            /\ t[i].kind = file[t[i].name].kind
            /\ t[i].demangled = NoName
    BY <2>6, <2>9
  <2> QED BY <2>4, <2>7, <2>8, <2>10 DEF TableOf
<1>2. CASE ~(symbols = <<>> /\ there)
  BY <1>2 DEF Symbols!Preload, SymbolsKept
<1> QED BY <1>1, <1>2

(* The place of a table is that of a nearest symbol. *)
LEMMA FoundFacts ==
    ASSUME SymbolsKept, NEW t \in Symbols!Preload, NEW a \in Nat,
           NEW index \in DOMAIN t \cup {NoIndex},
           Symbols!getSymbolIdxFirstAtRange(t, a, index)
    PROVE  /\ index # NoIndex =>
                /\ index \in DOMAIN t /\ TableOf(t)
                /\ t[index].name \in Symbols!NearestBelow(a)
                /\ Symbols!Above(a) # {}
           /\ there /\ index = NoIndex =>
                Symbols!AtOrBelow(a) = {} \/ Symbols!Above(a) = {}
<1>1. PICK i \in Symbols!Places(t) :
         /\ Symbols!IsUpperBound(Symbols!AddressesOf(t), a, i)
         /\ index = Symbols!IndexFor(t, i)
  BY DEF Symbols!getSymbolIdxFirstAtRange
<1>2. t = <<>> \/ TableOf(t)
  BY PreloadFacts
<1>3. /\ Len(file) \in Nat /\ DOMAIN file = 1 .. Len(file) /\ NoIndex \notin Nat
      /\ \A j \in DOMAIN file : file[j].address \in Nat
  BY FileFacts DEF SymbolsKept
<1>4. ASSUME TableOf(t)
      PROVE  /\ Len(t) \in Nat /\ DOMAIN t = 1 .. Len(t) /\ i \in 1 .. Len(t) + 1
             /\ \A m \in DOMAIN t : t[m].name \in DOMAIN file
                                    /\ t[m].address = file[t[m].name].address
                                    /\ t[m].address \in Nat
             /\ \A j \in DOMAIN file : \E m \in DOMAIN t : t[m].name = j
             /\ \A m, l \in DOMAIN t : m <= l => t[m].address <= t[l].address
             /\ i <= Len(t) => t[i].address > a
             /\ \A m \in DOMAIN t : m < i => t[m].address <= a
  <2>1. t \in Seq(SymbolEntry)
    BY <1>4 DEF TableOf
  <2>2. Len(t) \in Nat /\ DOMAIN t = 1 .. Len(t) /\ i \in 1 .. Len(t) + 1
    BY <2>1 DEF Symbols!Places
  <2>3. \A m \in DOMAIN t : t[m].name \in DOMAIN file
                            /\ t[m].address = file[t[m].name].address
                            /\ t[m].address \in Nat
    BY <1>3, <1>4 DEF TableOf
  <2>4. \A m, l \in DOMAIN t : m <= l => t[m].address <= t[l].address
    BY <1>4 DEF TableOf, Symbols!Ordered, Symbols!AddressesOf
  <2>5. i <= Len(t) => t[i].address > a
    BY <1>1, <2>2 DEF Symbols!IsUpperBound, Symbols!AddressesOf
  <2>6. \A m \in DOMAIN t : m < i => t[m].address <= a
    BY <1>1, <2>2 DEF Symbols!IsUpperBound, Symbols!AddressesOf
  <2> QED BY <1>4, <2>2, <2>3, <2>4, <2>5, <2>6 DEF TableOf
<1>5. ASSUME index # NoIndex
      PROVE  /\ index \in DOMAIN t /\ TableOf(t)
             /\ t[index].name \in Symbols!NearestBelow(a)
             /\ Symbols!Above(a) # {}
  <2>1. i <= Len(t) /\ i > 1 /\ index = i - 1
    BY <1>1, <1>5 DEF Symbols!IndexFor
  <2>2. TableOf(t)
    BY <1>2, <1>5
  <2>3. index \in DOMAIN t /\ i \in DOMAIN t /\ index < i
    BY <1>4, <2>1, <2>2
  <2>4. t[index].name \in Symbols!AtOrBelow(a)
    BY <1>4, <2>2, <2>3 DEF Symbols!AtOrBelow
  <2>5. t[i].name \in Symbols!Above(a)
    BY <1>4, <2>1, <2>2, <2>3 DEF Symbols!Above
  <2>6. ASSUME NEW j \in Symbols!AtOrBelow(a)
        PROVE  file[j].address <= file[t[index].name].address
    <3>1. j \in DOMAIN file /\ file[j].address <= a
      BY DEF Symbols!AtOrBelow
    <3>2. PICK m \in DOMAIN t : t[m].name = j
      BY <1>4, <2>2, <3>1
    <3>3. ~(i <= m)
      BY <1>3, <1>4, <2>1, <2>2, <2>3, <3>1, <3>2
    <3>4. m <= index
      BY <1>4, <2>1, <2>2, <2>3, <3>2, <3>3
    <3>5. t[m].address <= t[index].address
      BY <1>4, <2>2, <2>3, <3>2, <3>4
    <3> QED BY <1>4, <2>2, <2>3, <3>2, <3>5
  <2> QED BY <2>2, <2>3, <2>4, <2>5, <2>6 DEF Symbols!NearestBelow
<1>6. ASSUME there, index = NoIndex
      PROVE  Symbols!AtOrBelow(a) = {} \/ Symbols!Above(a) = {}
  <2>1. TableOf(t)
    BY <1>6, PreloadFacts
  <2>2. i > Len(t) \/ i = 1
    BY <1>1, <1>3, <1>4, <1>6, <2>1 DEF Symbols!IndexFor
  <2>3. CASE i > Len(t)
    <3>1. \A m \in DOMAIN t : t[m].address <= a
      BY <1>4, <2>1, <2>3
    <3>2. \A j \in DOMAIN file : ~(file[j].address > a)
      BY SMTT(30), <1>3, <1>4, <2>1, <3>1
    <3> QED BY <3>2 DEF Symbols!Above
  <2>4. CASE i = 1 /\ i <= Len(t)
    <3>1. \A m \in DOMAIN t : t[m].address > a
      BY SMTT(20), <1>4, <2>1, <2>4
    <3>2. \A j \in DOMAIN file : ~(file[j].address <= a)
      BY <1>3, <1>4, <2>1, <3>1
    <3> QED BY <3>2 DEF Symbols!AtOrBelow
  <2> QED BY <1>4, <2>1, <2>2, <2>3, <2>4
<1> QED
  BY <1>5, <1>6

(* A question that is answered with a name or without one: what the three
   readers have in common. *)
Named(a, t, index, name) ==
    /\ Symbols!getSymbolIdxFirstAtRange(t, a, index)
    /\ name # NoName => index # NoIndex /\ name = t[index].name
    /\ index # NoIndex /\ t[index].kind = "stab" => name = NoName
    /\ index # NoIndex /\ t[index].kind = "defined" /\ there => name = t[index].name
    /\ \/ symbols' = t
       \/ index # NoIndex /\ symbols' = Symbols!Demangled(t, index, name)
    /\ last'.address = a /\ last'.index = index /\ last'.name = name
    /\ UNCHANGED <<file, there>>

(* A cached name is kept as the symbol's own. *)
LEMMA CachingKeeps ==
    ASSUME NEW t, TableOf(t), NEW index \in DOMAIN t, NEW name \in {NoName, t[index].name},
           t[index].kind = "stab" => name = NoName
    PROVE  /\ TableOf(Symbols!Demangled(t, index, name))
           /\ \A i \in DOMAIN t : Symbols!Demangled(t, index, name)[i].name = t[i].name
<1> DEFINE u == Symbols!Demangled(t, index, name)
<1>1. t \in Seq(SymbolEntry) /\ Len(t) \in Nat /\ DOMAIN t = 1 .. Len(t)
      /\ \A i \in 1 .. Len(t) : t[i] \in SymbolEntry
  BY DEF TableOf
<1>2. u = [t EXCEPT ![index] = [t[index] EXCEPT !.demangled = name]]
  BY DEF Symbols!Demangled
<1>3. [t[index] EXCEPT !.demangled = name] \in SymbolEntry
  BY <1>1 DEF SymbolEntry
<1>4. u \in [1 .. Len(t) -> SymbolEntry] /\ DOMAIN u = DOMAIN t
  BY <1>1, <1>2, <1>3
<1>5. \A i \in DOMAIN t :
         /\ u[i].name = t[i].name /\ u[i].address = t[i].address /\ u[i].kind = t[i].kind
         /\ u[i].demangled = IF i = index THEN name ELSE t[i].demangled
  BY <1>1, <1>2 DEF SymbolEntry
<1> HIDE DEF u
<1>6. u \in Seq(SymbolEntry)
  BY <1>1, <1>4
<1>7. \A i \in DOMAIN u :
          /\ u[i].name \in DOMAIN file
          /\ u[i].address = file[u[i].name].address
          /\ u[i].kind = file[u[i].name].kind
          /\ u[i].demangled \in {NoName, u[i].name}
          /\ u[i].kind = "stab" => u[i].demangled = NoName
  <2>1. SUFFICES ASSUME NEW i \in DOMAIN t
                 PROVE  /\ u[i].name \in DOMAIN file
                        /\ u[i].address = file[u[i].name].address
                        /\ u[i].kind = file[u[i].name].kind
                        /\ u[i].demangled \in {NoName, u[i].name}
                        /\ u[i].kind = "stab" => u[i].demangled = NoName
    BY <1>4
  <2>2. /\ t[i].name \in DOMAIN file
        /\ t[i].address = file[t[i].name].address
        /\ t[i].kind = file[t[i].name].kind
        /\ t[i].demangled \in {NoName, t[i].name}
        /\ t[i].kind = "stab" => t[i].demangled = NoName
    BY DEF TableOf
  <2> QED BY <1>5, <2>2
<1>8. \A j \in DOMAIN file : \E i \in DOMAIN u : u[i].name = j
  BY <1>4, <1>5 DEF TableOf
<1>9. Symbols!Ordered(Symbols!AddressesOf(u))
  BY <1>4, <1>5 DEF TableOf, Symbols!Ordered, Symbols!AddressesOf
<1> QED
  BY <1>5, <1>6, <1>7, <1>8, <1>9 DEF TableOf, u

(* Each answer is that of a nearest symbol, and leaves the table as it was. *)
LEMMA NamedKeeps ==
    ASSUME SymbolsKept, NEW a \in Nat, NEW t \in Symbols!Preload,
           NEW index \in DOMAIN t \cup {NoIndex}, NEW name, Named(a, t, index, name)
    PROVE  SymbolsInv'
<1>1. UNCHANGED <<file, there>> /\ last'.address = a /\ last'.index = index /\ last'.name = name
      /\ Symbols!getSymbolIdxFirstAtRange(t, a, index)
  BY DEF Named
<1>2. /\ index # NoIndex =>
           /\ index \in DOMAIN t /\ TableOf(t)
           /\ t[index].name \in Symbols!NearestBelow(a)
           /\ Symbols!Above(a) # {}
      /\ there /\ index = NoIndex =>
           Symbols!AtOrBelow(a) = {} \/ Symbols!Above(a) = {}
  BY <1>1, FoundFacts
<1>3. (symbols' # <<>> => TableOf(symbols'))
      /\ (index # NoIndex => symbols'[index].name = t[index].name)
  <2>1. CASE symbols' = t
    BY <2>1, PreloadFacts
  <2>2. CASE index # NoIndex /\ symbols' = Symbols!Demangled(t, index, name)
    <3>1. index \in DOMAIN t /\ TableOf(t) /\ name \in {NoName, t[index].name}
          /\ (t[index].kind = "stab" => name = NoName)
      BY <1>2, <2>2 DEF Named
    <3> QED BY <2>2, <3>1, CachingKeeps
  <2> QED BY <2>1, <2>2 DEF Named
<1>4. SymbolsKept'
  <2>1. TableOf(symbols') => TableOf(symbols)'
    BY <1>1 DEF TableOf
  <2> QED BY <1>1, <1>3, <2>1 DEF SymbolsKept
<1>5. /\ Symbols!AtOrBelow(a)' = Symbols!AtOrBelow(a)
      /\ Symbols!Above(a)' = Symbols!Above(a)
      /\ Symbols!NearestBelow(a)' = Symbols!NearestBelow(a)
  BY <1>1 DEF Symbols!AtOrBelow, Symbols!Above, Symbols!NearestBelow
<1>6. Symbols!NearestBelow(a) \subseteq Symbols!AtOrBelow(a)
  BY DEF Symbols!NearestBelow
<1>7. Symbols!NearestFound'
  <2>1. there => IF Symbols!AtOrBelow(a) # {} /\ Symbols!Above(a) # {}
                 THEN index # NoIndex /\ symbols'[index].name \in Symbols!NearestBelow(a)
                 ELSE index = NoIndex
    BY <1>2, <1>3, <1>6
  <2> QED BY <1>1, <1>5, <2>1 DEF Symbols!NearestFound
<1>8. Symbols!NameIsNearest'
  <2>1. name # NoName => name \in Symbols!NearestBelow(a)
    BY <1>2 DEF Named
  <2> QED BY <1>1, <1>5, <2>1 DEF Symbols!NameIsNearest
<1>9. Symbols!NamedIfDefined'
  <2>1. ASSUME there, Symbols!Above(a) # {}, NEW i \in Symbols!NearestBelow(a),
               Symbols!NearestBelow(a) = {i}, file[i].kind = "defined"
        PROVE  name = i
    <3>1. index # NoIndex
      BY <1>2, <1>6, <2>1
    <3>2. index \in DOMAIN t /\ TableOf(t) /\ t[index].name = i
      BY <1>2, <2>1, <3>1
    <3>3. t[index].kind = "defined"
      BY <2>1, <3>2 DEF TableOf
    <3> QED BY <2>1, <3>1, <3>2, <3>3 DEF Named
  <2>2. file' = file /\ there' = there
    BY <1>1
  <2> QED BY <1>1, <1>5, <2>1, <2>2 DEF Symbols!NamedIfDefined
<1> QED
  BY <1>4, <1>7, <1>8, <1>9 DEF SymbolsInv

(* The readers: a symbol that may be named gets a name, from the cache or the
   file. *)
Reads(by, a, t, index, may, name) ==
    /\ Symbols!getSymbolIdxFirstAtRange(t, a, index)
    /\ IF index # NoIndex /\ may
       THEN symbols' = Symbols!Demangled(t, index, name) /\ Symbols!Says(by, a, index, name)
       ELSE symbols' = t /\ Symbols!Says(by, a, index, NoName)
Reader(a, t, index) ==
    \/ Reads("aggregator", a, t, index, t[index].kind = "defined", Symbols!NameOnce(t, index))
    \/ Reads("wrapper", a, t, index, t[index].kind = "defined", Symbols!getSymbolAt(t[index]))
    \/ Reads("resolver", a, t, index,
             t[index].kind = "defined" \/ t[index].demangled # NoName,
             Symbols!NameOnce(t, index))

(* No call on a table of symbols spoils what it holds or gives a wrong name. *)
LEMMA SymbolsNextKeeps == ASSUME SymbolsInv, Symbols!Next PROVE SymbolsInv'
<1>1. SymbolsKept /\ SymbolAddresses \subseteq Nat /\ NoName \notin Nat /\ NoIndex \notin Nat
  BY SymbolAssumption DEF SymbolsInv, Symbols!SymbolAssumption
<1>2. ASSUME NEW t \in Symbols!Preload, NEW a \in SymbolAddresses,
             NEW index \in DOMAIN t \cup {NoIndex},
             Symbols!getSymbolIdxFirstAtRange(t, a, index), index # NoIndex
      PROVE  /\ t[index].name # NoName
             /\ Symbols!NameOnce(t, index) \in {NoName, t[index].name}
             /\ Symbols!getSymbolAt(t[index]) \in {NoName, t[index].name}
             /\ there => Symbols!NameOnce(t, index) = t[index].name
                         /\ Symbols!getSymbolAt(t[index]) = t[index].name
             /\ t[index].kind = "stab" => t[index].demangled = NoName
  <2>1. TableOf(t) /\ index \in DOMAIN t
    BY <1>1, <1>2, FoundFacts
  <2>2. t[index].name \in DOMAIN file /\ t[index].demangled \in {NoName, t[index].name}
        /\ (t[index].kind = "stab" => t[index].demangled = NoName)
    BY <2>1 DEF TableOf
  <2>3. t[index].name \in Nat
    BY <1>1, <2>2, FileFacts DEF SymbolsKept
  <2> QED BY <1>1, <2>2, <2>3 DEF Symbols!NameOnce, Symbols!getSymbolAt
<1>3. ASSUME NEW a \in SymbolAddresses,
             Symbols!getInfoBySymbolTable(a) \/ Symbols!GetSymbolNameAt(a) \/ Symbols!resolve(a)
      PROVE  SymbolsInv'
  <2>1. /\ \E t \in Symbols!Preload : \E index \in DOMAIN t \cup {NoIndex} : Reader(a, t, index)
        /\ UNCHANGED <<file, there>>
    <3>1. CASE Symbols!getInfoBySymbolTable(a)
      BY <3>1, Zenon DEF Symbols!getInfoBySymbolTable, Reader, Reads
    <3>2. CASE Symbols!GetSymbolNameAt(a)
      BY <3>2, Zenon DEF Symbols!GetSymbolNameAt, Reader, Reads
    <3>3. CASE Symbols!resolve(a)
      BY <3>3, Zenon DEF Symbols!resolve, Reader, Reads
    <3> QED BY <1>3, <3>1, <3>2, <3>3
  <2>2. PICK t \in Symbols!Preload : \E index \in DOMAIN t \cup {NoIndex} : Reader(a, t, index)
    BY <2>1
  <2>3. PICK index \in DOMAIN t \cup {NoIndex} : Reader(a, t, index)
    BY <2>2
  <2>4. \E name : Named(a, t, index, name)
    <3>1. Symbols!getSymbolIdxFirstAtRange(t, a, index)
      BY <2>3 DEF Reader, Reads
    <3>2. CASE index # NoIndex /\ symbols' # t
      BY <1>2, <2>1, <2>3, <3>1, <3>2 DEF Reader, Reads, Named, Symbols!Says
    <3>3. CASE index # NoIndex /\ symbols' = t
      BY <1>2, <2>1, <2>3, <3>1, <3>3 DEF Reader, Reads, Named, Symbols!Says
    <3>4. CASE index = NoIndex
      BY <2>1, <2>3, <3>1, <3>4 DEF Reader, Reads, Named, Symbols!Says
    <3> QED BY <3>2, <3>3, <3>4
  <2>5. a \in Nat
    BY <1>1
  <2> QED BY <1>1, <2>4, <2>5, NamedKeeps
<1>4. CASE Symbols!GetSymbols
  <2>1. PICK t \in Symbols!Preload :
           symbols' = [i \in DOMAIN t |->
                          IF t[i].kind = "stab" THEN t[i]
                          ELSE [t[i] EXCEPT !.demangled = Symbols!NameOnce(t, i)]]
    BY <1>4 DEF Symbols!GetSymbols
  <2>2. UNCHANGED <<file, there>> /\ last' = Symbols!NoQuestion
    BY <1>4 DEF Symbols!GetSymbols
  <2>3. ASSUME TableOf(t) PROVE TableOf(symbols')
    <3>1. t \in Seq(SymbolEntry) /\ Len(t) \in Nat /\ DOMAIN t = 1 .. Len(t)
          /\ \A i \in 1 .. Len(t) : t[i] \in SymbolEntry
      BY <2>3 DEF TableOf
    <3>2. \A i \in DOMAIN t :
             Symbols!NameOnce(t, i) \in {NoName, t[i].name} /\ t[i].name \in Nat
      BY <2>3, <3>1 DEF TableOf, Symbols!NameOnce, Symbols!getSymbolAt, SymbolEntry
    <3>3. \A i \in DOMAIN t : symbols'[i] \in SymbolEntry
      BY <2>1, <3>1, <3>2 DEF SymbolEntry
    <3>4. DOMAIN symbols' = DOMAIN t /\ symbols' \in Seq(SymbolEntry)
      <4>1. symbols' \in [1 .. Len(t) -> SymbolEntry]
        BY <2>1, <3>1, <3>3
      <4> QED BY <3>1, <4>1
    <3>5. \A i \in DOMAIN t :
             /\ symbols'[i].name = t[i].name /\ symbols'[i].address = t[i].address
             /\ symbols'[i].kind = t[i].kind
             /\ symbols'[i].demangled \in {NoName, t[i].name}
             /\ t[i].kind = "stab" => symbols'[i].demangled = NoName
      BY <2>1, <2>3, <3>1, <3>2 DEF SymbolEntry, TableOf
    <3>6. \A i \in DOMAIN symbols' :
              /\ symbols'[i].name \in DOMAIN file
              /\ symbols'[i].address = file[symbols'[i].name].address
              /\ symbols'[i].kind = file[symbols'[i].name].kind
              /\ symbols'[i].demangled \in {NoName, symbols'[i].name}
              /\ symbols'[i].kind = "stab" => symbols'[i].demangled = NoName
      BY <2>3, <3>4, <3>5 DEF TableOf
    <3>7. \A j \in DOMAIN file : \E i \in DOMAIN symbols' : symbols'[i].name = j
      BY <2>3, <3>4, <3>5 DEF TableOf
    <3>8. Symbols!Ordered(Symbols!AddressesOf(symbols'))
      BY <2>3, <3>4, <3>5 DEF TableOf, Symbols!Ordered, Symbols!AddressesOf
    <3> QED BY <3>4, <3>6, <3>7, <3>8 DEF TableOf
  <2>4. t = <<>> => symbols' = <<>>
    BY <2>1
  <2>5. symbols' # <<>> => TableOf(symbols')
    BY <1>1, <2>3, <2>4, PreloadFacts
  <2>6. SymbolsKept'
    <3>1. TableOf(symbols') => TableOf(symbols)'
      BY <2>2 DEF TableOf
    <3> QED BY <1>1, <2>2, <2>5, <3>1 DEF SymbolsKept
  <2> QED BY <2>2, <2>6 DEF SymbolsInv, Symbols!NearestFound, Symbols!NameIsNearest,
               Symbols!NamedIfDefined, Symbols!NoQuestion
<1>5. CASE Symbols!SourceChanges
  <2>1. UNCHANGED <<file, symbols>> /\ last' = Symbols!NoQuestion /\ there' = ~there
    BY <1>5 DEF Symbols!SourceChanges
  <2>2. SymbolsKept'
    BY <1>1, <2>1 DEF SymbolsKept, TableOf
  <2> QED BY <2>1, <2>2 DEF SymbolsInv, Symbols!NearestFound, Symbols!NameIsNearest,
               Symbols!NamedIfDefined, Symbols!NoQuestion
<1> QED
  BY <1>3, <1>4, <1>5 DEF Symbols!Next

-------------------------------------------------------------------------------
PackNode == [stridx : Nat, value : Nat]
PackRecord == [uuid : UUIDs, nodes : Seq(PackNode)]

(* What a package holds. *)
LEMMA PackFacts ==
    ASSUME pack \in Packs
    PROVE  /\ pack.strings \in Nat /\ NoName \notin Nat /\ SymbolAddresses \subseteq Nat
           /\ Len(pack.records) \in Nat /\ DOMAIN pack.records = 1 .. Len(pack.records)
           /\ \A m \in 1 .. Len(pack.records) :
                pack.records[m].nodes \in Seq(PackNode) /\ pack.records[m].uuid \in UUIDs
<1>1. /\ pack.strings \in Nat /\ NoName \notin Nat /\ SymbolAddresses \subseteq Nat
      /\ pack.records \in Seq(PackRecord)
  BY PackAssumption DEF Package!PackAssumption, PackNode, PackRecord
<1>2. Len(pack.records) \in Nat /\ DOMAIN pack.records = 1 .. Len(pack.records)
  BY <1>1
<1>3. \A m \in 1 .. Len(pack.records) : pack.records[m] \in PackRecord
  BY <1>1
<1> QED BY <1>1, <1>2, <1>3 DEF PackRecord

(* What the place in front of an upper bound has, of ordered values: one of
   the highest that are not behind a, or else the lowest. *)
LEMMA InFrontIsNearest ==
    ASSUME NEW n \in Nat, NEW w \in [1 .. n -> Nat],
           \A j, m \in 1 .. n : j <= m => w[j] <= w[m],
           NEW a \in Nat, NEW i \in 1 .. n, w[i] > a,
           \A j \in 1 .. n : j < i => w[j] <= a,
           NEW b \in 1 .. n, i > 1 => b = i - 1, i = 1 => b = 1
    PROVE  /\ \A j \in 1 .. n : w[j] <= a => w[b] <= a /\ w[j] <= w[b]
           /\ w[b] > a => \A j \in 1 .. n : w[b] <= w[j]
<1>1. \A m \in 1 .. n : i <= m => w[m] > a
  <2>1. ASSUME NEW m \in 1 .. n, i <= m PROVE w[m] > a
    <3>1. w[i] <= w[m]
      BY <2>1
    <3>2. w[i] \in Nat /\ w[m] \in Nat
      OBVIOUS
    <3> QED BY <3>1, <3>2
  <2> QED BY <2>1
<1>2. ASSUME NEW j \in 1 .. n, w[j] <= a PROVE w[b] <= a /\ w[j] <= w[b]
  <2>1. ~(i <= j)
    <3>1. w[j] \in Nat
      OBVIOUS
    <3> QED BY <1>1, <1>2, <3>1
  <2>2. j <= b /\ b < i
    BY <2>1
  <2> QED BY <2>2
<1>3. ASSUME w[b] > a, NEW j \in 1 .. n PROVE w[b] <= w[j]
  <2>1. b = 1
    <3>1. w[b] \in Nat
      OBVIOUS
    <3> QED BY <1>3, <3>1
  <2>2. b <= j
    BY <2>1
  <2> QED BY <2>2
<1> QED
  BY <1>2, <1>3

(* The node in front of an upper bound is one of the nearest, as the package
   means it: at or below the address, or else the lowest. *)
Nearest(nodes, a, i) ==
    /\ (\E j \in DOMAIN nodes : nodes[j].value <= a) =>
         /\ nodes[i].value <= a
         /\ \A j \in DOMAIN nodes : nodes[j].value <= a => nodes[j].value <= nodes[i].value
    /\ ~(\E j \in DOMAIN nodes : nodes[j].value <= a) =>
         \A j \in DOMAIN nodes : nodes[i].value <= nodes[j].value

(* Every name found in a record is that of a nearest node. *)
LEMMA PickedIsNearest ==
    ASSUME NEW nodes \in Seq(PackNode), NEW a \in Nat, NEW name,
           name \in Package!NamesIn(nodes, a), name # NoName
    PROVE  \E i \in DOMAIN nodes : nodes[i].stridx = name /\ Nearest(nodes, a, i)
<1> DEFINE keys == Package!Values(nodes)
           n == Len(nodes)
<1>1. PICK t \in Package!Sorts(nodes, keys) :
         \E i \in Package!Places(t) :
            /\ Package!IsUpperBound(Package!Values(t), a, i)
            /\ name = IF Package!Picked(t, i) = <<>> THEN NoName
                      ELSE Package!Name(Package!Picked(t, i)[1])
  BY DEF Package!NamesIn
<1>2. PICK i \in Package!Places(t) :
            /\ Package!IsUpperBound(Package!Values(t), a, i)
            /\ name = IF Package!Picked(t, i) = <<>> THEN NoName
                      ELSE Package!Name(Package!Picked(t, i)[1])
  BY <1>1
<1>3. n \in Nat /\ DOMAIN nodes = 1 .. n /\ \A j \in 1 .. n : nodes[j] \in PackNode
  OBVIOUS
<1>4. \A j \in 1 .. n : nodes[j].stridx \in Nat /\ nodes[j].value \in Nat
  BY <1>3 DEF PackNode
<1>5. keys \in [1 .. n -> Nat] /\ \A j \in 1 .. n : keys[j] = nodes[j].value
  BY <1>3, <1>4 DEF Package!Values
<1>6. t \in Symbols!Sorts(nodes, keys)
  BY <1>1 DEF Package!Sorts, Symbols!Sorts, Package!Ordered, Symbols!Ordered,
        Package!F!Bijection, Package!F!Injection, Package!F!Surjection, Package!F!IsInjective,
        Symbols!F!Bijection, Symbols!F!Injection, Symbols!F!Surjection, Symbols!F!IsInjective
<1> HIDE DEF keys
<1>7. t \in Seq(PackNode) /\ DOMAIN t = 1 .. n /\ Arranged(t, nodes, keys)
  BY <1>3, <1>5, <1>6, SortFacts
<1>8. Len(t) = n
  BY <1>3, <1>7
<1> HIDE DEF n
<1>9. PICK p \in [1 .. n -> 1 .. n] :
         /\ \A j \in 1 .. n : t[j] = nodes[p[j]]
         /\ \A j \in 1 .. n : \E m \in 1 .. n : p[m] = j
         /\ \A j, m \in 1 .. n : j <= m => keys[p[j]] <= keys[p[m]]
  BY <1>3, <1>7 DEF Arranged
<1> DEFINE w == Package!Values(t)
<1>10. w \in [1 .. n -> Nat] /\ \A j \in 1 .. n : w[j] = keys[p[j]] /\ w[j] = t[j].value
  <2>1. \A j \in 1 .. n : t[j].value = keys[p[j]] /\ keys[p[j]] \in Nat
    BY <1>5, <1>9
  <2> QED BY <1>7, <2>1 DEF Package!Values
<1>11. Len(w) = n
  BY <1>3, <1>10
<1>12. /\ i \in 1 .. n + 1
       /\ i <= n => w[i] > a
       /\ \A j \in 1 .. n : j < i => w[j] <= a
  <2>1. Package!IsUpperBound(w, a, i) /\ DOMAIN w = 1 .. n
    BY <1>2, <1>10
  <2>2. i \in 1 .. n + 1
    BY <1>8 DEF Package!Places
  <2> HIDE DEF w
  <2>3. /\ i <= Len(w) => w[i] > a
        /\ \A j \in DOMAIN w : j < i => w[j] <= a
    BY <2>1 DEF Package!IsUpperBound
  <2> QED BY <1>11, <2>1, <2>2, <2>3
<1> HIDE DEF w
<1> DEFINE b == IF i > 1 THEN i - 1 ELSE i
<1>13. i \in 1 .. n /\ Package!Picked(t, i) = <<t[b]>>
  <2>1. ~(i > n)
    <3>1. ASSUME i > n PROVE name = NoName
      <4>1. Package!Picked(t, i) = <<>>
        BY <1>8, <3>1 DEF Package!Picked
      <4> QED BY <1>2, <4>1
    <3> QED BY <3>1
  <2>2. i \in 1 .. n
    BY <1>3, <1>12, <2>1
  <2> QED BY <1>8, <2>1, <2>2 DEF Package!Picked
<1>14. b \in 1 .. n /\ (i > 1 => b = i - 1) /\ (i = 1 => b = 1)
  BY <1>3, <1>13
<1> HIDE DEF b
<1>15. name = t[b].stridx
  <2>1. <<t[b]>> # <<>> /\ <<t[b]>>[1] = t[b]
    OBVIOUS
  <2>2. name = Package!Name(t[b])
    BY <1>2, <1>13, <2>1
  <2> QED BY <2>2 DEF Package!Name
<1>16. \A j, m \in 1 .. n : j <= m => w[j] <= w[m]
  BY <1>9, <1>10
<1>17. /\ \A j \in 1 .. n : w[j] <= a => w[b] <= a /\ w[j] <= w[b]
       /\ w[b] > a => \A j \in 1 .. n : w[b] <= w[j]
  <2>1. w \in [1 .. n -> Nat] /\ i \in 1 .. n /\ w[i] > a
    BY <1>10, <1>12, <1>13
  <2>2. \A j \in 1 .. n : j < i => w[j] <= a
    BY <1>12
  <2> QED BY <1>3, <1>14, <1>16, <2>1, <2>2, InFrontIsNearest, Zenon
<1>18. p[b] \in 1 .. n /\ nodes[p[b]].stridx = name /\ nodes[p[b]].value = w[b]
  BY <1>9, <1>10, <1>14, <1>15
<1>19. \A j \in 1 .. n : \E m \in 1 .. n : nodes[j].value = w[m]
  <2>1. SUFFICES ASSUME NEW j \in 1 .. n PROVE \E m \in 1 .. n : nodes[j].value = w[m]
    OBVIOUS
  <2>2. PICK m \in 1 .. n : p[m] = j
    BY <1>9
  <2>3. nodes[j].value = keys[j] /\ w[m] = keys[p[m]]
    BY <1>5, <1>10
  <2> QED BY <2>2, <2>3
<1>20. ASSUME NEW j \in 1 .. n
       PROVE  /\ nodes[j].value <= a => w[b] <= a /\ nodes[j].value <= w[b]
              /\ w[b] > a => w[b] <= nodes[j].value
  BY <1>17, <1>19
<1>21. ~(\E j \in 1 .. n : nodes[j].value <= a) => w[b] > a
  <2>1. w[b] \in Nat
    BY <1>10, <1>14
  <2> QED BY <1>18, <2>1
<1>22. Nearest(nodes, a, p[b])
  BY <1>3, <1>18, <1>20, <1>21 DEF Nearest
<1> QED
  BY <1>3, <1>18, <1>22

(* The records kept are the later ones of their UUIDs. *)
LEMMA RecordsKept ==
    ASSUME PackKept, NEW r \in Package!getRecords
    PROVE  /\ r \in Package!LastOfUUID
           /\ \E m \in DOMAIN pack.records :
                /\ r = pack.records[m]
                /\ \A j \in DOMAIN pack.records :
                     pack.records[j].uuid = pack.records[m].uuid => j <= m
  BY DEF PackKept, Package!getRecords, Package!LastOfUUID

(* No record behind the m-th has the UUID. *)
LastOf(m, uuid) == \A j \in m + 1 .. Len(pack.records) : pack.records[j].uuid # uuid

(* The names a package may give. *)
NamesOf(uuid, a) ==
    IF \E r \in Package!getRecords : r.uuid = uuid
    THEN UNION {Package!NamesIn(r.nodes, a) :
                   r \in {r \in Package!getRecords : r.uuid = uuid}}
    ELSE {NoName}

(* A name that is given is a node's of the record asked for. *)
LEMMA NamesAreNearest ==
    ASSUME PackKept, NEW uuid \in UUIDs, NEW a \in Nat, NEW name \in NamesOf(uuid, a),
           name # NoName, NEW m \in DOMAIN pack.records, pack.records[m].uuid = uuid,
           LastOf(m, uuid)
    PROVE  \E i \in DOMAIN pack.records[m].nodes :
              /\ pack.records[m].nodes[i].stridx = name
              /\ Nearest(pack.records[m].nodes, a, i)
<1>1. pack \in Packs
  BY DEF PackKept
<1>2. PICK r \in Package!getRecords : r.uuid = uuid /\ name \in Package!NamesIn(r.nodes, a)
  BY DEF NamesOf
<1>3. PICK l \in DOMAIN pack.records :
         /\ r = pack.records[l]
         /\ \A j \in DOMAIN pack.records :
              pack.records[j].uuid = pack.records[l].uuid => j <= l
  BY RecordsKept
<1>4. l = m
  <2>1. m \in 1 .. Len(pack.records) /\ l \in 1 .. Len(pack.records) /\ Len(pack.records) \in Nat
    BY <1>1, PackFacts
  <2>2. m <= l
    BY <1>2, <1>3
  <2>3. ~(m < l)
    BY <1>2, <1>3, <2>1 DEF LastOf
  <2> QED BY <2>1, <2>2, <2>3
<1>5. r.nodes \in Seq(PackNode)
  BY <1>1, <1>3, PackFacts
<1> QED
  BY <1>2, <1>3, <1>4, <1>5, PickedIsNearest

(* The package's own statement of it. *)
LEMMA NearestIsNearest ==
    ASSUME PackKept', pack' = pack, last'.address \in Nat,
           \A m \in DOMAIN pack.records :
              (/\ last'.name # NoName /\ last'.uuid = pack.records[m].uuid
               /\ \A j \in m + 1 .. Len(pack.records) : pack.records[j].uuid # last'.uuid) =>
                  \E i \in DOMAIN pack.records[m].nodes :
                     /\ pack.records[m].nodes[i].stridx = last'.name
                     /\ Nearest(pack.records[m].nodes, last'.address, i)
    PROVE  Package!NameIsNearest'
<1>1. SUFFICES ASSUME NEW m \in DOMAIN pack.records, last'.uuid = pack.records[m].uuid,
                      \A j \in m + 1 .. Len(pack.records) : pack.records[j].uuid # last'.uuid,
                      last'.name # NoName
               PROVE  LET nodes == pack.records[m].nodes
                          below == {i \in DOMAIN nodes : nodes[i].value <= last'.address}
                          above == DOMAIN nodes \ below
                      IN \E i \in DOMAIN nodes :
                            /\ nodes[i].stridx = last'.name
                            /\ IF below # {}
                               THEN i \in below /\ \A j \in below : nodes[j].value <= nodes[i].value
                               ELSE \A j \in above : nodes[i].value <= nodes[j].value
  BY SMTT(20) DEF Package!NameIsNearest
<1> DEFINE nodes == pack.records[m].nodes
           below == {i \in DOMAIN nodes : nodes[i].value <= last'.address}
           above == DOMAIN nodes \ below
<1>2. PICK i \in DOMAIN nodes :
         nodes[i].stridx = last'.name /\ Nearest(nodes, last'.address, i)
  BY <1>1
<1> HIDE DEF nodes
<1>3. CASE below # {}
  <2>1. i \in below /\ \A j \in below : nodes[j].value <= nodes[i].value
    BY <1>2, <1>3 DEF Nearest
  <2> QED BY <1>2, <1>3, <2>1 DEF nodes
<1>4. CASE below = {}
  <2>1. \A j \in above : nodes[i].value <= nodes[j].value
    BY <1>2, <1>4 DEF Nearest
  <2> QED BY <1>2, <1>4, <2>1 DEF nodes
<1> QED
  BY <1>3, <1>4

(* Without a question a package says what it said. *)
LEMMA SamePackage ==
    ASSUME PackInv, UNCHANGED <<pack, records, strings, last>> PROVE PackInv'
<1>1. PackKept'
  BY DEF PackInv, PackKept, Package!LastOfUUID
<1>2. Package!NameIsNearest'
  BY SMTT(30) DEF PackInv, Package!NameIsNearest
<1> QED
  BY <1>1, <1>2 DEF PackInv

(* No question to a package loses what was read or gives a wrong name. *)
LEMMA PackNextKeeps == ASSUME PackInv, Package!Next PROVE PackInv'
<1>1. CASE Package!SourceChanges
  <2>1. UNCHANGED <<pack, records, strings, last>>
    BY <1>1 DEF Package!SourceChanges
  <2> QED BY <2>1, SamePackage
<1>2. ASSUME NEW uuid \in UUIDs, NEW a \in SymbolAddresses, Package!getSymbolUnopened(uuid, a)
      PROVE  PackInv'
  <2>1. UNCHANGED <<pack, records, strings>> /\ last'.name = NoName
    BY <1>2 DEF Package!getSymbolUnopened
  <2> QED BY <2>1 DEF PackInv, PackKept, Package!LastOfUUID, Package!NameIsNearest
<1>3. ASSUME NEW uuid \in UUIDs, NEW a \in SymbolAddresses, Package!getSymbol(uuid, a)
      PROVE  PackInv'
  <2>1. pack' = pack /\ records' = Package!getRecords /\ strings' = Package!getStrings
    BY <1>3 DEF Package!getSymbol
  <2>2. PICK name \in NamesOf(uuid, a) :
            last' = [uuid |-> uuid, address |-> a, name |-> name]
    BY <1>3 DEF Package!getSymbol, NamesOf
  <2>3. PackKept'
    BY <2>1 DEF PackInv, PackKept, Package!LastOfUUID, Package!getRecords, Package!getStrings
  <2>4. a \in Nat
    BY PackFacts DEF PackInv, PackKept
  <2>5. ASSUME NEW m \in DOMAIN pack.records, name # NoName, uuid = pack.records[m].uuid,
               \A j \in m + 1 .. Len(pack.records) : pack.records[j].uuid # uuid
        PROVE  \E i \in DOMAIN pack.records[m].nodes :
                  /\ pack.records[m].nodes[i].stridx = name
                  /\ Nearest(pack.records[m].nodes, a, i)
    <3>1. PackKept /\ pack.records[m].uuid = uuid
      BY <2>5 DEF PackInv
    <3>2. LastOf(m, uuid)
      BY <2>5 DEF LastOf
    <3> QED BY <2>4, <2>5, <3>1, <3>2, NamesAreNearest, Zenon
  <2>6. last'.address = a /\ last'.name = name /\ last'.uuid = uuid
    BY <2>2
  <2>7. Package!NameIsNearest'
    BY <2>1, <2>3, <2>4, <2>5, <2>6, NearestIsNearest
  <2> QED BY <2>3, <2>7 DEF PackInv
<1> QED
  BY <1>1, <1>2, <1>3 DEF Package!Next

-------------------------------------------------------------------------------
(* The units that were parsed, as a sequence; a NULL is none. *)
LEMMA UnitFacts ==
    ASSUME file \in DebugFiles
    PROVE  /\ NULL \notin file.good /\ NULL \notin Seq(file.good)
           /\ "symbol" \notin file.good
           /\ DOMAIN file.cu = TableAddresses /\ file.cu # NULL
           /\ file.ranges \in BOOLEAN /\ NULL \notin BOOLEAN
  BY FilesAssumption DEF Tables!FilesAssumption

(* Units that are not touched stay what they are. *)
LEMMA SameUnits ==
    ASSUME units' = units, file' = file
    PROVE  /\ Tables!Made' = Tables!Made
           /\ \A o : Tables!IsParsed(o)' <=> Tables!IsParsed(o)
  BY DEF Tables!Made, Tables!IsParsed

(* A question begins without an answer. *)
LEMMA CallBegins ==
    ASSUME TablesInv, NEW a \in TableAddresses, Tables!getInfoByAddress(a)
    PROVE  TablesInv'
<1>1. /\ at = "idle" /\ ~fault /\ at' = "aranges" /\ asked' = a /\ answer' = NULL
      /\ UNCHANGED <<file, there, arange, abbr, units, fault>>
  BY DEF Tables!getInfoByAddress, Tables!tables
<1>2. Tables!Made' = Tables!Made
  BY <1>1, SameUnits
<1> QED
  BY <1>1, <1>2 DEF TablesInv, Tables!TablesWhole, Tables!AnswerOfFile, Tables!FaultOnlyGone

(* The table of ranges is made whole, or not kept. *)
LEMMA ArangesKeeps == ASSUME TablesInv, Tables!Aranges PROVE TablesInv'
<1>1. /\ at = "aranges" /\ UNCHANGED <<file, there, asked, answer, abbr, units>>
      /\ \/ arange # NULL /\ at' = "find" /\ arange' = arange /\ fault' = fault
         \/ there /\ ~fault' /\ arange' = file.cu /\ at' = "find"
         \/ ~there /\ fault' /\ arange' = arange /\ at' = "idle"
  BY DEF Tables!Aranges, Tables!tables, TablesInv
<1>2. Tables!Made' = Tables!Made
  BY <1>1, SameUnits
<1>3. Tables!TablesWhole'
  BY <1>1, <1>2 DEF TablesInv, Tables!TablesWhole
<1>4. Tables!AnswerOfFile' /\ Tables!FaultOnlyGone'
  BY <1>1 DEF TablesInv, Tables!AnswerOfFile, Tables!FaultOnlyGone
<1>5. /\ file' = file /\ file \in DebugFiles /\ answer' = NULL /\ ~fault
      /\ Tables!Made' \in Seq(file.good)
  BY <1>1, <1>2 DEF TablesInv
<1>6. arange' \in {NULL, file.cu} /\ abbr' \in {NULL, TRUE}
  BY <1>1, Zenon DEF TablesInv
<1>7. at' = "idle" \/ (at' = "find" /\ ~fault' /\ arange' = file.cu)
  BY <1>1, <1>5, Zenon DEF TablesInv
<1> QED
  BY <1>3, <1>4, <1>5, <1>6, <1>7 DEF TablesInv

(* An address without a unit is left to the symbol table. *)
LEMMA FindKeeps == ASSUME TablesInv, Tables!Find PROVE TablesInv'
<1>1. /\ at = "find" /\ UNCHANGED <<file, there, asked, fault, arange, abbr, units>>
      /\ \/ arange[asked] = NULL /\ answer' = "symbol" /\ at' = "idle"
         \/ at' = "abbreviations" /\ answer' = answer
  BY DEF Tables!Find, Tables!tables
<1>2. Tables!Made' = Tables!Made
  BY <1>1, SameUnits
<1>3. at' = "idle" => file.cu[asked] \notin file.good
  BY <1>1, UnitFacts DEF TablesInv
<1> QED
  BY <1>1, <1>2, <1>3
     DEF TablesInv, Tables!TablesWhole, Tables!AnswerOfFile, Tables!FaultOnlyGone

(* So are the declarations. *)
LEMMA AbbreviationsKeep == ASSUME TablesInv, Tables!Abbreviations PROVE TablesInv'
<1>1. /\ at = "abbreviations" /\ UNCHANGED <<file, there, asked, answer, arange, units>>
      /\ \/ abbr' = abbr /\ at' = "extract" /\ fault' = fault
         \/ there /\ ~fault' /\ abbr' = TRUE /\ at' = "extract"
         \/ ~there /\ fault' /\ abbr' = abbr /\ at' = "idle"
  BY DEF Tables!Abbreviations, Tables!tables, TablesInv
<1>2. Tables!Made' = Tables!Made
  BY <1>1, SameUnits
<1>3. Tables!TablesWhole'
  BY <1>1, <1>2 DEF TablesInv, Tables!TablesWhole
<1>4. Tables!AnswerOfFile' /\ Tables!FaultOnlyGone'
  BY <1>1 DEF TablesInv, Tables!AnswerOfFile, Tables!FaultOnlyGone
<1>5. /\ file' = file /\ file \in DebugFiles /\ answer' = NULL /\ ~fault
      /\ Tables!Made' \in Seq(file.good)
  BY <1>1, <1>2 DEF TablesInv
<1>6. arange' \in {NULL, file.cu} /\ abbr' \in {NULL, TRUE}
  BY <1>1, Zenon DEF TablesInv
<1>7. at' = "idle" \/ (at' = "extract" /\ ~fault' /\ arange' = file.cu)
  BY <1>1, <1>5, Zenon DEF TablesInv
<1> QED
  BY <1>3, <1>4, <1>5, <1>6, <1>7 DEF TablesInv

(* A unit that is parsed comes behind the others, and was not among them. *)
LEMMA ExtractKeeps == ASSUME TablesInv, Tables!Extract PROVE TablesInv'
<1> DEFINE o == arange[asked]
           made == Tables!Made
<1>1. /\ at = "extract" /\ UNCHANGED <<file, there, arange, abbr, asked, answer>>
      /\ fault' = (~there /\ ~Tables!IsParsed(o))
      /\ at' = IF fault' THEN "idle" ELSE "lookup"
      /\ units' = IF ~fault' /\ ~Tables!IsParsed(o) /\ o \in file.good
                  THEN Append(made, o) ELSE made
  BY DEF Tables!Extract
<1>2. /\ made \in Seq(file.good) /\ o = file.cu[asked] /\ NULL \notin Seq(file.good)
      /\ \A i, j \in DOMAIN made : made[i] = made[j] => i = j
      /\ Tables!IsParsed(o) <=> \E i \in DOMAIN made : made[i] = o
  BY <1>1, UnitFacts DEF TablesInv, Tables!TablesWhole, Tables!IsParsed
<1> HIDE DEF made
<1>3. /\ units' \in Seq(file.good)
      /\ \A i, j \in DOMAIN units' : units'[i] = units'[j] => i = j
      /\ ~fault' => ((\E i \in DOMAIN units' : units'[i] = o) <=> o \in file.good)
  <2>1. CASE ~fault' /\ ~Tables!IsParsed(o) /\ o \in file.good
    <3>1. units' = Append(made, o)
      BY <1>1, <2>1
    <3>2. Len(made) \in Nat /\ DOMAIN made = 1 .. Len(made)
      BY <1>2
    <3>3. /\ units' \in Seq(file.good) /\ DOMAIN units' = 1 .. Len(made) + 1
          /\ \A i \in 1 .. Len(made) : units'[i] = made[i]
          /\ units'[Len(made) + 1] = o
      <4>1. made \in Seq(file.good) /\ o \in file.good
        BY <1>2, <2>1
      <4> HIDE DEF o
      <4> QED BY <3>1, <3>2, <4>1
    <3>4. \A i \in 1 .. Len(made) + 1 : i \in 1 .. Len(made) \/ i = Len(made) + 1
      BY <3>2
    <3>5. \A i, j \in DOMAIN units' : units'[i] = units'[j] => i = j
      BY <1>2, <2>1, <3>2, <3>3, <3>4
    <3>6. Len(made) + 1 \in DOMAIN units'
      BY <3>2, <3>3
    <3> QED BY <2>1, <3>3, <3>5, <3>6
  <2>2. CASE ~(~fault' /\ ~Tables!IsParsed(o) /\ o \in file.good)
    <3>1. units' = made
      BY <1>1, <2>2
    <3>2. Tables!IsParsed(o) => o \in file.good
      BY <1>2
    <3> QED BY <1>2, <2>2, <3>1, <3>2
  <2> QED BY <2>1, <2>2
<1>4. Tables!Made' = units'
  BY <1>2, <1>3 DEF Tables!Made
<1>5. \A i \in DOMAIN units' : units'[i] \in file.good
  BY <1>3
<1>6. Tables!TablesWhole'
  BY <1>1, <1>3, <1>4, <1>5 DEF TablesInv, Tables!TablesWhole
<1>7. ~fault' => (Tables!IsParsed(arange[asked])' <=> o \in file.good)
  BY <1>1, <1>3, <1>4 DEF Tables!IsParsed
<1>8. at' = "lookup" => (Tables!IsParsed(file.cu[asked])' <=> file.cu[asked] \in file.good)
  BY <1>1, <1>2, <1>7
<1> QED
  BY <1>1, <1>2, <1>3, <1>4, <1>6, <1>8
     DEF TablesInv, Tables!AnswerOfFile, Tables!FaultOnlyGone

(* A unit that is not among the parsed ones does not parse. *)
LEMMA LookupKeeps == ASSUME TablesInv, Tables!Lookup PROVE TablesInv'
<1>1. /\ at = "lookup" /\ UNCHANGED <<file, there, asked, fault, arange, abbr, units>>
      /\ \/ ~Tables!IsParsed(arange[asked]) /\ answer' = "symbol" /\ at' = "idle"
         \/ Tables!IsParsed(arange[asked]) /\ at' = "ask" /\ answer' = answer
  BY DEF Tables!Lookup, Tables!tables
<1>2. Tables!Made' = Tables!Made
  BY <1>1, SameUnits
<1>3. /\ arange = file.cu
      /\ Tables!IsParsed(file.cu[asked]) <=> file.cu[asked] \in file.good
  BY <1>1 DEF TablesInv
<1> QED
  BY <1>1, <1>2, <1>3
     DEF TablesInv, Tables!TablesWhole, Tables!AnswerOfFile, Tables!FaultOnlyGone

(* The unit answers, unless the file is gone. *)
LEMMA AskKeeps == ASSUME TablesInv, Tables!Ask PROVE TablesInv'
<1>1. /\ at = "ask" /\ UNCHANGED <<file, there, asked, arange, abbr, units>>
      /\ fault' => ~there
      /\ answer' = IF fault' THEN answer ELSE arange[asked]
      /\ at' = "idle"
  BY DEF Tables!Ask
<1>2. Tables!Made' = Tables!Made
  BY <1>1, SameUnits
<1>3. arange = file.cu /\ file.cu[asked] \in file.good /\ answer = NULL
  BY <1>1 DEF TablesInv
<1> QED
  BY <1>1, <1>2, <1>3
     DEF TablesInv, Tables!TablesWhole, Tables!AnswerOfFile, Tables!FaultOnlyGone

(* Clean takes the tables away, and what depends on them. *)
LEMMA CleanKeeps == ASSUME TablesInv, Tables!clean PROVE TablesInv'
<1>1. /\ at = "idle" /\ ~fault /\ arange' = NULL /\ abbr' = NULL /\ units' = NULL
      /\ UNCHANGED <<file, there, at, asked, answer, fault>>
  BY DEF Tables!clean
<1>2. Tables!Made' = <<>>
  BY <1>1 DEF Tables!Made
<1> QED
  BY <1>1, <1>2 DEF TablesInv, Tables!TablesWhole, Tables!AnswerOfFile, Tables!FaultOnlyGone

(* The file going or coming back changes no table. *)
LEMMA SourceKeeps ==
    ASSUME TablesInv, Tables!Vanish \/ Tables!ComeBack PROVE TablesInv'
<1>1. /\ UNCHANGED <<file, arange, abbr, units, at, asked, answer, fault>>
      /\ fault => ~there'
  BY DEF Tables!Vanish, Tables!ComeBack, Tables!tables, TablesInv, Tables!FaultOnlyGone
<1>2. /\ Tables!Made' = Tables!Made
      /\ \A o : Tables!IsParsed(o)' <=> Tables!IsParsed(o)
  BY <1>1, SameUnits
<1> QED
  BY <1>1, <1>2 DEF TablesInv, Tables!TablesWhole, Tables!AnswerOfFile, Tables!FaultOnlyGone

(* No step of a question, no clean and no change of the source. *)
LEMMA TablesNextKeeps == ASSUME TablesInv, Tables!Next PROVE TablesInv'
<1>1. CASE \E a \in TableAddresses : Tables!getInfoByAddress(a)
  BY <1>1, CallBegins
<1>2. CASE Tables!Work
  BY <1>2, ArangesKeeps, FindKeeps, AbbreviationsKeep, ExtractKeeps, LookupKeeps, AskKeeps
     DEF Tables!Work
<1>3. CASE Tables!clean \/ Tables!Vanish \/ Tables!ComeBack
  BY <1>3, CleanKeeps, SourceKeeps
<1> QED
  BY <1>1, <1>2, <1>3 DEF Tables!Next

-------------------------------------------------------------------------------
(* A set of natural numbers has a least one. *)
LEMMA LeastNatural ==
    ASSUME NEW T, T \subseteq Nat, T # {}
    PROVE  \E x \in T : \A y \in T : x <= y
<1> DEFINE R == {p \in Nat \X Nat : p[1] < p[2]}
<1>1. OpToRel(<, Nat) = R
  BY Zenon DEF OpToRel
<1>2. IsWellFoundedOn(R, Nat)
  BY NatLessThanWellFounded, <1>1, Zenon
<1>3. PICK x \in T : \A y \in T : <<y, x>> \notin R
  BY WFMin, <1>2
<1>4. ASSUME NEW y \in T, y < x PROVE FALSE
  <2>1. <<y, x>> \in R
    BY <1>4
  <2> QED BY <1>3, <2>1
<1> QED
  BY <1>4

(* A set that has zero, and with each number the next, has them all. *)
LEMMA Induction ==
    ASSUME NEW B, 0 \in B, \A n \in Nat : n \in B => n + 1 \in B
    PROVE  \A n \in Nat : n \in B
<1> DEFINE Without == {n \in Nat : n \notin B}
<1>1. SUFFICES ASSUME Without # {} PROVE FALSE
  OBVIOUS
<1>2. PICK n \in Without : \A m \in Without : n <= m
  BY <1>1, LeastNatural
<1>3. n \in Nat /\ n # 0
  BY <1>2
<1>4. n - 1 \in Nat /\ n - 1 \notin Without
  BY <1>2, <1>3
<1> QED
  BY <1>2, <1>3, <1>4

(* Sequences one behind the other: what FlattenSeq gives, to any number of
   them. *)
Join(ss) == Unit!FlattenSeq(ss)
JoinAt(ss, f, i) == IF i = 1 THEN ss[i] ELSE f[i - 1] \o ss[i]
Upto(ss, n) == Join(SubSeq(ss, 1, n))
Off(ss, n) == Len(Upto(ss, n))

LEMMA JoinUnfolds ==
    ASSUME NEW ss, Len(ss) \in Nat \ {0}
    PROVE  \E f : /\ f = [i \in 1 .. Len(ss) |-> JoinAt(ss, f, i)]
                  /\ Join(ss) = f[Len(ss)]
<1> DEFINE Has(n) == \E f : f = [i \in 1 .. n |-> JoinAt(ss, f, i)]
           B == {n \in Nat : Has(n)}
<1>1. Has(0)
  <2>1. PICK f : f = [i \in 1 .. 0 |-> i]
    OBVIOUS
  <2> QED BY <2>1
<1>2. ASSUME NEW n \in Nat, Has(n) PROVE Has(n + 1)
  <2>1. PICK f : f = [i \in 1 .. n |-> JoinAt(ss, f, i)]
    BY <1>2
  <2> DEFINE g == [i \in 1 .. n + 1 |-> IF i = n + 1 THEN JoinAt(ss, f, i) ELSE f[i]]
  <2>0. \A i \in 1 .. n + 1 : i # 1 => g[i - 1] = f[i - 1]
    OBVIOUS
  <2>2. \A i \in 1 .. n + 1 : JoinAt(ss, g, i) = JoinAt(ss, f, i)
    BY <2>0 DEF JoinAt
  <2>3. \A i \in 1 .. n : f[i] = JoinAt(ss, f, i)
    BY <2>1
  <2>4. \A i \in 1 .. n + 1 : g[i] = JoinAt(ss, g, i)
    BY <2>2, <2>3
  <2>5. g = [i \in 1 .. n + 1 |-> g[i]]
    OBVIOUS
  <2>6. g = [i \in 1 .. n + 1 |-> JoinAt(ss, g, i)]
    BY <2>4, <2>5
  <2> QED BY <2>6
<1> HIDE DEF Has
<1>3. Has(Len(ss))
  <2>1. 0 \in B
    BY <1>1
  <2>2. \A n \in Nat : n \in B => n + 1 \in B
    BY <1>2
  <2> HIDE DEF B
  <2>3. \A n \in Nat : n \in B
    BY <2>1, <2>2, Induction
  <2> QED BY <2>3 DEF B
<1> DEFINE h == CHOOSE f : f = [i \in 1 .. Len(ss) |-> JoinAt(ss, f, i)]
<1>4. h = [i \in 1 .. Len(ss) |-> JoinAt(ss, h, i)]
  BY <1>3 DEF Has
<1>5. Join(ss) = h[Len(ss)]
  BY Zenon DEF Join, Unit!FlattenSeq, JoinAt
<1> QED
  BY <1>4, <1>5

(* One more sequence goes behind the others. *)
LEMMA JoinGrows ==
    ASSUME NEW ss, NEW n \in 1 .. Len(ss), Len(ss) \in Nat, NEW S,
           \A i \in 1 .. Len(ss) : ss[i] \in Seq(S)
    PROVE  /\ Upto(ss, 0) = <<>>
           /\ Upto(ss, n) = Upto(ss, n - 1) \o ss[n]
<1>0. SubSeq(ss, 1, 0) = <<>>
  BY SubSeqEmpty
<1>1. Upto(ss, 0) = <<>>
  BY <1>0 DEF Upto, Join, Unit!FlattenSeq
<1> DEFINE s == SubSeq(ss, 1, n)
           t == SubSeq(ss, 1, n - 1)
<1>2. /\ Len(s) = n /\ \A i \in 1 .. n : s[i] = ss[i]
      /\ Len(t) = n - 1 /\ \A i \in 1 .. n - 1 : t[i] = ss[i]
  <2>1. n \in Int /\ n - 1 \in Int /\ 1 \in Int
    OBVIOUS
  <2>2. (\A i \in 1 .. n : ss[i] \in Seq(S)) /\ (\A i \in 1 .. n - 1 : ss[i] \in Seq(S))
    OBVIOUS
  <2> HIDE DEF s, t
  <2>3. Len(s) = n /\ \A i \in 1 .. n : s[i] = ss[i]
    <3>1. /\ Len(s) = IF 1 <= n THEN n - 1 + 1 ELSE 0
          /\ \A i \in 1 .. n - 1 + 1 : s[i] = ss[1 + i - 1]
      BY <2>1, <2>2, SubSeqProperties DEF s
    <3> QED BY <3>1
  <2>4. Len(t) = n - 1 /\ \A i \in 1 .. n - 1 : t[i] = ss[i]
    <3>1. /\ Len(t) = IF 1 <= n - 1 THEN n - 1 - 1 + 1 ELSE 0
          /\ \A i \in 1 .. n - 1 - 1 + 1 : t[i] = ss[1 + i - 1]
      BY <2>1, <2>2, SubSeqProperties DEF t
    <3> QED BY <3>1
  <2> QED BY <2>3, <2>4
<1> HIDE DEF s, t
<1>3. PICK f : f = [i \in 1 .. n |-> JoinAt(s, f, i)] /\ Join(s) = f[n]
  BY <1>2, JoinUnfolds
<1>4. CASE n = 1
  <2>1. f[1] = JoinAt(s, f, 1)
    BY <1>3, <1>4
  <2>2. Join(s) = ss[1]
    BY <1>2, <1>3, <1>4, <2>1 DEF JoinAt
  <2>3. <<>> \o ss[1] = ss[1]
    BY ConcatEmptySeq
  <2>4. Upto(ss, n) = ss[1] /\ Upto(ss, n - 1) = <<>>
    BY <1>1, <1>4, <2>2 DEF Upto, s
  <2> QED BY <1>1, <1>4, <2>3, <2>4
<1>5. CASE n # 1
  <2>0. Len(t) \in Nat \ {0} /\ Len(t) = n - 1
    BY <1>2, <1>5
  <2>1. PICK g : g = [i \in 1 .. n - 1 |-> JoinAt(t, g, i)] /\ Join(t) = g[n - 1]
    <3>1. \E g : g = [i \in 1 .. Len(t) |-> JoinAt(t, g, i)] /\ Join(t) = g[Len(t)]
      BY <2>0, JoinUnfolds, Zenon
    <3> QED BY <2>0, <3>1
  <2> DEFINE B == {m \in Nat : m \in 1 .. n - 1 => f[m] = g[m]}
  <2>2. 0 \in B
    OBVIOUS
  <2>3. ASSUME NEW m \in Nat, m \in B PROVE m + 1 \in B
    <3>1. SUFFICES ASSUME m + 1 \in 1 .. n - 1 PROVE f[m + 1] = g[m + 1]
      OBVIOUS
    <3>2. m + 1 \in 1 .. n /\ m + 1 \in 1 .. n - 1 /\ m + 1 - 1 = m
      BY <3>1
    <3>4. /\ f[m + 1] = JoinAt(s, f, m + 1) /\ g[m + 1] = JoinAt(t, g, m + 1)
      BY <1>3, <2>1, <3>2, Zenon
    <3>5. s[m + 1] = t[m + 1]
      BY <1>2, <3>2
    <3>3. m + 1 # 1 => f[m] = g[m]
      BY <2>3, <3>1
    <3>6. CASE m + 1 = 1
      BY <3>4, <3>5, <3>6, Zenon DEF JoinAt
    <3>7. CASE m + 1 # 1
      <4>1. f[(m + 1) - 1] = g[(m + 1) - 1]
        BY <3>2, <3>3, <3>7
      <4> QED BY <3>4, <3>5, <3>7, <4>1, Zenon DEF JoinAt
    <3> QED BY <3>6, <3>7
  <2> HIDE DEF B
  <2>4. \A m \in Nat : m \in B
    BY <2>2, <2>3, Induction
  <2>5. f[n - 1] = g[n - 1]
    BY <1>5, <2>4 DEF B
  <2>6. f[n] = JoinAt(s, f, n)
    BY <1>3
  <2>7. f[n] = f[n - 1] \o ss[n]
    <3>1. s[n] = ss[n]
      BY <1>2
    <3> QED BY <1>5, <2>6, <3>1, Zenon DEF JoinAt
  <2> QED BY <1>1, <1>3, <2>1, <2>5, <2>7 DEF Upto, s, t
<1> QED
  BY <1>1, <1>4, <1>5

(* Each sequence stands at its place in the joined one. *)
Joined(S, ss) ==
    /\ Join(ss) \in Seq(S) /\ Off(ss, 0) = 0 /\ Len(Join(ss)) = Off(ss, Len(ss))
    /\ \A n \in 0 .. Len(ss) : /\ Upto(ss, n) \in Seq(S)
                              /\ Off(ss, n) \in Nat /\ Off(ss, n) <= Off(ss, Len(ss))
    /\ \A n, m \in 0 .. Len(ss) : n <= m => Off(ss, n) <= Off(ss, m)
    /\ \A n \in 1 .. Len(ss) : Off(ss, n) = Off(ss, n - 1) + Len(ss[n])
    /\ \A n \in 1 .. Len(ss) : \A j \in 1 .. Len(ss[n]) :
          Join(ss)[Off(ss, n - 1) + j] = ss[n][j]

LEMMA JoinFacts ==
    ASSUME NEW S, NEW ss \in Seq(Seq(S))
    PROVE  Joined(S, ss)
<1>0. /\ Len(ss) \in Nat /\ DOMAIN ss = 1 .. Len(ss)
      /\ \A i \in 1 .. Len(ss) : ss[i] \in Seq(S)
      /\ ss = SubSeq(ss, 1, Len(ss))
  BY SubSeqFull
<1> DEFINE Right(m) ==
        /\ Upto(ss, m) \in Seq(S) /\ Off(ss, m) \in Nat
        /\ \A n \in 0 .. m : Off(ss, n) \in Nat /\ Off(ss, n) <= Off(ss, m)
        /\ \A n \in 1 .. m : /\ Off(ss, n) = Off(ss, n - 1) + Len(ss[n])
                             /\ \A j \in 1 .. Len(ss[n]) :
                                   Upto(ss, m)[Off(ss, n - 1) + j] = ss[n][j]
           B == {m \in Nat : m \in 0 .. Len(ss) => Right(m)}
<1>1. Upto(ss, 0) = <<>>
  <2>1. SubSeq(ss, 1, 0) = <<>>
    BY SubSeqEmpty
  <2> QED BY <2>1 DEF Upto, Join, Unit!FlattenSeq
<1>2. Right(0)
  <2>1. <<>> \in Seq(S) /\ Len(<<>>) = 0
    BY EmptySeq
  <2>2. Upto(ss, 0) \in Seq(S) /\ Off(ss, 0) = 0
    BY <1>1, <2>1 DEF Off
  <2> QED BY <2>2
<1>3. ASSUME NEW m \in Nat, m \in B PROVE m + 1 \in B
  <2>1. SUFFICES ASSUME m + 1 \in 0 .. Len(ss) PROVE Right(m + 1)
    OBVIOUS
  <2>2. Right(m) /\ m + 1 \in 1 .. Len(ss)
    BY <1>3, <2>1
  <2> DEFINE u == Upto(ss, m)
             e == ss[m + 1]
  <2>3. Upto(ss, m + 1) = u \o e
    <3>1. Upto(ss, m + 1) = Upto(ss, (m + 1) - 1) \o ss[m + 1]
      <4> DEFINE k == m + 1
      <4>1. k \in 1 .. Len(ss)
        BY <2>2
      <4> HIDE DEF k
      <4>2. Upto(ss, k) = Upto(ss, k - 1) \o ss[k]
        BY <1>0, <4>1, JoinGrows
      <4> QED BY <4>2 DEF k
    <3>2. (m + 1) - 1 = m
      OBVIOUS
    <3> QED BY <3>1, <3>2
  <2>4. u \in Seq(S) /\ e \in Seq(S)
    BY <2>2
  <2> HIDE DEF u, e
  <2>5. /\ u \o e \in Seq(S)
        /\ Len(u \o e) = Len(u) + Len(e) /\ Len(u) \in Nat /\ Len(e) \in Nat
        /\ \A i \in 1 .. Len(u) + Len(e) :
              (u \o e)[i] = IF i <= Len(u) THEN u[i] ELSE e[i - Len(u)]
    BY <2>4, ConcatProperties, LenProperties
  <2>6. Off(ss, m + 1) = Off(ss, m) + Len(e) /\ Off(ss, m) = Len(u)
    BY <2>3, <2>5 DEF Off, u
  <2>7. \A n \in 0 .. m : Off(ss, n) \in Nat /\ Off(ss, n) <= Len(u)
    BY <2>2, <2>6
  <2>8. Off(ss, m + 1) \in Nat
    BY <2>5, <2>6
  <2>9. \A n \in 0 .. m + 1 : Off(ss, n) \in Nat /\ Off(ss, n) <= Off(ss, m + 1)
    BY <2>5, <2>6, <2>7, <2>8
  <2>10. ASSUME NEW n \in 1 .. m + 1
         PROVE  /\ Off(ss, n) = Off(ss, n - 1) + Len(ss[n])
                /\ \A j \in 1 .. Len(ss[n]) :
                      (u \o e)[Off(ss, n - 1) + j] = ss[n][j]
    <3>1. CASE n = m + 1
      <4>1. n - 1 = m /\ ss[n] = e
        BY <3>1 DEF e
      <4>2. \A j \in 1 .. Len(e) : /\ Len(u) + j \in 1 .. Len(u) + Len(e)
                                    /\ ~(Len(u) + j <= Len(u)) /\ Len(u) + j - Len(u) = j
        BY <2>5
      <4>3. Off(ss, n) = Off(ss, n - 1) + Len(ss[n])
        BY <3>1, <4>1, <2>6
      <4>4. \A j \in 1 .. Len(e) : (u \o e)[Len(u) + j] = e[j]
        BY <4>2, <2>5
      <4> QED BY <4>1, <4>3, <4>4, <2>6
    <3>2. CASE n # m + 1
      <4>1. n \in 1 .. m /\ n - 1 \in 0 .. m /\ n \in 0 .. m
        BY <3>2
      <4>2. /\ Off(ss, n) = Off(ss, n - 1) + Len(ss[n])
            /\ \A j \in 1 .. Len(ss[n]) : u[Off(ss, n - 1) + j] = ss[n][j]
        BY <2>2, <4>1 DEF u
      <4>3. Off(ss, n) <= Len(u) /\ Off(ss, n) \in Nat /\ Off(ss, n - 1) \in Nat
        BY <2>7, <4>1
      <4>4. Len(ss[n]) \in Nat
        BY <4>1, <2>1
      <4>5. ASSUME NEW j \in 1 .. Len(ss[n])
            PROVE  (u \o e)[Off(ss, n - 1) + j] = ss[n][j]
        <5>1. Off(ss, n - 1) + j \in 1 .. Len(u)
          BY SMTT(30), <4>2, <4>3, <4>4, <4>5
        <5> QED BY <2>5, <4>2, <4>5, <5>1
      <4> QED BY <4>2, <4>5
    <3> QED BY <3>1, <3>2
  <2> QED BY <2>3, <2>5, <2>8, <2>9, <2>10
<1> HIDE DEF Right
<1>4. \A m \in Nat : m \in B
  BY <1>2, <1>3, Induction
<1>5. \A m \in 0 .. Len(ss) : Right(m)
  BY <1>4
<1>6. Right(Len(ss)) /\ Upto(ss, Len(ss)) = Join(ss)
  <2>1. Upto(ss, Len(ss)) = Join(ss)
    BY <1>0, Zenon DEF Upto
  <2> QED BY <1>5, <2>1
<1>7. \A n, m \in 0 .. Len(ss) : n <= m => Off(ss, n) <= Off(ss, m)
  BY <1>5 DEF Right
<1>8. Off(ss, 0) = 0
  BY <1>1 DEF Off
<1>9. \A n \in 0 .. Len(ss) : /\ Upto(ss, n) \in Seq(S)
                              /\ Off(ss, n) \in Nat /\ Off(ss, n) <= Off(ss, Len(ss))
  BY <1>5, <1>6 DEF Right
<1>10. /\ Join(ss) \in Seq(S) /\ Len(Join(ss)) = Off(ss, Len(ss))
       /\ \A n \in 1 .. Len(ss) : /\ Off(ss, n) = Off(ss, n - 1) + Len(ss[n])
                                   /\ \A j \in 1 .. Len(ss[n]) :
                                         Join(ss)[Off(ss, n - 1) + j] = ss[n][j]
  BY <1>6 DEF Right, Off
<1> QED
  BY <1>7, <1>8, <1>9, <1>10 DEF Joined

-------------------------------------------------------------------------------
(* Units.  How many of some positions lie between two. *)
Count(S, j, k) == Cardinality({o \in j .. k : o \in S})

LEMMA CountFacts ==
    ASSUME NEW S, NEW j \in Nat
    PROVE  /\ \A k \in Int : Count(S, j, k) \in Nat
           /\ \A k \in Int : k < j => Count(S, j, k) = 0
           /\ \A k \in Int : k + 1 >= j =>
                 Count(S, j, k + 1) = Count(S, j, k) + IF k + 1 \in S THEN 1 ELSE 0
<1> DEFINE T(k) == {o \in j .. k : o \in S}
<1>1. ASSUME NEW k \in Int PROVE IsFiniteSet(T(k)) /\ Cardinality(T(k)) \in Nat
  <2>1. IsFiniteSet(j .. k)
    BY FS_Interval
  <2>2. IsFiniteSet(T(k))
    BY <2>1, FS_Subset
  <2> QED BY <2>2, FS_CardinalityType
<1>2. ASSUME NEW k \in Int, k < j PROVE Cardinality(T(k)) = 0
  <2>1. T(k) = {}
    BY <1>2
  <2> QED BY <2>1, FS_EmptySet
<1>3. ASSUME NEW k \in Int, k + 1 >= j
      PROVE  Cardinality(T(k + 1)) = Cardinality(T(k)) + IF k + 1 \in S THEN 1 ELSE 0
  <2>1. CASE k + 1 \in S
    <3>1. T(k + 1) = T(k) \cup {k + 1} /\ k + 1 \notin T(k)
      BY <1>3, <2>1
    <3>2. IsFiniteSet(T(k))
      BY <1>1
    <3> HIDE DEF T
    <3>3. Cardinality(T(k) \cup {k + 1}) = Cardinality(T(k)) + 1
      BY <3>1, <3>2, FS_AddElement
    <3> QED BY <2>1, <3>1, <3>3
  <2>2. CASE k + 1 \notin S
    <3>1. T(k + 1) = T(k)
      BY <1>3, <2>2
    <3>2. Cardinality(T(k)) \in Nat
      BY <1>1
    <3> HIDE DEF T
    <3> QED BY <2>2, <3>1, <3>2
  <2> QED BY <2>1, <2>2
<1> QED
  BY <1>1, <1>2, <1>3 DEF Count

LEMMA CountParts ==
    ASSUME NEW S, NEW j \in Nat \ {0}, NEW k \in Nat, j <= k + 1
    PROVE  Count(S, 1, k) = Count(S, 1, j - 1) + Count(S, j, k)
<1> DEFINE B == {n \in Nat : Count(S, 1, j - 1 + n) = Count(S, 1, j - 1) + Count(S, j, j - 1 + n)}
<1>1. 0 \in B
  <2>0. j - 1 \in Int /\ j - 1 < j /\ j \in Nat /\ 1 \in Nat
    OBVIOUS
  <2>1. Count(S, j, j - 1) = 0 /\ Count(S, 1, j - 1) \in Nat /\ j - 1 + 0 = j - 1
    <3>1. Count(S, j, j - 1) = 0
      BY ZenonT(40), <2>0, CountFacts
    <3>2. Count(S, 1, j - 1) \in Nat
      BY <2>0, CountFacts
    <3> QED BY <3>1, <3>2
  <2>2. Count(S, 1, j - 1 + 0) = Count(S, 1, j - 1) + Count(S, j, j - 1 + 0)
    BY <2>1
  <2> QED BY <2>2
<1>2. ASSUME NEW n \in Nat, n \in B PROVE n + 1 \in B
  <2> DEFINE m == j - 1 + n
  <2>1. m \in Int /\ m + 1 >= j /\ m + 1 >= 1 /\ j - 1 \in Int /\ j - 1 + (n + 1) = m + 1
    OBVIOUS
  <2>2. Count(S, 1, m) = Count(S, 1, j - 1) + Count(S, j, m)
    BY <1>2
  <2> HIDE DEF m
  <2>3. /\ Count(S, 1, m + 1) = Count(S, 1, m) + IF m + 1 \in S THEN 1 ELSE 0
        /\ Count(S, j, m + 1) = Count(S, j, m) + IF m + 1 \in S THEN 1 ELSE 0
        /\ Count(S, 1, m) \in Nat /\ Count(S, j, m) \in Nat /\ Count(S, 1, j - 1) \in Nat
    <3>1. /\ Count(S, j, m + 1) = Count(S, j, m) + IF m + 1 \in S THEN 1 ELSE 0
          /\ Count(S, j, m) \in Nat
      <4>1. j \in Nat
        OBVIOUS
      <4> QED BY <2>1, <4>1, CountFacts
    <3>2. /\ Count(S, 1, m + 1) = Count(S, 1, m) + IF m + 1 \in S THEN 1 ELSE 0
          /\ Count(S, 1, m) \in Nat /\ Count(S, 1, j - 1) \in Nat
      <4>0. 1 \in Nat
        OBVIOUS
      <4>1. /\ \A i \in Int : Count(S, 1, i) \in Nat
            /\ \A i \in Int : i + 1 >= 1 =>
                  Count(S, 1, i + 1) = Count(S, 1, i) + IF i + 1 \in S THEN 1 ELSE 0
        BY <4>0, CountFacts
      <4> QED BY <2>1, <4>1
    <3> QED BY <3>1, <3>2
  <2>4. Count(S, 1, m + 1) = Count(S, 1, j - 1) + Count(S, j, m + 1)
    BY <2>2, <2>3
  <2>5. Count(S, 1, j - 1 + (n + 1)) = Count(S, 1, j - 1) + Count(S, j, j - 1 + (n + 1))
    BY <2>1, <2>4
  <2> QED BY <2>5
<1> HIDE DEF B
<1>3. \A n \in Nat : n \in B
  BY <1>1, <1>2, Induction
<1>4. k - (j - 1) \in Nat /\ j - 1 + (k - (j - 1)) = k
  OBVIOUS
<1>5. k - (j - 1) \in B
  BY <1>3, <1>4
<1> QED
  BY <1>4, <1>5 DEF B

(* The items that open a level, those that close one, and the level behind the
   first k items. *)
Opens == {o \in Nat : Unit!Items[o].kind = "entry" /\ Unit!hasChild(Unit!Items[o])}
Closes == {o \in Nat : Unit!Items[o].kind # "entry"}
Above(k) == Count(Opens, 1, k) - Count(Closes, 1, k)

LEMMA AboveFacts ==
    /\ Above(0) = 0
    /\ \A k \in Nat : Above(k) \in Int
    /\ \A k \in Nat : Above(k) <= k
    /\ \A k \in Nat :
          Above(k + 1) = IF k + 1 \in Opens THEN Above(k) + 1
                         ELSE IF k + 1 \in Closes THEN Above(k) - 1 ELSE Above(k)
<1>1. Above(0) = 0
  <2>1. Count(Opens, 1, 0) = 0 /\ Count(Closes, 1, 0) = 0
    BY CountFacts
  <2> QED BY <2>1 DEF Above
<1>2. ASSUME NEW k \in Nat
      PROVE  /\ Above(k) \in Int
             /\ Above(k + 1) = IF k + 1 \in Opens THEN Above(k) + 1
                               ELSE IF k + 1 \in Closes THEN Above(k) - 1 ELSE Above(k)
  <2>0. k + 1 \in Opens => k + 1 \notin Closes
    BY DEF Opens, Closes
  <2>1. /\ Count(Opens, 1, k) \in Nat /\ Count(Closes, 1, k) \in Nat
        /\ Count(Opens, 1, k + 1) = Count(Opens, 1, k) + IF k + 1 \in Opens THEN 1 ELSE 0
        /\ Count(Closes, 1, k + 1) = Count(Closes, 1, k) + IF k + 1 \in Closes THEN 1 ELSE 0
    <3>1. k \in Int /\ k + 1 >= 1
      OBVIOUS
    <3> QED BY <3>1, CountFacts
  <2> QED BY <2>0, <2>1 DEF Above
<1> DEFINE B == {k \in Nat : Above(k) <= k}
<1>3. 0 \in B
  BY <1>1
<1>4. ASSUME NEW k \in Nat, k \in B PROVE k + 1 \in B
  BY <1>2, <1>4
<1> HIDE DEF B
<1>5. \A k \in Nat : k \in B
  BY <1>3, <1>4, Induction
<1> QED
  BY <1>1, <1>2, <1>5 DEF B

(* Items that are no entries open no level. *)
LEMMA OnlyClosed ==
    ASSUME NEW a \in Nat, NEW b \in Nat, a <= b, \A o \in a + 1 .. b : o \notin Opens
    PROVE  Above(b) <= Above(a)
<1> DEFINE B == {n \in Nat : a + n <= b => Above(a + n) <= Above(a)}
<1>1. 0 \in B
  <2>1. a + 0 = a /\ Above(a) \in Int
    BY AboveFacts
  <2>2. Above(a) <= Above(a)
    BY <2>1
  <2> QED BY <2>1, <2>2
<1>2. ASSUME NEW n \in Nat, n \in B PROVE n + 1 \in B
  <2>1. SUFFICES ASSUME a + (n + 1) <= b PROVE Above(a + (n + 1)) <= Above(a)
    OBVIOUS
  <2> DEFINE k == a + n
  <2>2. k \in Nat /\ k + 1 \in a + 1 .. b /\ a + (n + 1) = k + 1 /\ k <= b
    BY <2>1
  <2>3. Above(k) <= Above(a)
    BY <1>2, <2>2
  <2> HIDE DEF k
  <2>4. Above(k + 1) <= Above(k) /\ Above(k) \in Int /\ Above(k + 1) \in Int /\ Above(a) \in Int
    <3>1. Above(k) \in Int /\ Above(a) \in Int /\ k + 1 \in Nat /\ Above(k + 1) \in Int
      BY <2>2, AboveFacts
    <3>2. Above(k + 1) = IF k + 1 \in Closes THEN Above(k) - 1 ELSE Above(k)
      BY <2>2, AboveFacts
    <3> QED BY <3>1, <3>2
  <2> QED BY <2>2, <2>3, <2>4
<1> HIDE DEF B
<1>3. \A n \in Nat : n \in B
  BY <1>1, <1>2, Induction
<1>4. b - a \in Nat /\ a + (b - a) = b
  OBVIOUS
<1>5. b - a \in B
  BY <1>3, <1>4
<1> QED
  BY <1>4, <1>5 DEF B

(* An entry encloses what lies behind it while the level stays above its own. *)
LEMMA EnclosesIs ==
    ASSUME NEW j \in Nat \ {0}, NEW o \in Nat, Unit!Items[j].kind = "entry"
    PROVE  Unit!Encloses(j, o) <=> j < o /\ \A k \in j .. o - 1 : Above(k) > Above(j - 1)
<1>1. \A k \in Nat : /\ Unit!Opened(j + 1, k) = Count(Opens, j + 1, k)
                     /\ Unit!Closed(j + 1, k) = Count(Closes, j + 1, k)
  <2>1. ASSUME NEW k \in Nat
        PROVE  /\ Unit!Opened(j + 1, k) = Count(Opens, j + 1, k)
               /\ Unit!Closed(j + 1, k) = Count(Closes, j + 1, k)
    <3>1. j + 1 .. k \subseteq Nat
      OBVIOUS
    <3> DEFINE A == {o_1 \in j + 1 .. k : Unit!Items[o_1].kind = "entry" /\ Unit!hasChild(Unit!Items[o_1])}
               C == {o_1 \in j + 1 .. k : Unit!Items[o_1].kind # "entry"}
               A1 == {i \in j + 1 .. k : i \in Opens}
               C1 == {i \in j + 1 .. k : i \in Closes}
    <3>2. A = A1 /\ C = C1
      BY <3>1 DEF Opens, Closes
    <3>3. Unit!Opened(j + 1, k) = Cardinality(A)
      BY DEF Unit!Opened, Cardinality, Unit!Cardinality
    <3>5. Unit!Closed(j + 1, k) = Cardinality(C)
      BY DEF Unit!Closed, Cardinality, Unit!Cardinality
    <3>4. Cardinality(A1) = Count(Opens, j + 1, k) /\ Cardinality(C1) = Count(Closes, j + 1, k)
      BY DEF Count
    <3> HIDE DEF A, C, A1, C1
    <3> QED BY <3>2, <3>3, <3>4, <3>5
  <2> QED BY <2>1
<1>2. ASSUME NEW k \in Nat, k >= j
      PROVE  /\ Above(k) = Above(j) + Count(Opens, j + 1, k) - Count(Closes, j + 1, k)
             /\ Count(Opens, j + 1, k) \in Nat /\ Count(Closes, j + 1, k) \in Nat
  <2>1. j + 1 \in Nat \ {0} /\ j + 1 <= k + 1 /\ (j + 1) - 1 = j /\ k \in Int /\ j \in Int
    BY <1>2
  <2> DEFINE p == j + 1
  <2>2. p \in Nat \ {0} /\ p <= k + 1 /\ p - 1 = j
    BY <2>1
  <2> HIDE DEF p
  <2>3. /\ Count(Opens, 1, k) = Count(Opens, 1, p - 1) + Count(Opens, p, k)
        /\ Count(Closes, 1, k) = Count(Closes, 1, p - 1) + Count(Closes, p, k)
    BY <2>2, CountParts
  <2>4. /\ Count(Opens, 1, j) \in Nat /\ Count(Closes, 1, j) \in Nat
        /\ Count(Opens, p, k) \in Nat /\ Count(Closes, p, k) \in Nat
    BY <2>1, <2>2, CountFacts
  <2>5. Above(k) = Above(j) + Count(Opens, p, k) - Count(Closes, p, k)
    BY <2>2, <2>3, <2>4 DEF Above
  <2> QED BY <2>4, <2>5 DEF p
<1>3. /\ Above(j) \in Int /\ Above(j - 1) \in Int
      /\ Above(j) = IF j \in Opens THEN Above(j - 1) + 1 ELSE Above(j - 1)
  <2> DEFINE i == j - 1
  <2>1. i \in Nat /\ i + 1 = j
    OBVIOUS
  <2> HIDE DEF i
  <2>2. Above(i) \in Int
    BY <2>1, AboveFacts
  <2>3. Above(i + 1) = IF i + 1 \in Opens THEN Above(i) + 1
                       ELSE IF i + 1 \in Closes THEN Above(i) - 1 ELSE Above(i)
    BY <2>1, AboveFacts
  <2>4. i + 1 \notin Closes
    BY <2>1 DEF Closes
  <2>5. Above(i + 1) = IF i + 1 \in Opens THEN Above(i) + 1 ELSE Above(i)
    BY <2>3, <2>4
  <2>6. Above(i + 1) \in Int
    BY <2>2, <2>5
  <2>7. Above(j) \in Int /\ Above(i) \in Int /\ Above(j) = IF j \in Opens THEN Above(i) + 1 ELSE Above(i)
    BY <2>1, <2>2, <2>5, <2>6
  <2> QED BY <2>7 DEF i
<1>4. Unit!hasChild(Unit!Items[j]) <=> j \in Opens
  BY DEF Opens
<1>5. ASSUME Unit!Encloses(j, o)
      PROVE  j < o /\ \A k \in j .. o - 1 : Above(k) > Above(j - 1)
  <2>1. /\ j < o /\ Unit!hasChild(Unit!Items[j])
        /\ \A k \in j + 1 .. o - 1 : Unit!Closed(j + 1, k) <= Unit!Opened(j + 1, k)
    BY <1>5 DEF Unit!Encloses
  <2>2. Above(j) = Above(j - 1) + 1
    BY <1>3, <1>4, <2>1
  <2>3. ASSUME NEW k \in j .. o - 1 PROVE Above(k) > Above(j - 1)
    <3>1. CASE k = j
      BY <1>3, <2>2, <3>1
    <3>2. CASE k # j
      <4>1. k \in j + 1 .. o - 1 /\ k \in Nat /\ k >= j
        BY <3>2
      <4>2. Count(Closes, j + 1, k) <= Count(Opens, j + 1, k)
        BY <1>1, <2>1, <4>1
      <4>3. /\ Above(k) = Above(j) + Count(Opens, j + 1, k) - Count(Closes, j + 1, k)
            /\ Count(Opens, j + 1, k) \in Nat /\ Count(Closes, j + 1, k) \in Nat
        BY <1>2, <4>1
      <4> DEFINE x == Count(Opens, j + 1, k)
                 y == Count(Closes, j + 1, k)
                 b == Above(j - 1)
                 a == Above(j)
      <4>4. Above(k) = a + x - y /\ x \in Nat /\ y \in Nat /\ y <= x /\ a = b + 1 /\ b \in Int
        BY <1>3, <2>2, <4>2, <4>3
      <4> HIDE DEF x, y, a, b
      <4>5. Above(k) > b
        BY <4>4
      <4> QED BY <4>5 DEF b
    <3> QED BY <3>1, <3>2
  <2> QED BY <2>1, <2>3
<1>6. ASSUME j < o, \A k \in j .. o - 1 : Above(k) > Above(j - 1)
      PROVE  Unit!Encloses(j, o)
  <2>1. j \in j .. o - 1
    BY <1>6
  <2>2. j \in Opens /\ Above(j) = Above(j - 1) + 1
    BY <1>3, <1>6, <2>1
  <2>3. ASSUME NEW k \in j + 1 .. o - 1 PROVE Unit!Closed(j + 1, k) <= Unit!Opened(j + 1, k)
    <3>1. k \in j .. o - 1 /\ k \in Nat /\ k >= j
      OBVIOUS
    <3>2. /\ Above(k) = Above(j) + Count(Opens, j + 1, k) - Count(Closes, j + 1, k)
          /\ Count(Opens, j + 1, k) \in Nat /\ Count(Closes, j + 1, k) \in Nat
      BY <1>2, <3>1
    <3> DEFINE x == Count(Opens, j + 1, k)
               y == Count(Closes, j + 1, k)
               b == Above(j - 1)
               a == Above(j)
    <3>3. a + x - y > b /\ x \in Nat /\ y \in Nat /\ a = b + 1 /\ b \in Int
      BY <1>3, <1>6, <2>2, <3>1, <3>2
    <3> HIDE DEF x, y, a, b
    <3>4. y <= x
      BY <3>3
    <3> QED BY <1>1, <3>1, <3>4 DEF x, y
  <2> QED BY <1>4, <1>6, <2>2, <2>3 DEF Unit!Encloses
<1> QED
  BY <1>5, <1>6

(* The levels of the first k items are never below the unit's own. *)
Sound(k) == \A n \in 0 .. k : Above(n) >= 0

RootBase ==
    IF pos >= 1 /\ Unit!Items[1].kind = "entry" /\ Unit!Items[1].tag = "compile_unit"
    THEN Unit!BaseOf(Unit!Items[1]) ELSE INVALID

(* The answer in terms of the list of entries, once ranges are what the
   producer meant. *)
Frames(i, a) ==
    IF Unit!getTag(i) = "subprogram" /\ Unit!Meant(i, a)
    THEN <<i>> \o Unit!Chosen(Unit!getAllChildrensIdxs(i), {j \in Unit!Inlined(i) : Unit!Meant(j, a)})
    ELSE <<>>
Told(a) == Unit!FlattenSeq([i \in Unit!Idxs |-> Frames(i, a)])

(* Of a unit: every entry that was passed is kept, in order, with the level it
   was found at. *)
Listed ==
    /\ unit \in Contents /\ pos \in 0 .. Len(Unit!Items)
    /\ entries \in Seq(Unit!Node)
    /\ \A i \in Unit!Idxs :
        /\ entries[i].Offset <= pos /\ Unit!Items[entries[i].Offset].kind = "entry"
        /\ \A o \in Nat : entries[i].Offset = o + 1 /\ Sound(o) => entries[i].Depth = Above(o)
    /\ \A i, j \in Unit!Idxs : i < j => entries[i].Offset < entries[j].Offset
    /\ \A o \in 1 .. pos : Unit!Items[o].kind = "entry" =>
          \E i \in Unit!Idxs : entries[i].Offset = o
UnitInv ==
    /\ Listed
    /\ depth \in 0 .. DepthMod - 1
    /\ \A k \in Nat : pos = k /\ Sound(k) => depth = Above(k)
    /\ m_base_address = RootBase
    /\ asked \in UnitAddresses \cup {INVALID} /\ answer \in Seq(Unit!Idxs)
    /\ \A a \in UnitAddresses :
          asked = a => /\ pos = Len(Unit!Items)
                       /\ Unit!WellFormed /\ Unit!Placed => answer = Told(a)

(* What the levels of the kept entries say of a unit that is one tree. *)
Within(j, i) == j < i /\ \A m \in j + 1 .. i : entries[m].Depth > entries[j].Depth
TreeFacts ==
    /\ \A i \in Unit!Idxs : entries[i].Depth \in 0 .. DepthMod - 2
    /\ \A i \in Unit!Idxs : entries[i].Depth = 0 <=> i = 1
    /\ \A i \in Unit!Idxs : i + 1 \in Unit!Idxs => entries[i + 1].Depth <= entries[i].Depth + 1
    /\ \A j, i \in Unit!Idxs :
          Unit!Encloses(entries[j].Offset, entries[i].Offset) <=> Within(j, i)

LEMMA UnitTypes ==
    ASSUME Listed
    PROVE  /\ DepthMod \in Nat \ {0, 1} /\ Len(Unit!Items) \in 0 .. DepthMod - 1
           /\ pos \in 0 .. Len(Unit!Items) /\ pos \in Nat
           /\ Len(entries) \in Nat /\ Unit!Idxs \subseteq Nat
           /\ \A i \in Unit!Idxs : /\ entries[i] \in Unit!Node
                                   /\ entries[i].Offset \in 1 .. pos
                                   /\ entries[i].Depth \in 0 .. DepthMod - 1
                                   /\ Unit!Items[entries[i].Offset].kind = "entry"
<1>1. unit \in Contents /\ pos \in 0 .. Len(Unit!Items) /\ entries \in Seq(Unit!Node)
  BY DEF Listed
<1>2. DepthMod \in Nat \ {0, 1} /\ Len(Unit!Items) \in 0 .. DepthMod - 1
  BY <1>1, CompileUnitAssumption DEF Unit!CompileUnitAssumption, Unit!Items
<1>3. pos \in Nat /\ Len(entries) \in Nat /\ Unit!Idxs \subseteq Nat
  BY <1>1, <1>2 DEF Unit!Idxs
<1>4. ASSUME NEW i \in Unit!Idxs
      PROVE  /\ entries[i] \in Unit!Node /\ entries[i].Offset \in 1 .. pos
             /\ entries[i].Depth \in 0 .. DepthMod - 1
             /\ Unit!Items[entries[i].Offset].kind = "entry"
  <2>1. entries[i] \in Unit!Node
    BY <1>1 DEF Unit!Idxs
  <2>2. entries[i].Offset \in 1 .. Len(Unit!Items) /\ entries[i].Depth \in 0 .. DepthMod - 1
    BY <2>1 DEF Unit!Node
  <2>3. entries[i].Offset <= pos /\ Unit!Items[entries[i].Offset].kind = "entry"
    BY DEF Listed
  <2>4. entries[i].Offset \in 1 .. pos
    BY <1>2, <1>3, <2>2, <2>3
  <2> QED BY <2>1, <2>2, <2>3, <2>4
<1> QED
  BY <1>1, <1>2, <1>3, <1>4

LEMMA LevelIs ==
    ASSUME Listed, NEW i \in Unit!Idxs
    PROVE  Sound(entries[i].Offset - 1) => entries[i].Depth = Above(entries[i].Offset - 1)
<1> DEFINE o == entries[i].Offset - 1
<1>1. pos \in Nat /\ entries[i].Offset \in 1 .. pos
  BY UnitTypes
<1>2. o \in Nat /\ entries[i].Offset = o + 1
  BY <1>1
<1> HIDE DEF o
<1>3. Sound(o) => entries[i].Depth = Above(o)
  BY <1>2 DEF Listed
<1> QED
  BY <1>3 DEF o

LEMMA UnitLevel ==
    ASSUME UnitInv
    PROVE  /\ Listed /\ m_base_address = RootBase /\ depth \in 0 .. DepthMod - 1
           /\ Sound(pos) => depth = Above(pos)
<1>1. Listed /\ m_base_address = RootBase /\ depth \in 0 .. DepthMod - 1
  BY DEF UnitInv
<1>2. pos \in Nat
  BY <1>1, UnitTypes
<1> QED
  BY <1>1, <1>2 DEF UnitInv

(* Where the unit's own entry encloses the others it is the first, and no level
   but its own is 0. *)
LEMMA RootFacts ==
    ASSUME Listed, Unit!WellFormed
    PROVE  /\ \A i \in Unit!Idxs : entries[1].Offset = 1 /\ 1 \in Unit!Idxs
           /\ \A i \in Unit!Idxs : i # 1 => entries[i].Offset > 1
           /\ \A i \in Unit!Idxs : \A k \in 1 .. entries[i].Offset - 1 : Above(k) > 0
           /\ \A i \in Unit!Idxs : entries[i].Depth = Above(entries[i].Offset - 1)
<1> USE UnitTypes
<1>1. ASSUME NEW i \in Unit!Idxs, entries[i].Offset # 1
      PROVE  /\ Unit!Items[1].kind = "entry"
             /\ \A k \in 1 .. entries[i].Offset - 1 : Above(k) > 0
  <2> DEFINE o == entries[i].Offset
  <2>1. o \in 2 .. pos /\ Unit!Items[o].kind = "entry"
    BY <1>1
  <2> HIDE DEF o
  <2>2. Unit!Encloses(1, o)
    BY <2>1 DEF Unit!WellFormed
  <2>3. Unit!Items[1].kind = "entry"
    BY <2>2 DEF Unit!Encloses
  <2>4. 1 \in Nat \ {0} /\ o \in Nat
    BY <2>1
  <2>5. \A k \in 1 .. o - 1 : Above(k) > Above(1 - 1)
    BY <2>2, <2>3, <2>4, EnclosesIs
  <2>6. Above(1 - 1) = 0
    BY AboveFacts
  <2> QED BY <2>3, <2>5, <2>6 DEF o
<1>2. ASSUME NEW i \in Unit!Idxs PROVE entries[1].Offset = 1 /\ 1 \in Unit!Idxs
  <2>1. Unit!Items[1].kind = "entry" /\ 1 \in 1 .. pos
    <3>1. CASE entries[i].Offset = 1
      BY <3>1
    <3>2. CASE entries[i].Offset # 1
      BY <1>1, <3>2
    <3> QED BY <3>1, <3>2
  <2>2. PICK j \in Unit!Idxs : entries[j].Offset = 1
    BY <2>1 DEF Listed
  <2>3. 1 \in Unit!Idxs
    BY DEF Unit!Idxs
  <2>4. CASE j # 1
    <3>1. 1 < j
      BY <2>4 DEF Unit!Idxs
    <3>2. entries[1].Offset < entries[j].Offset
      BY <2>3, <3>1 DEF Listed
    <3> QED BY <2>2, <2>3, <3>2
  <2> QED BY <2>2, <2>3, <2>4
<1>3. ASSUME NEW i \in Unit!Idxs, i # 1 PROVE entries[i].Offset > 1
  <2>1. 1 < i /\ 1 \in Unit!Idxs
    BY <1>3 DEF Unit!Idxs
  <2>2. entries[1].Offset < entries[i].Offset
    BY <2>1 DEF Listed
  <2> QED BY <2>1, <2>2
<1>4. ASSUME NEW i \in Unit!Idxs, NEW k \in 1 .. entries[i].Offset - 1 PROVE Above(k) > 0
  <2>1. entries[i].Offset # 1
    OBVIOUS
  <2> QED BY <1>1, <2>1
<1>5. ASSUME NEW i \in Unit!Idxs PROVE entries[i].Depth = Above(entries[i].Offset - 1)
  <2>1. ASSUME NEW n \in 0 .. entries[i].Offset - 1 PROVE Above(n) >= 0
    <3>1. CASE n = 0
      BY <3>1, AboveFacts
    <3>2. CASE n # 0
      <4>1. n \in 1 .. entries[i].Offset - 1 /\ n \in Nat
        BY <3>2
      <4>2. Above(n) > 0 /\ Above(n) \in Int
        BY <1>4, <4>1, AboveFacts
      <4> QED BY <4>2
    <3> QED BY <3>1, <3>2
  <2>2. Sound(entries[i].Offset - 1)
    BY <2>1 DEF Sound
  <2> QED BY <2>2, LevelIs
<1> QED
  BY <1>2, <1>3, <1>4, <1>5

LEMMA DepthFacts ==
    ASSUME Listed, Unit!WellFormed
    PROVE  TreeFacts
<1> USE UnitTypes
<1> DEFINE At(i) == entries[i].Offset
           D(i) == entries[i].Depth
<1>0. \A i \in Unit!Idxs : At(i) \in 1 .. pos /\ D(i) = Above(At(i) - 1) /\ D(i) \in 0 .. DepthMod - 1
  BY RootFacts
<1>1. ASSUME NEW i \in Unit!Idxs PROVE D(i) \in 0 .. DepthMod - 2
  <2> DEFINE k == At(i) - 1
  <2>1. k \in Nat /\ k <= DepthMod - 2
    BY <1>0
  <2> HIDE DEF k
  <2>2. Above(k) <= k /\ Above(k) \in Int
    BY <2>1, AboveFacts
  <2>3. Above(k) \in 0 .. DepthMod - 1
    BY <1>0 DEF k
  <2>4. Above(k) \in 0 .. DepthMod - 2
    BY <2>1, <2>2, <2>3
  <2> QED BY <1>0, <2>4 DEF k
<1>2. ASSUME NEW i \in Unit!Idxs PROVE D(i) = 0 <=> i = 1
  <2>1. CASE i = 1
    <3>1. At(i) - 1 = 0
      BY <2>1, RootFacts
    <3> QED BY <1>0, <2>1, <3>1, AboveFacts
  <2>2. CASE i # 1
    <3>1. At(i) > 1
      BY <2>2, RootFacts
    <3>2. At(i) - 1 \in 1 .. At(i) - 1
      BY <1>0, <3>1
    <3>3. Above(At(i) - 1) > 0
      BY <3>2, RootFacts
    <3> QED BY <1>0, <2>2, <3>3
  <2> QED BY <2>1, <2>2
<1>3. ASSUME NEW i \in Unit!Idxs, i # 1 PROVE i - 1 \in Unit!Idxs /\ At(i - 1) < At(i)
  <2>1. i - 1 \in Unit!Idxs /\ i - 1 < i
    BY <1>3 DEF Unit!Idxs
  <2> QED BY <2>1 DEF Listed
(* Between an item and the next kept entry no level is opened. *)
<1>4. ASSUME NEW i \in Unit!Idxs, NEW k \in Nat, k < At(i),
             \A j \in Unit!Idxs : At(j) > k => i <= j
      PROVE  D(i) <= Above(k)
  <2> DEFINE b == At(i) - 1
  <2>1. b \in Nat /\ k <= b /\ b < pos
    BY <1>0, <1>4
  <2>2. ASSUME NEW o \in k + 1 .. b, o \in Opens PROVE FALSE
    <3>1. o \in 1 .. pos /\ Unit!Items[o].kind = "entry"
      BY <2>1, <2>2 DEF Opens
    <3>2. PICK j \in Unit!Idxs : At(j) = o
      BY <3>1 DEF Listed
    <3>3. i <= j /\ j \in Nat /\ i \in Nat
      BY <1>4, <3>1, <3>2
    <3>4. i < j => At(i) < At(j)
      BY DEF Listed
    <3>5. i = j \/ At(i) < At(j)
      BY <3>3, <3>4
    <3> QED BY <1>0, <3>1, <3>2, <3>5
  <2>3. Above(b) <= Above(k)
    <3> HIDE DEF b
    <3> QED BY <2>1, <2>2, OnlyClosed
  <2> QED BY <1>0, <2>3
<1> HIDE DEF At, D
<1>5. ASSUME NEW i \in Unit!Idxs, i + 1 \in Unit!Idxs PROVE D(i + 1) <= D(i) + 1
  <2> DEFINE k == At(i)
             n == i + 1
  <2>a. i \in Nat \ {0} /\ n \in Unit!Idxs
    <3>1. n \in Unit!Idxs
      BY <1>5
    <3>2. i \in 1 .. Len(entries)
      BY DEF Unit!Idxs
    <3>3. i \in Nat \ {0}
      BY <3>2
    <3> QED BY <3>1, <3>3
  <2>b. k \in 1 .. pos /\ pos \in Nat
    BY <1>0
  <2>1. k \in Nat /\ k - 1 \in Nat /\ (k - 1) + 1 = k /\ n \in Unit!Idxs /\ n # 1 /\ n - 1 = i
    <3> HIDE DEF k
    <3> QED BY <2>a, <2>b
  <2>2. k < At(n)
    BY <1>3, <2>1
  <2>3. ASSUME NEW j \in Unit!Idxs, At(j) > k PROVE n <= j
    <3>1. j \in Nat /\ i \in Nat
      OBVIOUS
    <3>2. j < i => At(j) < At(i)
      BY DEF Listed, At
    <3>3. CASE j < i
      BY <1>0, <2>3, <3>2, <3>3
    <3>4. CASE j = i
      BY <1>0, <2>3, <3>4
    <3> QED BY <3>1, <3>3, <3>4
  <2>4. D(n) <= Above(k)
    BY <1>4, <2>1, <2>2, <2>3
  <2> DEFINE z == k - 1
  <2>5. z \in Nat /\ z + 1 = k
    BY <2>1
  <2>6. D(i) = Above(z)
    BY <1>0
  <2> HIDE DEF z, k, n
  <2>7. Above(z) \in Int /\ Above(z + 1) <= Above(z) + 1 /\ Above(z + 1) \in Int
    <3>1. Above(z) \in Int /\ z + 1 \in Nat
      BY <2>5, AboveFacts
    <3>2. Above(z + 1) \in Int
      BY <3>1, AboveFacts
    <3>3. Above(z + 1) = IF z + 1 \in Opens THEN Above(z) + 1
                         ELSE IF z + 1 \in Closes THEN Above(z) - 1 ELSE Above(z)
      BY <2>5, AboveFacts
    <3> QED BY <3>1, <3>2, <3>3
  <2>8. D(n) \in Int
    BY <1>0, <2>1 DEF n
  <2>9. D(n) <= D(i) + 1
    BY <2>4, <2>5, <2>6, <2>7, <2>8
  <2> QED BY <2>9 DEF n
<1>6. ASSUME NEW j \in Unit!Idxs, NEW i \in Unit!Idxs
      PROVE  Unit!Encloses(At(j), At(i)) <=> Within(j, i)
  <2>0. /\ j \in Nat \ {0} /\ i \in Nat \ {0} /\ At(j) \in Nat \ {0} /\ At(i) \in Nat
        /\ Unit!Items[At(j)].kind = "entry"
    BY SMTT(30), <1>0 DEF Unit!Idxs, At
  <2>1. Unit!Encloses(At(j), At(i)) <=>
            At(j) < At(i) /\ \A k \in At(j) .. At(i) - 1 : Above(k) > Above(At(j) - 1)
    BY <2>0, EnclosesIs
  <2>2. \A m \in j + 1 .. i : m \in Unit!Idxs
    BY DEF Unit!Idxs
  <2>3. \A m, n \in Unit!Idxs : m < n => At(m) < At(n)
    BY DEF Listed, At
  <2>4. Within(j, i) <=> j < i /\ \A m \in j + 1 .. i : D(m) > D(j)
    BY DEF Within, D
  <2>5. D(j) = Above(At(j) - 1)
    BY <1>0
  <2>6. ASSUME At(j) < At(i), \A k \in At(j) .. At(i) - 1 : Above(k) > Above(At(j) - 1)
        PROVE  j < i /\ \A m \in j + 1 .. i : D(m) > D(j)
    <3>1. j < i
      <4>1. CASE i < j
        BY <1>0, <2>3, <2>6, <4>1
      <4>2. CASE i = j
        BY <1>0, <2>6, <4>2
      <4> QED BY <2>0, <4>1, <4>2
    <3>2. ASSUME NEW m \in j + 1 .. i PROVE D(m) > D(j)
      <4>1. m \in Unit!Idxs /\ j < m /\ (m < i \/ m = i)
        BY <2>0, <2>2
      <4>2. At(j) < At(m) /\ At(m) <= At(i) /\ At(m) \in Nat
        BY SMTT(30), <1>0, <2>3, <4>1
      <4>3. At(m) - 1 \in At(j) .. At(i) - 1
        BY <2>0, <4>2
      <4>4. D(m) = Above(At(m) - 1)
        BY <1>0, <4>1
      <4> QED BY <2>5, <2>6, <4>3, <4>4
    <3> QED BY <3>1, <3>2
  <2>7. ASSUME j < i, \A m \in j + 1 .. i : D(m) > D(j)
        PROVE  At(j) < At(i) /\ \A k \in At(j) .. At(i) - 1 : Above(k) > Above(At(j) - 1)
    <3>1. At(j) < At(i)
      BY <2>3, <2>7
    <3>2. ASSUME NEW k \in At(j) .. At(i) - 1 PROVE Above(k) > Above(At(j) - 1)
      <4> DEFINE T == {m \in Unit!Idxs : At(m) > k}
      <4>0. k \in Nat /\ k >= At(j) /\ k < At(i)
        BY <2>0
      <4>1. i \in T /\ T \subseteq Nat
        BY <4>0
      <4>2. PICK m \in T : \A n \in T : m <= n
        BY <4>1, LeastNatural
      <4>3. m \in Unit!Idxs /\ At(m) > k /\ m <= i /\ m \in Nat
        BY <4>1, <4>2
      <4>4. m > j
        <5>1. CASE m < j
          <6>1. At(m) < At(j)
            BY <2>3, <4>3, <5>1
          <6> QED BY <1>0, <2>0, <4>0, <4>3, <6>1
        <5>2. CASE m = j
          BY <2>0, <4>0, <4>3, <5>2
        <5> QED BY <2>0, <4>3, <5>1, <5>2
      <4>5. D(m) <= Above(k)
        <5>1. \A n \in Unit!Idxs : At(n) > k => m <= n
          BY <4>2
        <5> QED BY <1>4, <4>0, <4>3, <5>1
      <4>6. D(m) > D(j)
        BY <2>0, <2>7, <4>3, <4>4
      <4>7. D(m) \in Int /\ D(j) \in Int /\ Above(k) \in Int
        BY <1>0, <4>0, <4>3, AboveFacts
      <4> QED BY <2>5, <4>5, <4>6, <4>7
    <3> QED BY <3>1, <3>2
  <2> QED BY <2>1, <2>4, <2>6, <2>7
<1> QED
  BY <1>1, <1>2, <1>5, <1>6 DEF TreeFacts, At, D

-------------------------------------------------------------------------------
(* The entries behind one, up to some other. *)
LEMMA RunIs ==
    ASSUME NEW i \in Unit!Idxs, NEW D, Len(entries) \in Nat
    PROVE  \E e \in i .. Len(entries) :
              /\ Unit!Run(i, D) = [k \in 1 .. e - i |-> i + k]
              /\ \A j \in i + 1 .. e : entries[j].Depth \in D
              /\ e < Len(entries) => entries[e + 1].Depth \notin D
<1> DEFINE stops == {j \in Unit!Idxs : j > i /\ entries[j].Depth \notin D}
           end == IF stops = {} THEN Len(entries)
                  ELSE (CHOOSE j \in stops : \A k \in stops : j <= k) - 1
<1>0. Unit!Idxs = 1 .. Len(entries) /\ i \in Nat \ {0} /\ i <= Len(entries)
  BY DEF Unit!Idxs
<1>1. Unit!Run(i, D) = [k \in 1 .. end - i |-> i + k]
  BY DEF Unit!Run
<1>2. CASE stops = {}
  <2>1. end = Len(entries)
    BY <1>2
  <2>2. \A j \in i + 1 .. end : entries[j].Depth \in D
    BY <1>0, <1>2, <2>1
  <2> HIDE DEF end
  <2> QED BY <1>0, <1>1, <2>1, <2>2
<1>3. CASE stops # {}
  <2> DEFINE s == CHOOSE j \in stops : \A k \in stops : j <= k
  <2>1. s \in stops /\ \A k \in stops : s <= k
    <3>1. stops \subseteq Nat
      BY <1>0
    <3>2. \E j \in stops : \A k \in stops : j <= k
      BY <1>3, <3>1, LeastNatural
    <3> HIDE DEF stops
    <3> QED BY <3>2
  <2>2. end = s - 1
    BY <1>3
  <2> HIDE DEF s
  <2>3. s \in 1 .. Len(entries) /\ s > i /\ entries[s].Depth \notin D
    BY <1>0, <2>1
  <2>4. end \in i .. Len(entries) /\ end + 1 = s
    <3> HIDE DEF end
    <3> QED BY <1>0, <2>2, <2>3
  <2>5. ASSUME NEW j \in i + 1 .. end PROVE entries[j].Depth \in D
    <3>1. j \in Unit!Idxs /\ j > i /\ ~(s <= j)
      <4> HIDE DEF end, stops
      <4> QED BY <1>0, <2>3, <2>4
    <3>2. j \notin stops
      BY <2>1, <3>1
    <3> QED BY <3>1, <3>2
  <2> HIDE DEF end
  <2> QED BY <1>1, <2>3, <2>4, <2>5
<1> QED
  BY <1>2, <1>3

LEMMA RunSet ==
    ASSUME NEW i \in Nat, NEW e \in Nat, i <= e, NEW r, r = [k \in 1 .. e - i |-> i + k]
    PROVE  /\ r \in Seq(i + 1 .. e) /\ Len(r) = e - i /\ DOMAIN r = 1 .. e - i
           /\ Unit!ToSet(r) = i + 1 .. e /\ Unit!Ascending(r)
<1>0. e - i \in Nat
  OBVIOUS
<1>1. ASSUME NEW k \in 1 .. e - i PROVE r[k] = i + k /\ r[k] \in i + 1 .. e
  OBVIOUS
<1>2. r \in Seq(i + 1 .. e) /\ Len(r) = e - i /\ DOMAIN r = 1 .. e - i
  <2> DEFINE n == e - i
  <2>0. n \in Nat /\ r = [k \in 1 .. n |-> r[k]] /\ \A k \in 1 .. n : r[k] \in i + 1 .. e
    BY <1>1
  <2> HIDE DEF n
  <2>1. r \in [1 .. n -> i + 1 .. e]
    BY <2>0
  <2>2. r \in Seq(i + 1 .. e)
    BY <2>0, <2>1, SeqDef
  <2>3. DOMAIN r = 1 .. n
    BY <2>0
  <2>4. Len(r) = n
    BY <2>0, <2>2, <2>3, LenProperties
  <2> QED BY <2>2, <2>3, <2>4 DEF n
<1>3. Unit!ToSet(r) = i + 1 .. e
  <2>1. Unit!ToSet(r) = {r[k] : k \in 1 .. e - i}
    BY <1>2 DEF Unit!ToSet
  <2>2. ASSUME NEW x \in i + 1 .. e PROVE \E k \in 1 .. e - i : r[k] = x
    <3>1. x - i \in 1 .. e - i /\ i + (x - i) = x
      OBVIOUS
    <3> QED BY <1>1, <3>1
  <2> QED BY <1>1, <2>1, <2>2
<1>4. Unit!Ascending(r)
  <2>1. ASSUME NEW k \in 1 .. Len(r) - 1 PROVE r[k] < r[k + 1]
    <3>1. k \in 1 .. e - i /\ k + 1 \in 1 .. e - i
      BY <1>0, <1>2
    <3>2. r[k] = i + k /\ r[k + 1] = i + (k + 1)
      BY <1>1, <3>1
    <3> QED BY <3>1, <3>2
  <2> QED BY <2>1 DEF Unit!Ascending
<1> QED
  BY <1>2, <1>3, <1>4

(* What the tree facts say of one entry. *)
LEMMA LevelFacts ==
    ASSUME Listed, Unit!WellFormed, NEW i \in Unit!Idxs
    PROVE  /\ Unit!Idxs = 1 .. Len(entries) /\ Len(entries) \in Nat
           /\ i \in Nat \ {0} /\ i <= Len(entries)
           /\ DepthMod \in Nat \ {0, 1}
           /\ entries[i].Depth \in Nat /\ entries[i].Depth <= DepthMod - 2
           /\ (entries[i].Depth + 1) % DepthMod = entries[i].Depth + 1
           /\ entries[i].Depth = 0 <=> i = 1
<1>1. TreeFacts
  BY DepthFacts
<1>2. Unit!Idxs = 1 .. Len(entries) /\ Len(entries) \in Nat /\ DepthMod \in Nat \ {0, 1}
  BY UnitTypes DEF Unit!Idxs
<1> DEFINE d == entries[i].Depth
<1>3. d \in 0 .. DepthMod - 2 /\ (d = 0 <=> i = 1)
  BY <1>1 DEF TreeFacts
<1> HIDE DEF d
<1>4. d \in Nat /\ d <= DepthMod - 2 /\ (d + 1) % DepthMod = d + 1
  BY <1>2, <1>3
<1> QED
  BY <1>2, <1>3, <1>4 DEF d

LEMMA EnclosedIs ==
    ASSUME Listed, Unit!WellFormed
    PROVE  /\ \A i \in Unit!Idxs : Unit!Enclosed(i) = {j \in Unit!Idxs : Within(i, j)}
           /\ \A i \in Unit!Idxs : Unit!Enclosing(i) = {j \in Unit!Idxs : Within(j, i)}
<1>1. \A j, i \in Unit!Idxs :
        Unit!Encloses(entries[j].Offset, entries[i].Offset) <=> Within(j, i)
  BY DepthFacts DEF TreeFacts
<1>2. Len(entries) \in Nat /\ Unit!Idxs = 1 .. Len(entries)
  BY UnitTypes DEF Unit!Idxs
<1>3. ASSUME NEW i \in Unit!Idxs
      PROVE  Unit!Enclosed(i) = {j \in Unit!Idxs : Within(i, j)}
  BY <1>1 DEF Unit!Enclosed
<1>4. ASSUME NEW i \in Unit!Idxs
      PROVE  Unit!Enclosing(i) = {j \in Unit!Idxs : Within(j, i)}
  <2>1. 1 .. i - 1 \subseteq Unit!Idxs
    BY <1>2
  <2>2. \A j \in Unit!Idxs : Within(j, i) => j \in 1 .. i - 1
    BY <1>2 DEF Within
  <2>3. Unit!Enclosing(i) = {j \in 1 .. i - 1 : Within(j, i)}
    BY <1>1, <2>1 DEF Unit!Enclosing
  <2> QED BY <2>1, <2>2, <2>3
<1> QED
  BY <1>3, <1>4

(* All that is inside an entry: those behind it that are deeper. *)
LEMMA AllChildrenAre ==
    ASSUME Listed, Unit!WellFormed, NEW i \in Unit!Idxs, i # 1
    PROVE  \E e \in i .. Len(entries) :
              /\ Unit!getAllChildrensIdxs(i) = [k \in 1 .. e - i |-> i + k]
              /\ Unit!Enclosed(i) = i + 1 .. e
<1> DEFINE d == entries[i].Depth
<1>1. /\ Unit!Idxs = 1 .. Len(entries) /\ Len(entries) \in Nat
      /\ i \in Nat \ {0} /\ i <= Len(entries) /\ DepthMod \in Nat
      /\ d \in Nat /\ d > 0 /\ d <= DepthMod - 2 /\ (d + 1) % DepthMod = d + 1
  BY LevelFacts
<1>2. \A j \in Unit!Idxs : entries[j].Depth \in Nat /\ entries[j].Depth <= DepthMod - 2
  BY LevelFacts
<1>3. Unit!getAllChildrensIdxs(i) = Unit!Run(i, d + 1 .. DepthMod - 1)
  BY <1>1 DEF Unit!getAllChildrensIdxs
<1>4. PICK e \in i .. Len(entries) :
        /\ Unit!Run(i, d + 1 .. DepthMod - 1) = [k \in 1 .. e - i |-> i + k]
        /\ \A j \in i + 1 .. e : entries[j].Depth \in d + 1 .. DepthMod - 1
        /\ e < Len(entries) => entries[e + 1].Depth \notin d + 1 .. DepthMod - 1
  BY <1>1, RunIs
<1> HIDE DEF d
<1>5. ASSUME NEW j \in Unit!Idxs PROVE Within(i, j) <=> j \in i + 1 .. e
  <2>1. ASSUME j \in i + 1 .. e PROVE Within(i, j)
    <3>1. \A m \in i + 1 .. j : m \in i + 1 .. e
      BY <1>1, <2>1
    <3>2. ASSUME NEW m \in i + 1 .. j PROVE entries[m].Depth > d
      <4>1. entries[m].Depth \in d + 1 .. DepthMod - 1
        BY <1>4, <3>1
      <4> QED BY <1>1, <4>1
    <3> QED BY <1>1, <2>1, <3>2 DEF Within, d
  <2>2. ASSUME Within(i, j), j \notin i + 1 .. e PROVE FALSE
    <3>1. i < j /\ \A m \in i + 1 .. j : entries[m].Depth > d
      BY <2>2 DEF Within, d
    <3>2. e < Len(entries) /\ e + 1 \in i + 1 .. j /\ e + 1 \in Unit!Idxs
      BY <1>1, <2>2, <3>1
    <3>3. entries[e + 1].Depth > d /\ entries[e + 1].Depth \in Nat
          /\ entries[e + 1].Depth <= DepthMod - 2
      BY <1>2, <3>1, <3>2
    <3> QED BY <1>1, <1>4, <3>2, <3>3
  <2> QED BY <2>1, <2>2
<1>6. i + 1 .. e \subseteq Unit!Idxs
  BY <1>1
<1>7. Unit!Enclosed(i) = i + 1 .. e
  BY <1>5, <1>6, EnclosedIs
<1> QED
  BY <1>3, <1>4, <1>7

LEMMA UnitChildren ==
    ASSUME Listed
    PROVE  Unit!ChildrenEnclosed /\ Unit!FirstChildren
<1>1. ASSUME Unit!WellFormed, NEW i \in Unit!Idxs, i # 1
      PROVE  /\ Unit!ToSet(Unit!getAllChildrensIdxs(i)) = Unit!Enclosed(i)
             /\ Unit!Ascending(Unit!getAllChildrensIdxs(i))
  <2>1. PICK e \in i .. Len(entries) :
          /\ Unit!getAllChildrensIdxs(i) = [k \in 1 .. e - i |-> i + k]
          /\ Unit!Enclosed(i) = i + 1 .. e
    BY <1>1, AllChildrenAre
  <2>2. i \in Nat /\ e \in Nat /\ i <= e
    BY <1>1, LevelFacts
  <2> QED BY <2>1, <2>2, RunSet
<1>2. ASSUME Unit!WellFormed, NEW i \in Unit!Idxs, i # 1
      PROVE  Unit!ToSet(Unit!getChildrensIdxs(i)) =
                {j \in Unit!Enclosed(i) :
                    /\ Unit!Enclosing(j) = Unit!Enclosing(i) \cup {i}
                    /\ \A k \in Unit!Enclosed(i) : k < j => Unit!Enclosed(k) = {}}
  <2> DEFINE D(j) == entries[j].Depth
             d == entries[i].Depth
  <2>1. /\ Unit!Idxs = 1 .. Len(entries) /\ Len(entries) \in Nat
        /\ i \in Nat \ {0} /\ i <= Len(entries)
        /\ d \in Nat /\ d > 0 /\ (d + 1) % DepthMod = d + 1
    BY <1>2, LevelFacts
  <2>2. \A j \in Unit!Idxs : D(j) \in Nat
    BY <1>2, LevelFacts
  <2>3. \A j \in Unit!Idxs : j + 1 \in Unit!Idxs => D(j + 1) <= D(j) + 1
    BY <1>2, DepthFacts DEF TreeFacts
  <2>4. Unit!getChildrensIdxs(i) = Unit!Run(i, {d + 1})
    BY <2>1 DEF Unit!getChildrensIdxs
  <2>5. PICK e \in i .. Len(entries) :
          /\ Unit!Run(i, {d + 1}) = [k \in 1 .. e - i |-> i + k]
          /\ \A j \in i + 1 .. e : D(j) \in {d + 1}
          /\ e < Len(entries) => D(e + 1) \notin {d + 1}
    BY <2>1, RunIs
  <2>6. /\ e \in Nat /\ i <= e /\ e <= Len(entries)
        /\ \A j \in i + 1 .. e : D(j) = d + 1
        /\ e < Len(entries) => D(e + 1) # d + 1
    BY <2>1, <2>5
  <2>7. Unit!ToSet(Unit!getChildrensIdxs(i)) = i + 1 .. e
    BY <2>1, <2>4, <2>5, <2>6, RunSet
  <2>8. \A j, k \in Unit!Idxs : /\ k \in Unit!Enclosed(j) <=> Within(j, k)
                                /\ j \in Unit!Enclosing(k) <=> Within(j, k)
    BY <1>2, EnclosedIs
  <2>9. \A j, k \in Unit!Idxs : Within(j, k) <=> j < k /\ \A m \in j + 1 .. k : D(m) > D(j)
    BY DEF Within
  <2>a. D(i) = d
    OBVIOUS
  <2> HIDE DEF D, d
  <2>b. \A j \in Unit!Idxs : Unit!Enclosed(j) \subseteq Unit!Idxs /\ Unit!Enclosing(j) \subseteq Unit!Idxs
    BY <1>2, EnclosedIs
  <2>10. ASSUME NEW j \in i + 1 .. e
         PROVE  /\ j \in Unit!Enclosed(i)
                /\ Unit!Enclosing(j) = Unit!Enclosing(i) \cup {i}
                /\ \A k \in Unit!Enclosed(i) : k < j => Unit!Enclosed(k) = {}
    <3>1. j \in Unit!Idxs /\ j \in Nat /\ i < j /\ j <= e /\ D(j) = d + 1
      BY <2>1, <2>6
    <3>2. ASSUME NEW m \in i + 1 .. j PROVE m \in Unit!Idxs /\ D(m) = d + 1
      BY <2>1, <2>6, <3>1
    <3>3. Within(i, j)
      <4>1. \A m \in i + 1 .. j : D(m) > D(i)
        BY <2>1, <2>a, <3>2
      <4> QED BY <2>9, <3>1, <4>1
    <3>4. ASSUME NEW x \in Unit!Idxs PROVE x \in Unit!Enclosing(j) <=> x \in Unit!Enclosing(i) \/ x = i
      <4>0. x \in Nat /\ D(x) \in Nat
        BY <2>1, <2>2
      <4>1. ASSUME Within(x, j) PROVE Within(x, i) \/ x = i
        <5>1. x < j /\ \A m \in x + 1 .. j : D(m) > D(x)
          BY <2>9, <3>1, <4>1
        <5>2. CASE x < i
          <6>1. \A m \in x + 1 .. i : m \in x + 1 .. j
            BY <3>1, <2>1, <4>0
          <6>2. \A m \in x + 1 .. i : D(m) > D(x)
            BY <5>1, <6>1
          <6> QED BY <2>9, <5>2, <6>2
        <5>3. CASE x > i
          <6>1. x \in i + 1 .. j /\ j \in x + 1 .. j
            BY <2>1, <3>1, <4>0, <5>1, <5>3
          <6>2. D(x) = d + 1 /\ D(j) > D(x)
            BY <3>2, <5>1, <6>1
          <6> QED BY <2>1, <3>1, <6>2
        <5> QED BY <2>1, <4>0, <5>2, <5>3
      <4>2. ASSUME Within(x, i) PROVE Within(x, j)
        <5>1. x < i /\ \A m \in x + 1 .. i : D(m) > D(x)
          BY <2>9, <4>2
        <5>2. d > D(x)
          <6>1. i \in x + 1 .. i
            BY <2>1, <4>0, <5>1
          <6> QED BY <2>a, <5>1, <6>1
        <5>3. ASSUME NEW m \in x + 1 .. j PROVE D(m) > D(x)
          <6>1. CASE m <= i
            <7>1. m \in x + 1 .. i
              BY <2>1, <4>0, <6>1
            <7> QED BY <5>1, <7>1
          <6>2. CASE ~(m <= i)
            <7>1. m \in i + 1 .. j
              BY <2>1, <4>0, <6>2
            <7>2. D(m) = d + 1
              BY <3>2, <7>1
            <7> QED BY <2>1, <4>0, <5>2, <7>2
          <6> QED BY <6>1, <6>2
        <5>4. x < j
          BY <2>1, <3>1, <4>0, <5>1
        <5> QED BY <2>9, <3>1, <5>3, <5>4
      <4> QED BY <2>8, <3>1, <3>3, <4>1, <4>2
    <3>5. ASSUME NEW k \in Unit!Enclosed(i), k < j, NEW y \in Unit!Enclosed(k) PROVE FALSE
      <4>1. k \in Unit!Idxs /\ y \in Unit!Idxs /\ k \in Nat /\ y \in Nat
        BY <2>1, <2>b, <3>5
      <4>2. i < k /\ Within(k, y)
        BY <2>8, <2>9, <3>5, <4>1
      <4>3. k \in i + 1 .. j /\ k + 1 \in i + 1 .. j /\ k + 1 \in k + 1 .. y
        <5>1. k < y
          BY <2>9, <4>1, <4>2
        <5> QED BY <2>1, <3>1, <3>5, <4>1, <4>2, <5>1
      <4>4. D(k) = d + 1 /\ D(k + 1) = d + 1
        BY <3>2, <4>3
      <4>5. D(k + 1) > D(k)
        BY <2>9, <4>1, <4>2, <4>3
      <4> QED BY <2>1, <4>4, <4>5
    <3>6. j \in Unit!Enclosed(i)
      BY <2>8, <3>1, <3>3
    <3>7. Unit!Enclosing(j) = Unit!Enclosing(i) \cup {i}
      BY <2>b, <3>1, <3>4
    <3> QED BY <3>5, <3>6, <3>7
  <2>11. ASSUME NEW j \in Unit!Enclosed(i), \A k \in Unit!Enclosed(i) : k < j => Unit!Enclosed(k) = {}
         PROVE  j \in i + 1 .. e
    <3>1. j \in Unit!Idxs /\ j \in Nat /\ j <= Len(entries)
      BY <2>1, <2>b
    <3>2. i < j /\ \A m \in i + 1 .. j : D(m) > d
      BY <2>8, <2>9, <2>a, <3>1
    <3>3. SUFFICES ASSUME e < j PROVE FALSE
      BY <2>1, <2>6, <3>1, <3>2
    <3>4. e + 1 \in i + 1 .. j /\ e + 1 \in Unit!Idxs /\ e \in Unit!Idxs /\ e < Len(entries)
      BY <2>1, <2>6, <3>1, <3>3
    <3>5. D(e + 1) > d /\ D(e + 1) # d + 1 /\ D(e + 1) <= D(e) + 1 /\ D(e + 1) \in Nat /\ D(e) \in Nat
      BY <2>2, <2>3, <2>6, <3>2, <3>4
    <3>6. CASE e = i
      BY <2>1, <2>a, <3>5, <3>6
    <3>7. CASE e # i
      <4>1. e \in i + 1 .. e /\ i < e
        BY <2>1, <2>6, <3>7
      <4>2. D(e) = d + 1
        BY <2>6, <4>1
      <4>3. e \in Unit!Enclosed(i) /\ e < j
        BY <2>10, <3>3, <4>1
      <4>4. Within(e, e + 1)
        <5>1. D(e + 1) > D(e)
          BY <2>1, <3>5, <4>2
        <5>2. \A m \in e + 1 .. e + 1 : D(m) > D(e)
          BY <2>6, <5>1
        <5>3. e < e + 1
          BY <2>6
        <5> QED BY <2>9, <3>4, <5>2, <5>3
      <4>5. e + 1 \in Unit!Enclosed(e)
        BY <2>8, <3>4, <4>4
      <4> QED BY <2>11, <4>3, <4>5
    <3> QED BY <3>6, <3>7
  <2>12. ASSUME NEW j \in i + 1 .. e
         PROVE  j \in {x \in Unit!Enclosed(i) :
                        /\ Unit!Enclosing(x) = Unit!Enclosing(i) \cup {i}
                        /\ \A k \in Unit!Enclosed(i) : k < x => Unit!Enclosed(k) = {}}
    BY <2>10
  <2> QED BY <2>7, <2>11, <2>12
<1>3. Unit!ChildrenEnclosed
  BY <1>1 DEF Unit!ChildrenEnclosed
<1>4. Unit!FirstChildren
  BY <1>2 DEF Unit!FirstChildren
<1> QED
  BY <1>3, <1>4

-------------------------------------------------------------------------------
(* The walk towards the front, one entry at a time. *)
WalkAt(i, stops, f, k) ==
    IF k = 0 THEN [found |-> <<>>, want |-> entries[i].Depth - 1, ended |-> FALSE]
    ELSE Unit!Looked(f[k - 1], i - k, stops)

LEMMA WalkUnfolds ==
    ASSUME NEW i \in Nat \ {0}, NEW stops
    PROVE  \E f : /\ f = [k \in 0 .. i - 1 |-> WalkAt(i, stops, f, k)]
                  /\ Unit!Walk(i, stops) = f[i - 1].found
<1> DEFINE Has(n) == \E f : f = [k \in 0 .. n |-> WalkAt(i, stops, f, k)]
           B == {n \in Nat : Has(n)}
<1>1. Has(0)
  <2>1. PICK f : f = [k \in 0 .. 0 |-> WalkAt(i, stops, <<>>, 0)]
    OBVIOUS
  <2>2. WalkAt(i, stops, <<>>, 0) = WalkAt(i, stops, f, 0)
    BY DEF WalkAt
  <2>3. \A k \in 0 .. 0 : k = 0
    OBVIOUS
  <2>4. f = [k \in 0 .. 0 |-> WalkAt(i, stops, f, k)]
    BY <2>1, <2>2, <2>3
  <2> QED BY <2>4
<1>2. ASSUME NEW n \in Nat, Has(n) PROVE Has(n + 1)
  <2>1. PICK f : f = [k \in 0 .. n |-> WalkAt(i, stops, f, k)]
    BY <1>2
  <2> DEFINE g == [k \in 0 .. n + 1 |-> IF k = n + 1 THEN WalkAt(i, stops, f, k) ELSE f[k]]
  <2>0. \A k \in 0 .. n + 1 : k # 0 => g[k - 1] = f[k - 1]
    OBVIOUS
  <2>2. \A k \in 0 .. n + 1 : WalkAt(i, stops, g, k) = WalkAt(i, stops, f, k)
    BY <2>0 DEF WalkAt
  <2>3. \A k \in 0 .. n : f[k] = WalkAt(i, stops, f, k)
    BY <2>1
  <2>4. \A k \in 0 .. n + 1 : g[k] = WalkAt(i, stops, g, k)
    BY <2>2, <2>3
  <2>5. g = [k \in 0 .. n + 1 |-> g[k]]
    OBVIOUS
  <2>6. g = [k \in 0 .. n + 1 |-> WalkAt(i, stops, g, k)]
    BY <2>4, <2>5
  <2> QED BY <2>6
<1> HIDE DEF Has
<1>3. Has(i - 1)
  <2>1. 0 \in B
    BY <1>1
  <2>2. \A n \in Nat : n \in B => n + 1 \in B
    BY <1>2
  <2> HIDE DEF B
  <2>3. \A n \in Nat : n \in B
    BY <2>1, <2>2, Induction
  <2>4. i - 1 \in Nat
    OBVIOUS
  <2> QED BY <2>3, <2>4 DEF B
<1> DEFINE h == CHOOSE f : f = [k \in 0 .. i - 1 |-> WalkAt(i, stops, f, k)]
<1>4. h = [k \in 0 .. i - 1 |-> WalkAt(i, stops, h, k)]
  BY <1>3 DEF Has
<1>5. Unit!Walk(i, stops) = h[i - 1].found
  BY Zenon DEF Unit!Walk, WalkAt
<1> QED
  BY <1>4, <1>5

Descending(s) == \A k \in 1 .. Len(s) - 1 : s[k] > s[k + 1]

(* After k steps the walk has the entries around i among the last k, nearest
   first, and wants the lowest level that it has seen less one. *)
WalkRight(i, k, w) ==
    /\ w.found \in Seq(i - k .. i - 1) /\ Descending(w.found)
    /\ \A j \in i - k .. i - 1 : Within(j, i) <=> \E n \in 1 .. Len(w.found) : w.found[n] = j
WalkGoing(i, k, w) ==
    /\ WalkRight(i, k, w)
    /\ w = [found |-> w.found, want |-> w.want, ended |-> FALSE]
    /\ w.want \in Nat
    /\ \A m \in i - k .. i : entries[m].Depth > w.want
    /\ \E m \in i - k .. i : entries[m].Depth = w.want + 1

(* One more entry in front of the others. *)
LEMMA FoundGrows ==
    ASSUME NEW i \in Nat, NEW k \in Nat, k < i, NEW s \in Seq(i - k .. i - 1), Descending(s),
           NEW l, l = i - (k + 1)
    PROVE  /\ Append(s, l) \in Seq(l .. i - 1) /\ Descending(Append(s, l))
           /\ s \in Seq(l .. i - 1)
           /\ \A j \in l .. i - 1 :
                (\E n \in 1 .. Len(Append(s, l)) : Append(s, l)[n] = j) <=>
                    (j = l \/ \E n \in 1 .. Len(s) : s[n] = j)
           /\ \A n \in 1 .. Len(s) : s[n] # l
<1>0. /\ Len(s) \in Nat /\ \A n \in 1 .. Len(s) : s[n] \in i - k .. i - 1
      /\ l \in Nat /\ l \in l .. i - 1 /\ l < i - k /\ i - k .. i - 1 \subseteq l .. i - 1
  <2>1. Len(s) \in Nat /\ \A n \in 1 .. Len(s) : s[n] \in i - k .. i - 1
    OBVIOUS
  <2>2. l \in Nat /\ l \in l .. i - 1 /\ l < i - k
    OBVIOUS
  <2>3. \A x \in i - k .. i - 1 : x \in l .. i - 1
    BY <2>2
  <2> QED BY <2>1, <2>2, <2>3
<1>1. s \in Seq(l .. i - 1)
  <2>1. s \in [1 .. Len(s) -> l .. i - 1]
    <3>1. s = [n \in 1 .. Len(s) |-> s[n]]
      OBVIOUS
    <3> QED BY <1>0, <3>1
  <2> QED BY <1>0, <2>1, SeqDef
<1> DEFINE t == Append(s, l)
<1>2. /\ t \in Seq(l .. i - 1) /\ Len(t) = Len(s) + 1
      /\ \A n \in 1 .. Len(s) : t[n] = s[n]
      /\ t[Len(s) + 1] = l
  BY <1>0, <1>1, AppendProperties
<1> HIDE DEF t
<1>3. ASSUME NEW n \in 1 .. Len(t) - 1 PROVE t[n] > t[n + 1]
  <2>1. n \in 1 .. Len(s)
    BY <1>0, <1>2
  <2>2. t[n] = s[n] /\ s[n] \in i - k .. i - 1
    BY <1>0, <1>2, <2>1
  <2>3. CASE n = Len(s)
    BY <1>0, <1>2, <2>2, <2>3
  <2>4. CASE n # Len(s)
    <3>1. n \in 1 .. Len(s) - 1 /\ n + 1 \in 1 .. Len(s)
      BY <1>0, <2>1, <2>4
    <3>2. s[n] > s[n + 1] /\ t[n + 1] = s[n + 1]
      BY <1>2, <3>1 DEF Descending
    <3> QED BY <2>2, <3>2
  <2> QED BY <2>3, <2>4
<1>4. ASSUME NEW j \in l .. i - 1
      PROVE  (\E n \in 1 .. Len(t) : t[n] = j) <=> (j = l \/ \E n \in 1 .. Len(s) : s[n] = j)
  <2>1. ASSUME NEW n \in 1 .. Len(t), t[n] = j PROVE j = l \/ \E m \in 1 .. Len(s) : s[m] = j
    <3>1. n = Len(s) + 1 \/ n \in 1 .. Len(s)
      BY <1>0, <1>2
    <3> QED BY <1>2, <2>1, <3>1
  <2>2. ASSUME j = l PROVE \E n \in 1 .. Len(t) : t[n] = j
    <3>1. Len(s) + 1 \in 1 .. Len(t)
      BY <1>0, <1>2
    <3> QED BY <1>2, <2>2, <3>1
  <2>3. ASSUME NEW n \in 1 .. Len(s), s[n] = j PROVE \E m \in 1 .. Len(t) : t[m] = j
    <3>1. n \in 1 .. Len(t)
      BY <1>0, <1>2
    <3> QED BY <1>2, <2>3, <3>1
  <2> QED BY <2>1, <2>2, <2>3
<1>5. \A n \in 1 .. Len(s) : s[n] # l
  <2>1. \A x \in i - k .. i - 1 : x # l
    BY <1>0
  <2> QED BY <1>0, <2>1
<1> QED
  BY <1>1, <1>2, <1>3, <1>4, <1>5 DEF t, Descending

LEMMA WalkStep ==
    ASSUME Listed, Unit!WellFormed, NEW i \in Unit!Idxs, NEW k \in Nat, k + 1 < i,
           NEW w, WalkGoing(i, k, w), NEW l, l = i - (k + 1), NEW stops \in BOOLEAN
    PROVE  /\ WalkRight(i, k + 1, Unit!Looked(w, l, stops))
           /\ l # 1 => WalkGoing(i, k + 1, Unit!Looked(w, l, stops))
           /\ Unit!Looked(w, l, stops).found = Unit!Looked(w, l, FALSE).found
           /\ l # 1 => Unit!Looked(w, l, stops) = Unit!Looked(w, l, FALSE)
<1> DEFINE D(j) == entries[j].Depth
           want == w.want
           s == w.found
<1>1. /\ Unit!Idxs = 1 .. Len(entries) /\ Len(entries) \in Nat /\ i \in Nat \ {0}
      /\ i <= Len(entries) /\ DepthMod \in Nat \ {0, 1}
  BY LevelFacts
<1>2. l \in Unit!Idxs /\ l \in Nat \ {0} /\ l + 1 = i - k /\ l + 1 \in Unit!Idxs /\ l < i
  BY <1>1
<1>3. \A j \in Unit!Idxs : D(j) \in Nat /\ D(j) <= DepthMod - 2 /\ (D(j) = 0 <=> j = 1)
  BY LevelFacts
<1>4. D(l + 1) <= D(l) + 1
  BY <1>2, DepthFacts DEF TreeFacts
<1>5. /\ s \in Seq(i - k .. i - 1) /\ Descending(s)
      /\ \A j \in i - k .. i - 1 : Within(j, i) <=> \E n \in 1 .. Len(s) : s[n] = j
  BY DEF WalkGoing, WalkRight
<1>6. /\ w = [found |-> s, want |-> want, ended |-> FALSE] /\ want \in Nat
      /\ \A m \in i - k .. i : D(m) > want
  BY DEF WalkGoing
<1>7. PICK low \in i - k .. i : D(low) = want + 1
  BY DEF WalkGoing
<1>8. Unit!Looked(w, l, stops) =
        IF D(l) > want THEN w
        ELSE [found |-> Append(s, l), want |-> (want - 1) % DepthMod, ended |-> stops /\ want = 0]
  BY <1>6 DEF Unit!Looked
<1>9. Unit!Looked(w, l, FALSE) =
        IF D(l) > want THEN w
        ELSE [found |-> Append(s, l), want |-> (want - 1) % DepthMod, ended |-> FALSE /\ want = 0]
  BY <1>6 DEF Unit!Looked
<1>10. \A j \in Unit!Idxs : Within(j, i) <=> j < i /\ \A m \in j + 1 .. i : D(m) > D(j)
  BY DEF Within
<1> HIDE DEF D, want, s
<1>11. /\ Append(s, l) \in Seq(l .. i - 1) /\ Descending(Append(s, l))
       /\ s \in Seq(l .. i - 1)
       /\ \A j \in l .. i - 1 :
            (\E n \in 1 .. Len(Append(s, l)) : Append(s, l)[n] = j) <=>
                (j = l \/ \E n \in 1 .. Len(s) : s[n] = j)
       /\ \A n \in 1 .. Len(s) : s[n] # l
  <2>1. i \in Nat /\ k \in Nat /\ k < i /\ l = i - (k + 1)
    BY <1>1
  <2>2. s \in Seq(i - k .. i - 1) /\ Descending(s)
    BY <1>5
  <2>3. Append(s, l) \in Seq(l .. i - 1) /\ Descending(Append(s, l)) /\ s \in Seq(l .. i - 1)
    BY ONLY <2>1, <2>2, FoundGrows
  <2>4. \A j \in l .. i - 1 :
            (\E n \in 1 .. Len(Append(s, l)) : Append(s, l)[n] = j) <=>
                (j = l \/ \E n \in 1 .. Len(s) : s[n] = j)
    BY ONLY <2>1, <2>2, FoundGrows
  <2>5. \A n \in 1 .. Len(s) : s[n] # l
    BY ONLY <2>1, <2>2, FoundGrows
  <2> QED BY <2>3, <2>4, <2>5
<1>12. D(l) >= want /\ D(l) \in Nat
  <2>1. l + 1 \in i - k .. i
    BY <1>1, <1>2
  <2>2. D(l + 1) > want /\ D(l + 1) \in Nat /\ D(l) \in Nat
    BY <1>2, <1>3, <1>6, <2>1
  <2> QED BY <1>4, <1>6, <2>2
<1>13. ASSUME NEW m \in l .. i PROVE m = l \/ m \in i - k .. i
  BY <1>1, <1>2
<1>14. ASSUME NEW j \in l .. i - 1 PROVE j = l \/ j \in i - k .. i - 1
  BY <1>1, <1>2
<1>15. l = i - (k + 1)
  OBVIOUS
<1>16. CASE D(l) > want
  <2>1. l # 1
    BY <1>3, <1>2, <1>6, <1>16
  <2>2. Unit!Looked(w, l, stops) = w /\ Unit!Looked(w, l, FALSE) = w
    BY <1>8, <1>9, <1>16
  <2>3. ~ Within(l, i)
    <3>1. low \in l + 1 .. i /\ ~(D(low) > D(l))
      BY <1>2, <1>6, <1>7, <1>12, <1>16
    <3> QED BY <1>2, <1>10, <3>1
  <2>4. ASSUME NEW j \in l .. i - 1
        PROVE  Within(j, i) <=> \E n \in 1 .. Len(s) : s[n] = j
    BY <1>5, <1>11, <1>14, <2>3
  <2>5. WalkRight(i, k + 1, w)
    BY <1>5, <1>11, <1>15, <2>4 DEF WalkRight, s
  <2>6. \A m \in l .. i : D(m) > want
    BY <1>6, <1>13, <1>16
  <2>7. \E m \in l .. i : D(m) = want + 1
    <3>1. low \in l .. i
      BY <1>1, <1>2
    <3> QED BY <1>7, <3>1
  <2>8. WalkGoing(i, k + 1, w)
    BY <1>6, <1>15, <2>5, <2>6, <2>7 DEF WalkGoing, D, want, s
  <2> QED BY <2>2, <2>5, <2>8
<1>17. CASE ~(D(l) > want)
  <2> DEFINE v == Unit!Looked(w, l, stops)
             u == Unit!Looked(w, l, FALSE)
  <2>1. /\ v = [found |-> Append(s, l), want |-> (want - 1) % DepthMod, ended |-> stops /\ want = 0]
        /\ u = [found |-> Append(s, l), want |-> (want - 1) % DepthMod, ended |-> FALSE /\ want = 0]
    BY <1>8, <1>9, <1>17
  <2> HIDE DEF v, u
  <2>2. D(l) = want
    BY <1>6, <1>12, <1>17
  <2>3. Within(l, i)
    <3>1. \A m \in l + 1 .. i : m \in i - k .. i
      BY <1>2
    <3>2. \A m \in l + 1 .. i : D(m) > D(l)
      BY <1>6, <2>2, <3>1
    <3> QED BY <1>2, <1>10, <3>2
  <2>4. v.found = Append(s, l) /\ u.found = Append(s, l)
    BY <2>1
  <2>5. ASSUME NEW j \in l .. i - 1
        PROVE  Within(j, i) <=> \E n \in 1 .. Len(Append(s, l)) : Append(s, l)[n] = j
    BY <1>5, <1>11, <1>14, <2>3
  <2>6. WalkRight(i, k + 1, v)
    BY <1>11, <1>15, <2>4, <2>5 DEF WalkRight
  <2>7. ASSUME l # 1 PROVE WalkGoing(i, k + 1, v) /\ v = u
    <3>1. want # 0 /\ want <= DepthMod - 2
      BY <1>2, <1>3, <2>2, <2>7
    <3>2. (want - 1) % DepthMod = want - 1 /\ want - 1 \in Nat
      BY <1>1, <1>6, <3>1
    <3>3. /\ v = [found |-> Append(s, l), want |-> want - 1, ended |-> FALSE]
          /\ u = [found |-> Append(s, l), want |-> want - 1, ended |-> FALSE]
      <4>1. (stops /\ want = 0) = FALSE /\ (FALSE /\ want = 0) = FALSE
        BY <3>1
      <4> QED BY <2>1, <3>2, <4>1
    <3>4. ASSUME NEW m \in l .. i PROVE D(m) > want - 1
      <4>1. CASE m = l
        BY <1>6, <2>2, <4>1
      <4>2. CASE m # l
        <5>1. D(m) > want /\ D(m) \in Nat
          <6>1. m \in i - k .. i /\ m \in Unit!Idxs
            BY <1>1, <1>2, <1>13, <4>2
          <6> QED BY <1>3, <1>6, <6>1
        <5> QED BY <1>6, <5>1
      <4> QED BY <4>1, <4>2
    <3>5. \E m \in l .. i : D(m) = want - 1 + 1
      <4>1. l \in l .. i /\ D(l) = want - 1 + 1
        BY <1>1, <1>2, <1>6, <2>2
      <4> QED BY <4>1
    <3>6. v.want = want - 1 /\ v = [found |-> v.found, want |-> v.want, ended |-> FALSE]
      BY <3>3
    <3>7. WalkGoing(i, k + 1, v)
      BY <1>15, <2>6, <3>2, <3>4, <3>5, <3>6 DEF WalkGoing, D
    <3> QED BY <3>3, <3>7
  <2> QED BY <2>4, <2>6, <2>7 DEF v, u
<1> QED
  BY <1>16, <1>17

LEMMA LastStep ==
    ASSUME NEW i \in Nat \ {0}, i - 1 \in Nat \ {0}
    PROVE  \E z \in Nat : z < i - 1 /\ z + 1 = i - 1 /\ i - (z + 1) = 1
<1>1. PICK z \in Nat : z = i - 2
  OBVIOUS
<1>2. z < i - 1 /\ z + 1 = i - 1
  BY <1>1
<1>3. PICK y \in Nat : y = i - 1
  OBVIOUS
<1>4. i - y = 1
  BY <1>3
<1>5. i - (z + 1) = 1
  BY <1>2, <1>3, <1>4
<1> QED
  BY <1>2, <1>5

LEMMA WalkFinds ==
    ASSUME Listed, Unit!WellFormed, NEW i \in Unit!Idxs, i # 1
    PROVE  /\ Unit!Walk(i, TRUE) = Unit!Walk(i, FALSE)
           /\ Unit!Walk(i, TRUE) \in Seq(1 .. i - 1) /\ Descending(Unit!Walk(i, TRUE))
           /\ \A j \in 1 .. i - 1 :
                Within(j, i) <=> \E n \in 1 .. Len(Unit!Walk(i, TRUE)) : Unit!Walk(i, TRUE)[n] = j
<1>0. i \in Nat \ {0} /\ i - 1 \in Nat \ {0} /\ entries[i].Depth \in Nat \ {0}
  BY LevelFacts
<1>1. PICK f : /\ f = [k \in 0 .. i - 1 |-> WalkAt(i, TRUE, f, k)]
               /\ Unit!Walk(i, TRUE) = f[i - 1].found
  BY <1>0, WalkUnfolds
<1>2. PICK g : /\ g = [k \in 0 .. i - 1 |-> WalkAt(i, FALSE, g, k)]
               /\ Unit!Walk(i, FALSE) = g[i - 1].found
  BY <1>0, WalkUnfolds
<1> DEFINE B == {k \in Nat : k < i - 1 => WalkGoing(i, k, f[k]) /\ f[k] = g[k]}
<1>3. 0 \in B
  <2>1. 0 \in 0 .. i - 1
    BY <1>0
  <2> DEFINE w == [found |-> <<>>, want |-> entries[i].Depth - 1, ended |-> FALSE]
  <2>2. f[0] = w /\ g[0] = w
    BY <1>1, <1>2, <2>1 DEF WalkAt
  <2>3. WalkGoing(i, 0, w)
    <3>1. w.found = <<>> /\ w.want = entries[i].Depth - 1 /\ w = [found |-> w.found, want |-> w.want, ended |-> FALSE]
      OBVIOUS
    <3> HIDE DEF w
    <3>2. WalkRight(i, 0, w)
      <4>1. <<>> \in Seq(i - 0 .. i - 1) /\ Len(<<>>) = 0
        OBVIOUS
      <4>2. i - 0 .. i - 1 = {}
        BY <1>0
      <4>3. Descending(<<>>)
        BY <4>1 DEF Descending
      <4> QED BY <3>1, <4>1, <4>2, <4>3 DEF WalkRight
    <3>3. i - 0 .. i = {i}
      BY <1>0
    <3>4. w.want \in Nat /\ entries[i].Depth > w.want /\ entries[i].Depth = w.want + 1
      BY <1>0, <3>1
    <3> QED BY <3>1, <3>2, <3>3, <3>4 DEF WalkGoing
  <2> QED BY <2>2, <2>3
<1>4. ASSUME NEW k \in Nat, k < i - 1, WalkGoing(i, k, f[k]), f[k] = g[k]
      PROVE  /\ WalkRight(i, k + 1, f[k + 1])
             /\ f[k + 1].found = g[k + 1].found
             /\ k + 1 < i - 1 => WalkGoing(i, k + 1, f[k + 1]) /\ f[k + 1] = g[k + 1]
  <2> DEFINE l == i - (k + 1)
             w == f[k]
  <2>1. k + 1 \in 0 .. i - 1 /\ k + 1 # 0 /\ (k + 1) - 1 = k /\ k + 1 < i
    BY <1>0, <1>4
  <2>2. f[k + 1] = Unit!Looked(w, l, TRUE)
    <3>1. f[k + 1] = WalkAt(i, TRUE, f, k + 1)
      BY <1>1, <2>1
    <3> QED BY <2>1, <3>1 DEF WalkAt
  <2>3. g[k + 1] = Unit!Looked(w, l, FALSE)
    <3>1. g[k + 1] = WalkAt(i, FALSE, g, k + 1)
      BY <1>2, <2>1
    <3>2. g[(k + 1) - 1] = w
      BY <1>4, <2>1
    <3> QED BY <2>1, <3>1, <3>2 DEF WalkAt
  <2>4. l = i - (k + 1) /\ (k + 1 < i - 1 => l # 1)
    BY <1>0, <1>4
  <2>5. WalkGoing(i, k, w)
    BY <1>4
  <2> HIDE DEF l, w
  <2>6. /\ WalkRight(i, k + 1, Unit!Looked(w, l, TRUE))
        /\ l # 1 => WalkGoing(i, k + 1, Unit!Looked(w, l, TRUE))
        /\ Unit!Looked(w, l, TRUE).found = Unit!Looked(w, l, FALSE).found
        /\ l # 1 => Unit!Looked(w, l, TRUE) = Unit!Looked(w, l, FALSE)
    <3>1. l = i - (k + 1) /\ TRUE \in BOOLEAN
      BY <2>4
    <3> QED BY <2>1, <2>5, <3>1, WalkStep
  <2> QED BY <2>2, <2>3, <2>4, <2>6
<1>5. \A k \in Nat : k \in B => k + 1 \in B
  <2>1. ASSUME NEW k \in Nat, k \in B, k + 1 < i - 1 PROVE WalkGoing(i, k + 1, f[k + 1]) /\ f[k + 1] = g[k + 1]
    <3>1. k < i - 1
      BY <1>0, <2>1
    <3> QED BY <1>4, <2>1, <3>1
  <2> QED BY <2>1
<1> HIDE DEF B
<1>6. \A k \in Nat : k \in B
  BY <1>3, <1>5, Induction
<1>a. i \in Nat \ {0} /\ i - 1 \in Nat \ {0}
  BY <1>0
<1>7. PICK z \in Nat : z < i - 1 /\ z + 1 = i - 1 /\ i - (z + 1) = 1
  BY <1>a, LastStep
<1>8. WalkGoing(i, z, f[z]) /\ f[z] = g[z]
  BY <1>6, <1>7 DEF B
<1>9. WalkRight(i, z + 1, f[z + 1]) /\ f[z + 1].found = g[z + 1].found
  BY <1>4, <1>7, <1>8
<1>10. f[z + 1].found = Unit!Walk(i, TRUE) /\ g[z + 1].found = Unit!Walk(i, FALSE)
  BY <1>1, <1>2, <1>7
<1> DEFINE s == f[z + 1].found
<1>11. /\ s \in Seq(i - (z + 1) .. i - 1) /\ Descending(s)
       /\ \A j \in i - (z + 1) .. i - 1 : Within(j, i) <=> \E n \in 1 .. Len(s) : s[n] = j
  BY <1>9 DEF WalkRight
<1> HIDE DEF s
<1>12. /\ s \in Seq(1 .. i - 1) /\ Descending(s)
       /\ \A j \in 1 .. i - 1 : Within(j, i) <=> \E n \in 1 .. Len(s) : s[n] = j
  BY <1>7, <1>11
<1>13. s = Unit!Walk(i, TRUE) /\ Unit!Walk(i, TRUE) = Unit!Walk(i, FALSE)
  BY Zenon, <1>9, <1>10 DEF s
<1> QED
  BY Zenon, <1>12, <1>13

LEMMA UnitParents ==
    ASSUME Listed
    PROVE  Unit!ParentsEnclose
<1>1. SUFFICES ASSUME Unit!WellFormed, NEW i \in Unit!Idxs
               PROVE  /\ Unit!ToSet(Unit!getParentsIdxs(i)) = Unit!Enclosing(i)
                      /\ Unit!Ascending(Unit!Reverse(Unit!getParentsIdxs(i)))
                      /\ Unit!getParents(i) = Unit!getParentsIdxs(i)
  BY DEF Unit!ParentsEnclose
<1>2. /\ entries[i].Depth \in Nat /\ (entries[i].Depth = 0 <=> i = 1)
      /\ i \in Nat \ {0} /\ Unit!Idxs = 1 .. Len(entries) /\ Len(entries) \in Nat
  BY <1>1, LevelFacts
<1> DEFINE p == Unit!getParentsIdxs(i)
<1>3. /\ p \in Seq(1 .. i - 1) /\ Descending(p) /\ Unit!getParents(i) = p
      /\ \A j \in 1 .. i - 1 : Within(j, i) <=> \E n \in 1 .. Len(p) : p[n] = j
  <2>1. CASE i = 1
    <3>0. ~(entries[i].Depth > 0)
      BY <1>2, <2>1
    <3>1. p = <<>> /\ Unit!getParents(i) = <<>>
      BY <3>0, Zenon DEF Unit!getParentsIdxs, Unit!getParents
    <3>2. <<>> \in Seq(1 .. i - 1) /\ Len(<<>>) = 0 /\ 1 .. i - 1 = {}
      BY <1>2, <2>1
    <3>3. Descending(<<>>)
      BY <3>2 DEF Descending
    <3> HIDE DEF p
    <3> QED BY <3>1, <3>2, <3>3
  <2>2. CASE i # 1
    <3>0. entries[i].Depth > 0
      BY <1>2, <2>2
    <3>1. p = Unit!Walk(i, TRUE) /\ Unit!getParents(i) = Unit!Walk(i, FALSE)
      BY <3>0, Zenon DEF Unit!getParentsIdxs, Unit!getParents
    <3>2. /\ Unit!Walk(i, TRUE) = Unit!Walk(i, FALSE)
          /\ Unit!Walk(i, TRUE) \in Seq(1 .. i - 1) /\ Descending(Unit!Walk(i, TRUE))
          /\ \A j \in 1 .. i - 1 :
                Within(j, i) <=> \E n \in 1 .. Len(Unit!Walk(i, TRUE)) : Unit!Walk(i, TRUE)[n] = j
      BY <1>1, <2>2, WalkFinds, Zenon
    <3> HIDE DEF p
    <3> QED BY <3>1, <3>2, Zenon
  <2> QED BY <2>1, <2>2
<1> HIDE DEF p
<1>4. Len(p) \in Nat /\ DOMAIN p = 1 .. Len(p) /\ \A n \in 1 .. Len(p) : p[n] \in 1 .. i - 1
  <2>1. p \in Seq(1 .. i - 1)
    BY <1>3
  <2> QED BY <2>1, LenProperties, ElementOfSeq
<1>5. Unit!ToSet(p) = Unit!Enclosing(i)
  <2>1. Unit!ToSet(p) = {p[n] : n \in 1 .. Len(p)}
    BY <1>4 DEF Unit!ToSet
  <2>2. Unit!Enclosing(i) = {j \in Unit!Idxs : Within(j, i)}
    BY <1>1, EnclosedIs
  <2>3. ASSUME NEW j \in Unit!Idxs, Within(j, i) PROVE j \in 1 .. i - 1
    BY <1>2, <2>3 DEF Within
  <2>4. 1 .. i - 1 \subseteq Unit!Idxs
    BY <1>1, <1>2
  <2>5. ASSUME NEW j \in Unit!ToSet(p) PROVE j \in Unit!Enclosing(i)
    BY <1>3, <1>4, <2>1, <2>2, <2>4
  <2>6. ASSUME NEW j \in Unit!Enclosing(i) PROVE j \in Unit!ToSet(p)
    BY <1>3, <2>1, <2>2, <2>3
  <2> QED BY <2>5, <2>6
<1>6. Unit!Ascending(Unit!Reverse(p))
  <2> DEFINE n == Len(p)
             r == Unit!Reverse(p)
  <2>1. r = [k \in 1 .. n |-> p[(n - k) + 1]]
    BY DEF Unit!Reverse
  <2>2. Len(r) = n
    <3>1. \A k \in 1 .. n : p[(n - k) + 1] \in 1 .. i - 1
      <4>1. \A k \in 1 .. n : (n - k) + 1 \in 1 .. n
        BY <1>4
      <4> QED BY <1>4, <4>1
    <3>2. r \in [1 .. n -> 1 .. i - 1]
      BY <2>1, <3>1
    <3>3. n \in Nat
      BY <1>4
    <3> HIDE DEF r, n
    <3>4. r \in Seq(1 .. i - 1) /\ DOMAIN r = 1 .. n
      BY <3>2, <3>3, SeqDef
    <3> QED BY <3>3, <3>4, LenProperties
  <2> HIDE DEF r
  <2>3. ASSUME NEW k \in 1 .. n - 1 PROVE r[k] < r[k + 1]
    <3> DEFINE m == n - k
    <3>1. m \in 1 .. n - 1 /\ k \in 1 .. n /\ k + 1 \in 1 .. n /\ (n - k) + 1 = m + 1 /\ (n - (k + 1)) + 1 = m
          /\ m \in 1 .. n /\ m + 1 \in 1 .. n
      BY <1>4
    <3> HIDE DEF m, n
    <3>2. r[k] = p[m + 1] /\ r[k + 1] = p[m]
      BY <2>1, <3>1
    <3>3. p[m] > p[m + 1] /\ p[m] \in 1 .. i - 1 /\ p[m + 1] \in 1 .. i - 1
      BY <1>3, <1>4, <3>1 DEF Descending, n
    <3> QED BY <3>2, <3>3
  <2> QED BY <2>2, <2>3 DEF Unit!Ascending, r
<1> QED
  BY <1>3, <1>5, <1>6 DEF p

-------------------------------------------------------------------------------
(* Where a place of the joined sequences comes from. *)
LEMMA Located ==
    ASSUME NEW S, NEW ss \in Seq(Seq(S)), NEW p \in 1 .. Len(Join(ss))
    PROVE  \E n \in 1 .. Len(ss) : \E j \in 1 .. Len(ss[n]) :
              p = Off(ss, n - 1) + j /\ Join(ss)[p] = ss[n][j]
<1>1. Joined(S, ss)
  BY JoinFacts
<1>0. Len(ss) \in Nat /\ \A n \in 1 .. Len(ss) : Len(ss[n]) \in Nat
  <2>1. Len(ss) \in Nat /\ \A n \in 1 .. Len(ss) : ss[n] \in Seq(S)
    OBVIOUS
  <2> QED BY <2>1
<1>2. /\ Off(ss, 0) = 0 /\ Len(Join(ss)) = Off(ss, Len(ss))
      /\ \A n \in 0 .. Len(ss) : Off(ss, n) \in Nat
      /\ \A n \in 1 .. Len(ss) : Off(ss, n) = Off(ss, n - 1) + Len(ss[n])
      /\ \A n \in 1 .. Len(ss) : \A j \in 1 .. Len(ss[n]) :
            Join(ss)[Off(ss, n - 1) + j] = ss[n][j]
  BY <1>1 DEF Joined
<1> DEFINE T == {n \in 1 .. Len(ss) : p <= Off(ss, n)}
<1>3. p \in Nat \ {0} /\ p <= Off(ss, Len(ss))
  <2>1. Len(ss) \in 0 .. Len(ss)
    BY <1>0
  <2> QED BY <1>2, <2>1
<1>4. Len(ss) \in T
  <2>1. Len(ss) # 0
    BY <1>2, <1>3
  <2> QED BY <1>0, <1>3, <2>1
<1>5. T \subseteq Nat
  BY <1>0
<1>6. PICK n \in T : \A m \in T : n <= m
  BY <1>4, <1>5, LeastNatural
<1>7. n \in 1 .. Len(ss) /\ p <= Off(ss, n) /\ n - 1 \in 0 .. Len(ss) /\ n - 1 \notin T
  BY <1>0, <1>6
<1>8. Off(ss, n - 1) < p /\ Off(ss, n - 1) \in Nat
  <2>1. CASE n - 1 = 0
    BY <1>2, <1>3, <2>1
  <2>2. CASE n - 1 # 0
    <3>1. n - 1 \in 1 .. Len(ss)
      BY <1>0, <1>7, <2>2
    <3>2. ~(p <= Off(ss, n - 1)) /\ Off(ss, n - 1) \in Nat
      BY <1>2, <1>7, <3>1
    <3> QED BY <1>3, <3>2
  <2> QED BY <2>1, <2>2
<1> DEFINE o == Off(ss, n - 1)
           j == p - o
<1>9. Off(ss, n) = o + Len(ss[n]) /\ Len(ss[n]) \in Nat
  BY <1>0, <1>2, <1>7
<1> HIDE DEF o
<1>10. j \in 1 .. Len(ss[n]) /\ p = o + j
  BY <1>3, <1>7, <1>8, <1>9 DEF o
<1> HIDE DEF j
<1>11. Join(ss)[o + j] = ss[n][j]
  BY <1>2, <1>7, <1>10 DEF o
<1> QED
  BY <1>7, <1>10, <1>11 DEF o

(* Ascending sequences, each before the next, join to an ascending one. *)
LEMMA JoinAscends ==
    ASSUME NEW ss \in Seq(Seq(Nat)), \A n \in 1 .. Len(ss) : Unit!Ascending(ss[n]),
           \A n, m \in 1 .. Len(ss) : n < m =>
                \A j \in 1 .. Len(ss[n]), k \in 1 .. Len(ss[m]) : ss[n][j] < ss[m][k]
    PROVE  Unit!Ascending(Join(ss))
<1>1. Joined(Nat, ss)
  BY JoinFacts
<1>0. Len(ss) \in Nat /\ \A n \in 1 .. Len(ss) : Len(ss[n]) \in Nat
  <2>1. Len(ss) \in Nat /\ \A n \in 1 .. Len(ss) : ss[n] \in Seq(Nat)
    OBVIOUS
  <2> QED BY <2>1
<1>2. /\ Join(ss) \in Seq(Nat)
      /\ \A n, m \in 0 .. Len(ss) : n <= m => Off(ss, n) <= Off(ss, m)
      /\ \A n \in 0 .. Len(ss) : Off(ss, n) \in Nat
      /\ \A n \in 1 .. Len(ss) : Off(ss, n) = Off(ss, n - 1) + Len(ss[n])
      /\ \A n \in 1 .. Len(ss) : \A j \in 1 .. Len(ss[n]) :
            Join(ss)[Off(ss, n - 1) + j] = ss[n][j]
  BY <1>1 DEF Joined
<1>3. Len(Join(ss)) \in Nat
  BY <1>2
<1>4. ASSUME NEW p \in 1 .. Len(Join(ss)) - 1 PROVE Join(ss)[p] < Join(ss)[p + 1]
  <2>1. p \in 1 .. Len(Join(ss)) /\ p + 1 \in 1 .. Len(Join(ss))
    BY <1>3
  <2>2. PICK n \in 1 .. Len(ss) : \E j \in 1 .. Len(ss[n]) :
           p = Off(ss, n - 1) + j /\ Join(ss)[p] = ss[n][j]
    BY <2>1, Located
  <2>a. PICK j \in 1 .. Len(ss[n]) : p = Off(ss, n - 1) + j /\ Join(ss)[p] = ss[n][j]
    BY <2>2
  <2>3. \E m \in 1 .. Len(ss) : \E k \in 1 .. Len(ss[m]) :
           p + 1 = Off(ss, m - 1) + k /\ Join(ss)[p + 1] = ss[m][k]
    <3> DEFINE q == p + 1
    <3>1. q \in 1 .. Len(Join(ss))
      BY <2>1
    <3> HIDE DEF q
    <3>2. \E m \in 1 .. Len(ss) : \E k \in 1 .. Len(ss[m]) :
             q = Off(ss, m - 1) + k /\ Join(ss)[q] = ss[m][k]
      BY <3>1, Located
    <3> QED BY <3>2 DEF q
  <2>4. PICK m \in 1 .. Len(ss) : \E k \in 1 .. Len(ss[m]) :
           p + 1 = Off(ss, m - 1) + k /\ Join(ss)[p + 1] = ss[m][k]
    BY <2>3
  <2>b. PICK k \in 1 .. Len(ss[m]) : p + 1 = Off(ss, m - 1) + k /\ Join(ss)[p + 1] = ss[m][k]
    BY <2>4
  <2> DEFINE a == Off(ss, n - 1)
             b == Off(ss, m - 1)
  <2>5. /\ a \in Nat /\ Off(ss, n) = a + Len(ss[n]) /\ Len(ss[n]) \in Nat
        /\ b \in Nat /\ Off(ss, m) = b + Len(ss[m]) /\ Len(ss[m]) \in Nat
        /\ j \in Nat /\ k \in Nat \ {0} /\ j <= Len(ss[n]) /\ k <= Len(ss[m])
        /\ p = a + j /\ p + 1 = b + k
    <3>1. n - 1 \in 0 .. Len(ss) /\ m - 1 \in 0 .. Len(ss)
      BY SMTT(30), <1>0
    <3>2. a \in Nat /\ b \in Nat /\ Off(ss, n) = a + Len(ss[n]) /\ Off(ss, m) = b + Len(ss[m])
      BY <1>2, <3>1
    <3>3. Len(ss[n]) \in Nat /\ Len(ss[m]) \in Nat
      BY <1>0
    <3>4. j \in Nat /\ k \in Nat \ {0} /\ j <= Len(ss[n]) /\ k <= Len(ss[m])
      BY <3>3
    <3>5. p = a + j /\ p + 1 = b + k
      BY <2>a, <2>b
    <3> QED BY <3>2, <3>3, <3>4, <3>5
  <2>6. CASE n = m
    <3>1. k = j + 1 /\ j \in 1 .. Len(ss[n]) - 1
      BY <2>5, <2>6
    <3>2. ss[n][j] < ss[n][j + 1]
      BY <3>1 DEF Unit!Ascending
    <3> QED BY <2>a, <2>b, <2>6, <3>1, <3>2
  <2>7. CASE n < m
    <3>1. ss[n][j] < ss[m][k]
      BY <2>7
    <3> QED BY <2>a, <2>b, <3>1
  <2>8. CASE m < n
    <3>1. m <= n - 1 /\ m \in 0 .. Len(ss) /\ n - 1 \in 0 .. Len(ss)
      BY <1>0, <2>8
    <3>2. Off(ss, m) <= a
      BY <1>2, <3>1
    <3> HIDE DEF a, b
    <3> QED BY <2>5, <3>2
  <2>9. n = m \/ n < m \/ m < n
    BY <1>0
  <2> QED BY <2>6, <2>7, <2>8, <2>9
<1> QED
  BY <1>4 DEF Unit!Ascending

LEMMA JoinIs == ASSUME NEW ss PROVE Unit!FlattenSeq(ss) = Join(ss)
BY DEF Unit!FlattenSeq, Join

LEMMA JoinNone == Join(<<>>) = <<>>
BY DEF Join, Unit!FlattenSeq

(* What is chosen from a walk. *)
Pieces(w, S) == [n \in DOMAIN w |-> IF w[n] \in S THEN <<w[n]>> ELSE <<>>]

LEMMA ChosenIs ==
    ASSUME NEW T, NEW w \in Seq(T), NEW S
    PROVE  /\ Unit!Chosen(w, S) = Join(Pieces(w, S))
           /\ Pieces(w, S) \in Seq(Seq(T)) /\ Len(Pieces(w, S)) = Len(w)
           /\ \A n \in 1 .. Len(w) : Pieces(w, S)[n] = IF w[n] \in S THEN <<w[n]>> ELSE <<>>
           /\ Unit!Chosen(w, S) \in Seq(T)
<1>1. Unit!Chosen(w, S) = Join(Pieces(w, S))
  <2>1. Unit!Chosen(w, S) = Unit!FlattenSeq(Pieces(w, S))
    BY DEF Unit!Chosen, Pieces
  <2> QED BY <2>1, JoinIs
<1> DEFINE ps == Pieces(w, S)
<1>2. DOMAIN w = 1 .. Len(w) /\ Len(w) \in Nat /\ \A n \in 1 .. Len(w) : w[n] \in T
  OBVIOUS
<1>3. ps = [n \in 1 .. Len(w) |-> IF w[n] \in S THEN <<w[n]>> ELSE <<>>]
  BY <1>2 DEF Pieces
<1> HIDE DEF ps
<1>4. ASSUME NEW n \in 1 .. Len(w)
      PROVE  ps[n] = (IF w[n] \in S THEN <<w[n]>> ELSE <<>>) /\ ps[n] \in Seq(T)
  <2>1. ps[n] = IF w[n] \in S THEN <<w[n]>> ELSE <<>>
    BY <1>3
  <2>2. <<w[n]>> \in Seq(T) /\ <<>> \in Seq(T)
    BY <1>2
  <2> QED BY <2>1, <2>2
<1>5. ps \in Seq(Seq(T)) /\ Len(ps) = Len(w)
  <2>1. ps \in [1 .. Len(w) -> Seq(T)]
    BY <1>3, <1>4
  <2>2. ps \in Seq(Seq(T))
    BY <1>2, <2>1, SeqDef
  <2>3. DOMAIN ps = 1 .. Len(w)
    BY <1>3
  <2> QED BY <1>2, <2>2, <2>3, LenProperties
<1>6. Join(ps) \in Seq(T)
  BY <1>5, JoinFacts DEF Joined
<1> QED
  BY <1>1, <1>4, <1>5, <1>6 DEF ps

(* Every chosen one is of the walk and of the set, and an ascending walk stays
   ascending. *)
LEMMA ChosenFacts ==
    ASSUME NEW T, NEW w \in Seq(T), NEW S
    PROVE  /\ \A p \in 1 .. Len(Unit!Chosen(w, S)) :
                /\ Unit!Chosen(w, S)[p] \in S
                /\ \E n \in 1 .. Len(w) : Unit!Chosen(w, S)[p] = w[n]
           /\ (T \subseteq Nat /\ \A n, m \in 1 .. Len(w) : n < m => w[n] < w[m]) =>
                Unit!Ascending(Unit!Chosen(w, S))
<1> DEFINE ps == Pieces(w, S)
           c == Unit!Chosen(w, S)
<1>1. /\ c = Join(ps) /\ ps \in Seq(Seq(T)) /\ Len(ps) = Len(w)
      /\ \A n \in 1 .. Len(w) : ps[n] = IF w[n] \in S THEN <<w[n]>> ELSE <<>>
  BY ChosenIs
<1> HIDE DEF ps, c
<1>2. ASSUME NEW n \in 1 .. Len(w), NEW j \in 1 .. Len(ps[n])
      PROVE  w[n] \in S /\ ps[n] = <<w[n]>> /\ Len(ps[n]) = 1 /\ j = 1 /\ ps[n][j] = w[n]
  <2>1. CASE w[n] \in S
    <3>1. ps[n] = <<w[n]>>
      BY <1>1, <2>1
    <3>2. Len(ps[n]) = 1 /\ ps[n][1] = w[n]
      BY <3>1
    <3> QED BY <2>1, <3>1, <3>2
  <2>2. CASE w[n] \notin S
    <3>1. ps[n] = <<>>
      BY <1>1, <2>2
    <3>2. Len(ps[n]) = 0
      BY <3>1
    <3> QED BY <3>2
  <2> QED BY <2>1, <2>2
<1>3. ASSUME NEW p \in 1 .. Len(c) PROVE c[p] \in S /\ \E n \in 1 .. Len(w) : c[p] = w[n]
  <2>1. p \in 1 .. Len(Join(ps))
    BY <1>1
  <2>2. PICK n \in 1 .. Len(ps) : \E j \in 1 .. Len(ps[n]) :
           p = Off(ps, n - 1) + j /\ Join(ps)[p] = ps[n][j]
    BY <1>1, <2>1, Located
  <2>3. PICK j \in 1 .. Len(ps[n]) : Join(ps)[p] = ps[n][j]
    BY <2>2
  <2>4. n \in 1 .. Len(w) /\ c[p] = ps[n][j]
    BY <1>1, <2>2, <2>3
  <2>5. w[n] \in S /\ ps[n][j] = w[n]
    BY <1>2, <2>3, <2>4
  <2> QED BY <2>4, <2>5
<1>4. ASSUME T \subseteq Nat, \A n, m \in 1 .. Len(w) : n < m => w[n] < w[m]
      PROVE  Unit!Ascending(c)
  <2>1. ps \in Seq(Seq(Nat))
    <3>1. w \in Seq(Nat)
      <4>1. w \in [1 .. Len(w) -> Nat] /\ Len(w) \in Nat
        <5>1. Len(w) \in Nat /\ w = [n \in 1 .. Len(w) |-> w[n]]
          OBVIOUS
        <5>2. \A n \in 1 .. Len(w) : w[n] \in T
          OBVIOUS
        <5> QED BY <1>4, <5>1, <5>2
      <4> QED BY <4>1, SeqDef
    <3> QED BY <3>1, ChosenIs DEF ps
  <2>2. ASSUME NEW n \in 1 .. Len(ps) PROVE Unit!Ascending(ps[n])
    <3>1. ASSUME NEW k \in 1 .. Len(ps[n]) - 1 PROVE FALSE
      <4>1. Len(ps[n]) \in Nat
        BY <2>1
      <4>2. k \in 1 .. Len(ps[n]) /\ k # Len(ps[n])
        BY <4>1
      <4>3. n \in 1 .. Len(w)
        BY <1>1
      <4>4. Len(ps[n]) = 1 /\ k = 1
        BY <1>2, <4>2, <4>3
      <4> QED BY <4>2, <4>4
    <3> QED BY <3>1 DEF Unit!Ascending
  <2>3. ASSUME NEW n \in 1 .. Len(ps), NEW m \in 1 .. Len(ps), n < m,
               NEW j \in 1 .. Len(ps[n]), NEW k \in 1 .. Len(ps[m])
        PROVE  ps[n][j] < ps[m][k]
    <3>1. n \in 1 .. Len(w) /\ m \in 1 .. Len(w)
      BY <1>1
    <3>2. ps[n][j] = w[n] /\ ps[m][k] = w[m]
      BY <1>2, <3>1
    <3> QED BY <1>4, <2>3, <3>1, <3>2
  <2>4. Unit!Ascending(Join(ps))
    BY <2>1, <2>2, <2>3, JoinAscends
  <2> QED BY <1>1, <2>4
<1> QED
  BY <1>3, <1>4 DEF c

(* What lies in a stretch of the entries is chosen from that alone. *)
After(i, e) == [k \in 1 .. e - i |-> i + k]
Firsts(n) == [j \in 1 .. n |-> j]
Inside(S, i, e) == S \subseteq i + 1 .. e
LEMMA ChosenSame ==
    ASSUME NEW i \in Nat, NEW e \in Nat, NEW n \in Nat, i <= e, e <= n, NEW S, Inside(S, i, e)
    PROVE  Unit!Chosen(After(i, e), S) = Unit!Chosen(Firsts(n), S)
<1> DEFINE r == After(i, e)
           w == Firsts(n)
           ps == Pieces(r, S)
           qs == Pieces(w, S)
           U(m) == Upto(qs, m)
           V(k) == Upto(ps, k)
<1>0. S \subseteq i + 1 .. e
  BY DEF Inside
<1>1. r \in Seq(Nat) /\ Len(r) = e - i /\ e - i \in Nat
  <2>1. r \in Seq(i + 1 .. e) /\ Len(r) = e - i
    <3>1. r = [k \in 1 .. e - i |-> i + k]
      BY DEF After
    <3> HIDE DEF r
    <3> QED BY <3>1, RunSet
  <2>2. \A k \in 1 .. e - i : r[k] \in Nat
    BY DEF After
  <2>3. e - i \in Nat
    OBVIOUS
  <2>4. r \in [1 .. e - i -> Nat]
    BY <2>2 DEF After
  <2> QED BY <2>1, <2>3, <2>4, SeqDef
<1>2. w \in Seq(Nat) /\ Len(w) = n
  <2>1. w \in [1 .. n -> Nat] /\ DOMAIN w = 1 .. n
    BY DEF Firsts
  <2>2. w \in Seq(Nat)
    BY <2>1, SeqDef
  <2> QED BY <2>1, <2>2, LenProperties
<1>3. (\A k \in 1 .. e - i : r[k] = i + k) /\ \A j \in 1 .. n : w[j] = j
  BY DEF After, Firsts
<1> HIDE DEF r, w
<1>4. /\ Unit!Chosen(r, S) = Join(ps) /\ ps \in Seq(Seq(Nat)) /\ Len(ps) = e - i
      /\ \A k \in 1 .. e - i : ps[k] = IF r[k] \in S THEN <<r[k]>> ELSE <<>>
  <2>1. /\ Unit!Chosen(r, S) = Join(Pieces(r, S))
        /\ Pieces(r, S) \in Seq(Seq(Nat)) /\ Len(Pieces(r, S)) = Len(r)
        /\ \A x \in 1 .. Len(r) : Pieces(r, S)[x] = IF r[x] \in S THEN <<r[x]>> ELSE <<>>
    <3>1. r \in Seq(Nat)
      BY <1>1
    <3> QED BY ONLY <3>1, ChosenIs
  <2> QED BY <1>1, <2>1
<1>5. /\ Unit!Chosen(w, S) = Join(qs) /\ qs \in Seq(Seq(Nat)) /\ Len(qs) = n
      /\ \A j \in 1 .. n : qs[j] = IF w[j] \in S THEN <<w[j]>> ELSE <<>>
  <2>1. /\ Unit!Chosen(w, S) = Join(Pieces(w, S))
        /\ Pieces(w, S) \in Seq(Seq(Nat)) /\ Len(Pieces(w, S)) = Len(w)
        /\ \A x \in 1 .. Len(w) : Pieces(w, S)[x] = IF w[x] \in S THEN <<w[x]>> ELSE <<>>
    <3>1. w \in Seq(Nat)
      BY <1>2
    <3> QED BY ONLY <3>1, ChosenIs
  <2> QED BY <1>2, <2>1
<1> HIDE DEF ps, qs
<1>6. \A k \in 1 .. e - i : ps[k] = qs[i + k]
  <2>1. ASSUME NEW k \in 1 .. e - i PROVE i + k \in 1 .. n
    OBVIOUS
  <2> HIDE DEF ps, qs
  <2> QED BY ONLY <1>3, <1>4, <1>5, <2>1
<1>7. \A j \in 1 .. n : j \notin i + 1 .. e => qs[j] = <<>>
  BY <1>0, <1>3, <1>5
<1>8. /\ U(0) = <<>> /\ \A m \in 1 .. n : U(m) = U(m - 1) \o qs[m]
      /\ \A m \in 0 .. n : U(m) \in Seq(Nat)
  <2>0. Joined(Nat, qs)
    BY <1>5, JoinFacts
  <2>1. \A m \in 0 .. n : U(m) \in Seq(Nat)
    BY <1>5, <2>0 DEF Joined
  <2>2. U(0) = <<>>
    <3>1. SubSeq(qs, 1, 0) = <<>>
      BY SubSeqEmpty
    <3>2. U(0) = Join(<<>>)
      BY <3>1 DEF Upto
    <3> QED BY <3>2, JoinNone
  <2>3. ASSUME NEW m \in 1 .. n PROVE U(m) = U(m - 1) \o qs[m]
    <3>1. Len(qs) \in Nat /\ m \in 1 .. Len(qs) /\ \A x \in 1 .. Len(qs) : qs[x] \in Seq(Nat)
      BY <1>5
    <3> QED BY <3>1, JoinGrows
  <2> QED BY <2>1, <2>2, <2>3
<1>9. /\ V(0) = <<>> /\ \A k \in 1 .. e - i : V(k) = V(k - 1) \o ps[k]
      /\ \A k \in 0 .. e - i : V(k) \in Seq(Nat)
  <2>0. Joined(Nat, ps)
    BY <1>4, JoinFacts
  <2>1. \A m \in 0 .. e - i : V(m) \in Seq(Nat)
    BY <1>4, <2>0 DEF Joined
  <2>2. V(0) = <<>>
    <3>1. SubSeq(ps, 1, 0) = <<>>
      BY SubSeqEmpty
    <3>2. V(0) = Join(<<>>)
      BY <3>1 DEF Upto
    <3> QED BY <3>2, JoinNone
  <2>3. ASSUME NEW m \in 1 .. e - i PROVE V(m) = V(m - 1) \o ps[m]
    <3>1. Len(ps) \in Nat /\ m \in 1 .. Len(ps) /\ \A x \in 1 .. Len(ps) : ps[x] \in Seq(Nat)
      BY <1>1, <1>4
    <3> QED BY <3>1, JoinGrows
  <2> QED BY <2>1, <2>2, <2>3
<1>10. U(n) = Join(qs) /\ V(e - i) = Join(ps)
  <2>1. SubSeq(qs, 1, Len(qs)) = qs /\ SubSeq(ps, 1, Len(ps)) = ps
    BY <1>4, <1>5, SubSeqFull
  <2> QED BY <1>4, <1>5, <2>1 DEF Upto
<1> HIDE DEF U, V
<1> DEFINE Now(m) == IF m <= i THEN <<>> ELSE IF m <= e THEN V(m - i) ELSE V(e - i)
           B == {m \in Nat : m <= n => U(m) = Now(m)}
<1>11. 0 \in B
  BY <1>8
<1>12. ASSUME NEW m \in Nat, m + 1 <= n, U(m) = Now(m) PROVE U(m + 1) = Now(m + 1)
  <2>1. m + 1 \in 1 .. n /\ m \in 0 .. n /\ (m + 1) - 1 = m
    BY <1>12
  <2>2. U(m + 1) = U(m) \o qs[m + 1] /\ U(m) \in Seq(Nat)
    BY <1>8, <2>1
  <2>3. CASE m + 1 <= i
    <3>1. qs[m + 1] = <<>> /\ U(m) = <<>>
      <4>1. m <= i /\ m + 1 \notin i + 1 .. e
        BY <2>3
      <4> QED BY <1>7, <1>12, <2>1, <4>1
    <3>2. <<>> \o <<>> = <<>>
      OBVIOUS
    <3> QED BY <2>2, <2>3, <3>1, <3>2
  <2>4. CASE i < m + 1 /\ m + 1 <= e
    <3> DEFINE k == m - i
    <3>1. k \in Nat /\ k + 1 \in 1 .. e - i /\ (k + 1) - 1 = k /\ i + (k + 1) = m + 1 /\ m + 1 - i = k + 1
      BY <2>4
    <3>2. U(m) = V(k)
      <4>1. CASE m = i
        <5>1. k = 0 /\ m <= i
          BY <4>1
        <5> QED BY <1>9, <1>12, <5>1
      <4>2. CASE m # i
        <5>1. ~(m <= i) /\ m <= e
          BY <2>4, <4>2
        <5> QED BY <1>12, <5>1
      <4> QED BY <4>1, <4>2
    <3> HIDE DEF k
    <3>3. V(k + 1) = V(k) \o ps[k + 1] /\ ps[k + 1] = qs[m + 1]
      <4>1. V(k + 1) = V((k + 1) - 1) \o ps[k + 1]
        BY <1>9, <3>1
      <4>2. ps[k + 1] = qs[i + (k + 1)]
        BY <1>6, <3>1
      <4> QED BY <3>1, <4>1, <4>2
    <3>4. Now(m + 1) = V(k + 1)
      <4>1. ~(m + 1 <= i)
        BY <2>4
      <4> QED BY <2>4, <3>1, <4>1
    <3> QED BY <2>2, <3>2, <3>3, <3>4
  <2>5. CASE e < m + 1
    <3>1. qs[m + 1] = <<>> /\ ~(m + 1 <= i) /\ ~(m + 1 <= e)
      <4>1. m + 1 \notin i + 1 .. e
        BY <2>5
      <4> QED BY <1>7, <2>1, <2>5, <4>1
    <3>2. U(m) \o <<>> = U(m)
      BY <2>2, ConcatEmptySeq
    <3>3. U(m) = V(e - i)
      <4>1. CASE m <= i
        <5>1. e - i = 0
          BY <2>5, <4>1
        <5> QED BY <1>9, <1>12, <4>1, <5>1
      <4>2. CASE ~(m <= i) /\ m <= e
        <5>1. m - i = e - i
          BY <2>5, <4>2
        <5> QED BY <1>12, <4>2, <5>1
      <4>3. CASE ~(m <= i) /\ ~(m <= e)
        BY <1>12, <4>3
      <4> QED BY <4>1, <4>2, <4>3
    <3> QED BY <2>2, <3>1, <3>2, <3>3
  <2> QED BY <2>3, <2>4, <2>5
<1> HIDE DEF Now
<1>13. \A m \in Nat : m \in B => m + 1 \in B
  <2>1. ASSUME NEW m \in Nat, m \in B, m + 1 <= n PROVE U(m + 1) = Now(m + 1)
    <3>1. m <= n
      BY <2>1
    <3> QED BY <1>12, <2>1, <3>1
  <2> QED BY <2>1
<1> HIDE DEF B
<1>14. \A m \in Nat : m \in B
  BY <1>11, <1>13, Induction
<1>15. U(n) = Now(n)
  BY <1>14 DEF B
<1>16. Now(n) = V(e - i)
  <2>1. CASE n <= i
    <3>1. e - i = 0
      BY <2>1
    <3> QED BY <1>9, <2>1, <3>1 DEF Now
  <2>2. CASE ~(n <= i) /\ n <= e
    <3>1. n - i = e - i
      BY <2>2
    <3> QED BY <2>2, <3>1 DEF Now
  <2>3. CASE ~(n <= i) /\ ~(n <= e)
    BY <2>3 DEF Now
  <2> QED BY <2>1, <2>2, <2>3
<1> QED
  BY <1>4, <1>5, <1>10, <1>15, <1>16 DEF r, w

-------------------------------------------------------------------------------
(* What was read of an entry says the same as its producer. *)
LEMMA SeqWider ==
    ASSUME NEW S, NEW T, S \subseteq T, NEW s \in Seq(S)
    PROVE  s \in Seq(T)
<1>1. Len(s) \in Nat /\ s = [n \in 1 .. Len(s) |-> s[n]] /\ \A n \in 1 .. Len(s) : s[n] \in S
  OBVIOUS
<1>2. s \in [1 .. Len(s) -> T]
  BY <1>1
<1> QED
  BY <1>1, <1>2, SeqDef

LEMMA RangeIsMeant ==
    ASSUME Listed, m_base_address = RootBase, pos >= 1, Unit!Items[1].kind = "entry", Unit!Placed,
           NEW es, NEW j \in Unit!Idxs, es[j].extracted = TRUE, NEW a \in Nat,
           Unit!getTag(j) \in {"subprogram", "inlined_subroutine"}
    PROVE  Unit!isInRange(es, j, a) <=> Unit!Meant(j, a)
<1> DEFINE item == Unit!ItemOf(j)
           root == Unit!Items[1]
           base == Unit!BaseOfUnit(root)
           v == unit.version
<1>1. /\ entries[j].Offset \in 1 .. Len(Unit!Items) /\ item.kind = "entry"
      /\ 1 \in 1 .. Len(Unit!Items)
  <2>1. /\ entries[j].Offset \in 1 .. pos /\ pos \in 0 .. Len(Unit!Items) /\ item.kind = "entry"
        /\ Len(Unit!Items) \in 0 .. DepthMod - 1 /\ DepthMod \in Nat
    BY UnitTypes DEF Unit!ItemOf
  <2> HIDE DEF item
  <2> QED BY <2>1
<1>2. unit \in Contents /\ INVALID \notin Nat
  BY CompileUnitAssumption DEF Listed, Unit!CompileUnitAssumption
<1>3. \A i \in 1 .. Len(Unit!Items) : Unit!Items[i].kind = "entry" =>
         /\ Unit!ItemOK(Unit!Items[i])
         /\ Unit!Items[i].tag \in {"subprogram", "inlined_subroutine"} /\ Unit!Items[1].kind = "entry" =>
               Unit!Items[i].pcs = Unit!Covered(v, root, Unit!Items[i])
  BY <1>2, CompileUnitAssumption DEF Unit!CompileUnitAssumption, Unit!Items
<1>4. /\ Unit!ItemOK(item) /\ Unit!ItemOK(root)
      /\ item.pcs = Unit!Covered(v, root, item)
  <2>1. item = Unit!Items[entries[j].Offset] /\ item.tag = Unit!getTag(j)
    BY DEF Unit!ItemOf, Unit!getTag
  <2> HIDE DEF item
  <2> QED BY <1>1, <1>3, <2>1
<1>5. v \in Nat
  BY <1>2, CompileUnitAssumption DEF Unit!CompileUnitAssumption
<1>6. m_base_address = base
  BY DEF RootBase, Unit!BaseOfUnit
<1>7. base = IF root.tag = "compile_unit" THEN IF root.low # INVALID THEN root.low ELSE root.entry
             ELSE INVALID
  BY DEF Unit!BaseOfUnit, Unit!BaseOf
<1>8. Unit!Meant(j, a) <=> a \in item.pcs
  BY DEF Unit!Meant
<1>9. Unit!isInRange(es, j, a) <=>
         IF Unit!getHighPC(item) = INVALID \/ item.low = INVALID
         THEN \E r \in item.ranges : Unit!FromBase(r[1]) <= a /\ a < Unit!FromBase(r[2])
         ELSE item.low <= a /\ a < Unit!getHighPC(item)
  BY DEF Unit!isInRange
<1>10. Unit!Covered(v, root, item) =
         IF item.low # INVALID /\ item.high # INVALID
         THEN item.low .. (IF v >= 4 /\ item.highClass = "constant" THEN item.low + item.high
                           ELSE item.high) - 1
         ELSE IF base # INVALID THEN UNION {base + r[1] .. base + r[2] - 1 : r \in item.ranges}
         ELSE {}
  BY DEF Unit!Covered
<1>11. /\ item.low \in Nat \cup {INVALID} /\ item.high \in Nat \cup {INVALID}
       /\ item.highClass \in {"address", "constant"} /\ item.ranges \subseteq Nat \X Nat
       /\ base \in Nat \cup {INVALID}
  BY <1>4, <1>7 DEF Unit!ItemOK, Unit!Attribute
<1> DEFINE end == IF v >= 4 /\ item.highClass = "constant" THEN item.low + item.high ELSE item.high
<1>12. Unit!getHighPC(item) = IF item.high = INVALID \/ v < 4 THEN item.high
         ELSE CASE item.highClass = "constant" ->
                     IF item.low = INVALID THEN INVALID ELSE item.low + item.high
                [] item.highClass = "address" -> item.high
                [] OTHER -> INVALID
  BY DEF Unit!getHighPC
<1>15. \A r \in item.ranges : base # INVALID /\ base + r[1] < AddressMod /\ base + r[2] < AddressMod
  <2>1. item = Unit!Items[entries[j].Offset]
    BY DEF Unit!ItemOf
  <2> HIDE DEF item
  <2> QED BY <1>1, <2>1 DEF Unit!Placed
<1>16. AddressMod \in Nat \ {0}
  BY CompileUnitAssumption DEF Unit!CompileUnitAssumption
<1> HIDE DEF item, root, base, v
<1>17. ASSUME NEW r \in item.ranges
       PROVE  /\ base \in Nat /\ base # INVALID /\ r[1] \in Nat /\ r[2] \in Nat
              /\ Unit!FromBase(r[1]) = base + r[1] /\ Unit!FromBase(r[2]) = base + r[2]
  <2>1. base \in Nat /\ r[1] \in Nat /\ r[2] \in Nat
    BY <1>11, <1>15
  <2>2. base # INVALID /\ base + r[1] \in 0 .. AddressMod - 1 /\ base + r[2] \in 0 .. AddressMod - 1
    BY <1>15, <1>16, <2>1
  <2>3. \A n \in 0 .. AddressMod - 1 : n % AddressMod = n
    BY <1>16
  <2>4. m_base_address # INVALID /\ m_base_address = base
    BY <1>6, <2>2
  <2>5. (base + r[1]) % AddressMod = base + r[1] /\ (base + r[2]) % AddressMod = base + r[2]
    BY <2>2, <2>3
  <2> QED BY <2>1, <2>2, <2>4, <2>5 DEF Unit!FromBase
<1>13. CASE item.low # INVALID /\ item.high # INVALID
  <2>1. item.low \in Nat /\ item.high \in Nat /\ end \in Nat
    BY <1>11, <1>13
  <2>2. Unit!getHighPC(item) = end
    <3>1. CASE v < 4
      <4>1. ~(v >= 4)
        BY <1>5, <3>1
      <4> QED BY <1>12, <3>1, <4>1
    <3>2. CASE ~(v < 4)
      <4>1. v >= 4
        BY <1>5, <3>2
      <4>2. CASE item.highClass = "constant"
        BY <1>12, <1>13, <3>2, <4>1, <4>2
      <4>3. CASE item.highClass = "address"
        BY <1>12, <1>13, <3>2, <4>1, <4>3
      <4> QED BY <1>11, <4>2, <4>3
    <3> QED BY <3>1, <3>2
  <2>3. end # INVALID
    BY <1>2, <2>1
  <2>4. item.pcs = item.low .. end - 1
    BY <1>4, <1>10, <1>13
  <2> HIDE DEF end
  <2>5. Unit!isInRange(es, j, a) <=> item.low <= a /\ a < end
    BY <1>9, <1>13, <2>2, <2>3
  <2> QED BY <1>8, <2>1, <2>4, <2>5
<1>14. CASE ~(item.low # INVALID /\ item.high # INVALID)
  <2>1. Unit!getHighPC(item) = INVALID \/ item.low = INVALID
    BY <1>12, <1>14
  <2>2. Unit!isInRange(es, j, a) <=>
           \E r \in item.ranges : Unit!FromBase(r[1]) <= a /\ a < Unit!FromBase(r[2])
    BY <1>9, <2>1
  <2>3. item.pcs = IF base # INVALID THEN UNION {base + r[1] .. base + r[2] - 1 : r \in item.ranges}
                   ELSE {}
    BY <1>4, <1>10, <1>14
  <2>4. a \in item.pcs <=> \E r \in item.ranges : a \in base + r[1] .. base + r[2] - 1
    <3>1. CASE base # INVALID
      BY <2>3, <3>1
    <3>2. CASE base = INVALID
      BY <1>17, <2>3, <3>2
    <3> QED BY <3>1, <3>2
  <2>5. ASSUME NEW r \in item.ranges
        PROVE  a \in base + r[1] .. base + r[2] - 1
                 <=> Unit!FromBase(r[1]) <= a /\ a < Unit!FromBase(r[2])
    BY <1>17
  <2> QED BY <1>8, <2>2, <2>4, <2>5
<1> QED
  BY <1>13, <1>14

(* Reading some entries changes nothing but that they are read. *)
LEMMA ReadFacts ==
    ASSUME Listed, NEW es \in Seq(Unit!Node), Len(es) = Len(entries), NEW I
    PROVE  LET new == Unit!fullExtract(es, I) IN
           /\ new \in Seq(Unit!Node) /\ Len(new) = Len(entries)
           /\ \A i \in Unit!Idxs : /\ new[i].Offset = es[i].Offset /\ new[i].Depth = es[i].Depth
                                   /\ es[i].extracted = TRUE => new[i].extracted = TRUE
                                   /\ i \in I => new[i].extracted = TRUE
<1> DEFINE new == Unit!fullExtract(es, I)
<1>1. /\ Unit!Idxs = 1 .. Len(entries) /\ Len(entries) \in Nat /\ DOMAIN es = 1 .. Len(entries)
      /\ \A i \in Unit!Idxs : es[i] \in Unit!Node
  BY UnitTypes DEF Unit!Idxs
<1>2. new = [i \in Unit!Idxs |-> [es[i] EXCEPT !.extracted = @ \/ i \in I]]
  BY <1>1, Zenon DEF Unit!fullExtract
<1>3. ASSUME NEW i \in Unit!Idxs
      PROVE  /\ new[i] \in Unit!Node /\ new[i].Offset = es[i].Offset /\ new[i].Depth = es[i].Depth
             /\ es[i].extracted = TRUE => new[i].extracted = TRUE
             /\ i \in I => new[i].extracted = TRUE
  <2> DEFINE b == es[i].extracted \/ i \in I
  <2>1. new[i] = [es[i] EXCEPT !.extracted = b]
    BY <1>2, Zenon
  <2>2. b \in BOOLEAN /\ (es[i].extracted = TRUE => b = TRUE) /\ (i \in I => b = TRUE)
    OBVIOUS
  <2> HIDE DEF b, new
  <2>3. es[i] \in Unit!Node
    BY <1>1
  <2>4. /\ new[i] \in Unit!Node /\ new[i].Offset = es[i].Offset /\ new[i].Depth = es[i].Depth
        /\ new[i].extracted = b
    BY <2>1, <2>2, <2>3 DEF Unit!Node
  <2> QED BY <2>2, <2>4
<1>4. new \in [1 .. Len(entries) -> Unit!Node] /\ DOMAIN new = 1 .. Len(entries)
  <2>1. DOMAIN new = 1 .. Len(entries) /\ new = [i \in 1 .. Len(entries) |-> new[i]]
    BY <1>1, <1>2
  <2> HIDE DEF new
  <2> QED BY <1>1, <1>3, <2>1
<1> HIDE DEF new
<1>5. new \in Seq(Unit!Node) /\ Len(new) = Len(entries)
  <2>1. new \in Seq(Unit!Node)
    BY <1>1, <1>4, SeqDef
  <2> QED BY <1>1, <1>4, <2>1, LenProperties
<1> QED
  BY <1>3, <1>5 DEF new

LEMMA AllChildrenTyped ==
    ASSUME Listed, NEW i \in Unit!Idxs
    PROVE  /\ Unit!getAllChildrensIdxs(i) \in Seq(Unit!Idxs)
           /\ Unit!ToSet(Unit!getAllChildrensIdxs(i)) \subseteq Unit!Idxs
<1> DEFINE r == Unit!getAllChildrensIdxs(i)
<1>1. Len(entries) \in Nat /\ Unit!Idxs = 1 .. Len(entries) /\ i \in Nat \ {0}
  BY UnitTypes DEF Unit!Idxs
<1>2. r \in Seq(Unit!Idxs)
  <2>1. CASE entries[i].Depth > 0
    <3> DEFINE D == (entries[i].Depth + 1) % DepthMod .. DepthMod - 1
    <3>1. r = Unit!Run(i, D)
      BY <2>1 DEF Unit!getAllChildrensIdxs
    <3> HIDE DEF D, r
    <3>2. PICK e \in i .. Len(entries) : Unit!Run(i, D) = [k \in 1 .. e - i |-> i + k]
      BY <1>1, RunIs
    <3>3. i \in Nat /\ e \in Nat /\ i <= e
      BY <1>1
    <3>4. r \in Seq(i + 1 .. e)
      BY <3>1, <3>2, <3>3, RunSet
    <3>5. i + 1 .. e \subseteq Unit!Idxs
      BY <1>1, <3>3
    <3> QED BY <3>4, <3>5, SeqWider
  <2>2. CASE ~(entries[i].Depth > 0)
    <3>1. r = <<>>
      BY <2>2 DEF Unit!getAllChildrensIdxs
    <3> QED BY <3>1
  <2> QED BY <2>1, <2>2
<1>3. Unit!ToSet(r) \subseteq Unit!Idxs
  <2> HIDE DEF r
  <2>1. \A k \in DOMAIN r : r[k] \in Unit!Idxs
    BY <1>2
  <2> QED BY <2>1 DEF Unit!ToSet
<1> QED
  BY <1>2, <1>3

LEMMA AnswerIs ==
    ASSUME UnitInv, NEW a \in UnitAddresses, Unit!getDIEIdxsBy(a)
    PROVE  /\ pos = Len(Unit!Items) /\ asked' = a
           /\ unit' = unit /\ pos' = pos /\ depth' = depth /\ m_base_address' = m_base_address
           /\ entries' \in Seq(Unit!Node) /\ Len(entries') = Len(entries)
           /\ \A i \in Unit!Idxs : /\ entries'[i].Offset = entries[i].Offset
                                   /\ entries'[i].Depth = entries[i].Depth
           /\ answer' \in Seq(Unit!Idxs)
           /\ Unit!WellFormed /\ Unit!Placed => answer' = Told(a)
<1> DEFINE read == Unit!fullExtract(entries, Unit!Subprograms)
           hits == {s \in Unit!Subprograms : Unit!isInRange(read, s, a)}
           more == UNION {Unit!Inlined(s) : s \in hits}
           later == Unit!fullExtract(read, more)
           Chain(s) == {j \in Unit!Inlined(s) : Unit!isInRange(later, j, a)}
           Found(s) == <<s>> \o Unit!Chosen(Unit!getAllChildrensIdxs(s), Chain(s))
           Row(i) == IF i \in hits THEN Found(i) ELSE <<>>
<1>1. /\ pos = Len(Unit!Items) /\ asked' = a
      /\ unit' = unit /\ pos' = pos /\ depth' = depth /\ m_base_address' = m_base_address
  BY DEF Unit!getDIEIdxsBy
<1>2. entries' = later
  BY Zenon DEF Unit!getDIEIdxsBy
<1>3. answer' = Unit!FlattenSeq([i \in Unit!Idxs |-> Row(i)])
  BY Zenon DEF Unit!getDIEIdxsBy
<1>4. Listed /\ m_base_address = RootBase /\ a \in Nat
  BY CompileUnitAssumption DEF UnitInv, Unit!CompileUnitAssumption
<1>5. Len(entries) \in Nat /\ Unit!Idxs = 1 .. Len(entries) /\ entries \in Seq(Unit!Node)
  BY <1>4, UnitTypes DEF Unit!Idxs, Listed
<1> HIDE DEF more
<1>6. /\ read \in Seq(Unit!Node) /\ Len(read) = Len(entries)
      /\ \A i \in Unit!Idxs : /\ read[i].Offset = entries[i].Offset /\ read[i].Depth = entries[i].Depth
                              /\ i \in Unit!Subprograms => read[i].extracted = TRUE
  BY <1>4, <1>5, ReadFacts
<1> HIDE DEF read
<1>7. /\ later \in Seq(Unit!Node) /\ Len(later) = Len(entries)
      /\ \A i \in Unit!Idxs : /\ later[i].Offset = read[i].Offset /\ later[i].Depth = read[i].Depth
                              /\ i \in more => later[i].extracted = TRUE
  BY <1>4, <1>6, ReadFacts
<1> HIDE DEF later
<1>8. ASSUME NEW i \in Unit!Idxs PROVE Row(i) \in Seq(Unit!Idxs)
  <2>1. <<i>> \in Seq(Unit!Idxs) /\ <<>> \in Seq(Unit!Idxs)
    OBVIOUS
  <2>2. Unit!getAllChildrensIdxs(i) \in Seq(Unit!Idxs)
    BY <1>4, AllChildrenTyped
  <2> HIDE DEF Chain
  <2>3. Unit!Chosen(Unit!getAllChildrensIdxs(i), Chain(i)) \in Seq(Unit!Idxs)
    BY <2>2, ChosenIs
  <2>4. Found(i) \in Seq(Unit!Idxs)
    BY <2>1, <2>3, ConcatProperties
  <2> HIDE DEF Found, hits
  <2> QED BY <2>1, <2>4
<1>9. answer' \in Seq(Unit!Idxs)
  <2> HIDE DEF Row
  <2>1. [i \in Unit!Idxs |-> Row(i)] \in Seq(Seq(Unit!Idxs))
    BY <1>5, <1>8, SeqDef
  <2>2. Join([i \in Unit!Idxs |-> Row(i)]) \in Seq(Unit!Idxs)
    BY <2>1, JoinFacts DEF Joined
  <2> QED BY <1>3, <2>2, JoinIs
<1>10. ASSUME Unit!WellFormed, Unit!Placed, NEW i \in Unit!Idxs PROVE Row(i) = Frames(i, a)
  <2>1. pos >= 1 /\ Unit!Items[1].kind = "entry"
    <3>1. 1 \in Unit!Idxs /\ entries[1].Offset = 1
      BY <1>4, <1>10, RootFacts
    <3>2. entries[1].Offset \in 1 .. pos /\ Unit!Items[entries[1].Offset].kind = "entry" /\ pos \in Nat
      BY <1>4, <3>1, UnitTypes
    <3> QED BY <3>1, <3>2
  <2>2. i \in hits <=> Unit!getTag(i) = "subprogram" /\ Unit!Meant(i, a)
    <3>1. i \in Unit!Subprograms <=> Unit!getTag(i) = "subprogram"
      BY DEF Unit!Subprograms
    <3>2. ASSUME Unit!getTag(i) = "subprogram"
          PROVE  Unit!isInRange(read, i, a) <=> Unit!Meant(i, a)
      <4>1. read[i].extracted = TRUE /\ Unit!getTag(i) \in {"subprogram", "inlined_subroutine"}
        BY <1>6, <3>1, <3>2
      <4> QED BY <1>4, <1>10, <2>1, <4>1, RangeIsMeant
    <3> QED BY <3>1, <3>2
  <2>3. ASSUME i \in hits PROVE Chain(i) = {j \in Unit!Inlined(i) : Unit!Meant(j, a)}
    <3>1. ASSUME NEW j \in Unit!Inlined(i) PROVE Unit!isInRange(later, j, a) <=> Unit!Meant(j, a)
      <4>1. j \in Unit!Idxs /\ Unit!getTag(j) = "inlined_subroutine"
        <5>1. j \in Unit!ToSet(Unit!getAllChildrensIdxs(i)) /\ Unit!getTag(j) = "inlined_subroutine"
          BY <3>1 DEF Unit!Inlined
        <5>2. Unit!ToSet(Unit!getAllChildrensIdxs(i)) \subseteq Unit!Idxs
          BY <1>4, AllChildrenTyped
        <5> QED BY <5>1, <5>2
      <4>2. j \in more
        <5> HIDE DEF hits
        <5> QED BY <2>3, <3>1 DEF more
      <4>3. later[j].extracted = TRUE
        BY <1>7, <4>1, <4>2
      <4>4. Unit!getTag(j) \in {"subprogram", "inlined_subroutine"}
        BY <4>1
      <4> QED BY <1>4, <1>10, <2>1, <4>1, <4>3, <4>4, RangeIsMeant
    <3> QED BY <3>1
  <2> HIDE DEF hits, Chain
  <2>4. CASE i \in hits
    <3>1. Row(i) = <<i>> \o Unit!Chosen(Unit!getAllChildrensIdxs(i), {j \in Unit!Inlined(i) : Unit!Meant(j, a)})
      BY <2>3, <2>4
    <3>2. Unit!getTag(i) = "subprogram" /\ Unit!Meant(i, a)
      BY <2>2, <2>4
    <3> HIDE DEF Row
    <3> QED BY <3>1, <3>2 DEF Frames
  <2>5. CASE i \notin hits
    <3>1. Row(i) = <<>>
      BY <2>5
    <3>2. ~(Unit!getTag(i) = "subprogram" /\ Unit!Meant(i, a))
      BY <2>2, <2>5
    <3> HIDE DEF Row
    <3> QED BY <3>1, <3>2 DEF Frames
  <2> QED BY <2>4, <2>5
<1>11. ASSUME Unit!WellFormed, Unit!Placed PROVE answer' = Told(a)
  <2> HIDE DEF Row
  <2>1. \A i \in Unit!Idxs : Row(i) = Frames(i, a)
    BY <1>10, <1>11
  <2>2. [i \in Unit!Idxs |-> Row(i)] = [i \in Unit!Idxs |-> Frames(i, a)]
    BY <2>1
  <2> QED BY <1>3, <2>2 DEF Told
<1>12. \A i \in Unit!Idxs : /\ entries'[i].Offset = entries[i].Offset
                            /\ entries'[i].Depth = entries[i].Depth
  BY <1>2, <1>6, <1>7
<1> QED
  BY <1>1, <1>2, <1>7, <1>9, <1>11, <1>12

-------------------------------------------------------------------------------
(* A unit that is the same has the same levels. *)
LEMMA SameUnit ==
    ASSUME unit' = unit
    PROVE  /\ Unit!Items' = Unit!Items /\ Unit!Node' = Unit!Node
           /\ \A k : Above(k)' = Above(k)
           /\ \A k : Sound(k)' <=> Sound(k)
           /\ \A j, o : Unit!Encloses(j, o)' <=> Unit!Encloses(j, o)
           /\ Unit!Placed' <=> Unit!Placed
           /\ pos' = pos => (Unit!WellFormed' <=> Unit!WellFormed) /\ RootBase' = RootBase
<1>1. Unit!Items' = Unit!Items
  BY DEF Unit!Items
<1>2. Unit!Node' = Unit!Node
  BY <1>1 DEF Unit!Node
<1>3. Opens' = Opens /\ Closes' = Closes
  BY <1>1 DEF Opens, Closes, Unit!hasChild
<1>4. ASSUME NEW k PROVE Above(k)' = Above(k)
  BY <1>3 DEF Above, Count
<1>5. ASSUME NEW k PROVE Sound(k)' <=> Sound(k)
  BY <1>4 DEF Sound
<1>6. ASSUME NEW j, NEW o PROVE Unit!Encloses(j, o)' <=> Unit!Encloses(j, o)
  <2>1. ASSUME NEW k, NEW m PROVE Unit!Opened(m, k)' = Unit!Opened(m, k) /\ Unit!Closed(m, k)' = Unit!Closed(m, k)
    BY <1>1 DEF Unit!Opened, Unit!Closed, Unit!hasChild
  <2> QED BY <1>1, <2>1 DEF Unit!Encloses, Unit!hasChild
<1>7. ASSUME pos' = pos PROVE (Unit!WellFormed' <=> Unit!WellFormed) /\ RootBase' = RootBase
  <2>1. Unit!WellFormed' <=> Unit!WellFormed
    BY <1>1, <1>6, <1>7 DEF Unit!WellFormed
  <2>2. RootBase' = RootBase
    BY <1>1, <1>7 DEF RootBase, Unit!BaseOf
  <2> QED BY <2>1, <2>2
<1>8. Unit!Placed' <=> Unit!Placed
  BY <1>1 DEF Unit!Placed, Unit!BaseOfUnit, Unit!BaseOf
<1> QED
  BY <1>1, <1>2, <1>4, <1>5, <1>6, <1>7, <1>8

(* Entries at the same items with the same levels give the same answers. *)
LEMMA SameEntries ==
    ASSUME Listed, unit' = unit, Len(entries') = Len(entries),
           \A i \in Unit!Idxs : /\ entries'[i].Offset = entries[i].Offset
                                /\ entries'[i].Depth = entries[i].Depth
    PROVE  /\ Unit!Idxs' = Unit!Idxs
           /\ \A a : Told(a)' = Told(a)
<1>1. Unit!Items' = Unit!Items
  BY SameUnit
<1>2. Unit!Idxs' = Unit!Idxs
  BY DEF Unit!Idxs
<1>3. ASSUME NEW i \in Unit!Idxs
      PROVE  Unit!getTag(i)' = Unit!getTag(i) /\ \A a : Unit!Meant(i, a)' <=> Unit!Meant(i, a)
  BY <1>1 DEF Unit!getTag, Unit!Meant, Unit!ItemOf
<1>4. ASSUME NEW i \in Unit!Idxs, NEW D PROVE Unit!Run(i, D)' = Unit!Run(i, D)
  <2> DEFINE stops == {j \in Unit!Idxs : j > i /\ entries[j].Depth \notin D}
             now == {j \in Unit!Idxs' : j > i /\ entries'[j].Depth \notin D}
  <2>1. now = stops
    BY <1>2
  <2>2. Unit!Run(i, D) = [k \in 1 .. (IF stops = {} THEN Len(entries)
                             ELSE (CHOOSE j \in stops : \A x \in stops : j <= x) - 1) - i |-> i + k]
    BY DEF Unit!Run
  <2>3. Unit!Run(i, D)' = [k \in 1 .. (IF now = {} THEN Len(entries')
                             ELSE (CHOOSE j \in now : \A x \in now : j <= x) - 1) - i |-> i + k]
    BY DEF Unit!Run
  <2> HIDE DEF now, stops
  <2> QED BY <2>1, <2>2, <2>3
<1>5. ASSUME NEW i \in Unit!Idxs
      PROVE  Unit!getAllChildrensIdxs(i)' = Unit!getAllChildrensIdxs(i)
  <2> DEFINE D == (entries[i].Depth + 1) % DepthMod .. DepthMod - 1
  <2>1. Unit!Run(i, D)' = Unit!Run(i, D)
    BY <1>4
  <2> QED BY <2>1 DEF Unit!getAllChildrensIdxs
<1>6. ASSUME NEW i \in Unit!Idxs PROVE Unit!Inlined(i)' = Unit!Inlined(i)
  <2>1. Unit!ToSet(Unit!getAllChildrensIdxs(i)) \subseteq Unit!Idxs
    BY AllChildrenTyped
  <2>2. Unit!getAllChildrensIdxs(i)' = Unit!getAllChildrensIdxs(i)
    BY <1>5
  <2>3. Unit!Inlined(i)' = {j \in Unit!ToSet(Unit!getAllChildrensIdxs(i)') :
                               Unit!getTag(j)' = "inlined_subroutine"}
    BY DEF Unit!Inlined, Unit!ToSet
  <2> QED BY <1>3, <2>1, <2>2, <2>3 DEF Unit!Inlined
<1>7. ASSUME NEW i \in Unit!Idxs, NEW a PROVE Frames(i, a)' = Frames(i, a)
  <2> DEFINE S == {j \in Unit!Inlined(i) : Unit!Meant(j, a)}
             w == Unit!getAllChildrensIdxs(i)
  <2>1. Unit!Inlined(i) \subseteq Unit!Idxs
    <3>1. Unit!ToSet(w) \subseteq Unit!Idxs
      BY AllChildrenTyped
    <3> QED BY <3>1 DEF Unit!Inlined
  <2>2. S' = S /\ w' = w
    BY <1>3, <1>5, <1>6, <2>1
  <2>3. Frames(i, a) = IF Unit!getTag(i) = "subprogram" /\ Unit!Meant(i, a)
                       THEN <<i>> \o Unit!Chosen(w, S) ELSE <<>>
    BY DEF Frames
  <2>4. Frames(i, a)' = IF Unit!getTag(i)' = "subprogram" /\ Unit!Meant(i, a)'
                        THEN <<i>> \o Unit!Chosen(w', S') ELSE <<>>
    BY DEF Frames
  <2> HIDE DEF S, w
  <2> QED BY <1>3, <2>2, <2>3, <2>4
<1>8. ASSUME NEW a PROVE Told(a)' = Told(a)
  <2>1. [i \in Unit!Idxs' |-> Frames(i, a)'] = [i \in Unit!Idxs |-> Frames(i, a)]
    BY <1>2, <1>7
  <2>2. Told(a)' = Unit!FlattenSeq([i \in Unit!Idxs' |-> Frames(i, a)'])
    BY DEF Told
  <2> QED BY <2>1, <2>2 DEF Told
<1> QED
  BY <1>2, <1>8

LEMMA UnitInitHolds == ASSUME Unit!Init PROVE UnitInv
<1>1. /\ unit \in Contents /\ pos = 0 /\ depth = 0 /\ entries = <<>>
      /\ m_base_address = INVALID /\ asked = INVALID /\ answer = <<>>
  BY DEF Unit!Init
<1>2. /\ DepthMod \in Nat \ {0, 1} /\ INVALID \notin Nat /\ UnitAddresses \subseteq Nat
      /\ Len(Unit!Items) \in 0 .. DepthMod - 1
  BY <1>1, CompileUnitAssumption DEF Unit!CompileUnitAssumption, Unit!Items
<1>3. Len(entries) = 0 /\ Unit!Idxs = {}
  <2>1. Len(entries) = 0
    BY <1>1
  <2> QED BY <2>1 DEF Unit!Idxs
<1>4. pos \in 0 .. Len(Unit!Items)
  BY <1>1, <1>2
<1>5. entries \in Seq(Unit!Node) /\ answer \in Seq(Unit!Idxs)
  BY <1>1
<1>6. Listed
  BY <1>1, <1>3, <1>4, <1>5 DEF Listed
<1>7. depth \in 0 .. DepthMod - 1 /\ \A k \in Nat : pos = k /\ Sound(k) => depth = Above(k)
  BY <1>1, <1>2, AboveFacts
<1>8. m_base_address = RootBase
  BY <1>1 DEF RootBase
<1>9. \A a \in UnitAddresses : asked # a
  BY <1>1, <1>2
<1> QED
  BY <1>1, <1>5, <1>6, <1>7, <1>8, <1>9 DEF UnitInv

(* The level behind one more item. *)
LEMMA LevelGrows ==
    ASSUME NEW k \in Nat
    PROVE  /\ Sound(k + 1) => Sound(k) /\ Above(k + 1) >= 0
           /\ Above(k) \in Int /\ Above(k + 1) \in Int /\ Above(k) <= k /\ Above(k + 1) <= k + 1
           /\ Above(k + 1) = IF k + 1 \in Opens THEN Above(k) + 1
                             ELSE IF k + 1 \in Closes THEN Above(k) - 1 ELSE Above(k)
<1>1. ASSUME Sound(k + 1) PROVE Sound(k) /\ Above(k + 1) >= 0
  <2>1. k + 1 \in 0 .. k + 1 /\ \A n \in 0 .. k : n \in 0 .. k + 1
    OBVIOUS
  <2> QED BY <1>1, <2>1 DEF Sound
<1>2. Above(k) \in Int /\ Above(k) <= k
  BY AboveFacts
<1>3. Above(k + 1) \in Int /\ Above(k + 1) <= k + 1
  <2> DEFINE n == k + 1
  <2>1. n \in Nat
    OBVIOUS
  <2> HIDE DEF n
  <2>2. Above(n) \in Int /\ Above(n) <= n
    BY <2>1, AboveFacts
  <2> QED BY <2>2 DEF n
<1>4. Above(k + 1) = IF k + 1 \in Opens THEN Above(k) + 1
                     ELSE IF k + 1 \in Closes THEN Above(k) - 1 ELSE Above(k)
  BY AboveFacts
<1> QED
  BY <1>1, <1>2, <1>3, <1>4

LEMMA EntriesGrow == ASSUME UnitInv, Unit!Extract PROVE UnitInv'
<1> DEFINE item == Unit!Items[pos + 1]
           new == [Offset |-> pos + 1, Depth |-> depth, extracted |-> item.tag = "compile_unit"]
           n == Len(entries)
<1>1. /\ pos < Len(Unit!Items) /\ item.kind = "entry"
      /\ entries' = Append(entries, new)
      /\ depth' = (IF Unit!hasChild(item) THEN (depth + 1) % DepthMod ELSE depth)
      /\ m_base_address' = (IF item.tag = "compile_unit" THEN Unit!BaseOf(item) ELSE m_base_address)
      /\ pos' = pos + 1 /\ unit' = unit /\ asked' = asked /\ answer' = answer
  BY Zenon DEF Unit!Extract
<1>2. Listed /\ depth \in 0 .. DepthMod - 1 /\ (Sound(pos) => depth = Above(pos))
  BY UnitLevel
<1>3. /\ DepthMod \in Nat \ {0, 1} /\ Len(Unit!Items) \in 0 .. DepthMod - 1
      /\ pos \in Nat /\ n \in Nat /\ Unit!Idxs = 1 .. n /\ pos + 1 \in 1 .. Len(Unit!Items)
  <2>1. /\ DepthMod \in Nat \ {0, 1} /\ Len(Unit!Items) \in 0 .. DepthMod - 1
        /\ pos \in Nat /\ n \in Nat /\ Unit!Idxs = 1 .. n
    BY <1>2, UnitTypes DEF Unit!Idxs
  <2> QED BY <1>1, <2>1
<1>4. /\ Unit!Items' = Unit!Items /\ Unit!Node' = Unit!Node
      /\ \A k : Above(k)' = Above(k)
      /\ \A k : Sound(k)' <=> Sound(k)
  BY <1>1, SameUnit
<1>5. new \in Unit!Node
  <2>1. (item.tag = "compile_unit") \in BOOLEAN
    OBVIOUS
  <2> QED BY <1>2, <1>3, <2>1 DEF Unit!Node
<1>6. new.Offset = pos + 1 /\ new.Depth = depth
  OBVIOUS
<1> HIDE DEF new
<1>7. /\ entries' \in Seq(Unit!Node) /\ Len(entries') = n + 1
      /\ \A i \in 1 .. n : entries'[i] = entries[i]
      /\ entries'[n + 1] = new
  <2>1. entries \in Seq(Unit!Node)
    BY <1>2 DEF Listed
  <2> QED BY <1>1, <1>5, <2>1, AppendProperties
<1>8. Unit!Idxs' = 1 .. n + 1
  BY <1>7 DEF Unit!Idxs
<1> HIDE DEF n
<1>9. \A i \in 1 .. n : entries[i].Offset \in 1 .. pos /\ Unit!Items[entries[i].Offset].kind = "entry"
  BY <1>2, <1>3, UnitTypes
<1>10. ASSUME NEW i \in 1 .. n + 1 PROVE i \in 1 .. n \/ i = n + 1
  BY <1>3
<1>11. ASSUME NEW i \in 1 .. n + 1
       PROVE  /\ entries'[i].Offset <= pos + 1 /\ Unit!Items[entries'[i].Offset].kind = "entry"
              /\ Sound(entries'[i].Offset - 1) => entries'[i].Depth = Above(entries'[i].Offset - 1)
  <2>1. CASE i \in 1 .. n
    <3>1. /\ entries[i].Offset \in 1 .. pos /\ Unit!Items[entries[i].Offset].kind = "entry"
          /\ Sound(entries[i].Offset - 1) => entries[i].Depth = Above(entries[i].Offset - 1)
      BY <1>2, <1>3, <1>9, <2>1, LevelIs
    <3>2. entries'[i] = entries[i]
      BY <1>7, <2>1
    <3>3. entries[i].Offset <= pos + 1
      BY <1>3, <3>1
    <3> QED BY <3>1, <3>2, <3>3
  <2>2. CASE i = n + 1
    <3>1. entries'[i].Offset = pos + 1 /\ entries'[i].Depth = depth
      BY <1>6, <1>7, <2>2
    <3>2. (pos + 1) - 1 = pos /\ pos + 1 <= pos + 1
      BY <1>3
    <3> QED BY <1>1, <1>2, <3>1, <3>2
  <2> QED BY <1>10, <2>1, <2>2
<1>12. ASSUME NEW i \in 1 .. n + 1, NEW j \in 1 .. n + 1, i < j
       PROVE  entries'[i].Offset < entries'[j].Offset
  <2>1. i \in 1 .. n
    BY <1>3, <1>12
  <2>2. entries'[i].Offset = entries[i].Offset /\ entries[i].Offset \in 1 .. pos
    BY <1>7, <1>9, <2>1
  <2>3. CASE j \in 1 .. n
    <3>1. entries[i].Offset < entries[j].Offset
      BY <1>2, <1>3, <1>12, <2>1, <2>3 DEF Listed
    <3> QED BY <1>7, <2>2, <2>3, <3>1
  <2>4. CASE j = n + 1
    <3>1. entries'[j].Offset = pos + 1
      BY <1>6, <1>7, <2>4
    <3> QED BY <1>3, <2>2, <3>1
  <2> QED BY <1>10, <2>3, <2>4
<1>13. ASSUME NEW o \in 1 .. pos + 1, Unit!Items[o].kind = "entry"
       PROVE  \E i \in 1 .. n + 1 : entries'[i].Offset = o
  <2>1. CASE o = pos + 1
    <3>1. n + 1 \in 1 .. n + 1
      BY <1>3
    <3> QED BY <1>6, <1>7, <2>1, <3>1
  <2>2. CASE o # pos + 1
    <3>1. o \in 1 .. pos
      BY <1>3, <2>2
    <3>2. PICK i \in 1 .. n : entries[i].Offset = o
      BY <1>2, <1>3, <1>13, <3>1 DEF Listed
    <3>3. i \in 1 .. n + 1 /\ entries'[i] = entries[i]
      BY <1>3, <1>7
    <3> QED BY <3>2, <3>3
  <2> QED BY <2>1, <2>2
<1>14. Listed'
  <2>1. unit' \in Contents
    BY <1>1, <1>2 DEF Listed
  <2>2. pos' \in 0 .. Len(Unit!Items')
    BY <1>1, <1>3, <1>4
  <2>3. entries' \in Seq(Unit!Node')
    BY <1>4, <1>7
  <2>4. \A i \in Unit!Idxs' :
          /\ entries'[i].Offset <= pos' /\ Unit!Items'[entries'[i].Offset].kind = "entry"
          /\ \A o \in Nat : entries'[i].Offset = o + 1 /\ Sound(o)' => entries'[i].Depth = Above(o)'
    <3>1. \A i \in Unit!Idxs' :
          /\ entries'[i].Offset <= pos' /\ Unit!Items'[entries'[i].Offset].kind = "entry"
      BY <1>1, <1>4, <1>8, <1>11
    <3>2. ASSUME NEW i \in 1 .. n + 1, NEW o \in Nat, entries'[i].Offset = o + 1
          PROVE  Sound(o)' => entries'[i].Depth = Above(o)'
      <4>1. o = entries'[i].Offset - 1
        BY <3>2
      <4> QED BY <1>4, <1>11, <4>1
    <3> QED BY <1>8, <3>1, <3>2
  <2>5. \A i, j \in Unit!Idxs' : i < j => entries'[i].Offset < entries'[j].Offset
    BY <1>8, <1>12
  <2>6. \A o \in 1 .. pos' : Unit!Items'[o].kind = "entry" => \E i \in Unit!Idxs' : entries'[i].Offset = o
    BY <1>1, <1>4, <1>8, <1>13
  <2> QED BY <2>1, <2>2, <2>3, <2>4, <2>5, <2>6 DEF Listed
<1>15. /\ depth' \in 0 .. DepthMod - 1
      /\ \A k \in Nat : pos' = k /\ Sound(k)' => depth' = Above(k)'
  <2>1. pos + 1 \in Opens <=> Unit!hasChild(item)
    BY <1>1, <1>3 DEF Opens
  <2>2. pos + 1 \notin Closes
    BY <1>1 DEF Closes
  <2>3. /\ Sound(pos + 1) => Sound(pos) /\ Above(pos + 1) >= 0
        /\ Above(pos) \in Int /\ Above(pos + 1) \in Int /\ Above(pos + 1) <= pos + 1
        /\ Above(pos + 1) = IF pos + 1 \in Opens THEN Above(pos) + 1
                            ELSE IF pos + 1 \in Closes THEN Above(pos) - 1 ELSE Above(pos)
    BY <1>3, LevelGrows
  <2> HIDE DEF item
  <2>6. depth' \in 0 .. DepthMod - 1
    BY <1>1, <1>2, <1>3
  <2>7. ASSUME Sound(pos + 1) PROVE depth' = Above(pos + 1)
    <3>1. depth = Above(pos) /\ Above(pos + 1) >= 0
      BY <1>2, <2>3, <2>7
    <3>2. CASE Unit!hasChild(item)
      <4>1. depth + 1 = Above(pos + 1)
        BY <2>1, <2>3, <3>1, <3>2
      <4>2. depth + 1 \in 0 .. DepthMod - 1
        BY <1>3, <2>3, <3>1, <4>1
      <4>3. (depth + 1) % DepthMod = depth + 1
        BY <1>3, <4>2
      <4> QED BY <1>1, <3>2, <4>1, <4>3
    <3>3. CASE ~Unit!hasChild(item)
      <4>1. Above(pos + 1) = Above(pos)
        BY <2>1, <2>2, <2>3, <3>3
      <4> QED BY <1>1, <3>1, <3>3, <4>1
    <3> QED BY <3>2, <3>3
  <2>8. ASSUME NEW k \in Nat, pos' = k, Sound(k)' PROVE depth' = Above(k)'
    BY <1>1, <1>4, <2>7, <2>8
  <2> QED BY <2>6, <2>8
<1>16. m_base_address' = RootBase'
  <2>1. m_base_address = RootBase
    BY DEF UnitInv
  <2>2. RootBase' = IF Unit!Items[1].kind = "entry" /\ Unit!Items[1].tag = "compile_unit"
                    THEN Unit!BaseOf(Unit!Items[1]) ELSE INVALID
    <3>1. pos' >= 1
      BY <1>1, <1>3
    <3> QED BY <1>4, <3>1 DEF RootBase, Unit!BaseOf
  <2>3. CASE pos = 0
    <3>1. m_base_address = INVALID
      BY <2>1, <2>3 DEF RootBase
    <3>2. item = Unit!Items[1]
      BY <2>3
    <3> HIDE DEF item
    <3> QED BY <1>1, <2>2, <3>1, <3>2
  <2>4. CASE pos # 0
    <3>1. item.tag # "compile_unit"
      <4>1. unit \in Contents
        BY <1>2 DEF Listed
      <4>2. \A i \in 1 .. Len(Unit!Items) : Unit!Items[i].kind = "entry" =>
                (Unit!Items[i].tag = "compile_unit" => i = 1)
        BY <4>1, CompileUnitAssumption DEF Unit!CompileUnitAssumption, Unit!Items
      <4>3. pos + 1 # 1
        BY <1>3, <2>4
      <4> QED BY <1>1, <1>3, <4>2, <4>3
    <3>2. m_base_address' = m_base_address
      BY <1>1, <3>1
    <3>3. pos >= 1
      BY <1>3, <2>4
    <3> QED BY <2>1, <2>2, <3>2, <3>3 DEF RootBase
  <2> QED BY <2>3, <2>4
<1>17. asked' \in UnitAddresses \cup {INVALID} /\ answer' \in Seq(Unit!Idxs')
  <2>1. asked \in UnitAddresses \cup {INVALID} /\ answer \in Seq(Unit!Idxs)
    BY DEF UnitInv
  <2>2. Unit!Idxs \subseteq Unit!Idxs'
    BY <1>3, <1>8
  <2>3. answer \in Seq(Unit!Idxs')
    BY <2>1, <2>2, SeqWider
  <2> QED BY <1>1, <2>1, <2>3
<1>18. \A a \in UnitAddresses : asked' # a
  BY <1>1, <1>3 DEF UnitInv
<1> QED
  BY <1>14, <1>15, <1>16, <1>17, <1>18 DEF UnitInv

LEMMA CloseKeeps == ASSUME UnitInv, Unit!Close PROVE UnitInv'
<1>1. /\ pos < Len(Unit!Items) /\ Unit!Items[pos + 1].kind # "entry"
      /\ depth' = (depth - 1) % DepthMod /\ pos' = pos + 1 /\ unit' = unit /\ entries' = entries
      /\ m_base_address' = m_base_address /\ asked' = asked /\ answer' = answer
  BY DEF Unit!Close
<1>2. Listed /\ depth \in 0 .. DepthMod - 1 /\ (Sound(pos) => depth = Above(pos))
  BY UnitLevel
<1>3. /\ DepthMod \in Nat \ {0, 1} /\ Len(Unit!Items) \in 0 .. DepthMod - 1
      /\ pos \in Nat /\ Len(entries) \in Nat /\ Unit!Idxs = 1 .. Len(entries)
      /\ pos + 1 \in 1 .. Len(Unit!Items)
  <2>1. /\ DepthMod \in Nat \ {0, 1} /\ Len(Unit!Items) \in 0 .. DepthMod - 1
        /\ pos \in Nat /\ Len(entries) \in Nat /\ Unit!Idxs = 1 .. Len(entries)
    BY <1>2, UnitTypes DEF Unit!Idxs
  <2> QED BY <1>1, <2>1
<1>4. /\ Unit!Items' = Unit!Items /\ Unit!Node' = Unit!Node
      /\ \A k : Above(k)' = Above(k)
      /\ \A k : Sound(k)' <=> Sound(k)
  BY <1>1, SameUnit
<1>5. Unit!Idxs' = Unit!Idxs
  BY <1>1 DEF Unit!Idxs
<1>6. Listed'
  <2>1. unit' \in Contents /\ entries' \in Seq(Unit!Node')
    BY <1>1, <1>2, <1>4 DEF Listed
  <2>2. pos' \in 0 .. Len(Unit!Items')
    BY <1>1, <1>3, <1>4
  <2>3. \A i \in Unit!Idxs : /\ entries[i].Offset \in 1 .. pos /\ Unit!Items[entries[i].Offset].kind = "entry"
                             /\ Sound(entries[i].Offset - 1) => entries[i].Depth = Above(entries[i].Offset - 1)
    BY <1>2, UnitTypes, LevelIs
  <2>4. \A i \in Unit!Idxs' :
          /\ entries'[i].Offset <= pos' /\ Unit!Items'[entries'[i].Offset].kind = "entry"
          /\ \A o \in Nat : entries'[i].Offset = o + 1 /\ Sound(o)' => entries'[i].Depth = Above(o)'
    <3>1. ASSUME NEW i \in Unit!Idxs
          PROVE  entries[i].Offset <= pos + 1 /\ Unit!Items[entries[i].Offset].kind = "entry"
      BY <1>3, <2>3
    <3>2. ASSUME NEW i \in Unit!Idxs, NEW o \in Nat, entries[i].Offset = o + 1
          PROVE  Sound(o)' => entries[i].Depth = Above(o)'
      BY <1>2, <1>4, <3>2 DEF Listed
    <3> QED BY <1>1, <1>4, <1>5, <3>1, <3>2
  <2>5. \A i, j \in Unit!Idxs' : i < j => entries'[i].Offset < entries'[j].Offset
    BY <1>1, <1>2, <1>5 DEF Listed
  <2>6. ASSUME NEW o \in 1 .. pos + 1, Unit!Items[o].kind = "entry"
        PROVE  \E i \in Unit!Idxs : entries[i].Offset = o
    <3>1. o \in 1 .. pos
      BY <1>1, <1>3, <2>6
    <3> QED BY <1>2, <2>6, <3>1 DEF Listed
  <2>7. \A o \in 1 .. pos' : Unit!Items'[o].kind = "entry" => \E i \in Unit!Idxs' : entries'[i].Offset = o
    BY <1>1, <1>4, <1>5, <2>6
  <2> QED BY <2>1, <2>2, <2>4, <2>5, <2>7 DEF Listed
<1>7. /\ depth' \in 0 .. DepthMod - 1
      /\ \A k \in Nat : pos' = k /\ Sound(k)' => depth' = Above(k)'
  <2>1. pos + 1 \in Closes /\ pos + 1 \notin Opens
    BY <1>1, <1>3 DEF Opens, Closes
  <2>3. /\ Sound(pos + 1) => Sound(pos) /\ Above(pos + 1) >= 0
        /\ Above(pos) \in Int /\ Above(pos + 1) \in Int
        /\ Above(pos + 1) = IF pos + 1 \in Opens THEN Above(pos) + 1
                            ELSE IF pos + 1 \in Closes THEN Above(pos) - 1 ELSE Above(pos)
    BY <1>3, LevelGrows
  <2>6. depth' \in 0 .. DepthMod - 1
    BY <1>1, <1>2, <1>3
  <2>7. ASSUME Sound(pos + 1) PROVE depth' = Above(pos + 1)
    <3>1. depth = Above(pos) /\ Above(pos + 1) >= 0 /\ Above(pos + 1) = Above(pos) - 1
      BY <1>2, <2>1, <2>3, <2>7
    <3>2. depth - 1 \in 0 .. DepthMod - 1
      BY <1>2, <1>3, <2>3, <3>1
    <3>3. (depth - 1) % DepthMod = depth - 1
      BY <1>3, <3>2
    <3> QED BY <1>1, <3>1, <3>3
  <2>8. ASSUME NEW k \in Nat, pos' = k, Sound(k)' PROVE depth' = Above(k)'
    BY <1>1, <1>4, <2>7, <2>8
  <2> QED BY <2>6, <2>8
<1>8. m_base_address' = RootBase'
  <2>1. m_base_address = RootBase
    BY DEF UnitInv
  <2>2. RootBase' = IF Unit!Items[1].kind = "entry" /\ Unit!Items[1].tag = "compile_unit"
                    THEN Unit!BaseOf(Unit!Items[1]) ELSE INVALID
    <3>1. pos' >= 1
      BY <1>1, <1>3
    <3> QED BY <1>4, <3>1 DEF RootBase, Unit!BaseOf
  <2>3. CASE pos = 0
    <3>1. m_base_address = INVALID
      BY <2>1, <2>3 DEF RootBase
    <3>2. Unit!Items[1].kind # "entry"
      BY <1>1, <2>3
    <3> QED BY <1>1, <2>2, <3>1, <3>2
  <2>4. CASE pos # 0
    <3>1. pos >= 1
      BY <1>3, <2>4
    <3> QED BY <1>1, <2>1, <2>2, <3>1 DEF RootBase
  <2> QED BY <2>3, <2>4
<1>9. asked' \in UnitAddresses \cup {INVALID} /\ answer' \in Seq(Unit!Idxs')
  BY <1>1, <1>5 DEF UnitInv
<1>10. \A a \in UnitAddresses : asked' # a
  BY <1>1, <1>3 DEF UnitInv
<1> QED
  BY <1>6, <1>7, <1>8, <1>9, <1>10 DEF UnitInv

LEMMA AskedKeeps ==
    ASSUME UnitInv, NEW a \in UnitAddresses, Unit!getDIEIdxsBy(a)
    PROVE  UnitInv'
<1>1. /\ pos = Len(Unit!Items) /\ asked' = a
      /\ unit' = unit /\ pos' = pos /\ depth' = depth /\ m_base_address' = m_base_address
      /\ entries' \in Seq(Unit!Node) /\ Len(entries') = Len(entries)
      /\ \A i \in Unit!Idxs : /\ entries'[i].Offset = entries[i].Offset
                              /\ entries'[i].Depth = entries[i].Depth
      /\ answer' \in Seq(Unit!Idxs)
      /\ Unit!WellFormed /\ Unit!Placed => answer' = Told(a)
  BY AnswerIs
<1>2. /\ Listed /\ depth \in 0 .. DepthMod - 1 /\ (Sound(pos) => depth = Above(pos))
      /\ m_base_address = RootBase /\ pos \in Nat
  BY UnitLevel, UnitTypes
<1>3. /\ Unit!Items' = Unit!Items /\ Unit!Node' = Unit!Node
      /\ \A k : Above(k)' = Above(k)
      /\ \A k : Sound(k)' <=> Sound(k)
      /\ (Unit!WellFormed' <=> Unit!WellFormed) /\ RootBase' = RootBase
      /\ (Unit!Placed' <=> Unit!Placed)
  BY <1>1, SameUnit
<1>4. Unit!Idxs' = Unit!Idxs /\ \A b : Told(b)' = Told(b)
  BY <1>1, <1>2, SameEntries
<1>5. Listed'
  <2>1. unit' \in Contents /\ pos' \in 0 .. Len(Unit!Items') /\ entries' \in Seq(Unit!Node')
    BY <1>1, <1>2, <1>3 DEF Listed
  <2>2. \A i \in Unit!Idxs' :
          /\ entries'[i].Offset <= pos' /\ Unit!Items'[entries'[i].Offset].kind = "entry"
          /\ \A o \in Nat : entries'[i].Offset = o + 1 /\ Sound(o)' => entries'[i].Depth = Above(o)'
    <3>1. ASSUME NEW i \in Unit!Idxs
          PROVE  entries'[i].Offset <= pos' /\ Unit!Items'[entries'[i].Offset].kind = "entry"
      BY <1>1, <1>2, <1>3 DEF Listed
    <3>2. ASSUME NEW i \in Unit!Idxs, NEW o \in Nat, entries'[i].Offset = o + 1
          PROVE  Sound(o)' => entries'[i].Depth = Above(o)'
      BY <1>1, <1>2, <1>3, <3>2 DEF Listed
    <3> QED BY <1>4, <3>1, <3>2
  <2>3. \A i, j \in Unit!Idxs' : i < j => entries'[i].Offset < entries'[j].Offset
    BY <1>1, <1>2, <1>4 DEF Listed
  <2>4. \A o \in 1 .. pos' : Unit!Items'[o].kind = "entry" => \E i \in Unit!Idxs' : entries'[i].Offset = o
    BY <1>1, <1>2, <1>3, <1>4 DEF Listed
  <2> QED BY <2>1, <2>2, <2>3, <2>4 DEF Listed
<1>6. /\ depth' \in 0 .. DepthMod - 1
      /\ \A k \in Nat : pos' = k /\ Sound(k)' => depth' = Above(k)'
  BY <1>1, <1>2, <1>3
<1>7. m_base_address' = RootBase'
  BY <1>1, <1>2, <1>3
<1>8. asked' \in UnitAddresses \cup {INVALID} /\ answer' \in Seq(Unit!Idxs')
  BY <1>1, <1>4
<1>9. ASSUME NEW b \in UnitAddresses, asked' = b
      PROVE  pos' = Len(Unit!Items') /\ (Unit!WellFormed' /\ Unit!Placed' => answer' = Told(b)')
  BY <1>1, <1>3, <1>4, <1>9
<1> QED
  BY <1>5, <1>6, <1>7, <1>8, <1>9 DEF UnitInv

LEMMA UnitNextKeeps ==
    ASSUME UnitInv, Unit!Next \/ UNCHANGED Unit!vars
    PROVE  UnitInv'
<1>1. CASE UNCHANGED Unit!vars
  <2>1. /\ unit' = unit /\ pos' = pos /\ depth' = depth /\ entries' = entries
        /\ m_base_address' = m_base_address /\ asked' = asked /\ answer' = answer
    BY <1>1 DEF Unit!vars
  <2>2. /\ Unit!Items' = Unit!Items /\ Unit!Node' = Unit!Node
        /\ \A k : Above(k)' = Above(k)
        /\ \A k : Sound(k)' <=> Sound(k)
        /\ (Unit!WellFormed' <=> Unit!WellFormed) /\ RootBase' = RootBase
        /\ (Unit!Placed' <=> Unit!Placed)
    BY <2>1, SameUnit
  <2>3. /\ Listed /\ depth \in 0 .. DepthMod - 1 /\ (Sound(pos) => depth = Above(pos))
        /\ m_base_address = RootBase /\ pos \in Nat
    BY UnitLevel, UnitTypes
  <2>4. Unit!Idxs' = Unit!Idxs /\ \A b : Told(b)' = Told(b)
    BY <2>1, <2>3, SameEntries
  <2>5. Listed'
    <3>1. unit' \in Contents /\ pos' \in 0 .. Len(Unit!Items') /\ entries' \in Seq(Unit!Node')
      BY <2>1, <2>2, <2>3 DEF Listed
    <3>2. \A i \in Unit!Idxs' :
            /\ entries'[i].Offset <= pos' /\ Unit!Items'[entries'[i].Offset].kind = "entry"
            /\ \A o \in Nat : entries'[i].Offset = o + 1 /\ Sound(o)' => entries'[i].Depth = Above(o)'
      <4>1. ASSUME NEW i \in Unit!Idxs
            PROVE  entries'[i].Offset <= pos' /\ Unit!Items'[entries'[i].Offset].kind = "entry"
        BY <2>1, <2>2, <2>3 DEF Listed
      <4>2. ASSUME NEW i \in Unit!Idxs, NEW o \in Nat, entries'[i].Offset = o + 1
            PROVE  Sound(o)' => entries'[i].Depth = Above(o)'
        BY <2>1, <2>2, <2>3, <4>2 DEF Listed
      <4> QED BY <2>4, <4>1, <4>2
    <3>3. \A i, j \in Unit!Idxs' : i < j => entries'[i].Offset < entries'[j].Offset
      BY <2>1, <2>3, <2>4 DEF Listed
    <3>4. \A o \in 1 .. pos' : Unit!Items'[o].kind = "entry" => \E i \in Unit!Idxs' : entries'[i].Offset = o
      BY <2>1, <2>2, <2>3, <2>4 DEF Listed
    <3> QED BY <3>1, <3>2, <3>3, <3>4 DEF Listed
  <2>6. /\ depth' \in 0 .. DepthMod - 1
        /\ \A k \in Nat : pos' = k /\ Sound(k)' => depth' = Above(k)'
    BY <2>1, <2>2, <2>3
  <2>7. m_base_address' = RootBase'
    BY <2>1, <2>2, <2>3
  <2>8. asked' \in UnitAddresses \cup {INVALID} /\ answer' \in Seq(Unit!Idxs')
    BY <2>1, <2>4 DEF UnitInv
  <2>9. ASSUME NEW b \in UnitAddresses, asked' = b
        PROVE  pos' = Len(Unit!Items') /\ (Unit!WellFormed' /\ Unit!Placed' => answer' = Told(b)')
    BY <2>1, <2>2, <2>4, <2>9 DEF UnitInv
  <2> QED BY <2>5, <2>6, <2>7, <2>8, <2>9 DEF UnitInv
<1>2. CASE Unit!Next
  BY <1>2, EntriesGrow, CloseKeeps, AskedKeeps DEF Unit!Next
<1> QED
  BY <1>1, <1>2

-------------------------------------------------------------------------------
(* What it means for the tree and for the answers. *)
LEMMA UnitTyped == ASSUME UnitInv PROVE Unit!TypeOK
<1>1. /\ unit \in Contents /\ pos \in 0 .. Len(Unit!Items) /\ depth \in 0 .. DepthMod - 1
      /\ entries \in Seq(Unit!Node) /\ m_base_address = RootBase
      /\ asked \in UnitAddresses \cup {INVALID} /\ answer \in Seq(Unit!Idxs)
  BY DEF UnitInv, Listed
<1>2. RootBase \in Nat \cup {INVALID}
  <2>1. CASE pos >= 1 /\ Unit!Items[1].kind = "entry" /\ Unit!Items[1].tag = "compile_unit"
    <3>1. 1 \in 1 .. Len(unit.items)
      <4>1. Len(Unit!Items) \in Nat
        BY <1>1, CompileUnitAssumption DEF Unit!CompileUnitAssumption, Unit!Items
      <4> QED BY <1>1, <2>1, <4>1 DEF Unit!Items
    <3>2. Unit!ItemOK(unit.items[1])
      BY <1>1, <2>1, <3>1, CompileUnitAssumption DEF Unit!CompileUnitAssumption, Unit!Items
    <3>3. Unit!BaseOf(Unit!Items[1]) \in Nat \cup {INVALID}
      BY <3>2 DEF Unit!BaseOf, Unit!ItemOK, Unit!Attribute, Unit!Items
    <3> QED BY <2>1, <3>3 DEF RootBase
  <2>2. CASE ~(pos >= 1 /\ Unit!Items[1].kind = "entry" /\ Unit!Items[1].tag = "compile_unit")
    BY <2>2 DEF RootBase
  <2> QED BY <2>1, <2>2
<1> QED
  BY <1>1, <1>2 DEF Unit!TypeOK

LEMMA UnitAnswers == ASSUME UnitInv PROVE Unit!AnswerIsTheUnits
<1>1. SUFFICES ASSUME asked # INVALID, Unit!WellFormed, Unit!Placed
               PROVE  answer = Unit!FlattenSeq([i \in Unit!Idxs |->
                          IF Unit!getTag(i) = "subprogram" /\ Unit!Meant(i, asked)
                          THEN <<i>> \o Unit!Chosen([j \in Unit!Idxs |-> j],
                                  {j \in Unit!Enclosed(i) : /\ Unit!getTag(j) = "inlined_subroutine"
                                                            /\ Unit!Meant(j, asked) /\ i # 1})
                          ELSE <<>>])
  BY DEF Unit!AnswerIsTheUnits
<1> DEFINE a == asked
           Row(i) == IF Unit!getTag(i) = "subprogram" /\ Unit!Meant(i, a)
                     THEN <<i>> \o Unit!Chosen([j \in Unit!Idxs |-> j],
                             {j \in Unit!Enclosed(i) : /\ Unit!getTag(j) = "inlined_subroutine"
                                                       /\ Unit!Meant(j, a) /\ i # 1})
                     ELSE <<>>
<1>2. Listed /\ asked \in UnitAddresses /\ answer = Told(a)
  BY <1>1 DEF UnitInv
<1>3. Len(entries) \in Nat /\ Unit!Idxs = 1 .. Len(entries)
  BY <1>2, UnitTypes DEF Unit!Idxs
<1>4. ASSUME NEW i \in Unit!Idxs PROVE Frames(i, a) = Row(i)
  <2> DEFINE w == Unit!getAllChildrensIdxs(i)
             S == {j \in Unit!Inlined(i) : Unit!Meant(j, a)}
             E == {j \in Unit!Enclosed(i) : /\ Unit!getTag(j) = "inlined_subroutine"
                                            /\ Unit!Meant(j, a) /\ i # 1}
  <2>1. CASE Unit!getTag(i) = "subprogram" /\ Unit!Meant(i, a)
    <3>0. i \in Nat /\ i <= Len(entries)
      BY <1>3
    <3>1. \E e \in i .. Len(entries) :
            w = [k \in 1 .. e - i |-> i + k] /\ (i # 1 => Unit!Enclosed(i) = i + 1 .. e)
                                             /\ (i = 1 => e = i)
      <4>1. CASE i # 1
        BY <1>1, <1>2, <4>1, AllChildrenAre
      <4>2. CASE i = 1
        <5>1. ~(entries[i].Depth > 0)
          BY <1>1, <1>2, <4>2, LevelFacts
        <5>2. w = <<>>
          BY <5>1 DEF Unit!getAllChildrensIdxs
        <5>3. [k \in 1 .. i - i |-> i + k] = <<>>
          BY <3>0
        <5>4. i \in i .. Len(entries)
          BY <1>3, <3>0
        <5> QED BY <4>2, <5>2, <5>3, <5>4
      <4> QED BY <4>1, <4>2
    <3>2. PICK e \in i .. Len(entries) :
            w = [k \in 1 .. e - i |-> i + k] /\ (i # 1 => Unit!Enclosed(i) = i + 1 .. e)
                                             /\ (i = 1 => e = i)
      BY <3>1
    <3>3. i \in Nat /\ e \in Nat /\ i <= e /\ e <= Len(entries)
      BY <1>3
    <3>4. Unit!ToSet(w) = i + 1 .. e
      <4> HIDE DEF w
      <4> QED BY <3>2, <3>3, RunSet
    <3>5. S = E
      <4>1. CASE i # 1
        BY <3>2, <3>4, <4>1 DEF Unit!Inlined
      <4>2. CASE i = 1
        <5>1. i + 1 .. e = {}
          BY <3>2, <4>2
        <5>2. S = {}
          BY <3>4, <5>1 DEF Unit!Inlined
        <5> QED BY <4>2, <5>2
      <4> QED BY <4>1, <4>2
    <3>6. E \subseteq i + 1 .. e
      BY <3>2
    <3> DEFINE x == Unit!Chosen(w, S)
               y == Unit!Chosen([j \in Unit!Idxs |-> j], E)
    <3>7. Frames(i, a) = <<i>> \o x
      BY <2>1 DEF Frames
    <3>8. Row(i) = <<i>> \o y
      BY <2>1
    <3> HIDE DEF w, S, E, Row, a
    <3>9. x = y
      <4> DEFINE n == Len(entries)
                 v == [j \in Unit!Idxs |-> j]
      <4>1. i \in Nat /\ e \in Nat /\ n \in Nat /\ i <= e /\ e <= n /\ Inside(E, i, e)
        BY <1>3, <3>3, <3>6 DEF Inside
      <4>2. w = After(i, e) /\ v = Firsts(n)
        BY <1>3, <3>2 DEF After, Firsts
      <4> HIDE DEF n, v
      <4>3. Unit!Chosen(After(i, e), E) = Unit!Chosen(Firsts(n), E)
        BY <4>1, ChosenSame
      <4>4. Unit!Chosen(w, E) = Unit!Chosen(v, E)
        BY <4>2, <4>3, Zenon
      <4> QED BY <3>5, <4>4, Zenon DEF v
    <3> HIDE DEF x, y
    <3> QED BY <3>7, <3>8, <3>9
  <2>2. CASE ~(Unit!getTag(i) = "subprogram" /\ Unit!Meant(i, a))
    BY <2>2 DEF Frames
  <2> QED BY <2>1, <2>2
<1>5. [i \in Unit!Idxs |-> Frames(i, a)] = [i \in Unit!Idxs |-> Row(i)]
  <2> HIDE DEF Row, a
  <2> QED BY <1>4
<1>6. answer = Unit!FlattenSeq([i \in Unit!Idxs |-> Row(i)])
  <2> HIDE DEF Row
  <2> QED BY <1>2, <1>5 DEF Told
<1> QED
  BY <1>6

(* A row of the answer: entries that mean the address, in the order of the
   unit, behind a subprogram. *)
LEMMA FramesAre ==
    ASSUME Listed, NEW i \in Unit!Idxs, NEW a
    PROVE  /\ Frames(i, a) \in Seq(Unit!Idxs)
           /\ \A j \in 1 .. Len(Frames(i, a)) : Unit!Meant(Frames(i, a)[j], a)
           /\ Unit!Ascending(Frames(i, a))
           /\ Len(Frames(i, a)) > 0 => i \in Unit!Subprograms /\ Unit!Meant(i, a)
<1> DEFINE w == Unit!getAllChildrensIdxs(i)
           S == {j \in Unit!Inlined(i) : Unit!Meant(j, a)}
           c == Unit!Chosen(w, S)
<1>1. Len(entries) \in Nat /\ Unit!Idxs = 1 .. Len(entries) /\ Unit!Idxs \subseteq Nat /\ i \in Nat
  BY UnitTypes DEF Unit!Idxs
<1>2. w \in Seq(Unit!Idxs)
  BY AllChildrenTyped
<1>3. /\ \A k \in 1 .. Len(w) : w[k] > i
      /\ \A k, m \in 1 .. Len(w) : k < m => w[k] < w[m]
  <2>1. CASE entries[i].Depth > 0
    <3> DEFINE D == (entries[i].Depth + 1) % DepthMod .. DepthMod - 1
    <3>1. w = Unit!Run(i, D)
      BY <2>1 DEF Unit!getAllChildrensIdxs
    <3> HIDE DEF D, w
    <3>2. PICK e \in i .. Len(entries) : Unit!Run(i, D) = [k \in 1 .. e - i |-> i + k]
      BY <1>1, RunIs
    <3>3. e \in Nat /\ i <= e
      BY <1>1
    <3>4. Len(w) = e - i
      BY <1>1, <3>1, <3>2, <3>3, RunSet
    <3>5. \A k \in 1 .. Len(w) : w[k] = i + k
      BY <3>1, <3>2, <3>4
    <3>6. \A k \in 1 .. Len(w) : k \in Nat \ {0}
      BY <1>1, <3>3, <3>4
    <3> QED BY <1>1, <3>5, <3>6
  <2>2. CASE ~(entries[i].Depth > 0)
    <3>1. w = <<>>
      BY <2>2 DEF Unit!getAllChildrensIdxs
    <3>2. Len(w) = 0
      BY <3>1
    <3> QED BY <3>2
  <2> QED BY <2>1, <2>2
<1> HIDE DEF w, S
<1>4. c \in Seq(Unit!Idxs)
  BY <1>2, ChosenIs
<1>5. /\ \A p \in 1 .. Len(c) : c[p] \in S /\ \E n \in 1 .. Len(w) : c[p] = w[n]
      /\ Unit!Ascending(c)
  <2>1. Unit!Idxs \subseteq Nat /\ \A k, m \in 1 .. Len(w) : k < m => w[k] < w[m]
    BY <1>1, <1>3
  <2>2. \A p \in 1 .. Len(c) : c[p] \in S /\ \E n \in 1 .. Len(w) : c[p] = w[n]
    BY ONLY <1>2, ChosenFacts
  <2>3. Unit!Ascending(c)
    BY ONLY <1>2, <2>1, ChosenFacts
  <2> QED BY <2>2, <2>3
<1> HIDE DEF c
<1>6. CASE Unit!getTag(i) = "subprogram" /\ Unit!Meant(i, a)
  <2> DEFINE f == <<i>> \o c
  <2>1. Frames(i, a) = f
    BY <1>6 DEF Frames, c, w, S
  <2>2. /\ <<i>> \in Seq(Unit!Idxs) /\ Len(<<i>>) = 1 /\ <<i>>[1] = i
    OBVIOUS
  <2>3. /\ f \in Seq(Unit!Idxs) /\ Len(f) = 1 + Len(c) /\ Len(c) \in Nat
        /\ \A k \in 1 .. 1 + Len(c) : f[k] = IF k <= 1 THEN <<i>>[k] ELSE c[k - 1]
    BY <1>4, <2>2, ConcatProperties, LenProperties
  <2> HIDE DEF f
  <2>4. f[1] = i /\ \A k \in 1 .. Len(c) : f[k + 1] = c[k]
    <3>1. f[1] = i
      BY <2>2, <2>3
    <3>2. ASSUME NEW k \in 1 .. Len(c) PROVE f[k + 1] = c[k]
      <4>1. k + 1 \in 1 .. 1 + Len(c) /\ ~(k + 1 <= 1) /\ (k + 1) - 1 = k
        BY <2>3
      <4> QED BY <2>3, <4>1
    <3> QED BY <3>1, <3>2
  <2>5. ASSUME NEW j \in 1 .. Len(f) PROVE Unit!Meant(f[j], a)
    <3>1. CASE j = 1
      BY <1>6, <2>4, <3>1
    <3>2. CASE j # 1
      <4>1. PICK k \in 1 .. Len(c) : j = k + 1
        <5>1. j - 1 \in 1 .. Len(c) /\ j = (j - 1) + 1
          BY <2>3, <3>2
        <5> QED BY <5>1
      <4>2. f[j] = c[k] /\ c[k] \in S
        BY <1>5, <2>4, <4>1
      <4> QED BY <4>2 DEF S
    <3> QED BY <3>1, <3>2
  <2>6. ASSUME NEW j \in 1 .. Len(f) - 1 PROVE f[j] < f[j + 1]
    <3>0. j \in 1 .. Len(c)
      BY <2>3
    <3>1. CASE j = 1
      <4>1. f[j] = i /\ f[j + 1] = c[1] /\ 1 \in 1 .. Len(c)
        BY <2>4, <3>0, <3>1
      <4>2. c[1] > i /\ c[1] \in Unit!Idxs
        BY <1>2, <1>3, <1>5, <4>1
      <4> QED BY <1>1, <4>1, <4>2
    <3>2. CASE j # 1
      <4>1. PICK k \in 1 .. Len(c) - 1 : j = k + 1
        <5>1. j - 1 \in 1 .. Len(c) - 1 /\ j = (j - 1) + 1
          BY <2>3, <3>0, <3>2
        <5> QED BY <5>1
      <4>2. k \in 1 .. Len(c) /\ k + 1 \in 1 .. Len(c)
        BY <2>3
      <4>3. f[j] = c[k] /\ f[j + 1] = c[k + 1]
        BY <2>4, <4>1, <4>2
      <4>4. c[k] < c[k + 1]
        BY <1>5 DEF Unit!Ascending
      <4> QED BY <4>3, <4>4
    <3> QED BY <3>1, <3>2
  <2>7. i \in Unit!Subprograms
    BY <1>6 DEF Unit!Subprograms
  <2> QED BY <1>6, <2>1, <2>3, <2>5, <2>6, <2>7 DEF Unit!Ascending
<1>7. CASE ~(Unit!getTag(i) = "subprogram" /\ Unit!Meant(i, a))
  <2>1. Frames(i, a) = <<>>
    BY <1>7 DEF Frames
  <2>2. <<>> \in Seq(Unit!Idxs) /\ Len(<<>>) = 0
    OBVIOUS
  <2> QED BY <2>1, <2>2 DEF Unit!Ascending
<1> QED
  BY <1>6, <1>7

LEMMA UnitChain == ASSUME UnitInv PROVE Unit!ChainIsNested
<1>1. SUFFICES ASSUME asked # INVALID, Unit!WellFormed, Unit!Placed,
                      \A i, j \in Unit!Idxs :
                          (i < j /\ Unit!Meant(i, asked) /\ Unit!Meant(j, asked)) => i \in Unit!Enclosing(j),
                      \A i, j \in Unit!Subprograms : i \notin Unit!Enclosing(j),
                      NEW k \in 1 .. Len(answer) - 1
               PROVE  answer[k] \in Unit!Enclosing(answer[k + 1])
  BY DEF Unit!ChainIsNested
<1> DEFINE a == asked
           Row(i) == Frames(i, a)
           rows == [i \in Unit!Idxs |-> Row(i)]
<1>2. Listed /\ asked \in UnitAddresses /\ answer = Told(a) /\ answer \in Seq(Unit!Idxs)
  BY <1>1 DEF UnitInv
<1>3. Len(entries) \in Nat /\ Unit!Idxs = 1 .. Len(entries) /\ Unit!Idxs \subseteq Nat
  BY <1>2, UnitTypes DEF Unit!Idxs
<1>4. \A i \in Unit!Idxs :
        /\ Row(i) \in Seq(Unit!Idxs)
        /\ \A j \in 1 .. Len(Row(i)) : Unit!Meant(Row(i)[j], a)
        /\ Unit!Ascending(Row(i))
        /\ Len(Row(i)) > 0 => i \in Unit!Subprograms /\ Unit!Meant(i, a)
  BY <1>2, FramesAre
<1>5. answer = Join(rows)
  <2>1. answer = Unit!FlattenSeq(rows)
    BY <1>2 DEF Told
  <2> QED BY <2>1, JoinIs
<1> HIDE DEF a, Row
<1>6. rows \in Seq(Seq(Unit!Idxs)) /\ Len(rows) = Len(entries) /\ \A i \in Unit!Idxs : rows[i] = Row(i)
  <2>1. rows \in [1 .. Len(entries) -> Seq(Unit!Idxs)] /\ DOMAIN rows = 1 .. Len(entries)
    BY <1>3, <1>4
  <2>2. \A i \in Unit!Idxs : rows[i] = Row(i)
    OBVIOUS
  <2> HIDE DEF rows
  <2>3. rows \in Seq(Seq(Unit!Idxs))
    BY <1>3, <2>1, SeqDef
  <2> QED BY <1>3, <2>1, <2>2, <2>3, LenProperties
<1> HIDE DEF rows
<1>7. rows \in Seq(Seq(Nat))
  <2>1. ASSUME NEW i \in 1 .. Len(entries) PROVE rows[i] \in Seq(Nat)
    <3>1. rows[i] \in Seq(Unit!Idxs)
      BY <1>3, <1>4, <1>6
    <3> QED BY <1>3, <3>1, SeqWider
  <2>2. rows = [i \in 1 .. Len(entries) |-> rows[i]]
    BY <1>6
  <2>3. rows \in [1 .. Len(entries) -> Seq(Nat)]
    BY <2>1, <2>2
  <2> QED BY <1>3, <2>3, SeqDef
<1>8. \A n \in 1 .. Len(rows) : Unit!Ascending(rows[n])
  BY <1>3, <1>4, <1>6
<1>9. ASSUME NEW n \in 1 .. Len(rows), NEW m \in 1 .. Len(rows), n < m,
             NEW j \in 1 .. Len(rows[n]), NEW l \in 1 .. Len(rows[m])
      PROVE  rows[n][j] < rows[m][l]
  <2>1. n \in Unit!Idxs /\ m \in Unit!Idxs /\ rows[n] = Row(n) /\ rows[m] = Row(m)
    BY <1>3, <1>6
  <2>2. Len(rows[n]) \in Nat /\ Len(rows[m]) \in Nat
    BY <1>4, <2>1
  <2>3. Len(rows[n]) > 0 /\ Len(rows[m]) > 0
    BY <2>2
  <2>4. /\ n \in Unit!Subprograms /\ Unit!Meant(n, asked)
        /\ m \in Unit!Subprograms /\ Unit!Meant(m, asked)
    BY <1>4, <2>1, <2>3 DEF a
  <2>5. n \in Unit!Enclosing(m)
    BY <1>1, <1>9, <2>1, <2>4
  <2> QED BY <1>1, <2>4, <2>5
<1>10. Unit!Ascending(answer)
  BY <1>5, <1>7, <1>8, <1>9, JoinAscends
<1>11. ASSUME NEW p \in 1 .. Len(answer) PROVE answer[p] \in Unit!Idxs /\ Unit!Meant(answer[p], asked)
  <2>1. p \in 1 .. Len(Join(rows))
    BY <1>5
  <2>2. PICK n \in 1 .. Len(rows) : \E j \in 1 .. Len(rows[n]) :
           p = Off(rows, n - 1) + j /\ Join(rows)[p] = rows[n][j]
    BY <1>6, <2>1, Located
  <2>3. PICK j \in 1 .. Len(rows[n]) : Join(rows)[p] = rows[n][j]
    BY <2>2
  <2>4. n \in Unit!Idxs /\ rows[n] = Row(n)
    BY <1>3, <1>6
  <2>5. Unit!Meant(rows[n][j], asked)
    BY <1>4, <2>4 DEF a
  <2> QED BY <1>2, <1>5, <2>3, <2>5
<1>12. k \in 1 .. Len(answer) /\ k + 1 \in 1 .. Len(answer)
  <2>1. Len(answer) \in Nat
    BY <1>2
  <2> QED BY <2>1
<1>13. answer[k] < answer[k + 1]
  BY <1>10 DEF Unit!Ascending
<1> QED
  BY <1>1, <1>11, <1>12, <1>13

LEMMA UnitInvImplies ==
    ASSUME UnitInv
    PROVE  /\ Unit!TypeOK
           /\ Unit!ParentsEnclose /\ Unit!ChildrenEnclosed /\ Unit!FirstChildren
           /\ Unit!AnswerIsTheUnits /\ Unit!ChainIsNested
<1>1. Listed
  BY DEF UnitInv
<1> QED
  BY <1>1, UnitTyped, UnitParents, UnitChildren, UnitAnswers, UnitChain

-------------------------------------------------------------------------------
(* A step taken again and again, some number of times. *)
Iterates(f, N, S, x, g) ==
    /\ f \in [0 .. N -> S]
    /\ \A n \in 0 .. N : f[n] = IF n = 0 THEN x ELSE g[f[n - 1]]
LEMMA Repeats ==
    ASSUME NEW N \in Nat, NEW S, NEW x \in S, NEW g \in [S -> S]
    PROVE  \E f : Iterates(f, N, S, x, g)
<1> DEFINE Has(m) == \E f \in [0 .. m -> S] :
                        \A n \in 0 .. m : f[n] = IF n = 0 THEN x ELSE g[f[n - 1]]
           B == {m \in Nat : Has(m)}
<1>1. 0 \in B
  <2> DEFINE f == [n \in 0 .. 0 |-> x]
  <2>1. f \in [0 .. 0 -> S] /\ \A n \in 0 .. 0 : f[n] = IF n = 0 THEN x ELSE g[f[n - 1]]
    OBVIOUS
  <2> HIDE DEF f
  <2>2. Has(0)
    BY <2>1
  <2> QED BY <2>2
<1>2. ASSUME NEW m \in Nat, m \in B PROVE m + 1 \in B
  <2>1. PICK f \in [0 .. m -> S] : \A n \in 0 .. m : f[n] = IF n = 0 THEN x ELSE g[f[n - 1]]
    BY <1>2
  <2> DEFINE h == [n \in 0 .. m + 1 |-> IF n = m + 1 THEN g[f[m]] ELSE f[n]]
  <2>2. /\ h \in [0 .. m + 1 -> S] /\ h[m + 1] = g[f[m]]
        /\ \A n \in 0 .. m : h[n] = f[n]
    OBVIOUS
  <2> HIDE DEF h
  <2>3. ASSUME NEW n \in 0 .. m + 1 PROVE h[n] = IF n = 0 THEN x ELSE g[h[n - 1]]
    <3>1. CASE n = m + 1
      <4>1. n # 0 /\ n - 1 = m /\ m \in 0 .. m
        BY <3>1
      <4> QED BY <2>2, <3>1, <4>1
    <3>2. CASE n # m + 1
      <4>1. n \in 0 .. m /\ (n # 0 => n - 1 \in 0 .. m)
        BY <3>2
      <4> QED BY <2>1, <2>2, <4>1
    <3> QED BY <3>1, <3>2
  <2>4. Has(m + 1)
    BY <2>2, <2>3
  <2> QED BY <2>4
<1> HIDE DEF B
<1>3. N \in B
  BY <1>1, <1>2, Induction
<1> QED
  BY <1>3 DEF B, Iterates

(* Ascending sequences of the same numbers are the same. *)
LEMMA AscendsAll ==
    ASSUME NEW s \in Seq(Nat), Unit!Ascending(s), NEW k \in 1 .. Len(s), NEW l \in 1 .. Len(s), k < l
    PROVE  s[k] < s[l]
<1> DEFINE B == {n \in Nat : k + n + 1 \in 1 .. Len(s) => s[k] < s[k + n + 1]}
<1>0. Len(s) \in Nat /\ \A n \in 1 .. Len(s) : s[n] \in Nat
  OBVIOUS
<1>1. 0 \in B
  <2>1. ASSUME k + 0 + 1 \in 1 .. Len(s) PROVE s[k] < s[k + 0 + 1]
    <3>1. k + 0 + 1 = k + 1 /\ k \in 1 .. Len(s) - 1
      BY <1>0, <2>1
    <3> QED BY <3>1 DEF Unit!Ascending
  <2> QED BY <2>1
<1>2. ASSUME NEW n \in Nat, n \in B PROVE n + 1 \in B
  <2>1. ASSUME k + (n + 1) + 1 \in 1 .. Len(s) PROVE s[k] < s[k + (n + 1) + 1]
    <3>1. k + n + 1 \in 1 .. Len(s) /\ k + n + 1 \in 1 .. Len(s) - 1 /\ k + (n + 1) + 1 = (k + n + 1) + 1
      BY <1>0, <2>1
    <3> DEFINE m == k + n + 1
    <3>2. s[k] < s[m]
      BY <1>2, <3>1
    <3>3. m \in 1 .. Len(s) - 1 /\ m \in 1 .. Len(s) /\ m + 1 \in 1 .. Len(s) /\ k + (n + 1) + 1 = m + 1
      BY <2>1, <3>1
    <3> HIDE DEF m
    <3>4. s[m] < s[m + 1]
      BY <3>3 DEF Unit!Ascending
    <3>5. s[k] \in Nat /\ s[m] \in Nat /\ s[m + 1] \in Nat
      BY <1>0, <3>3
    <3>6. s[k] < s[m + 1]
      BY <3>2, <3>4, <3>5
    <3> QED BY <3>3, <3>6
  <2> QED BY <2>1
<1> HIDE DEF B
<1>3. \A n \in Nat : n \in B
  BY <1>1, <1>2, Induction
<1> DEFINE m == l - k - 1
<1>4. m \in Nat /\ k + m + 1 = l
  BY <1>0
<1> HIDE DEF m
<1> QED
  BY <1>3, <1>4 DEF B

SameNumbers(s, t) ==
    /\ \A k \in 1 .. Len(s) : \E l \in 1 .. Len(t) : s[k] = t[l]
    /\ \A l \in 1 .. Len(t) : \E k \in 1 .. Len(s) : s[k] = t[l]

LEMMA AscendingStart ==
    ASSUME NEW s \in Seq(Nat), NEW t \in Seq(Nat), Unit!Ascending(s), Unit!Ascending(t),
           SameNumbers(s, t)
    PROVE  Len(s) <= Len(t) /\ \A k \in 1 .. Len(s) : s[k] = t[k]
<1>0. /\ Len(s) \in Nat /\ \A n \in 1 .. Len(s) : s[n] \in Nat
      /\ Len(t) \in Nat /\ \A n \in 1 .. Len(t) : t[n] \in Nat
  OBVIOUS
<1> DEFINE Right(n) == n <= Len(s) => n <= Len(t) /\ \A k \in 1 .. n : s[k] = t[k]
           B == {n \in Nat : Right(n)}
<1>1. 0 \in B
  BY <1>0
<1>2. ASSUME NEW n \in Nat, n \in B PROVE n + 1 \in B
  <2>1. SUFFICES ASSUME n + 1 <= Len(s)
                 PROVE  n + 1 <= Len(t) /\ s[n + 1] = t[n + 1]
    <3>1. ASSUME n + 1 <= Len(s), s[n + 1] = t[n + 1], NEW k \in 1 .. n + 1 PROVE s[k] = t[k]
      BY <1>0, <1>2, <3>1
    <3> QED BY <3>1
  <2>2. n <= Len(t) /\ \A k \in 1 .. n : s[k] = t[k]
    BY <1>0, <1>2, <2>1
  <2>3. n + 1 \in 1 .. Len(s)
    BY <1>0, <2>1
  <2>4. PICK l \in 1 .. Len(t) : s[n + 1] = t[l]
    BY <2>3 DEF SameNumbers
  <2>5. l >= n + 1
    <3>1. SUFFICES ASSUME l \in 1 .. n PROVE FALSE
      BY <1>0
    <3>2. s[l] = t[l] /\ l \in 1 .. Len(s) /\ l < n + 1
      BY <1>0, <2>1, <2>2, <3>1
    <3>3. s[l] < s[n + 1]
      BY <2>3, <3>2, AscendsAll
    <3> QED BY <1>0, <2>3, <2>4, <3>2, <3>3
  <2>6. n + 1 \in 1 .. Len(t)
    BY <1>0, <2>5
  <2>7. t[n + 1] <= s[n + 1]
    <3>1. CASE l = n + 1
      BY <1>0, <2>4, <2>6, <3>1
    <3>2. CASE n + 1 < l
      <4>1. t[n + 1] < t[l]
        BY <2>6, <3>2, AscendsAll
      <4> QED BY <1>0, <2>4, <2>6, <4>1
    <3> QED BY <1>0, <2>5, <3>1, <3>2
  <2>8. PICK m \in 1 .. Len(s) : s[m] = t[n + 1]
    BY <2>6 DEF SameNumbers
  <2>9. m >= n + 1
    <3>1. SUFFICES ASSUME m \in 1 .. n PROVE FALSE
      BY <1>0
    <3>2. s[m] = t[m] /\ m \in 1 .. Len(t) /\ m < n + 1
      BY <1>0, <2>2, <3>1
    <3>3. t[m] < t[n + 1]
      BY <2>6, <3>2, AscendsAll
    <3> QED BY <1>0, <2>6, <2>8, <3>2, <3>3
  <2>10. s[n + 1] <= t[n + 1]
    <3>1. CASE m = n + 1
      BY <1>0, <2>8, <2>6, <3>1
    <3>2. CASE n + 1 < m
      <4>1. s[n + 1] < s[m]
        BY <2>3, <3>2, AscendsAll
      <4> QED BY <1>0, <2>3, <2>8, <4>1
    <3> QED BY <1>0, <2>9, <3>1, <3>2
  <2> QED BY <1>0, <2>3, <2>6, <2>7, <2>10
<1> HIDE DEF B
<1>3. \A n \in Nat : n \in B
  BY <1>1, <1>2, Induction
<1> QED
  BY <1>0, <1>3 DEF B

LEMMA AscendingSame ==
    ASSUME NEW s \in Seq(Nat), NEW t \in Seq(Nat), Unit!Ascending(s), Unit!Ascending(t),
           SameNumbers(s, t)
    PROVE  Len(s) = Len(t) /\ \A k \in 1 .. Len(s) : s[k] = t[k]
<1>1. SameNumbers(t, s)
  BY DEF SameNumbers
<1>2. Len(s) <= Len(t) /\ \A k \in 1 .. Len(s) : s[k] = t[k]
  BY AscendingStart
<1>3. Len(t) <= Len(s)
  BY <1>1, AscendingStart
<1>4. Len(s) \in Nat /\ Len(t) \in Nat
  OBVIOUS
<1> QED
  BY <1>2, <1>3, <1>4

(* Whatever of a walk is in the set is chosen. *)
Occurs(s, x) == \E n \in 1 .. Len(s) : s[n] = x
LEMMA ChosenAll ==
    ASSUME NEW T, NEW w \in Seq(T), NEW S
    PROVE  /\ Unit!Chosen(w, S) \in Seq(T)
           /\ \A x : Occurs(Unit!Chosen(w, S), x) <=> x \in S /\ Occurs(w, x)
<1> DEFINE ps == Pieces(w, S)
           c == Unit!Chosen(w, S)
<1>1. /\ c = Join(ps) /\ ps \in Seq(Seq(T)) /\ Len(ps) = Len(w) /\ c \in Seq(T)
      /\ \A n \in 1 .. Len(w) : ps[n] = IF w[n] \in S THEN <<w[n]>> ELSE <<>>
  BY ChosenIs
<1>2. \A p \in 1 .. Len(c) : c[p] \in S /\ \E n \in 1 .. Len(w) : c[p] = w[n]
  BY ChosenFacts
<1> HIDE DEF ps, c
<1>3. Joined(T, ps)
  BY <1>1, JoinFacts
<1>4. ASSUME NEW n \in 1 .. Len(w), w[n] \in S PROVE \E p \in 1 .. Len(c) : c[p] = w[n]
  <2>0. n \in 1 .. Len(ps) /\ Len(w) \in Nat
    <3>1. Len(ps) = Len(w)
      BY <1>1
    <3>2. Len(w) \in Nat
      OBVIOUS
    <3> QED BY <3>1, <3>2
  <2>1. ps[n] = <<w[n]>> /\ n \in 1 .. Len(ps) /\ Len(w) \in Nat
    BY <1>1, <1>4, <2>0
  <2>2. Len(ps[n]) = 1 /\ ps[n][1] = w[n] /\ 1 \in 1 .. Len(ps[n])
    BY <2>1
  <2>3. /\ Off(ps, n) = Off(ps, n - 1) + 1 /\ Off(ps, n) <= Off(ps, Len(ps))
        /\ Len(c) = Off(ps, Len(ps)) /\ c[Off(ps, n - 1) + 1] = w[n]
    <3>1. n \in 0 .. Len(ps)
      BY <2>1
    <3> QED BY <1>1, <1>3, <2>1, <2>2, <3>1 DEF Joined
  <2>4. Off(ps, n - 1) \in Nat /\ Off(ps, n) \in Nat /\ Len(c) \in Nat
    <3>1. n - 1 \in 0 .. Len(ps) /\ n \in 0 .. Len(ps)
      BY <1>1, <2>1
    <3>2. Off(ps, n - 1) \in Nat /\ Off(ps, n) \in Nat
      BY <1>3, <3>1 DEF Joined
    <3> QED BY <1>1, <3>2
  <2>5. Off(ps, n - 1) + 1 \in 1 .. Len(c)
    BY <2>3, <2>4
  <2> QED BY <2>3, <2>5
<1>5. c \in Seq(T)
  BY <1>1
<1>6. \A x : Occurs(c, x) <=> x \in S /\ Occurs(w, x)
  BY <1>2, <1>4 DEF Occurs
<1> QED
  BY <1>5, <1>6 DEF c

(* Entries are found at their items, and walks stay among them. *)
LEMMA ReversedIs ==
    ASSUME NEW T, NEW s \in Seq(T)
    PROVE  /\ Unit!Reverse(s) \in Seq(T) /\ Len(Unit!Reverse(s)) = Len(s)
           /\ \A k \in 1 .. Len(s) : Unit!Reverse(s)[k] = s[(Len(s) - k) + 1]
<1> DEFINE n == Len(s)
           r == Unit!Reverse(s)
<1>1. n \in Nat /\ \A k \in 1 .. n : s[k] \in T
  OBVIOUS
<1>2. r = [k \in 1 .. n |-> s[(n - k) + 1]]
  BY DEF Unit!Reverse
<1> HIDE DEF n, r
<1>3. \A k \in 1 .. n : (n - k) + 1 \in 1 .. n
  BY <1>1
<1>4. r \in [1 .. n -> T]
  BY <1>1, <1>2, <1>3
<1>5. r \in Seq(T) /\ DOMAIN r = 1 .. n
  BY <1>1, <1>4, SeqDef
<1>6. Len(r) = n
  BY <1>1, <1>5, LenProperties
<1> QED
  BY <1>2, <1>5, <1>6 DEF n, r

LEMMA ParentsTyped ==
    ASSUME Listed, NEW i \in Unit!Idxs
    PROVE  Unit!getParentsIdxs(i) \in Seq(Unit!Idxs)
<1>1. Unit!Idxs = 1 .. Len(entries) /\ Len(entries) \in Nat /\ i \in Nat \ {0} /\ i <= Len(entries)
  BY UnitTypes DEF Unit!Idxs
<1>2. PICK f : /\ f = [k \in 0 .. i - 1 |-> WalkAt(i, TRUE, f, k)]
               /\ Unit!Walk(i, TRUE) = f[i - 1].found
  BY <1>1, WalkUnfolds
<1> DEFINE B == {k \in Nat : k <= i - 1 => f[k].found \in Seq(Unit!Idxs)}
<1>3. 0 \in B
  <2>0. 0 \in 0 .. i - 1 /\ <<>> \in Seq(Unit!Idxs)
    BY <1>1
  <2>1. f[0] = WalkAt(i, TRUE, f, 0)
    BY <1>2, <2>0
  <2>2. f[0].found = <<>>
    BY <2>1 DEF WalkAt
  <2>3. f[0].found \in Seq(Unit!Idxs)
    BY <2>0, <2>2
  <2> QED BY <2>3
<1>4. ASSUME NEW k \in Nat, k \in B PROVE k + 1 \in B
  <2>1. SUFFICES ASSUME k + 1 <= i - 1 PROVE f[k + 1].found \in Seq(Unit!Idxs)
    OBVIOUS
  <2>2. k + 1 \in 0 .. i - 1 /\ k + 1 # 0 /\ (k + 1) - 1 = k /\ k <= i - 1 /\ i - (k + 1) \in Unit!Idxs
    BY <1>1, <2>1
  <2> DEFINE l == i - (k + 1)
             w == f[k]
  <2>3. f[k + 1] = Unit!Looked(w, l, TRUE)
    <3>1. f[k + 1] = WalkAt(i, TRUE, f, k + 1)
      BY <1>2, <2>2
    <3> QED BY <2>2, <3>1 DEF WalkAt
  <2>4. w.found \in Seq(Unit!Idxs) /\ l \in Unit!Idxs
    BY <1>4, <2>2
  <2> HIDE DEF l, w
  <2>5. Append(w.found, l) \in Seq(Unit!Idxs)
    BY <2>4
  <2>6. CASE w.ended \/ entries[l].Depth > w.want
    <3>1. Unit!Looked(w, l, TRUE) = w
      BY <2>6 DEF Unit!Looked
    <3> QED BY <2>3, <2>4, <3>1
  <2>7. CASE ~(w.ended \/ entries[l].Depth > w.want)
    <3>1. Unit!Looked(w, l, TRUE).found = Append(w.found, l)
      BY <2>7 DEF Unit!Looked
    <3> QED BY <2>3, <2>5, <3>1
  <2> QED BY <2>6, <2>7
<1> HIDE DEF B
<1>5. \A k \in Nat : k \in B
  BY <1>3, <1>4, Induction
<1>6. Unit!Walk(i, TRUE) \in Seq(Unit!Idxs)
  <2>1. i - 1 \in Nat /\ i - 1 <= i - 1
    BY <1>1
  <2>2. f[i - 1].found \in Seq(Unit!Idxs)
    BY <1>5, <2>1 DEF B
  <2> QED BY <1>2, <2>2
<1>7. CASE entries[i].Depth > 0
  <2>1. Unit!getParentsIdxs(i) = Unit!Walk(i, TRUE)
    BY <1>7, Zenon DEF Unit!getParentsIdxs
  <2> QED BY <1>6, <2>1
<1>8. CASE ~(entries[i].Depth > 0)
  <2>1. Unit!getParentsIdxs(i) = <<>>
    BY <1>8, Zenon DEF Unit!getParentsIdxs
  <2>2. <<>> \in Seq(Unit!Idxs)
    OBVIOUS
  <2> QED BY <2>1, <2>2
<1> QED
  BY <1>7, <1>8

LEMMA ScopesTyped ==
    ASSUME Listed, NEW i \in Unit!Idxs
    PROVE  Unit!ScopesOf(i) \in Seq(Unit!Idxs)
<1>1. Unit!Reverse(Unit!getParentsIdxs(i)) \in Seq(Unit!Idxs)
  BY ParentsTyped, ReversedIs
<1> QED
  BY <1>1, ChosenIs DEF Unit!ScopesOf

LEMMA ChildrenTyped ==
    ASSUME Listed, NEW i \in Unit!Idxs
    PROVE  /\ Unit!getChildrensIdxs(i) \in Seq(Unit!Idxs)
           /\ \A k, m \in 1 .. Len(Unit!getChildrensIdxs(i)) : k < m =>
                Unit!getChildrensIdxs(i)[k] < Unit!getChildrensIdxs(i)[m]
<1> DEFINE r == Unit!getChildrensIdxs(i)
<1>1. Len(entries) \in Nat /\ Unit!Idxs = 1 .. Len(entries) /\ i \in Nat \ {0}
  BY UnitTypes DEF Unit!Idxs
<1>2. CASE entries[i].Depth > 0
  <2> DEFINE D == {(entries[i].Depth + 1) % DepthMod}
  <2>1. r = Unit!Run(i, D)
    BY <1>2 DEF Unit!getChildrensIdxs
  <2> HIDE DEF D, r
  <2>2. PICK e \in i .. Len(entries) : Unit!Run(i, D) = [k \in 1 .. e - i |-> i + k]
    BY <1>1, RunIs
  <2>3. i \in Nat /\ e \in Nat /\ i <= e
    BY <1>1
  <2>4. r \in Seq(i + 1 .. e) /\ Len(r) = e - i
    BY <2>1, <2>2, <2>3, RunSet
  <2>5. i + 1 .. e \subseteq Unit!Idxs
    BY <1>1, <2>3
  <2>6. r \in Seq(Unit!Idxs)
    BY <2>4, <2>5, SeqWider
  <2>7. \A k \in 1 .. Len(r) : r[k] = i + k /\ k \in Nat
    BY <2>1, <2>2, <2>3, <2>4
  <2>8. \A k, m \in 1 .. Len(r) : k < m => r[k] < r[m]
    BY <2>3, <2>7
  <2> QED BY <2>6, <2>8 DEF r
<1>3. CASE ~(entries[i].Depth > 0)
  <2>1. r = <<>>
    BY <1>3 DEF Unit!getChildrensIdxs
  <2>2. r \in Seq(Unit!Idxs) /\ Len(r) = 0
    BY <2>1
  <2> QED BY <2>2
<1> QED
  BY <1>2, <1>3

LEMMA IdxIs ==
    ASSUME Listed, NEW o
    PROVE  /\ Unit!getIdxByOffset(o) \in Unit!Idxs \cup {INVALID}
           /\ Unit!getIdxByOffset(o) # INVALID => entries[Unit!getIdxByOffset(o)].Offset = o
           /\ \A i \in Unit!Idxs : entries[i].Offset = o => Unit!getIdxByOffset(o) = i
           /\ INVALID \notin Unit!Idxs
<1> DEFINE I == {i \in Unit!Idxs : entries[i].Offset = o}
           x == Unit!getIdxByOffset(o)
<1>1. x = IF I = {} THEN INVALID ELSE CHOOSE i \in I : TRUE
  BY DEF Unit!getIdxByOffset
<1> HIDE DEF x
<1>2. I # {} => x \in I
  BY <1>1
<1>3. ASSUME NEW i \in I, NEW j \in I PROVE i = j
  <2>1. i \in Nat /\ j \in Nat /\ entries[i].Offset = entries[j].Offset /\ entries[i].Offset \in Nat
    BY UnitTypes
  <2>2. ~(i < j) /\ ~(j < i)
    BY <2>1 DEF Listed
  <2> QED BY <2>1, <2>2
<1>4. INVALID \notin Unit!Idxs
  BY UnitTypes, CompileUnitAssumption DEF Unit!CompileUnitAssumption
<1> QED
  BY <1>1, <1>2, <1>3, <1>4 DEF x

LEMMA ItemAtIs ==
    ASSUME Listed, pos = Len(Unit!Items), NEW o
    PROVE  /\ Unit!getIdxByOffset(o) = INVALID => Unit!ItemAt(o) = INVALID
           /\ Unit!getIdxByOffset(o) # INVALID =>
                /\ Unit!getIdxByOffset(o) \in Unit!Idxs /\ Unit!ItemAt(o) = o
                /\ entries[Unit!getIdxByOffset(o)].Offset = o
<1> DEFINE x == Unit!getIdxByOffset(o)
<1>1. /\ x \in Unit!Idxs \cup {INVALID} /\ (x # INVALID => entries[x].Offset = o)
      /\ \A i \in Unit!Idxs : entries[i].Offset = o => x = i
      /\ INVALID \notin Unit!Idxs
  BY IdxIs
<1> HIDE DEF x
<1>2. ASSUME x # INVALID PROVE x \in Unit!Idxs /\ Unit!ItemAt(o) = o
  <2>1. x \in Unit!Idxs /\ entries[x].Offset = o
    BY <1>1, <1>2
  <2>2. o \in 1 .. pos /\ Unit!Items[o].kind = "entry"
    BY <2>1, UnitTypes
  <2>3. o # INVALID
    BY <2>2, CompileUnitAssumption, UnitTypes DEF Unit!CompileUnitAssumption
  <2> QED BY <2>1, <2>2, <2>3 DEF Unit!ItemAt
<1>3. ASSUME x = INVALID PROVE Unit!ItemAt(o) = INVALID
  <2>1. ASSUME o \in 1 .. Len(Unit!Items), Unit!Items[o].kind = "entry" PROVE FALSE
    <3>1. PICK i \in Unit!Idxs : entries[i].Offset = o
      BY <2>1 DEF Listed
    <3> QED BY <1>1, <1>3, <3>1
  <2> QED BY <2>1 DEF Unit!ItemAt
<1> QED
  BY <1>1, <1>2, <1>3 DEF x

(* The types a parameter leads through: as far as they are told by where each
   entry leads and which have names. *)
MetFrom(next, i, c) == next[IF c = <<>> THEN i ELSE Unit!Last(c)]
MetEnded(next, ends, i, c) == MetFrom(next, i, c) = INVALID \/ (c # <<>> /\ Unit!Last(c) \in ends)
MetMore(next, ends, i, c) ==
    IF MetEnded(next, ends, i, c) THEN c ELSE Append(c, MetFrom(next, i, c))
MetAt(next, ends, i, f, n) == IF n = 0 THEN <<>> ELSE MetMore(next, ends, i, f[n - 1])
Met(next, ends, N, i) == (CHOOSE f : f = [n \in 0 .. N |-> MetAt(next, ends, i, f, n)])[N]

LEMMA TypesAre ==
    ASSUME NEW i
    PROVE  /\ Unit!TypeChain(i) = Met(Unit!TypeNext, Unit!WithName, Len(entries), i)
           /\ Unit!TypeChain(i)' = Met(Unit!TypeNext', Unit!WithName', Len(entries'), i)
<1>1. Unit!TypeChain(i) = Met(Unit!TypeNext, Unit!WithName, Len(entries), i)
  BY Zenon DEF Unit!TypeChain, Unit!Ended, Unit!TypeFrom, Met, MetAt, MetMore, MetEnded, MetFrom
<1>2. Unit!TypeChain(i)' = Met(Unit!TypeNext', Unit!WithName', Len(entries'), i)
  BY Zenon DEF Unit!TypeChain, Unit!Ended, Unit!TypeFrom, Met, MetAt, MetMore, MetEnded, MetFrom
<1> QED
  BY <1>1, <1>2

LEMMA TypesTyped ==
    ASSUME Listed, NEW i \in Unit!Idxs
    PROVE  Unit!TypeChain(i) \in Seq(Unit!Idxs)
<1> DEFINE next == Unit!TypeNext
           ends == Unit!WithName
           N == Len(entries)
           S == Seq(Unit!Idxs)
           g == [c \in S |-> MetMore(next, ends, i, c)]
<1>1. N \in Nat
  BY UnitTypes
<1>2. \A j \in Unit!Idxs : next[j] \in Unit!Idxs \cup {INVALID}
  <2>1. ASSUME NEW j \in Unit!Idxs PROVE next[j] \in Unit!Idxs \cup {INVALID}
    <3>1. next[j] = IF Unit!ItemOf(j).type = INVALID THEN INVALID
                    ELSE Unit!getIdxByOffset(Unit!ItemOf(j).type)
      BY Zenon DEF Unit!TypeNext
    <3>2. Unit!getIdxByOffset(Unit!ItemOf(j).type) \in Unit!Idxs \cup {INVALID}
      BY IdxIs
    <3> HIDE DEF next
    <3> QED BY <3>1, <3>2
  <2> QED BY <2>1
<1> HIDE DEF next, ends
<1>3. ASSUME NEW c \in S PROVE MetMore(next, ends, i, c) \in S
  <2>1. c # <<>> => Unit!Last(c) \in Unit!Idxs
    <3>1. ASSUME c # <<>> PROVE Len(c) \in 1 .. Len(c) /\ c[Len(c)] \in Unit!Idxs
      <4>1. c \in Seq(Unit!Idxs) /\ Len(c) \in Nat /\ Len(c) # 0
        BY <3>1
      <4>2. Len(c) \in 1 .. Len(c)
        BY <4>1
      <4> QED BY <4>1, <4>2
    <3> QED BY <3>1 DEF Unit!Last
  <2>2. MetFrom(next, i, c) \in Unit!Idxs \cup {INVALID}
    BY <1>2, <2>1 DEF MetFrom
  <2>3. CASE MetEnded(next, ends, i, c)
    BY <2>3 DEF MetMore
  <2>4. CASE ~MetEnded(next, ends, i, c)
    <3>1. MetFrom(next, i, c) \in Unit!Idxs
      BY <2>2, <2>4 DEF MetEnded
    <3>2. MetMore(next, ends, i, c) = Append(c, MetFrom(next, i, c))
      BY <2>4 DEF MetMore
    <3> QED BY <3>1, <3>2
  <2> QED BY <2>3, <2>4
<1>4. g \in [S -> S] /\ <<>> \in S /\ \A c \in S : g[c] = MetMore(next, ends, i, c)
  <2> HIDE DEF S
  <2>1. g \in [S -> S] /\ \A c \in S : g[c] = MetMore(next, ends, i, c)
    BY <1>3
  <2>2. <<>> \in S
    BY DEF S
  <2> QED BY <2>1, <2>2
<1> HIDE DEF g, S, N
<1>5. PICK f : f \in [0 .. N -> S] /\ \A n \in 0 .. N : f[n] = IF n = 0 THEN <<>> ELSE g[f[n - 1]]
  <2> DEFINE none == <<>>
  <2>1. none \in S
    BY <1>4
  <2> HIDE DEF none
  <2>2. \E f : Iterates(f, N, S, none, g)
    BY <1>1, <1>4, <2>1, Repeats
  <2> QED BY <2>2 DEF none, Iterates
<1>6. \A n \in 0 .. N : f[n] = MetAt(next, ends, i, f, n)
  <2>1. ASSUME NEW n \in 0 .. N PROVE f[n] = MetAt(next, ends, i, f, n)
    <3>1. CASE n = 0
      BY <1>5, <3>1 DEF MetAt
    <3>2. CASE n # 0
      <4>1. n - 1 \in 0 .. N
        BY <1>1, <3>2
      <4>2. f[n - 1] \in S /\ f[n] = g[f[n - 1]]
        BY <1>5, <3>2, <4>1
      <4> QED BY <1>4, <3>2, <4>2 DEF MetAt
    <3> QED BY <3>1, <3>2
  <2> QED BY <2>1
<1>7. f = [n \in 0 .. N |-> MetAt(next, ends, i, f, n)]
  BY <1>5, <1>6
<1> DEFINE h == CHOOSE x : x = [n \in 0 .. N |-> MetAt(next, ends, i, x, n)]
<1>8. h = [n \in 0 .. N |-> MetAt(next, ends, i, h, n)]
  BY <1>7
<1>9. Met(next, ends, N, i) = h[N]
  BY Zenon DEF Met
<1> HIDE DEF h
<1> DEFINE B == {n \in Nat : n <= N => h[n] \in S}
<1>10. 0 \in B
  <2>1. 0 \in 0 .. N
    BY <1>1
  <2>2. h[0] = <<>>
    BY <1>8, <2>1 DEF MetAt
  <2> QED BY <1>4, <2>2
<1>11. ASSUME NEW n \in Nat, n \in B PROVE n + 1 \in B
  <2>1. SUFFICES ASSUME n + 1 <= N PROVE h[n + 1] \in S
    OBVIOUS
  <2>2. n + 1 \in 0 .. N /\ n + 1 # 0 /\ (n + 1) - 1 = n /\ n <= N
    BY <1>1, <2>1
  <2>3. h[n + 1] = MetAt(next, ends, i, h, n + 1)
    BY <1>8, <2>2
  <2>4. h[n + 1] = MetMore(next, ends, i, h[n])
    BY <2>2, <2>3 DEF MetAt
  <2> QED BY <1>3, <1>11, <2>2, <2>4
<1> HIDE DEF B
<1>12. \A n \in Nat : n \in B
  BY <1>10, <1>11, Induction
<1>13. h[N] \in S
  <2>1. N <= N
    BY <1>1
  <2> QED BY <1>1, <1>12, <2>1 DEF B
<1> QED
  BY <1>9, <1>13, TypesAre DEF S, N, next, ends

(* Entries at the same items say the same. *)
SameOffsets == /\ unit' = unit /\ Len(entries') = Len(entries)
               /\ \A i \in Unit!Idxs : entries'[i].Offset = entries[i].Offset

LEMMA SameNames ==
    ASSUME Listed, SameOffsets
    PROVE  /\ Unit!Items' = Unit!Items /\ Unit!Idxs' = Unit!Idxs
           /\ \A i \in Unit!Idxs : /\ Unit!ItemOf(i)' = Unit!ItemOf(i)
                                   /\ Unit!getTag(i)' = Unit!getTag(i)
           /\ \A o : Unit!getIdxByOffset(o)' = Unit!getIdxByOffset(o)
           /\ \A i : Unit!TypeChain(i)' = Unit!TypeChain(i)
<1>1. Unit!Items' = Unit!Items /\ Unit!Idxs' = Unit!Idxs
  BY DEF Unit!Items, Unit!Idxs, SameOffsets
<1>2. ASSUME NEW i \in Unit!Idxs
      PROVE  Unit!ItemOf(i)' = Unit!ItemOf(i) /\ Unit!getTag(i)' = Unit!getTag(i)
  BY <1>1 DEF Unit!ItemOf, Unit!getTag, SameOffsets
<1>3. ASSUME NEW o PROVE Unit!getIdxByOffset(o)' = Unit!getIdxByOffset(o)
  <2> DEFINE I == {i \in Unit!Idxs : entries[i].Offset = o}
             J == {i \in Unit!Idxs' : entries'[i].Offset = o}
  <2>1. I = J
    BY <1>1 DEF SameOffsets
  <2>2. Unit!getIdxByOffset(o) = IF I = {} THEN INVALID ELSE CHOOSE i \in I : TRUE
    BY DEF Unit!getIdxByOffset
  <2>3. Unit!getIdxByOffset(o)' = IF J = {} THEN INVALID ELSE CHOOSE i \in J : TRUE
    BY DEF Unit!getIdxByOffset
  <2> HIDE DEF I, J
  <2> QED BY <2>1, <2>2, <2>3
<1>4. Unit!TypeNext' = Unit!TypeNext
  <2> DEFINE To(j) == IF Unit!ItemOf(j).type = INVALID THEN INVALID
                      ELSE Unit!getIdxByOffset(Unit!ItemOf(j).type)
  <2>1. Unit!TypeNext = [j \in Unit!Idxs |-> To(j)]
    BY Zenon DEF Unit!TypeNext
  <2>2. Unit!TypeNext' = [j \in Unit!Idxs' |-> To(j)']
    BY Zenon DEF Unit!TypeNext
  <2>3. ASSUME NEW j \in Unit!Idxs PROVE To(j)' = To(j)
    <3> DEFINE t == Unit!ItemOf(j).type
    <3>1. Unit!ItemOf(j)' = Unit!ItemOf(j)
      BY <1>2
    <3>2. Unit!getIdxByOffset(t)' = Unit!getIdxByOffset(t)
      <4>1. t' = t
        BY <3>1
      <4> HIDE DEF t
      <4>2. \A o : Unit!getIdxByOffset(o)' = Unit!getIdxByOffset(o)
        BY <1>3
      <4> QED BY <4>1, <4>2
    <3> QED BY <3>1, <3>2
  <2> HIDE DEF To
  <2> QED BY <1>1, <2>1, <2>2, <2>3
<1>5. Unit!WithName' = Unit!WithName
  BY <1>1, <1>2 DEF Unit!WithName
<1>6. ASSUME NEW i PROVE Unit!TypeChain(i)' = Unit!TypeChain(i)
  BY <1>4, <1>5, TypesAre DEF SameOffsets
<1> QED
  BY <1>1, <1>2, <1>3, <1>6

(* Reading entries keeps what holds of a unit. *)
LEMMA ReadKeeps ==
    ASSUME UnitInv, NEW I, entries' = Unit!fullExtract(entries, I),
           unit' = unit, pos' = pos, depth' = depth, m_base_address' = m_base_address,
           asked' = asked, answer' = answer
    PROVE  /\ UnitInv' /\ SameOffsets
           /\ \A i \in Unit!Idxs : /\ entries[i].extracted = TRUE => entries'[i].extracted = TRUE
                                   /\ i \in I => entries'[i].extracted = TRUE
<1>1. /\ Listed /\ depth \in 0 .. DepthMod - 1 /\ (Sound(pos) => depth = Above(pos))
      /\ m_base_address = RootBase /\ pos \in Nat /\ entries \in Seq(Unit!Node)
  BY UnitLevel, UnitTypes DEF Listed
<1>2. /\ entries' \in Seq(Unit!Node) /\ Len(entries') = Len(entries)
      /\ \A i \in Unit!Idxs : /\ entries'[i].Offset = entries[i].Offset
                              /\ entries'[i].Depth = entries[i].Depth
                              /\ entries[i].extracted = TRUE => entries'[i].extracted = TRUE
                              /\ i \in I => entries'[i].extracted = TRUE
  BY <1>1, ReadFacts
<1>3. /\ Unit!Items' = Unit!Items /\ Unit!Node' = Unit!Node
      /\ \A k : Above(k)' = Above(k)
      /\ \A k : Sound(k)' <=> Sound(k)
      /\ (Unit!WellFormed' <=> Unit!WellFormed) /\ RootBase' = RootBase
      /\ (Unit!Placed' <=> Unit!Placed)
  BY SameUnit
<1>4. Unit!Idxs' = Unit!Idxs /\ \A b : Told(b)' = Told(b)
  BY <1>1, <1>2, SameEntries
<1>5. Listed'
  <2>1. unit' \in Contents /\ pos' \in 0 .. Len(Unit!Items') /\ entries' \in Seq(Unit!Node')
    BY <1>1, <1>2, <1>3 DEF Listed
  <2>2. \A i \in Unit!Idxs' :
          /\ entries'[i].Offset <= pos' /\ Unit!Items'[entries'[i].Offset].kind = "entry"
          /\ \A o \in Nat : entries'[i].Offset = o + 1 /\ Sound(o)' => entries'[i].Depth = Above(o)'
    <3>1. ASSUME NEW i \in Unit!Idxs
          PROVE  entries'[i].Offset <= pos' /\ Unit!Items'[entries'[i].Offset].kind = "entry"
      BY <1>1, <1>2, <1>3 DEF Listed
    <3>2. ASSUME NEW i \in Unit!Idxs, NEW o \in Nat, entries'[i].Offset = o + 1
          PROVE  Sound(o)' => entries'[i].Depth = Above(o)'
      BY <1>1, <1>2, <1>3, <3>2 DEF Listed
    <3> QED BY <1>4, <3>1, <3>2
  <2>3. \A i, j \in Unit!Idxs' : i < j => entries'[i].Offset < entries'[j].Offset
    BY <1>1, <1>2, <1>4 DEF Listed
  <2>4. \A o \in 1 .. pos' : Unit!Items'[o].kind = "entry" => \E i \in Unit!Idxs' : entries'[i].Offset = o
    BY <1>1, <1>2, <1>3, <1>4 DEF Listed
  <2> QED BY <2>1, <2>2, <2>3, <2>4 DEF Listed
<1>6. UnitInv'
  <2>1. /\ depth' \in 0 .. DepthMod - 1
        /\ \A k \in Nat : pos' = k /\ Sound(k)' => depth' = Above(k)'
    BY <1>1, <1>3
  <2>2. m_base_address' = RootBase'
    BY <1>1, <1>3
  <2>3. asked' \in UnitAddresses \cup {INVALID} /\ answer' \in Seq(Unit!Idxs')
    BY <1>4 DEF UnitInv
  <2>4. ASSUME NEW b \in UnitAddresses, asked' = b
        PROVE  pos' = Len(Unit!Items') /\ (Unit!WellFormed' /\ Unit!Placed' => answer' = Told(b)')
    BY <1>3, <1>4, <2>4 DEF UnitInv
  <2> QED BY <1>5, <2>1, <2>2, <2>3, <2>4 DEF UnitInv
<1> QED
  BY <1>2, <1>6 DEF SameOffsets

(* What an answer names was read for it. *)
LEMMA AnswerRead ==
    ASSUME UnitInv, NEW a \in UnitAddresses, Unit!getDIEIdxsBy(a)
    PROVE  /\ \A i \in Unit!Idxs : Unit!getTag(i) = "subprogram" => entries'[i].extracted = TRUE
           /\ \A p \in 1 .. Len(answer') :
                Unit!getTag(answer'[p]) = "inlined_subroutine" => entries'[answer'[p]].extracted = TRUE
<1> DEFINE read == Unit!fullExtract(entries, Unit!Subprograms)
           hits == {s \in Unit!Subprograms : Unit!isInRange(read, s, a)}
           more == UNION {Unit!Inlined(s) : s \in hits}
           later == Unit!fullExtract(read, more)
           Chain(s) == {j \in Unit!Inlined(s) : Unit!isInRange(later, j, a)}
           Found(s) == <<s>> \o Unit!Chosen(Unit!getAllChildrensIdxs(s), Chain(s))
           Row(i) == IF i \in hits THEN Found(i) ELSE <<>>
           rows == [i \in Unit!Idxs |-> Row(i)]
<1>1. entries' = later
  BY Zenon DEF Unit!getDIEIdxsBy
<1>2. answer' = Unit!FlattenSeq(rows)
  BY Zenon DEF Unit!getDIEIdxsBy
<1>3. Listed
  BY DEF UnitInv
<1>4. Len(entries) \in Nat /\ Unit!Idxs = 1 .. Len(entries) /\ entries \in Seq(Unit!Node)
  BY <1>3, UnitTypes DEF Unit!Idxs, Listed
<1> HIDE DEF more
<1>5. /\ read \in Seq(Unit!Node) /\ Len(read) = Len(entries)
      /\ \A i \in Unit!Idxs : i \in Unit!Subprograms => read[i].extracted = TRUE
  BY <1>3, <1>4, ReadFacts
<1> HIDE DEF read
<1>6. /\ later \in Seq(Unit!Node) /\ Len(later) = Len(entries)
      /\ \A i \in Unit!Idxs : /\ read[i].extracted = TRUE => later[i].extracted = TRUE
                              /\ i \in more => later[i].extracted = TRUE
  BY <1>3, <1>5, ReadFacts
<1> HIDE DEF later
<1>7. \A i \in Unit!Idxs : Unit!getTag(i) = "subprogram" => entries'[i].extracted = TRUE
  BY <1>1, <1>5, <1>6 DEF Unit!Subprograms
<1>8. ASSUME NEW i \in Unit!Idxs
      PROVE  /\ Row(i) \in Seq(Unit!Idxs)
             /\ \A k \in 1 .. Len(Row(i)) : (Row(i)[k] = i /\ i \in hits) \/ Row(i)[k] \in more
  <2> DEFINE c == Unit!Chosen(Unit!getAllChildrensIdxs(i), Chain(i))
  <2>1. <<i>> \in Seq(Unit!Idxs) /\ <<>> \in Seq(Unit!Idxs) /\ Len(<<i>>) = 1 /\ <<i>>[1] = i /\ Len(<<>>) = 0
    OBVIOUS
  <2>2. Unit!getAllChildrensIdxs(i) \in Seq(Unit!Idxs)
    BY <1>3, AllChildrenTyped
  <2>3. i \in hits => Chain(i) \subseteq more
    <3> HIDE DEF hits
    <3> QED BY DEF more
  <2> HIDE DEF Chain
  <2>4. c \in Seq(Unit!Idxs)
    BY <2>2, ChosenIs
  <2>5. \A p \in 1 .. Len(c) : c[p] \in Chain(i)
    BY <2>2, ChosenFacts
  <2> HIDE DEF hits, c
  <2>6. CASE i \in hits
    <3>1. Row(i) = <<i>> \o c
      BY <2>6 DEF c
    <3> DEFINE f == <<i>> \o c
    <3>2. /\ f \in Seq(Unit!Idxs) /\ Len(f) = 1 + Len(c) /\ Len(c) \in Nat
          /\ \A k \in 1 .. 1 + Len(c) : f[k] = IF k <= 1 THEN <<i>>[k] ELSE c[k - 1]
      BY <2>1, <2>4, ConcatProperties, LenProperties
    <3> HIDE DEF f
    <3>3. ASSUME NEW k \in 1 .. Len(f) PROVE f[k] = i \/ f[k] \in more
      <4>1. CASE k = 1
        BY <2>1, <3>2, <4>1
      <4>2. CASE k # 1
        <5>1. k - 1 \in 1 .. Len(c) /\ ~(k <= 1)
          BY <3>2, <4>2
        <5>2. f[k] = c[k - 1]
          BY <3>2, <5>1
        <5> QED BY <2>3, <2>5, <2>6, <5>1, <5>2
      <4> QED BY <4>1, <4>2
    <3> HIDE DEF Row
    <3> QED BY <2>6, <3>1, <3>2, <3>3 DEF f
  <2>7. CASE i \notin hits
    BY <2>1, <2>7
  <2> QED BY <2>6, <2>7
<1>9. ASSUME NEW p \in 1 .. Len(answer'), Unit!getTag(answer'[p]) = "inlined_subroutine"
      PROVE  entries'[answer'[p]].extracted = TRUE
  <2> HIDE DEF Row
  <2>1. rows \in Seq(Seq(Unit!Idxs)) /\ Len(rows) = Len(entries) /\ \A i \in Unit!Idxs : rows[i] = Row(i)
    <3>1. rows \in [1 .. Len(entries) -> Seq(Unit!Idxs)] /\ DOMAIN rows = 1 .. Len(entries)
      BY <1>4, <1>8
    <3>2. \A i \in Unit!Idxs : rows[i] = Row(i)
      OBVIOUS
    <3> HIDE DEF rows
    <3>3. rows \in Seq(Seq(Unit!Idxs))
      BY <1>4, <3>1, SeqDef
    <3> QED BY <1>4, <3>1, <3>2, <3>3, LenProperties
  <2>2. answer' = Join(rows)
    BY <1>2, JoinIs
  <2> HIDE DEF rows
  <2>3. PICK n \in 1 .. Len(rows) : \E j \in 1 .. Len(rows[n]) :
           p = Off(rows, n - 1) + j /\ Join(rows)[p] = rows[n][j]
    BY <1>9, <2>1, <2>2, Located
  <2>4. PICK j \in 1 .. Len(rows[n]) : answer'[p] = rows[n][j]
    BY <2>2, <2>3
  <2>5. n \in Unit!Idxs /\ rows[n] = Row(n)
    BY <1>4, <2>1
  <2>6. (rows[n][j] = n /\ n \in hits) \/ rows[n][j] \in more
    BY <1>8, <2>5
  <2>7. CASE answer'[p] \in more
    <3>1. answer'[p] \in Unit!Idxs
      BY <1>8, <2>4, <2>5
    <3> QED BY <1>1, <1>6, <2>7, <3>1
  <2>8. CASE answer'[p] = n /\ n \in hits
    <3>1. Unit!getTag(n) = "subprogram"
      BY <2>8 DEF Unit!Subprograms
    <3> QED BY <1>9, <2>8, <3>1
  <2> QED BY <2>4, <2>6, <2>7, <2>8
<1> QED
  BY <1>7, <1>9

(* Where an entry leads: references are followed from item to item. *)
KnownItem == 1 .. Len(Unit!Items) \cup {INVALID}
OffsetAt(j) == IF j = INVALID THEN INVALID ELSE entries[j].Offset

LEMMA NextKnown ==
    ASSUME NEW o \in 1 .. Len(Unit!Items)
    PROVE  Unit!NextItem(o) \in KnownItem
<1>1. \A x : Unit!ItemAt(x) \in KnownItem
  BY DEF Unit!ItemAt, KnownItem
<1> DEFINE item == Unit!Items[o]
<1>2. Unit!NextItem(o) =
        IF Unit!Stays(o) THEN o
        ELSE IF item.tag = "inlined_subroutine" THEN Unit!ItemAt(item.origin)
        ELSE IF item.spec # INVALID THEN Unit!ItemAt(item.spec)
        ELSE IF item.origin # INVALID THEN Unit!ItemAt(item.origin)
        ELSE IF item.object # INVALID THEN Unit!ItemAt(item.object) ELSE INVALID
  BY Zenon DEF Unit!NextItem
<1>3. o \in KnownItem /\ INVALID \in KnownItem
  BY DEF KnownItem
<1> QED
  BY <1>1, <1>2, <1>3

(* What is read of an entry to follow it is what its item says. *)
LEMMA OffsetIs ==
    ASSUME Listed, pos = Len(Unit!Items), NEW o
    PROVE  OffsetAt(Unit!getIdxByOffset(o)) = Unit!ItemAt(o)
<1>1. /\ Unit!getIdxByOffset(o) = INVALID => Unit!ItemAt(o) = INVALID
      /\ Unit!getIdxByOffset(o) # INVALID =>
            /\ Unit!ItemAt(o) = o /\ entries[Unit!getIdxByOffset(o)].Offset = o
  BY ItemAtIs
<1> QED
  BY <1>1 DEF OffsetAt

LEMMA FollowIs ==
    ASSUME Listed, pos = Len(Unit!Items), NEW i \in Unit!Idxs, entries[i].extracted = TRUE,
           NEW o, o = entries[i].Offset
    PROVE  /\ o \in 1 .. Len(Unit!Items) /\ o # INVALID /\ Unit!Items[o].tag = Unit!getTag(i)
           /\ Unit!getTag(i) = "inlined_subroutine" =>
                ~Unit!Stays(o)
                /\ OffsetAt(Unit!getIdxByOffset(Unit!Attr(entries, i, "origin"))) = Unit!NextItem(o)
           /\ Unit!getTag(i) = "subprogram" => (Unit!HasName(i) <=> Unit!Stays(o))
           /\ (Unit!getTag(i) = "subprogram" /\ ~Unit!HasName(i)) =>
                OffsetAt(Unit!Reference(i)) = Unit!NextItem(o)
<1> DEFINE item == Unit!Items[o]
<1>1. o \in 1 .. Len(Unit!Items) /\ o # INVALID
  <2>1. o \in 1 .. Len(Unit!Items) /\ o \in Nat
    BY UnitTypes
  <2> QED BY <2>1, CompileUnitAssumption DEF Unit!CompileUnitAssumption
<1>2. Unit!ItemOf(i) = item /\ Unit!getTag(i) = item.tag
  BY DEF Unit!ItemOf, Unit!getTag
<1>3. \A a : Unit!Attr(entries, i, a) = item[a]
  BY <1>2 DEF Unit!Attr
<1>4. \A x : OffsetAt(Unit!getIdxByOffset(x)) = Unit!ItemAt(x)
  BY OffsetIs
<1>5. Unit!NextItem(o) =
        IF Unit!Stays(o) THEN o
        ELSE IF item.tag = "inlined_subroutine" THEN Unit!ItemAt(item.origin)
        ELSE IF item.spec # INVALID THEN Unit!ItemAt(item.spec)
        ELSE IF item.origin # INVALID THEN Unit!ItemAt(item.origin)
        ELSE IF item.object # INVALID THEN Unit!ItemAt(item.object) ELSE INVALID
  BY Zenon DEF Unit!NextItem
<1>6. Unit!Stays(o) <=> /\ item.tag # "inlined_subroutine"
                        /\ item.tag = "subprogram" => item.name # INVALID \/ item.linkage # INVALID
  BY Zenon DEF Unit!Stays
<1>7. Unit!HasName(i) <=> item.name # INVALID \/ item.linkage # INVALID
  BY <1>3 DEF Unit!HasName
<1>8. Unit!Reference(i) =
        Unit!getIdxByOffset(IF item.spec # INVALID THEN item.spec
                            ELSE IF item.origin # INVALID THEN item.origin ELSE item.object)
  BY <1>3 DEF Unit!Reference
<1>9. Unit!ItemAt(INVALID) = INVALID
  BY DEF Unit!ItemAt
<1> HIDE DEF item
<1>10. Unit!Attr(entries, i, "origin") = item.origin
  BY <1>3
<1>11. OffsetAt(Unit!Reference(i)) =
        Unit!ItemAt(IF item.spec # INVALID THEN item.spec
                    ELSE IF item.origin # INVALID THEN item.origin ELSE item.object)
  BY <1>4, <1>8, Zenon
<1>12. "inlined_subroutine" # "subprogram"
  OBVIOUS
<1>13. ASSUME item.tag = "inlined_subroutine"
       PROVE  ~Unit!Stays(o)
              /\ OffsetAt(Unit!getIdxByOffset(Unit!Attr(entries, i, "origin"))) = Unit!NextItem(o)
  <2>1. ~Unit!Stays(o)
    BY <1>6, <1>13
  <2>2. Unit!NextItem(o) = Unit!ItemAt(item.origin)
    BY <1>5, <1>13, <2>1
  <2> QED BY <1>4, <1>10, <2>1, <2>2
<1>14. ASSUME item.tag = "subprogram", ~Unit!HasName(i)
       PROVE  OffsetAt(Unit!Reference(i)) = Unit!NextItem(o)
  <2>1. ~Unit!Stays(o) /\ item.tag # "inlined_subroutine"
    BY <1>6, <1>7, <1>12, <1>14
  <2> QED BY <1>5, <1>9, <1>11, <2>1
<1> QED
  BY <1>1, <1>2, <1>6, <1>7, <1>12, <1>13, <1>14 DEF item

-------------------------------------------------------------------------------
(* The items that were passed on the way. *)
Passed(o, x, n, f) ==
    /\ f \in [0 .. n -> KnownItem] /\ f[0] = o /\ f[n] = x
    /\ \A k \in 0 .. n - 1 : /\ f[k] # INVALID /\ ~Unit!Stays(f[k])
                             /\ f[k + 1] = Unit!NextItem(f[k])
LeadsTo(o, x) == \E n \in Nat : \E f : Passed(o, x, n, f)

LEMMA LeadsStart ==
    ASSUME NEW o \in KnownItem
    PROVE  LeadsTo(o, o)
<1> DEFINE f == [k \in 0 .. 0 |-> o]
<1>1. f \in [0 .. 0 -> KnownItem] /\ f[0] = o /\ 0 .. 0 - 1 = {}
  OBVIOUS
<1> HIDE DEF f
<1>2. Passed(o, o, 0, f)
  BY <1>1 DEF Passed
<1> QED
  BY <1>2 DEF LeadsTo

LEMMA LeadsMore ==
    ASSUME NEW o, NEW x, LeadsTo(o, x), x # INVALID, ~Unit!Stays(x)
    PROVE  LeadsTo(o, Unit!NextItem(x))
<1> DEFINE y == Unit!NextItem(x)
<1>1. PICK n \in Nat : \E f : Passed(o, x, n, f)
  BY DEF LeadsTo
<1>2. PICK f : Passed(o, x, n, f)
  BY <1>1
<1>3. /\ f \in [0 .. n -> KnownItem] /\ f[0] = o /\ f[n] = x
      /\ \A k \in 0 .. n - 1 : /\ f[k] # INVALID /\ ~Unit!Stays(f[k])
                               /\ f[k + 1] = Unit!NextItem(f[k])
  BY <1>2 DEF Passed
<1>4. x \in 1 .. Len(Unit!Items) /\ n \in 0 .. n
  <2>1. n \in 0 .. n
    OBVIOUS
  <2>2. x \in KnownItem
    BY <1>3, <2>1
  <2> QED BY <2>1, <2>2 DEF KnownItem
<1>5. y \in KnownItem
  BY <1>4, NextKnown
<1> HIDE DEF y
<1> DEFINE h == [k \in 0 .. n + 1 |-> IF k = n + 1 THEN y ELSE f[k]]
<1>6. h \in [0 .. n + 1 -> KnownItem] /\ h[n + 1] = y /\ \A k \in 0 .. n : h[k] = f[k]
  BY <1>3, <1>5
<1> HIDE DEF h
<1>7. ASSUME NEW k \in 0 .. n
      PROVE  h[k] # INVALID /\ ~Unit!Stays(h[k]) /\ h[k + 1] = Unit!NextItem(h[k])
  <2>1. CASE k = n
    BY <1>3, <1>4, <1>6, <2>1 DEF y
  <2>2. CASE k # n
    <3>1. k \in 0 .. n - 1 /\ k + 1 \in 0 .. n
      BY <2>2
    <3> QED BY <1>3, <1>6, <3>1
  <2> QED BY <2>1, <2>2
<1>8. (n + 1) - 1 = n /\ 0 \in 0 .. n /\ n + 1 \in Nat
  OBVIOUS
<1>9. h[0] = o
  BY <1>3, <1>6, <1>8
<1>10. Passed(o, y, n + 1, h)
  BY <1>6, <1>7, <1>8, <1>9 DEF Passed
<1> QED
  BY <1>8, <1>10 DEF LeadsTo, y

(* A way that ends passes nothing twice, so it is not longer than the unit. *)
LEMMA PassedOnce ==
    ASSUME NEW o, NEW x, NEW n \in Nat, NEW f, Passed(o, x, n, f), x = INVALID \/ Unit!Stays(x),
           Len(Unit!Items) \in Nat
    PROVE  n <= Len(Unit!Items)
<1> DEFINE N == Len(Unit!Items)
<1>1. /\ f \in [0 .. n -> KnownItem] /\ f[0] = o /\ f[n] = x
      /\ \A k \in 0 .. n - 1 : /\ f[k] # INVALID /\ ~Unit!Stays(f[k])
                               /\ f[k + 1] = Unit!NextItem(f[k])
  BY DEF Passed
<1>2. ASSUME NEW a \in 0 .. n - 1, NEW b \in 0 .. n - 1, a < b, f[a] = f[b] PROVE FALSE
  <2> DEFINE B == {d \in Nat : b + d <= n => f[a + d] = f[b + d]}
  <2>1. 0 \in B
    BY <1>2
  <2>2. ASSUME NEW d \in Nat, d \in B PROVE d + 1 \in B
    <3>1. SUFFICES ASSUME b + (d + 1) <= n PROVE f[a + (d + 1)] = f[b + (d + 1)]
      OBVIOUS
    <3>2. /\ a + d \in 0 .. n - 1 /\ b + d \in 0 .. n - 1 /\ b + d <= n
          /\ a + (d + 1) = (a + d) + 1 /\ b + (d + 1) = (b + d) + 1
      BY <1>2, <3>1
    <3>3. f[a + d] = f[b + d]
      BY <2>2, <3>2
    <3>4. f[(a + d) + 1] = Unit!NextItem(f[a + d]) /\ f[(b + d) + 1] = Unit!NextItem(f[b + d])
      BY <1>1, <3>2
    <3> QED BY <3>2, <3>3, <3>4
  <2> HIDE DEF B
  <2>3. \A d \in Nat : d \in B
    BY <2>1, <2>2, Induction
  <2> DEFINE d == n - b
  <2>4. d \in Nat /\ b + d = n /\ b + d <= n /\ a + d \in 0 .. n - 1
    BY <1>2
  <2> HIDE DEF d
  <2>5. f[a + d] = f[n]
    BY <2>3, <2>4 DEF B
  <2> QED BY <1>1, <2>4, <2>5
<1>3. ASSUME N < n PROVE FALSE
  <2> DEFINE S == 0 .. n - 1
             T == 1 .. N
             h == [k \in S |-> f[k]]
  <2>1. h \in [S -> T]
    <3>1. ASSUME NEW k \in S PROVE f[k] \in T
      <4>1. k \in 0 .. n
        OBVIOUS
      <4>2. f[k] \in KnownItem /\ f[k] # INVALID
        BY <1>1, <4>1
      <4> QED BY <4>2 DEF KnownItem
    <3> QED BY <3>1
  <2>2. IsFiniteSet(S) /\ Cardinality(S) = n /\ IsFiniteSet(T) /\ Cardinality(T) = N
    <3>1. IsFiniteSet(S) /\ Cardinality(S) = IF 0 > n - 1 THEN 0 ELSE (n - 1) - 0 + 1
      <4>1. 0 \in Int /\ n - 1 \in Int
        OBVIOUS
      <4> QED BY <4>1, FS_Interval
    <3>2. IsFiniteSet(T) /\ Cardinality(T) = IF 1 > N THEN 0 ELSE N - 1 + 1
      <4>1. 1 \in Int /\ N \in Int
        OBVIOUS
      <4> QED BY <4>1, FS_Interval
    <3> HIDE DEF S, T
    <3> QED BY <1>3, <3>1, <3>2
  <2>3. \A k \in S : h[k] = f[k]
    OBVIOUS
  <2> HIDE DEF S, T, h
  <2>4. \E a, b \in S : a # b /\ h[a] = h[b]
    BY <1>3, <2>1, <2>2, FS_PigeonHole
  <2>5. PICK a \in S, b \in S : a # b /\ f[a] = f[b]
    BY <2>3, <2>4
  <2>6. a < b \/ b < a
    BY <2>5 DEF S
  <2> QED BY <1>2, <2>5, <2>6 DEF S
<1> QED
  BY <1>3

ReachedAt(o, f, n) ==
    IF n = 0 THEN o ELSE IF f[n - 1] = INVALID THEN f[n - 1] ELSE Unit!NextItem(f[n - 1])

LEMMA ReachedIs ==
    ASSUME NEW o \in KnownItem, NEW x, LeadsTo(o, x), x = INVALID \/ Unit!Stays(x),
           Len(Unit!Items) \in Nat
    PROVE  Unit!Reached(o) = x
<1> DEFINE N == Len(Unit!Items)
<1>1. PICK n \in Nat : \E f : Passed(o, x, n, f)
  BY DEF LeadsTo
<1>2. PICK f : Passed(o, x, n, f)
  BY <1>1
<1>3. /\ f \in [0 .. n -> KnownItem] /\ f[0] = o /\ f[n] = x
      /\ \A k \in 0 .. n - 1 : /\ f[k] # INVALID /\ ~Unit!Stays(f[k])
                               /\ f[k + 1] = Unit!NextItem(f[k])
  BY <1>2 DEF Passed
<1>4. n <= N /\ N \in Nat
  BY <1>2, PassedOnce
<1> DEFINE g == [s \in KnownItem |-> IF s = INVALID THEN s ELSE Unit!NextItem(s)]
<1>5. g \in [KnownItem -> KnownItem] /\ \A s \in KnownItem : g[s] = IF s = INVALID THEN s ELSE Unit!NextItem(s)
  <2>1. ASSUME NEW s \in KnownItem PROVE (IF s = INVALID THEN s ELSE Unit!NextItem(s)) \in KnownItem
    <3>1. CASE s = INVALID
      BY <3>1
    <3>2. CASE s # INVALID
      <4>1. s \in 1 .. Len(Unit!Items)
        BY <3>2 DEF KnownItem
      <4> QED BY <3>2, <4>1, NextKnown
    <3> QED BY <3>1, <3>2
  <2> QED BY <2>1
<1> HIDE DEF g, N
<1>6. PICK r : r \in [0 .. N -> KnownItem] /\ \A m \in 0 .. N : r[m] = IF m = 0 THEN o ELSE g[r[m - 1]]
  <2>1. \E r : Iterates(r, N, KnownItem, o, g)
    BY <1>4, <1>5, Repeats
  <2> QED BY <2>1 DEF Iterates
<1>7. ASSUME NEW m \in 0 .. N PROVE r[m] = ReachedAt(o, r, m)
  <2>1. CASE m = 0
    BY <1>6, <2>1 DEF ReachedAt
  <2>2. CASE m # 0
    <3>1. m - 1 \in 0 .. N
      BY <1>4, <2>2
    <3>2. r[m - 1] \in KnownItem /\ r[m] = g[r[m - 1]]
      BY <1>6, <2>2, <3>1
    <3> QED BY <1>5, <2>2, <3>2 DEF ReachedAt
  <2> QED BY <2>1, <2>2
<1>8. r = [m \in 0 .. N |-> ReachedAt(o, r, m)]
  BY <1>6, <1>7
<1> DEFINE h == CHOOSE z : z = [m \in 0 .. N |-> ReachedAt(o, z, m)]
<1>9. h = [m \in 0 .. N |-> ReachedAt(o, h, m)]
  BY <1>8
<1>10. Unit!Reached(o) = h[N]
  BY Zenon DEF Unit!Reached, ReachedAt, N
<1> HIDE DEF h
<1>11. x # INVALID => Unit!NextItem(x) = x
  <2>1. ASSUME x # INVALID PROVE Unit!NextItem(x) = x
    <3>1. Unit!Stays(x)
      BY <2>1
    <3> QED BY <3>1, Zenon DEF Unit!NextItem
  <2> QED BY <2>1
<1> DEFINE Now(m) == IF m <= n THEN f[m] ELSE x
           B == {m \in Nat : m <= N => h[m] = Now(m)}
<1>12. 0 \in B
  <2>1. 0 \in 0 .. N /\ 0 <= n
    BY <1>4
  <2>2. h[0] = o
    BY <1>9, <2>1 DEF ReachedAt
  <2> QED BY <1>3, <2>1, <2>2
<1>13. ASSUME NEW m \in Nat, m \in B PROVE m + 1 \in B
  <2>1. SUFFICES ASSUME m + 1 <= N PROVE h[m + 1] = Now(m + 1)
    OBVIOUS
  <2>2. m + 1 \in 0 .. N /\ m + 1 # 0 /\ (m + 1) - 1 = m /\ m <= N
    BY <1>4, <2>1
  <2>3. h[m + 1] = ReachedAt(o, h, m + 1)
    BY <1>9, <2>2
  <2>4. h[m + 1] = IF h[m] = INVALID THEN h[m] ELSE Unit!NextItem(h[m])
    BY <2>2, <2>3 DEF ReachedAt
  <2>5. h[m] = Now(m)
    BY <1>13, <2>2
  <2>6. CASE m + 1 <= n
    <3>1. m <= n /\ m \in 0 .. n - 1
      BY <2>6
    <3>2. h[m] = f[m] /\ f[m] # INVALID /\ f[m + 1] = Unit!NextItem(f[m])
      BY <1>3, <2>5, <3>1
    <3> QED BY <2>4, <2>6, <3>2
  <2>7. CASE ~(m + 1 <= n)
    <3>1. h[m] = x
      <4>1. m <= n => m = n
        BY <2>7
      <4> QED BY <1>3, <2>5, <4>1
    <3> QED BY <1>11, <2>4, <2>7, <3>1
  <2> QED BY <2>6, <2>7
<1> HIDE DEF B
<1>14. \A m \in Nat : m \in B
  BY <1>12, <1>13, Induction
<1>15. h[N] = Now(N)
  <2>1. N <= N
    BY <1>4
  <2> QED BY <1>4, <1>14, <2>1 DEF B
<1>16. Now(N) = x
  <2>1. N <= n => N = n
    BY <1>4
  <2> QED BY <1>3, <2>1
<1> QED
  BY <1>10, <1>15, <1>16

(* Items and entries are found at the same places. *)
LEMMA OffsetsOrder ==
    ASSUME Listed, NEW i \in Unit!Idxs, NEW j \in Unit!Idxs
    PROVE  /\ i \in Nat /\ j \in Nat /\ entries[i].Offset \in Nat /\ entries[j].Offset \in Nat
           /\ i < j <=> entries[i].Offset < entries[j].Offset
           /\ i = j <=> entries[i].Offset = entries[j].Offset
<1>1. i \in Nat /\ j \in Nat /\ entries[i].Offset \in Nat /\ entries[j].Offset \in Nat
  BY UnitTypes
<1>2. i < j => entries[i].Offset < entries[j].Offset
  BY DEF Listed
<1>3. j < i => entries[j].Offset < entries[i].Offset
  BY DEF Listed
<1> QED
  BY <1>1, <1>2, <1>3

(* A walk's entries, at their items, in the order of the unit. *)
LEMMA OffsetsAscend ==
    ASSUME Listed, NEW s \in Seq(Unit!Idxs), Unit!Ascending(s)
    PROVE  LET offsets == [n \in 1 .. Len(s) |-> entries[s[n]].Offset] IN
           /\ offsets \in Seq(Nat) /\ Len(offsets) = Len(s) /\ Unit!Ascending(offsets)
<1> DEFINE offsets == [n \in 1 .. Len(s) |-> entries[s[n]].Offset]
<1>1. Len(s) \in Nat /\ \A n \in 1 .. Len(s) : s[n] \in Unit!Idxs
  OBVIOUS
<1>2. ASSUME NEW n \in 1 .. Len(s) PROVE offsets[n] = entries[s[n]].Offset /\ offsets[n] \in Nat
  <2>1. entries[s[n]].Offset \in Nat
    BY <1>1, OffsetsOrder
  <2> QED BY <2>1
<1>3. offsets \in [1 .. Len(s) -> Nat] /\ DOMAIN offsets = 1 .. Len(s)
  BY <1>2
<1> HIDE DEF offsets
<1>4. offsets \in Seq(Nat)
  BY <1>1, <1>3, SeqDef
<1>5. Len(offsets) = Len(s)
  BY <1>1, <1>3, <1>4, LenProperties
<1>6. ASSUME NEW k \in 1 .. Len(s) - 1 PROVE offsets[k] < offsets[k + 1]
  <2>1. k \in 1 .. Len(s) /\ k + 1 \in 1 .. Len(s)
    BY <1>1
  <2>2. s[k] < s[k + 1] /\ s[k] \in Unit!Idxs /\ s[k + 1] \in Unit!Idxs
    BY <1>1, <2>1 DEF Unit!Ascending
  <2>3. entries[s[k]].Offset < entries[s[k + 1]].Offset
    BY <2>2, OffsetsOrder
  <2> QED BY <1>2, <2>1, <2>3
<1> QED
  BY <1>4, <1>5, <1>6 DEF offsets, Unit!Ascending

LEMMA FirstsAre ==
    ASSUME NEW n \in Nat
    PROVE  LET w == [j \in 1 .. n |-> j] IN
           /\ w \in Seq(Nat) /\ Len(w) = n /\ \A j \in 1 .. n : w[j] = j
<1> DEFINE w == [j \in 1 .. n |-> j]
<1>1. w \in [1 .. n -> Nat] /\ DOMAIN w = 1 .. n /\ \A j \in 1 .. n : w[j] = j
  OBVIOUS
<1> HIDE DEF w
<1>2. w \in Seq(Nat)
  BY <1>1, SeqDef
<1> QED
  BY <1>1, <1>2, LenProperties DEF w

(* What is chosen of the first numbers. *)
LEMMA ChosenFirsts ==
    ASSUME NEW n \in Nat, NEW S
    PROVE  LET c == Unit!Chosen([j \in 1 .. n |-> j], S) IN
           /\ c \in Seq(Nat) /\ Unit!Ascending(c)
           /\ \A x : Occurs(c, x) <=> x \in S /\ x \in 1 .. n
<1> DEFINE w == [j \in 1 .. n |-> j]
           c == Unit!Chosen(w, S)
<1>1. w \in Seq(Nat) /\ Len(w) = n /\ \A j \in 1 .. n : w[j] = j
  BY FirstsAre
<1> HIDE DEF w, c
<1>2. c \in Seq(Nat) /\ \A x : Occurs(c, x) <=> x \in S /\ Occurs(w, x)
  BY <1>1, ChosenAll DEF c
<1>3. Unit!Ascending(c)
  <2>1. Nat \subseteq Nat /\ \A k, m \in 1 .. Len(w) : k < m => w[k] < w[m]
    BY <1>1
  <2>2. w \in Seq(Nat)
    BY <1>1
  <2>3. Unit!Ascending(Unit!Chosen(w, S))
    BY ONLY <2>1, <2>2, ChosenFacts
  <2> QED BY <2>3 DEF c
<1>4. \A x : Occurs(w, x) <=> x \in 1 .. n
  BY <1>1 DEF Occurs
<1> QED
  BY <1>2, <1>3, <1>4 DEF c, w

(* The scopes are the items that enclose the entry's, outermost first. *)
Outer(o) ==
    Unit!Chosen([j \in 1 .. o - 1 |-> j],
        {j \in 1 .. o - 1 : Unit!Encloses(j, o) /\ Unit!Items[j].tag \in Unit!Scoping})

LEMMA ScopesAre ==
    ASSUME Listed, Unit!WellFormed, pos = Len(Unit!Items), NEW i \in Unit!Idxs,
           NEW o, o = entries[i].Offset
    PROVE  /\ Unit!ScopesOf(i) \in Seq(Unit!Idxs) /\ Len(Outer(o)) = Len(Unit!ScopesOf(i))
           /\ Outer(o) \in Seq(Nat)
           /\ \A n \in 1 .. Len(Unit!ScopesOf(i)) : entries[Unit!ScopesOf(i)[n]].Offset = Outer(o)[n]
<1> DEFINE p == Unit!getParentsIdxs(i)
           w == Unit!Reverse(p)
           S == {j \in Unit!Idxs : Unit!getTag(j) \in Unit!Scoping}
           s == Unit!ScopesOf(i)
           H == {j \in 1 .. o - 1 : Unit!Encloses(j, o) /\ Unit!Items[j].tag \in Unit!Scoping}
           offsets == [n \in 1 .. Len(s) |-> entries[s[n]].Offset]
<1>1. p \in Seq(Unit!Idxs) /\ Unit!ToSet(p) = Unit!Enclosing(i) /\ Unit!Ascending(w)
  BY ParentsTyped, UnitParents DEF Unit!ParentsEnclose
<1>2. s = Unit!Chosen(w, S)
  BY DEF Unit!ScopesOf
<1>3. o \in 1 .. pos /\ o \in Nat \ {0} /\ o - 1 \in Nat /\ Unit!Idxs \subseteq Nat /\ pos \in Nat
  BY UnitTypes
<1> HIDE DEF p
<1>4. /\ w \in Seq(Unit!Idxs) /\ Len(w) = Len(p) /\ Len(p) \in Nat
      /\ \A k \in 1 .. Len(p) : w[k] = p[(Len(p) - k) + 1]
  BY <1>1, ReversedIs
<1> HIDE DEF w, s, S
<1>5. \A x : Occurs(w, x) <=> x \in Unit!Enclosing(i)
  <2>1. DOMAIN p = 1 .. Len(p)
    BY <1>1
  <2>2. \A x : x \in Unit!ToSet(p) <=> \E k \in 1 .. Len(p) : p[k] = x
    BY <2>1 DEF Unit!ToSet
  <2>3. \A k \in 1 .. Len(p) : (Len(p) - k) + 1 \in 1 .. Len(p) /\ (Len(p) - ((Len(p) - k) + 1)) + 1 = k
    BY <1>4
  <2>4. \A k \in 1 .. Len(p) : \E m \in 1 .. Len(w) : w[m] = p[k]
    BY <1>4, <2>3
  <2> QED BY <1>1, <1>4, <2>2, <2>3, <2>4 DEF Occurs
<1>6. /\ s \in Seq(Unit!Idxs) /\ Len(s) \in Nat
      /\ \A x : Occurs(s, x) <=> x \in S /\ x \in Unit!Enclosing(i)
  <2>1. /\ Unit!Chosen(w, S) \in Seq(Unit!Idxs)
        /\ \A x : Occurs(Unit!Chosen(w, S), x) <=> x \in S /\ Occurs(w, x)
    BY <1>4, ChosenAll
  <2> QED BY <1>2, <1>5, <2>1
<1>7. Unit!Ascending(s)
  <2>1. w \in Seq(Nat)
    BY <1>3, <1>4, SeqWider
  <2>2. \A k, m \in 1 .. Len(w) : k < m => w[k] < w[m]
    BY <1>1, <2>1, AscendsAll DEF w
  <2>3. Unit!Ascending(Unit!Chosen(w, S))
    BY <1>3, <1>4, <2>2, ChosenFacts
  <2> QED BY <1>2, <2>3
<1>8. offsets \in Seq(Nat) /\ Len(offsets) = Len(s) /\ Unit!Ascending(offsets)
  BY <1>6, <1>7, OffsetsAscend
<1>9. \A n \in 1 .. Len(s) : offsets[n] = entries[s[n]].Offset
  OBVIOUS
<1> HIDE DEF offsets, H
<1>10. /\ Outer(o) \in Seq(Nat) /\ Unit!Ascending(Outer(o))
       /\ \A x : Occurs(Outer(o), x) <=> x \in H /\ x \in 1 .. o - 1
  <2>1. Outer(o) = Unit!Chosen([j \in 1 .. o - 1 |-> j], H)
    BY DEF Outer, H
  <2> QED BY <1>3, <2>1, ChosenFirsts
<1>11. ASSUME NEW k \in 1 .. Len(offsets) PROVE \E l \in 1 .. Len(Outer(o)) : offsets[k] = Outer(o)[l]
  <2> DEFINE j == s[k]
  <2>0. Occurs(s, j)
    BY <1>8 DEF Occurs
  <2>1. j \in S /\ j \in Unit!Enclosing(i) /\ offsets[k] = entries[j].Offset
    BY <1>6, <1>8, <1>9, <2>0
  <2> HIDE DEF j
  <2>2. j \in Unit!Idxs /\ Unit!getTag(j) \in Unit!Scoping
    BY <2>1 DEF S
  <2>3. Unit!Encloses(entries[j].Offset, o)
    BY <2>1 DEF Unit!Enclosing
  <2>4. entries[j].Offset \in 1 .. o - 1
    <3>1. entries[j].Offset < o
      BY <2>3 DEF Unit!Encloses
    <3>2. entries[j].Offset \in 1 .. pos
      BY <2>2, UnitTypes
    <3> QED BY <1>3, <3>1, <3>2
  <2>5. Unit!Items[entries[j].Offset].tag \in Unit!Scoping
    BY <2>2 DEF Unit!getTag, Unit!ItemOf
  <2>6. offsets[k] \in H
    BY <2>1, <2>3, <2>4, <2>5 DEF H
  <2>7. Occurs(Outer(o), offsets[k])
    BY <1>10, <2>1, <2>4, <2>6
  <2> QED BY <2>7 DEF Occurs
<1>12. ASSUME NEW l \in 1 .. Len(Outer(o)) PROVE \E k \in 1 .. Len(offsets) : offsets[k] = Outer(o)[l]
  <2> DEFINE x == Outer(o)[l]
  <2>0. Occurs(Outer(o), x)
    BY DEF Occurs
  <2>1. x \in H /\ x \in 1 .. o - 1
    BY <1>10, <2>0
  <2> HIDE DEF x
  <2>2. Unit!Encloses(x, o) /\ Unit!Items[x].tag \in Unit!Scoping
    BY <2>1 DEF H
  <2>3. Unit!Items[x].kind = "entry" /\ x \in 1 .. pos
    BY <1>3, <2>1, <2>2 DEF Unit!Encloses
  <2>4. PICK j \in Unit!Idxs : entries[j].Offset = x
    BY <2>3 DEF Listed
  <2>5. j < i
    <3>1. x < o
      BY <1>3, <2>1
    <3> QED BY <2>4, <3>1, OffsetsOrder
  <2>6. j \in Unit!Enclosing(i)
    <3>1. j \in 1 .. i - 1
      BY <2>5 DEF Unit!Idxs
    <3> QED BY <2>2, <2>4, <3>1 DEF Unit!Enclosing
  <2>7. j \in S
    BY <2>2, <2>4 DEF S, Unit!getTag, Unit!ItemOf
  <2>8. PICK k \in 1 .. Len(s) : s[k] = j
    BY <1>6, <2>6, <2>7 DEF Occurs
  <2> QED BY <1>8, <1>9, <2>4, <2>8 DEF x
<1>13. Len(offsets) = Len(Outer(o)) /\ \A k \in 1 .. Len(offsets) : offsets[k] = Outer(o)[k]
  <2>1. SameNumbers(offsets, Outer(o))
    BY <1>11, <1>12 DEF SameNumbers
  <2> QED BY <1>8, <1>10, <2>1, AscendingSame
<1> QED
  BY <1>6, <1>8, <1>9, <1>10, <1>13 DEF s

(* The parameters that are seen are the declared ones, if nothing with entries
   inside stands before them. *)
LEMMA DirectIs ==
    ASSUME Listed, Unit!WellFormed, pos = Len(Unit!Items), NEW i \in Unit!Idxs, NEW j \in Unit!Idxs
    PROVE  Unit!Direct(entries[i].Offset, entries[j].Offset) <=>
               j \in Unit!Enclosed(i) /\ Unit!Enclosing(j) = Unit!Enclosing(i) \cup {i}
<1> DEFINE m == entries[i].Offset
           o == entries[j].Offset
<1>1. \A k, l \in Unit!Idxs : Unit!Encloses(entries[k].Offset, entries[l].Offset) <=> Within(k, l)
  BY DepthFacts DEF TreeFacts
<1>2. /\ Unit!Enclosed(i) = {k \in Unit!Idxs : Within(i, k)}
      /\ Unit!Enclosing(i) = {k \in Unit!Idxs : Within(k, i)}
      /\ Unit!Enclosing(j) = {k \in Unit!Idxs : Within(k, j)}
  BY EnclosedIs
<1>3. /\ i \in Nat /\ j \in Nat /\ Unit!Idxs \subseteq Nat /\ Unit!Idxs = 1 .. Len(entries)
      /\ Len(entries) \in Nat
      /\ \A k \in Unit!Idxs : entries[k].Offset \in 1 .. pos /\ entries[k].Depth \in Nat
      /\ pos \in Nat /\ DepthMod \in Nat
  <2>1. \A k \in Unit!Idxs : entries[k].Offset \in 1 .. pos /\ entries[k].Depth \in 0 .. DepthMod - 1
    BY UnitTypes
  <2>2. /\ Unit!Idxs \subseteq Nat /\ Len(entries) \in Nat /\ pos \in Nat /\ DepthMod \in Nat
    BY UnitTypes
  <2>3. Unit!Idxs = 1 .. Len(entries)
    BY DEF Unit!Idxs
  <2> QED BY <2>1, <2>2, <2>3
<1>4. Unit!Direct(m, o) <=> Unit!Encloses(m, o) /\ \A x \in m + 1 .. o - 1 : ~Unit!Encloses(x, o)
  BY DEF Unit!Direct
<1>5. ASSUME Unit!Direct(m, o)
      PROVE  j \in Unit!Enclosed(i) /\ Unit!Enclosing(j) = Unit!Enclosing(i) \cup {i}
  <2>1. Within(i, j) /\ j \in Unit!Enclosed(i)
    BY <1>1, <1>2, <1>4, <1>5
  <2>2. i < j /\ \A x \in i + 1 .. j : entries[x].Depth > entries[i].Depth
    BY <2>1 DEF Within
  <2>3. ASSUME NEW k \in Unit!Idxs, Within(k, j) PROVE k = i \/ Within(k, i)
    <3>1. k < j /\ \A x \in k + 1 .. j : entries[x].Depth > entries[k].Depth
      BY <2>3 DEF Within
    <3>2. CASE k < i
      <4>1. \A x \in k + 1 .. i : x \in k + 1 .. j
        BY <1>3, <2>2
      <4> QED BY <3>1, <3>2, <4>1 DEF Within
    <3>3. CASE i < k
      <4>1. m < entries[k].Offset
        BY <3>3, OffsetsOrder
      <4>2. entries[k].Offset < o
        BY <3>1, OffsetsOrder
      <4>3. entries[k].Offset \in m + 1 .. o - 1
        BY <1>3, <4>1, <4>2
      <4>4. Unit!Encloses(entries[k].Offset, o)
        BY <1>1, <2>3
      <4> QED BY <1>4, <1>5, <4>3, <4>4
    <3> QED BY <1>3, <3>2, <3>3
  <2>4. ASSUME NEW k \in Unit!Idxs, Within(k, i) PROVE Within(k, j)
    <3>1. k < i /\ \A x \in k + 1 .. i : entries[x].Depth > entries[k].Depth
      BY <2>4 DEF Within
    <3>2. ASSUME NEW x \in k + 1 .. j PROVE entries[x].Depth > entries[k].Depth
      <4>1. CASE x <= i
        <5>1. x \in k + 1 .. i
          BY <1>3, <4>1
        <5> QED BY <3>1, <5>1
      <4>2. CASE ~(x <= i)
        <5>1. x \in i + 1 .. j /\ i \in k + 1 .. i /\ x \in Unit!Idxs
          BY <1>3, <3>1, <4>2
        <5>2. entries[x].Depth > entries[i].Depth /\ entries[i].Depth > entries[k].Depth
          BY <2>2, <3>1, <5>1
        <5>3. entries[x].Depth \in Nat /\ entries[i].Depth \in Nat /\ entries[k].Depth \in Nat
          BY <1>3, <5>1
        <5> QED BY <5>2, <5>3
      <4> QED BY <4>1, <4>2
    <3>3. k < j
      BY <1>3, <2>2, <3>1
    <3> QED BY <3>2, <3>3 DEF Within
  <2> QED BY <1>2, <2>1, <2>3, <2>4
<1>6. ASSUME j \in Unit!Enclosed(i), Unit!Enclosing(j) = Unit!Enclosing(i) \cup {i}
      PROVE  Unit!Direct(m, o)
  <2>1. Unit!Encloses(m, o)
    BY <1>1, <1>2, <1>6
  <2>2. ASSUME NEW x \in m + 1 .. o - 1, Unit!Encloses(x, o) PROVE FALSE
    <3>1. Unit!Items[x].kind = "entry" /\ x \in 1 .. pos
      <4>1. m \in Nat /\ o \in Nat /\ o \in 1 .. pos
        BY <1>3
      <4>2. x \in 1 .. pos
        BY <1>3, <4>1
      <4> QED BY <2>2, <4>2 DEF Unit!Encloses
    <3>2. PICK k \in Unit!Idxs : entries[k].Offset = x
      BY <3>1 DEF Listed
    <3>3. k \in Unit!Enclosing(j)
      BY <1>1, <1>2, <2>2, <3>2
    <3>4. m < x /\ m \in Nat
      BY <1>3
    <3>5. i < k
      BY <3>2, <3>4, OffsetsOrder
    <3>6. k \notin Unit!Enclosing(i)
      BY <1>3, <3>5 DEF Unit!Enclosing
    <3> QED BY <1>3, <1>6, <3>3, <3>5, <3>6
  <2> QED BY <1>4, <2>1, <2>2
<1> QED
  BY <1>5, <1>6

Declares(m) ==
    {j \in 1 .. Len(Unit!Items) :
        /\ Unit!Items[j].kind = "entry" /\ Unit!Items[j].tag = "formal_parameter"
        /\ Unit!Direct(m, j) /\ ~Unit!Items[j].artificial}

LEMMA ParametersAre ==
    ASSUME Listed, Unit!WellFormed, pos = Len(Unit!Items), NEW i \in Unit!Idxs,
           NEW o, o = entries[i].Offset, Unit!ParametersFirst(o)
    PROVE  /\ Unit!Parameters(i) \in Seq(Unit!Idxs)
           /\ Len(Unit!Declared(o)) = Len(Unit!Parameters(i))
           /\ \A q \in 1 .. Len(Unit!Parameters(i)) :
                Unit!getIdxByOffset(Unit!Declared(o)[q]) = Unit!Parameters(i)[q]
<1> DEFINE w == Unit!getChildrensIdxs(i)
           S == {j \in Unit!Idxs : Unit!getTag(j) = "formal_parameter" /\ ~Unit!ItemOf(j).artificial}
           s == Unit!Parameters(i)
           N == Len(Unit!Items)
           d == Unit!Declared(o)
           offsets == [n \in 1 .. Len(s) |-> entries[s[n]].Offset]
<1>1. /\ w \in Seq(Unit!Idxs)
      /\ \A k, m \in 1 .. Len(w) : k < m => w[k] < w[m]
  BY ChildrenTyped
<1>2. s = Unit!Chosen(w, S)
  BY DEF Unit!Parameters
<1>3. o \in 1 .. pos /\ o \in Nat \ {0} /\ Unit!Idxs \subseteq Nat /\ pos \in Nat /\ N = pos
  BY UnitTypes
<1>4. i # 1
  <2>1. o # 1
    BY DEF Unit!ParametersFirst
  <2>2. entries[1].Offset = 1
    BY RootFacts
  <2> QED BY <2>1, <2>2
<1>5. Unit!ToSet(w) = {j \in Unit!Enclosed(i) :
                /\ Unit!Enclosing(j) = Unit!Enclosing(i) \cup {i}
                /\ \A k \in Unit!Enclosed(i) : k < j => Unit!Enclosed(k) = {}}
  BY <1>4, UnitChildren DEF Unit!FirstChildren
<1>6. d = Unit!Chosen([j \in 1 .. N |-> j], Declares(o))
  BY DEF Unit!Declared, Declares
<1> HIDE DEF w, S, s, d, N
<1>7. \A x : Occurs(w, x) <=> x \in Unit!ToSet(w)
  <2>1. DOMAIN w = 1 .. Len(w)
    BY <1>1
  <2> QED BY <2>1 DEF Unit!ToSet, Occurs
<1>8. /\ s \in Seq(Unit!Idxs) /\ Len(s) \in Nat
      /\ \A x : Occurs(s, x) <=> x \in S /\ x \in Unit!ToSet(w)
  <2>1. /\ Unit!Chosen(w, S) \in Seq(Unit!Idxs)
        /\ \A x : Occurs(Unit!Chosen(w, S), x) <=> x \in S /\ Occurs(w, x)
    BY <1>1, ChosenAll
  <2> QED BY <1>2, <1>7, <2>1
<1>9. Unit!Ascending(s)
  BY <1>1, <1>2, <1>3, ChosenFacts
<1>10. offsets \in Seq(Nat) /\ Len(offsets) = Len(s) /\ Unit!Ascending(offsets)
  BY <1>8, <1>9, OffsetsAscend
<1>11. \A n \in 1 .. Len(s) : offsets[n] = entries[s[n]].Offset
  OBVIOUS
<1> HIDE DEF offsets
<1>12. /\ d \in Seq(Nat) /\ Unit!Ascending(d)
       /\ \A x : Occurs(d, x) <=> x \in Declares(o) /\ x \in 1 .. N
  BY <1>3, <1>6, ChosenFirsts
<1>13. ASSUME NEW k \in 1 .. Len(offsets) PROVE \E l \in 1 .. Len(d) : offsets[k] = d[l]
  <2> DEFINE j == s[k]
             x == entries[j].Offset
  <2>0. Occurs(s, j)
    BY <1>10 DEF Occurs
  <2>1. j \in S /\ j \in Unit!ToSet(w) /\ offsets[k] = x
    BY <1>8, <1>10, <1>11, <2>0
  <2> HIDE DEF j
  <2>2. j \in Unit!Idxs /\ Unit!getTag(j) = "formal_parameter" /\ ~Unit!ItemOf(j).artificial
    BY <2>1 DEF S
  <2>3. x \in 1 .. N /\ Unit!Items[x].kind = "entry"
    BY <1>3, <2>2, UnitTypes
  <2>4. j \in Unit!Enclosed(i) /\ Unit!Enclosing(j) = Unit!Enclosing(i) \cup {i}
    BY <1>5, <2>1
  <2>5. Unit!Direct(o, x)
    BY <2>2, <2>4, DirectIs
  <2>6. Unit!Items[x].tag = "formal_parameter" /\ ~Unit!Items[x].artificial
    BY <2>2 DEF Unit!getTag, Unit!ItemOf
  <2> HIDE DEF x
  <2>7. x \in Declares(o)
    BY <2>3, <2>5, <2>6 DEF Declares, N
  <2>8. Occurs(d, x)
    BY <1>12, <2>3, <2>7
  <2> QED BY <2>1, <2>8 DEF Occurs
<1>14. ASSUME NEW l \in 1 .. Len(d) PROVE \E k \in 1 .. Len(offsets) : offsets[k] = d[l]
  <2> DEFINE x == d[l]
  <2>0. Occurs(d, x)
    BY DEF Occurs
  <2> HIDE DEF x
  <2>1. x \in Declares(o) /\ x \in 1 .. N
    BY <1>12, <2>0
  <2>2. /\ Unit!Items[x].kind = "entry" /\ Unit!Items[x].tag = "formal_parameter"
        /\ Unit!Direct(o, x) /\ ~Unit!Items[x].artificial
    BY <2>1 DEF Declares
  <2>3. PICK j \in Unit!Idxs : entries[j].Offset = x
    BY <1>3, <2>1, <2>2 DEF Listed
  <2>4. j \in Unit!Enclosed(i) /\ Unit!Enclosing(j) = Unit!Enclosing(i) \cup {i}
    BY <2>2, <2>3, DirectIs
  <2>5. x \in Unit!ToSet(d)
    <3>1. DOMAIN d = 1 .. Len(d)
      BY <1>12
    <3> QED BY <2>0, <3>1 DEF Unit!ToSet, Occurs
  <2>6. \A y \in o + 1 .. x - 1 : \A z \in 1 .. N : Unit!Items[z].kind = "entry" => ~Unit!Encloses(y, z)
    BY <2>5 DEF Unit!ParametersFirst, d, N
  <2>7. ASSUME NEW k \in Unit!Enclosed(i), k < j PROVE Unit!Enclosed(k) = {}
    <3>1. k \in Unit!Idxs /\ Unit!Encloses(o, entries[k].Offset)
      BY DEF Unit!Enclosed
    <3>2. entries[k].Offset < x /\ entries[k].Offset \in Nat
      BY <2>3, <2>7, <3>1, OffsetsOrder
    <3>3. o < entries[k].Offset
      BY <3>1 DEF Unit!Encloses
    <3>4. entries[k].Offset \in o + 1 .. x - 1
      BY <1>3, <2>1, <3>2, <3>3
    <3>5. ASSUME NEW l2 \in Unit!Idxs, Unit!Encloses(entries[k].Offset, entries[l2].Offset) PROVE FALSE
      <4>1. entries[l2].Offset \in 1 .. N /\ Unit!Items[entries[l2].Offset].kind = "entry"
        BY <1>3, UnitTypes
      <4> QED BY <2>6, <3>4, <3>5, <4>1
    <3> QED BY <3>5 DEF Unit!Enclosed
  <2>8. j \in Unit!ToSet(w)
    BY <1>5, <2>4, <2>7
  <2>9. j \in S
    BY <2>2, <2>3 DEF S, Unit!getTag, Unit!ItemOf
  <2>10. PICK k \in 1 .. Len(s) : s[k] = j
    BY <1>8, <2>8, <2>9 DEF Occurs
  <2> QED BY <1>10, <1>11, <2>3, <2>10 DEF x
<1>15. Len(offsets) = Len(d) /\ \A k \in 1 .. Len(offsets) : offsets[k] = d[k]
  <2>1. SameNumbers(offsets, d)
    BY <1>13, <1>14 DEF SameNumbers
  <2> QED BY <1>10, <1>12, <2>1, AscendingSame
<1>16. ASSUME NEW q \in 1 .. Len(s) PROVE Unit!getIdxByOffset(d[q]) = s[q]
  <2>1. offsets[q] = d[q] /\ offsets[q] = entries[s[q]].Offset
    BY <1>10, <1>11, <1>15
  <2>2. s[q] \in Unit!Idxs
    BY <1>8
  <2> QED BY <2>1, <2>2, IdxIs
<1> QED
  BY <1>8, <1>10, <1>15, <1>16 DEF s, d

-------------------------------------------------------------------------------
(* What a type is made of is spelled as it is met. *)
LEMMA AllTheSame ==
    ASSUME NEW s \in Seq(Unit!Suffix), Cardinality(Unit!ToSet(Unit!Reverse(s))) <= 1
    PROVE  s = Unit!Reverse(s)
<1> DEFINE r == Unit!Reverse(s)
           T == Unit!ToSet(r)
<1>1. /\ r \in Seq(Unit!Suffix) /\ Len(r) = Len(s) /\ Len(s) \in Nat
      /\ \A k \in 1 .. Len(s) : r[k] = s[(Len(s) - k) + 1]
  BY ReversedIs
<1> HIDE DEF r
<1>2. T = {r[k] : k \in 1 .. Len(r)} /\ T \subseteq Unit!Suffix
  <2>1. DOMAIN r = 1 .. Len(r) /\ \A k \in 1 .. Len(r) : r[k] \in Unit!Suffix
    BY <1>1
  <2> QED BY <2>1 DEF Unit!ToSet
<1>3. IsFiniteSet(T)
  <2> DEFINE A == {"pointer_type"}
             B == A \cup {"reference_type"}
             C == B \cup {"array_type"}
             D == C \cup {"ptr_to_member_type"}
  <2>1. IsFiniteSet(A)
    BY FS_Singleton
  <2> HIDE DEF A
  <2>2. IsFiniteSet(B)
    BY <2>1, FS_AddElement
  <2> HIDE DEF B
  <2>3. IsFiniteSet(C)
    BY <2>2, FS_AddElement
  <2> HIDE DEF C
  <2>4. IsFiniteSet(D)
    BY <2>3, FS_AddElement
  <2>5. D = Unit!Suffix
    BY DEF A, B, C, D, Unit!Suffix
  <2> HIDE DEF D, T
  <2> QED BY <1>2, <2>4, <2>5, FS_Subset
<1>4. ASSUME NEW a \in T, NEW b \in T, a # b PROVE FALSE
  <2> DEFINE A == {a}
             B == A \cup {b}
  <2>1. IsFiniteSet(A) /\ Cardinality(A) = 1
    BY FS_Singleton
  <2>2. b \notin A
    BY <1>4
  <2>3. B \subseteq T
    OBVIOUS
  <2> HIDE DEF A, T
  <2>4. Cardinality(B) = Cardinality(A) + 1
    BY <2>1, <2>2, FS_AddElement
  <2> HIDE DEF B
  <2>5. Cardinality(B) <= Cardinality(T) /\ Cardinality(T) \in Nat
    BY <1>3, <2>3, FS_Subset, FS_CardinalityType
  <2>6. Cardinality(T) <= 1
    BY DEF T, r
  <2> QED BY <2>1, <2>4, <2>5, <2>6
<1>5. ASSUME NEW k \in 1 .. Len(s) PROVE r[k] = s[k]
  <2> DEFINE m == (Len(s) - k) + 1
  <2>1. m \in 1 .. Len(s) /\ (Len(s) - m) + 1 = k
    BY <1>1
  <2> HIDE DEF m
  <2>2. r[m] = s[k]
    BY <1>1, <2>1
  <2>3. r[k] \in T /\ r[m] \in T
    BY <1>1, <1>2, <2>1
  <2> QED BY <1>4, <2>2, <2>3
<1>6. r = [k \in 1 .. Len(s) |-> r[k]] /\ s = [k \in 1 .. Len(s) |-> s[k]]
  BY <1>1
<1> QED
  BY <1>5, <1>6 DEF r

LEMMA SpelledIs ==
    ASSUME Listed, NEW c \in Seq(Unit!Idxs)
    PROVE  Unit!SpelledAs(Unit!Spelled(c), c)
<1> DEFINE t == Unit!TagsOf(c)
           T == {Unit!getTag(i) : i \in Unit!Idxs}
           x == Unit!Chosen(t, Unit!Suffix)
           y == Unit!Chosen(t, Unit!Prefix)
           name == IF c = <<>> THEN INVALID ELSE Unit!ItemOf(Unit!Last(c)).name
           s == Unit!Spelled(c)
<1>1. t \in Seq(T)
  <2>1. DOMAIN c = 1 .. Len(c) /\ Len(c) \in Nat /\ \A n \in 1 .. Len(c) : c[n] \in Unit!Idxs
    OBVIOUS
  <2>2. t = [n \in 1 .. Len(c) |-> Unit!getTag(c[n])]
    BY <2>1 DEF Unit!TagsOf
  <2>3. t \in [1 .. Len(c) -> T]
    BY <2>1, <2>2
  <2> QED BY <2>1, <2>3, SeqDef
<1>2. s = [prefix |-> y, name |-> name, suffix |-> IF name = INVALID THEN <<>> ELSE x]
  BY Zenon DEF Unit!Spelled
<1>3. Unit!SpelledAs(s, c) <=>
        LET inner == Unit!Reverse(x) IN
        /\ s.prefix = y /\ s.name = name
        /\ (s.name # INVALID /\ Cardinality(Unit!ToSet(inner)) <= 1) => s.suffix = inner
  <2>1. Unit!Cardinality(Unit!ToSet(Unit!Reverse(x))) = Cardinality(Unit!ToSet(Unit!Reverse(x)))
    BY DEF Cardinality, Unit!Cardinality
  <2> HIDE DEF s
  <2> QED BY <2>1, Zenon DEF Unit!SpelledAs
<1> HIDE DEF t, T
<1>4. x \in Seq(Unit!Suffix)
  <2>1. x \in Seq(T) /\ Len(x) \in Nat
    BY <1>1, ChosenIs
  <2>2. \A p \in 1 .. Len(x) : x[p] \in Unit!Suffix
    BY <1>1, ChosenFacts
  <2> HIDE DEF x
  <2>3. x \in [1 .. Len(x) -> Unit!Suffix]
    <3>1. x = [p \in 1 .. Len(x) |-> x[p]]
      BY <2>1
    <3> QED BY <2>2, <3>1
  <2> QED BY <2>1, <2>3, SeqDef
<1> HIDE DEF x, y, name, s
<1>5. ASSUME Cardinality(Unit!ToSet(Unit!Reverse(x))) <= 1 PROVE x = Unit!Reverse(x)
  BY <1>4, <1>5, AllTheSame
<1>6. s.prefix = y /\ s.name = name /\ (s.name # INVALID => s.suffix = x)
  BY <1>2
<1> QED
  BY <1>3, <1>5, <1>6 DEF s

(* A name is right if it is the one that the entry's references lead to. *)
Answerable == Unit!WellFormed /\ Unit!ToDeclarations
RightName(x, o) ==
    Answerable => Unit!NamedAs(x, Unit!NamedItem(o)) /\ Unit!ParametersOf(x, Unit!NamedItem(o))
NameTyped(x) ==
    x.scopes \in Seq(STRING \cup {INVALID}) /\ DOMAIN x.params = 1 .. Len(x.params)

(* The attributes of the entries of a unit with code. *)
LEMMA AttributesTyped ==
    ASSUME unit \in Ranged, NEW o \in 1 .. Len(Unit!Items), Unit!Items[o].kind = "entry"
    PROVE  /\ Unit!Items[o].name \in STRING \cup {INVALID}
           /\ Unit!Items[o].callLine \in Nat \cup {INVALID}
           /\ Unit!Items[o].callFile \in Nat \cup {INVALID}
BY AggregatorAssumption DEF Unit!AggregatorAssumption, Unit!Items, Unit!Attribute

(* A cast keeps what has no bit too many. *)
LEMMA CutFacts ==
    ASSUME NEW x \in Nat \cup {INVALID}
    PROVE  /\ Unit!LineCut(x) \in Nat
           /\ x # INVALID /\ x < DepthMod => Unit!LineCut(x) = x
           /\ x # INVALID /\ x < FileMod => Unit!FileCut(x) = x
<1>1. DepthMod \in Nat \ {0} /\ FileMod \in Nat \ {0}
  BY CompileUnitAssumption, AggregatorAssumption
     DEF Unit!CompileUnitAssumption, Unit!AggregatorAssumption
<1>2. ASSUME NEW m \in Nat \ {0}, NEW n \in Nat
      PROVE  n % m \in Nat /\ (n < m => n % m = n)
  OBVIOUS
<1>3. CASE x = INVALID
  BY <1>1, <1>3 DEF Unit!LineCut
<1>4. CASE x # INVALID
  <2>1. x \in Nat /\ Unit!LineCut(x) = x % DepthMod /\ Unit!FileCut(x) = x % FileMod
    BY <1>4 DEF Unit!LineCut, Unit!FileCut
  <2> QED BY <1>1, <1>2, <2>1
<1> QED
  BY <1>3, <1>4

LEMMA UnnamedIs ==
    /\ NameTyped(Unit!Unnamed) /\ Unit!Unnamed.function = INVALID /\ Unit!Unnamed.linkage = INVALID
    /\ \A m : Unit!ParametersOf(Unit!Unnamed, m)
<1>1. /\ Unit!Unnamed.scopes = <<>> /\ Unit!Unnamed.function = INVALID
      /\ Unit!Unnamed.linkage = INVALID /\ Unit!Unnamed.params = <<>>
  BY DEF Unit!Unnamed
<1>2. <<>> \in Seq(STRING \cup {INVALID}) /\ DOMAIN <<>> = 1 .. Len(<<>>)
  OBVIOUS
<1>3. \A m : Unit!ParametersOf(Unit!Unnamed, m)
  BY <1>1, Zenon DEF Unit!ParametersOf
<1> QED
  BY <1>1, <1>2, <1>3 DEF NameTyped

LEMMA LinkageNamed ==
    ASSUME NEW m, m # INVALID, Unit!Items[m].linkage # INVALID, NEW x,
           x = [Unit!Unnamed EXCEPT !.linkage = Unit!Items[m].linkage]
    PROVE  NameTyped(x) /\ Unit!NamedAs(x, m) /\ Unit!ParametersOf(x, m)
<1>1. /\ x.linkage = Unit!Items[m].linkage /\ x.function = INVALID /\ x.scopes = <<>>
      /\ x.params = <<>>
  BY DEF Unit!Unnamed
<1>2. <<>> \in Seq(STRING \cup {INVALID}) /\ DOMAIN <<>> = 1 .. Len(<<>>)
  OBVIOUS
<1>3. Unit!ParametersOf(x, m)
  BY <1>1, Zenon DEF Unit!ParametersOf
<1>4. Unit!NamedAs(x, m)
  BY <1>1, Zenon DEF Unit!NamedAs
<1> QED
  BY <1>1, <1>2, <1>3, <1>4 DEF NameTyped

LEMMA ParametersTyped ==
    ASSUME Listed, NEW i \in Unit!Idxs
    PROVE  Unit!Parameters(i) \in Seq(Unit!Idxs)
<1>1. Unit!getChildrensIdxs(i) \in Seq(Unit!Idxs)
  BY ChildrenTyped
<1> QED
  BY <1>1, ChosenIs, Zenon DEF Unit!Parameters

(* All scopes and parameters were read when the name is put together. *)
LEMMA FullName ==
    ASSUME Listed, pos = Len(Unit!Items), unit \in Ranged,
           NEW i \in Unit!Idxs, entries[i].extracted = TRUE, NEW o, o = entries[i].Offset,
           Unit!Items[o].linkage = INVALID, NEW x, x = Unit!makeFullSubRoutineName(i)
    PROVE  /\ NameTyped(x)
           /\ Unit!WellFormed => Unit!NamedAs(x, o) /\ Unit!ParametersOf(x, o)
<1> DEFINE R == Unit!ReadFor(i)
           es == Unit!fullExtract(entries, R)
           s == Unit!ScopesOf(i)
           p == Unit!Parameters(i)
           scopes == [n \in DOMAIN s |-> Unit!Attr(es, s[n], "name")]
           params == [n \in DOMAIN p |-> Unit!Spelled(Unit!TypeChain(p[n]))]
           item == Unit!Items[o]
<1>1. o \in 1 .. Len(Unit!Items) /\ item.kind = "entry" /\ o # INVALID
  <2>1. o \in 1 .. Len(Unit!Items) /\ Unit!Items[o].kind = "entry" /\ o \in Nat
    BY UnitTypes
  <2> QED BY <2>1, CompileUnitAssumption DEF Unit!CompileUnitAssumption
<1>2. Unit!ItemOf(i) = item
  BY DEF Unit!ItemOf
<1>3. entries \in Seq(Unit!Node) /\ Len(entries) \in Nat /\ \A j \in Unit!Idxs : Unit!Idxs \subseteq Nat
  BY UnitTypes DEF Listed
<1>4. /\ es[i].extracted = TRUE
      /\ \A j \in Unit!Idxs : j \in R => es[j].extracted = TRUE
  BY <1>3, ReadFacts
<1>5. s \in Seq(Unit!Idxs) /\ \A n \in 1 .. Len(s) : s[n] \in Unit!Idxs /\ s[n] \in R
  <2>1. s \in Seq(Unit!Idxs)
    BY ScopesTyped
  <2> HIDE DEF s
  <2>2. DOMAIN s = 1 .. Len(s) /\ \A n \in 1 .. Len(s) : s[n] \in Unit!Idxs
    BY <2>1
  <2>3. \A n \in 1 .. Len(s) : s[n] \in Unit!ToSet(s)
    BY <2>2 DEF Unit!ToSet
  <2>4. Unit!ToSet(s) \subseteq R
    BY DEF Unit!ReadFor, s
  <2> QED BY <2>1, <2>2, <2>3, <2>4
<1>6. Unit!Attr(entries, i, "name") = item.name /\ Unit!Attr(es, i, "name") = item.name
  <2> HIDE DEF es, item
  <2> QED BY <1>2, <1>4 DEF Unit!Attr
<1>7. x = IF item.objc THEN [Unit!Unnamed EXCEPT !.function = item.name]
          ELSE [Unit!Unnamed EXCEPT !.scopes = scopes, !.function = item.name, !.params = params]
  <2>1. x = IF Unit!ItemOf(i).objc
            THEN [Unit!Unnamed EXCEPT !.function = Unit!Attr(entries, i, "name")]
            ELSE [Unit!Unnamed EXCEPT !.scopes = scopes, !.function = Unit!Attr(es, i, "name"),
                                      !.params = params]
    BY Zenon DEF Unit!makeFullSubRoutineName
  <2> HIDE DEF scopes, params, es, item
  <2> QED BY <1>2, <1>6, <2>1
<1> HIDE DEF es, R, s, p
<1>8. \A n \in 1 .. Len(s) : Unit!Attr(es, s[n], "name") = Unit!Items[entries[s[n]].Offset].name
  BY <1>4, <1>5 DEF Unit!Attr, Unit!ItemOf
<1>9. scopes = [n \in 1 .. Len(s) |-> Unit!Items[entries[s[n]].Offset].name] /\ scopes \in Seq(STRING \cup {INVALID})
  <2>1. DOMAIN s = 1 .. Len(s) /\ Len(s) \in Nat
    BY <1>5
  <2>2. scopes = [n \in 1 .. Len(s) |-> Unit!Items[entries[s[n]].Offset].name]
    BY <1>8, <2>1
  <2>3. ASSUME NEW n \in 1 .. Len(s)
        PROVE  Unit!Items[entries[s[n]].Offset].name \in STRING \cup {INVALID}
    <3>1. s[n] \in Unit!Idxs
      BY <1>5
    <3> DEFINE k == entries[s[n]].Offset
    <3>2. k \in 1 .. Len(Unit!Items) /\ Unit!Items[k].kind = "entry"
      BY <3>1, UnitTypes
    <3> HIDE DEF k
    <3>3. Unit!Items[k].name \in STRING \cup {INVALID}
      BY <3>2, AttributesTyped
    <3> QED BY <3>3 DEF k
  <2> HIDE DEF scopes
  <2>4. scopes \in [1 .. Len(s) -> STRING \cup {INVALID}]
    BY <2>2, <2>3
  <2> QED BY <2>1, <2>2, <2>4, SeqDef
<1> HIDE DEF scopes, params, item
<1>10. /\ x.function = item.name /\ x.linkage = INVALID
       /\ item.objc => x.scopes = <<>> /\ x.params = <<>>
       /\ ~item.objc => x.scopes = scopes /\ x.params = params
  BY <1>7 DEF Unit!Unnamed
<1>14. /\ Len(p) \in Nat /\ \A q \in 1 .. Len(p) : p[q] \in Unit!Idxs
       /\ params = [q \in 1 .. Len(p) |-> Unit!Spelled(Unit!TypeChain(p[q]))]
       /\ Len(params) = Len(p) /\ DOMAIN params = 1 .. Len(p)
  <2>1. p \in Seq(Unit!Idxs)
    BY ParametersTyped DEF p
  <2>2. Len(p) \in Nat /\ DOMAIN p = 1 .. Len(p) /\ \A q \in 1 .. Len(p) : p[q] \in Unit!Idxs
    BY <2>1
  <2>3. params = [q \in 1 .. Len(p) |-> Unit!Spelled(Unit!TypeChain(p[q]))]
    BY <2>2 DEF params
  <2>4. DOMAIN params = 1 .. Len(p)
    BY <2>3
  <2>5. params \in Seq({Unit!Spelled(Unit!TypeChain(p[q])) : q \in 1 .. Len(p)})
    <3>1. params \in [1 .. Len(p) -> {Unit!Spelled(Unit!TypeChain(p[q])) : q \in 1 .. Len(p)}]
      BY <2>3
    <3> QED BY <2>2, <3>1, SeqDef
  <2> QED BY <2>2, <2>3, <2>4, <2>5, LenProperties
<1>11. NameTyped(x)
  <2>1. <<>> \in Seq(STRING \cup {INVALID}) /\ DOMAIN <<>> = 1 .. Len(<<>>)
    OBVIOUS
  <2> QED BY <1>9, <1>10, <1>14, <2>1 DEF NameTyped
<1>12. ASSUME Unit!WellFormed PROVE Unit!NamedAs(x, o)
  <2>1. ASSUME ~item.objc PROVE scopes = Unit!OuterNames(o)
    <3>1. /\ Len(Outer(o)) = Len(s) /\ Outer(o) \in Seq(Nat)
          /\ \A n \in 1 .. Len(s) : entries[s[n]].Offset = Outer(o)[n]
      BY <1>12, ScopesAre DEF s
    <3>2. Unit!OuterNames(o) = [n \in DOMAIN Outer(o) |-> Unit!Items[Outer(o)[n]].name]
      BY Zenon DEF Unit!OuterNames, Outer
    <3>3. DOMAIN Outer(o) = 1 .. Len(s)
      BY <3>1
    <3> QED BY <1>9, <3>1, <3>2, <3>3
  <2> QED BY <1>1, <1>10, <2>1, Zenon DEF Unit!NamedAs, item
<1>13. ASSUME Unit!WellFormed PROVE Unit!ParametersOf(x, o)
  <2>1. SUFFICES ASSUME ~item.objc, Unit!ParametersFirst(o)
                 PROVE  /\ Len(x.params) = Len(Unit!Declared(o))
                        /\ \A q \in DOMAIN x.params :
                             Unit!SpelledAs(x.params[q], Unit!TypeChain(Unit!getIdxByOffset(Unit!Declared(o)[q])))
    BY Zenon DEF Unit!ParametersOf, item
  <2>2. /\ p \in Seq(Unit!Idxs) /\ Len(Unit!Declared(o)) = Len(p)
        /\ \A q \in 1 .. Len(p) : Unit!getIdxByOffset(Unit!Declared(o)[q]) = p[q]
    BY <1>13, <2>1, ParametersAre DEF p
  <2>6. ASSUME NEW q \in 1 .. Len(p) PROVE Unit!SpelledAs(params[q], Unit!TypeChain(p[q]))
    <3>1. Unit!TypeChain(p[q]) \in Seq(Unit!Idxs)
      BY <1>14, TypesTyped
    <3>2. params[q] = Unit!Spelled(Unit!TypeChain(p[q]))
      BY <1>14
    <3>3. Unit!SpelledAs(Unit!Spelled(Unit!TypeChain(p[q])), Unit!TypeChain(p[q]))
      BY <3>1, SpelledIs
    <3> QED BY <3>2, <3>3
  <2>7. x.params = params
    BY <1>10, <2>1
  <2> QED BY <2>2, <1>14, <2>6, <2>7
<1> QED
  BY <1>11, <1>12, <1>13

(* Where references lead, as far as the items tell. *)
StaysIn(items, o) ==
    /\ items[o].tag # "inlined_subroutine"
    /\ items[o].tag = "subprogram" => items[o].name # INVALID \/ items[o].linkage # INVALID
ItemIn(items, o) ==
    IF o # INVALID /\ o \in 1 .. Len(items) /\ items[o].kind = "entry" THEN o ELSE INVALID
NextIn(items, o) ==
    IF StaysIn(items, o) THEN o
    ELSE IF items[o].tag = "inlined_subroutine" THEN ItemIn(items, items[o].origin)
    ELSE IF items[o].spec # INVALID THEN ItemIn(items, items[o].spec)
    ELSE IF items[o].origin # INVALID THEN ItemIn(items, items[o].origin)
    ELSE IF items[o].object # INVALID THEN ItemIn(items, items[o].object) ELSE INVALID
ReachedIn(items, o) ==
    (CHOOSE f : f = [n \in 0 .. Len(items) |->
        IF n = 0 THEN o
        ELSE IF f[n - 1] = INVALID THEN f[n - 1] ELSE NextIn(items, f[n - 1])])[Len(items)]

LEMMA WaysAre ==
    ASSUME NEW o
    PROVE  /\ Unit!NextItem(o) = NextIn(Unit!Items, o) /\ Unit!NextItem(o)' = NextIn(Unit!Items', o)
           /\ Unit!Reached(o) = ReachedIn(Unit!Items, o) /\ Unit!Reached(o)' = ReachedIn(Unit!Items', o)
<1>1. Unit!NextItem(o) = NextIn(Unit!Items, o)
  BY Zenon DEF Unit!NextItem, Unit!Stays, Unit!ItemAt, NextIn, StaysIn, ItemIn
<1>2. Unit!NextItem(o)' = NextIn(Unit!Items', o)
  BY Zenon DEF Unit!NextItem, Unit!Stays, Unit!ItemAt, NextIn, StaysIn, ItemIn
<1>3. Unit!Reached(o) = ReachedIn(Unit!Items, o)
  BY Zenon DEF Unit!Reached, ReachedIn, Unit!NextItem, Unit!Stays, Unit!ItemAt, NextIn, StaysIn, ItemIn
<1>4. Unit!Reached(o)' = ReachedIn(Unit!Items', o)
  BY Zenon DEF Unit!Reached, ReachedIn, Unit!NextItem, Unit!Stays, Unit!ItemAt, NextIn, StaysIn, ItemIn
<1> QED
  BY <1>1, <1>2, <1>3, <1>4

(* What the items say of names is said whoever reads. *)
LEMMA SameWays ==
    ASSUME unit' = unit
    PROVE  /\ \A o : /\ Unit!Stays(o)' <=> Unit!Stays(o)
                     /\ Unit!NextItem(o)' = Unit!NextItem(o)
                     /\ Unit!NamedItem(o)' = Unit!NamedItem(o)
                     /\ Unit!OuterNames(o)' = Unit!OuterNames(o)
                     /\ Unit!Declared(o)' = Unit!Declared(o)
                     /\ Unit!ParametersFirst(o)' <=> Unit!ParametersFirst(o)
           /\ \A o, x : LeadsTo(o, x)' <=> LeadsTo(o, x)
           /\ Unit!ToDeclarations' <=> Unit!ToDeclarations
<1>1. /\ Unit!Items' = Unit!Items
      /\ \A j, o : Unit!Encloses(j, o)' <=> Unit!Encloses(j, o)
  BY SameUnit
<1>2. \A o : Unit!Stays(o)' <=> Unit!Stays(o)
  BY <1>1 DEF Unit!Stays
<1>3. \A o : Unit!ItemAt(o)' = Unit!ItemAt(o)
  BY <1>1 DEF Unit!ItemAt
<1>4. ASSUME NEW o
      PROVE  Unit!NextItem(o)' = Unit!NextItem(o) /\ Unit!Reached(o)' = Unit!Reached(o)
  BY <1>1, WaysAre
<1>5. ASSUME NEW o PROVE Unit!NamedItem(o)' = Unit!NamedItem(o)
  <2> DEFINE r == Unit!Reached(o)
  <2>1. Unit!NamedItem(o) =
          IF r # INVALID /\ Unit!Items[r].tag = "subprogram" /\ Unit!Stays(r) THEN r ELSE INVALID
    BY Zenon DEF Unit!NamedItem
  <2>2. Unit!NamedItem(o)' =
          IF r' # INVALID /\ Unit!Items'[r'].tag = "subprogram" /\ Unit!Stays(r)' THEN r' ELSE INVALID
    BY Zenon DEF Unit!NamedItem
  <2>3. r' = r
    BY <1>4
  <2> HIDE DEF r
  <2>4. Unit!Stays(r)' <=> Unit!Stays(r)
    BY <1>1, <2>3 DEF Unit!Stays
  <2> QED BY <1>1, <2>1, <2>2, <2>3, <2>4
<1>6. ASSUME NEW o PROVE Unit!OuterNames(o)' = Unit!OuterNames(o)
  <2> DEFINE S == {j \in 1 .. o - 1 : Unit!Encloses(j, o) /\ Unit!Items[j].tag \in Unit!Scoping}
             w == [j \in 1 .. o - 1 |-> j]
  <2>1. /\ Unit!OuterNames(o) =
             [n \in DOMAIN Unit!Chosen(w, S) |-> Unit!Items[Unit!Chosen(w, S)[n]].name]
        /\ Unit!OuterNames(o)' =
             [n \in DOMAIN Unit!Chosen(w, S') |-> Unit!Items'[Unit!Chosen(w, S')[n]].name]
    <3>1. Unit!OuterNames(o) =
             [n \in DOMAIN Unit!Chosen(w, S) |-> Unit!Items[Unit!Chosen(w, S)[n]].name]
      BY Zenon DEF Unit!OuterNames
    <3>2. Unit!OuterNames(o)' =
             [n \in DOMAIN Unit!Chosen(w, S') |-> Unit!Items'[Unit!Chosen(w, S')[n]].name]
      BY Zenon DEF Unit!OuterNames
    <3> QED BY <3>1, <3>2
  <2>2. S' = S
    BY <1>1 DEF Unit!Scoping
  <2> HIDE DEF S, w
  <2> QED BY <1>1, <2>1, <2>2
<1>7. \A m, j : Unit!Direct(m, j)' <=> Unit!Direct(m, j)
  BY <1>1 DEF Unit!Direct
<1>8. ASSUME NEW o PROVE Unit!Declared(o)' = Unit!Declared(o)
  <2> DEFINE S == Declares(o)
             w(N) == [j \in 1 .. N |-> j]
  <2>1. Unit!Declared(o) = Unit!Chosen(w(Len(Unit!Items)), S)
    BY Zenon DEF Unit!Declared, Declares
  <2>2. Unit!Declared(o)' = Unit!Chosen(w(Len(Unit!Items')), S')
    BY Zenon DEF Unit!Declared, Declares
  <2>3. S' = S
    BY <1>1, <1>7 DEF Declares
  <2> HIDE DEF S, w
  <2> QED BY <1>1, <2>1, <2>2, <2>3
<1>9. ASSUME NEW m PROVE Unit!ParametersFirst(m)' <=> Unit!ParametersFirst(m)
  <2> DEFINE D == Unit!ToSet(Unit!Declared(m))
  <2>1. D' = D
    BY <1>8 DEF Unit!ToSet
  <2>2. Unit!ParametersFirst(m) <=>
          /\ m # 1
          /\ \A j \in D : \A o \in m + 1 .. j - 1 : \A x \in 1 .. Len(Unit!Items) :
                Unit!Items[x].kind = "entry" => ~Unit!Encloses(o, x)
    BY Zenon DEF Unit!ParametersFirst
  <2>3. Unit!ParametersFirst(m)' <=>
          /\ m # 1
          /\ \A j \in D' : \A o \in m + 1 .. j - 1 : \A x \in 1 .. Len(Unit!Items') :
                Unit!Items'[x].kind = "entry" => ~(Unit!Encloses(o, x)')
    BY Zenon DEF Unit!ParametersFirst
  <2> HIDE DEF D
  <2> QED BY <1>1, <2>1, <2>2, <2>3
<1>10. ASSUME NEW o, NEW x PROVE LeadsTo(o, x)' <=> LeadsTo(o, x)
  <2>1. KnownItem' = KnownItem
    BY <1>1 DEF KnownItem
  <2>2. ASSUME NEW n, NEW f PROVE Passed(o, x, n, f)' <=> Passed(o, x, n, f)
    BY <1>2, <1>4, <2>1 DEF Passed
  <2> QED BY <2>2 DEF LeadsTo
<1>11. Unit!ToDeclarations' <=> Unit!ToDeclarations
  <2> DEFINE Leads(o, a) == LET r == Unit!ItemAt(Unit!Items[o][a])
                            IN r # INVALID => Unit!Items[r].tag # "inlined_subroutine"
  <2>1. \A o, a : Leads(o, a)' <=> Leads(o, a)
    BY <1>1, <1>3
  <2>2. Unit!ToDeclarations <=>
          /\ Unit!Items[1].tag # "inlined_subroutine"
          /\ \A o \in 1 .. Len(Unit!Items) :
               (Unit!Items[o].kind = "entry" /\ Unit!Items[o].tag \in {"subprogram", "inlined_subroutine"}) =>
                   \A a \in {"spec", "origin", "object"} : Leads(o, a)
    BY Zenon DEF Unit!ToDeclarations
  <2>3. Unit!ToDeclarations' <=>
          /\ Unit!Items'[1].tag # "inlined_subroutine"
          /\ \A o \in 1 .. Len(Unit!Items') :
               (Unit!Items'[o].kind = "entry" /\ Unit!Items'[o].tag \in {"subprogram", "inlined_subroutine"}) =>
                   \A a \in {"spec", "origin", "object"} : Leads(o, a)'
    BY Zenon DEF Unit!ToDeclarations
  <2> HIDE DEF Leads
  <2> QED BY <1>1, <2>1, <2>2, <2>3
<1> QED
  BY <1>2, <1>4, <1>5, <1>6, <1>8, <1>9, <1>10, <1>11

(* A name that is right stays right: it never depends on what was read. *)
LEMMA SameRight ==
    ASSUME Listed, SameOffsets, pos' = pos, pos = Len(Unit!Items), NEW x, NameTyped(x), NEW o
    PROVE  RightName(x, o)' <=> RightName(x, o)
<1>1. /\ Unit!Items' = Unit!Items /\ Unit!Idxs' = Unit!Idxs
      /\ \A i \in Unit!Idxs : /\ Unit!ItemOf(i)' = Unit!ItemOf(i)
                              /\ Unit!getTag(i)' = Unit!getTag(i)
      /\ \A e : Unit!getIdxByOffset(e)' = Unit!getIdxByOffset(e)
      /\ \A i : Unit!TypeChain(i)' = Unit!TypeChain(i)
  BY SameNames
<1>2. unit' = unit
  BY DEF SameOffsets
<1>3. \A m : /\ Unit!NamedItem(m)' = Unit!NamedItem(m) /\ Unit!OuterNames(m)' = Unit!OuterNames(m)
             /\ Unit!Declared(m)' = Unit!Declared(m)
             /\ Unit!ParametersFirst(m)' <=> Unit!ParametersFirst(m)
  BY <1>2, SameWays
<1>4. Answerable' <=> Answerable
  BY <1>2, SameUnit, SameWays DEF Answerable
<1>5. ASSUME NEW m PROVE Unit!NamedAs(x, m)' <=> Unit!NamedAs(x, m)
  BY <1>1, <1>3 DEF Unit!NamedAs
<1>6. ASSUME NEW s, NEW c \in Seq(Unit!Idxs) PROVE Unit!SpelledAs(s, c)' <=> Unit!SpelledAs(s, c)
  <2> DEFINE name == IF c = <<>> THEN INVALID ELSE Unit!ItemOf(Unit!Last(c)).name
             t == Unit!TagsOf(c)
  <2>1. DOMAIN c = 1 .. Len(c) /\ \A n \in 1 .. Len(c) : c[n] \in Unit!Idxs
    OBVIOUS
  <2>2. t' = t
    BY <1>1, <2>1 DEF Unit!TagsOf
  <2>3. name' = name
    <3>1. CASE c = <<>>
      BY <3>1
    <3>2. CASE c # <<>>
      <4>1. Len(c) \in 1 .. Len(c)
        <5>1. Len(c) \in Nat /\ Len(c) # 0
          BY <3>2
        <5> QED BY <5>1
      <4>2. Unit!Last(c) \in Unit!Idxs
        BY <2>1, <4>1 DEF Unit!Last
      <4> QED BY <1>1, <3>2, <4>2
    <3> QED BY <3>1, <3>2
  <2>4. Unit!SpelledAs(s, c) <=>
          /\ s.prefix = Unit!Chosen(t, Unit!Prefix) /\ s.name = name
          /\ (s.name # INVALID /\ Unit!Cardinality(Unit!ToSet(Unit!Reverse(Unit!Chosen(t, Unit!Suffix)))) <= 1)
                => s.suffix = Unit!Reverse(Unit!Chosen(t, Unit!Suffix))
    BY Zenon DEF Unit!SpelledAs
  <2>5. Unit!SpelledAs(s, c)' <=>
          /\ s.prefix = Unit!Chosen(t', Unit!Prefix) /\ s.name = name'
          /\ (s.name # INVALID /\ Unit!Cardinality(Unit!ToSet(Unit!Reverse(Unit!Chosen(t', Unit!Suffix)))) <= 1)
                => s.suffix = Unit!Reverse(Unit!Chosen(t', Unit!Suffix))
    BY Zenon DEF Unit!SpelledAs
  <2> HIDE DEF t, name
  <2> QED BY <2>2, <2>3, <2>4, <2>5
<1>7. ASSUME NEW m, NEW q \in 1 .. Len(Unit!Declared(m))
      PROVE  Unit!TypeChain(Unit!getIdxByOffset(Unit!Declared(m)[q])) \in Seq(Unit!Idxs)
  <2> DEFINE d == Unit!Declared(m)
             N == Len(Unit!Items)
             c == Unit!Chosen([j \in 1 .. N |-> j], Declares(m))
  <2>1. d = c
    BY Zenon DEF Unit!Declared, Declares
  <2>2. N \in Nat
    BY UnitTypes
  <2>3. c \in Seq(Nat) /\ \A y : Occurs(c, y) <=> y \in Declares(m) /\ y \in 1 .. N
    <3> HIDE DEF N
    <3> QED BY <2>2, ChosenFirsts
  <2> HIDE DEF c, N
  <2>4. Occurs(c, d[q])
    BY <2>1 DEF Occurs
  <2>5. d[q] \in 1 .. Len(Unit!Items) /\ Unit!Items[d[q]].kind = "entry"
    BY <2>3, <2>4 DEF Declares, N
  <2>6. \E i \in Unit!Idxs : entries[i].Offset = d[q]
    BY <2>5 DEF Listed
  <2> HIDE DEF d
  <2>7. Unit!getIdxByOffset(d[q]) \in Unit!Idxs
    BY <2>6, IdxIs
  <2>8. Unit!TypeChain(Unit!getIdxByOffset(d[q])) \in Seq(Unit!Idxs)
    BY <2>7, TypesTyped
  <2> QED BY <2>8 DEF d
<1>8. ASSUME NEW m PROVE Unit!ParametersOf(x, m)' <=> Unit!ParametersOf(x, m)
  <2> DEFINE d == Unit!Declared(m)
             c(q) == Unit!TypeChain(Unit!getIdxByOffset(d[q]))
             P(q) == Unit!SpelledAs(x.params[q], c(q))
  <2>1. Unit!ParametersOf(x, m) <=>
          (x.function # INVALID /\ ~Unit!Items[m].objc /\ Unit!ParametersFirst(m) =>
              Len(x.params) = Len(d) /\ \A q \in DOMAIN x.params : P(q))
    BY Zenon DEF Unit!ParametersOf
  <2>2. Unit!ParametersOf(x, m)' <=>
          (x.function # INVALID /\ ~Unit!Items'[m].objc /\ Unit!ParametersFirst(m)' =>
              Len(x.params) = Len(d') /\ \A q \in DOMAIN x.params : P(q)')
    BY Zenon DEF Unit!ParametersOf
  <2>3. ASSUME NEW q \in 1 .. Len(d) PROVE P(q)' <=> P(q)
    <3>1. c(q)' = c(q)
      <4>1. d[q]' = d[q]
        BY <1>3
      <4> HIDE DEF d
      <4>2. Unit!getIdxByOffset(d[q])' = Unit!getIdxByOffset(d[q])
        BY <1>1, <4>1
      <4> QED BY <1>1, <4>2
    <3>2. c(q) \in Seq(Unit!Idxs)
      BY <1>7
    <3> HIDE DEF c
    <3>3. Unit!SpelledAs(x.params[q], c(q))' <=> Unit!SpelledAs(x.params[q], c(q))
      BY <1>6, <3>1, <3>2
    <3> QED BY <3>3
  <2>4. DOMAIN x.params = 1 .. Len(x.params)
    BY DEF NameTyped
  <2>5. d' = d
    BY <1>3
  <2> HIDE DEF P, d
  <2> QED BY <1>1, <1>3, <2>1, <2>2, <2>3, <2>4, <2>5
<1> QED
  BY <1>3, <1>4, <1>5, <1>8 DEF RightName

(* Lists of frames. *)
IsList(f) == Len(f) \in Nat /\ f = [k \in 1 .. Len(f) |-> f[k]]

LEMMA ListTyped ==
    ASSUME NEW n \in Nat, NEW f, f = [k \in 1 .. n |-> f[k]]
    PROVE  Len(f) = n /\ IsList(f) /\ f \in Seq({f[k] : k \in 1 .. n})
<1> DEFINE S == {f[k] : k \in 1 .. n}
<1>1. f \in [1 .. n -> S]
  <2>1. \A k \in 1 .. n : f[k] \in S
    OBVIOUS
  <2> HIDE DEF S
  <2> QED BY <2>1
<1>2. DOMAIN f = 1 .. n
  OBVIOUS
<1> HIDE DEF S
<1>3. f \in Seq(S)
  BY <1>1, SeqDef
<1>4. Len(f) = n
  BY <1>2, <1>3, LenProperties
<1> QED
  BY <1>3, <1>4 DEF IsList, S

Replaced(f, g, n, e) ==
    /\ IsList(g) /\ Len(g) = Len(f) /\ g[n] = e
    /\ \A k \in 1 .. Len(f) : k # n => g[k] = f[k]
LEMMA ListKeeps ==
    ASSUME NEW f, IsList(f), NEW n \in 1 .. Len(f), NEW e, NEW g, g = [f EXCEPT ![n] = e]
    PROVE  Replaced(f, g, n, e)
<1>1. Len(f) \in Nat /\ DOMAIN f = 1 .. Len(f)
  BY DEF IsList
<1>2. /\ g = [k \in 1 .. Len(f) |-> g[k]] /\ g[n] = e
      /\ \A k \in 1 .. Len(f) : k # n => g[k] = f[k]
  BY <1>1
<1>3. Len(g) = Len(f) /\ IsList(g)
  BY <1>1, <1>2, ListTyped
<1> QED
  BY <1>2, <1>3 DEF Replaced

Longer(f, g, e) ==
    /\ IsList(g) /\ Len(g) = Len(f) + 1 /\ g[Len(f) + 1] = e
    /\ \A k \in 1 .. Len(f) : g[k] = f[k]
LEMMA ListGrows ==
    ASSUME NEW f, IsList(f), NEW e, NEW g, g = Append(f, e)
    PROVE  Longer(f, g, e)
<1> DEFINE S == {f[k] : k \in 1 .. Len(f)} \cup {e}
<1>1. Len(f) \in Nat /\ f = [k \in 1 .. Len(f) |-> f[k]]
  BY DEF IsList
<1>2. f \in Seq({f[k] : k \in 1 .. Len(f)})
  BY <1>1, ListTyped
<1>3. f \in Seq(S) /\ e \in S
  BY <1>2, SeqWider
<1> HIDE DEF S
<1>4. g \in Seq(S) /\ Len(g) = Len(f) + 1 /\ g[Len(f) + 1] = e /\ \A k \in 1 .. Len(f) : g[k] = f[k]
  BY <1>3, AppendProperties
<1>5. g = [k \in 1 .. Len(g) |-> g[k]] /\ Len(g) \in Nat
  BY ONLY <1>4
<1> QED
  BY <1>4, <1>5 DEF IsList, Longer

LEMMA ListStarts == IsList(<<>>) /\ Len(<<>>) = 0
BY DEF IsList

(* A frame has its three fields, whatever they are. *)
IsFrame(f) == f = [name |-> f.name, line |-> f.line, file |-> f.file]

LEMMA EmptyIs ==
    /\ IsFrame(Unit!EmptyFrame) /\ Unit!EmptyFrame.name = Unit!Unnamed /\ Unit!EmptyFrame.line = 0
BY DEF IsFrame, Unit!EmptyFrame

LEMMA NameSet ==
    ASSUME NEW f, IsFrame(f), NEW x, NEW g, g = [f EXCEPT !.name = x]
    PROVE  IsFrame(g) /\ g.name = x /\ g.line = f.line
<1> DEFINE a == f.name
           b == f.line
           c == f.file
<1>1. f = [name |-> a, line |-> b, file |-> c]
  BY DEF IsFrame
<1> HIDE DEF a, b, c
<1>2. g = [name |-> x, line |-> b, file |-> c]
  BY <1>1
<1>3. f.line = b
  BY DEF b
<1> QED
  BY <1>2, <1>3 DEF IsFrame

Lined(f, l, d, g) == IsFrame(g) /\ g.name = f.name /\ g.line = l

LEMMA LineSet ==
    ASSUME NEW f, IsFrame(f), NEW l, NEW d, NEW g, g = [f EXCEPT !.line = l, !.file = d]
    PROVE  Lined(f, l, d, g)
<1> DEFINE a == f.name
           b == f.line
           c == f.file
<1>1. f = [name |-> a, line |-> b, file |-> c]
  BY DEF IsFrame
<1> HIDE DEF a, b, c
<1>2. g = [name |-> a, line |-> l, file |-> d]
  BY <1>1
<1>3. f.name = a
  BY DEF a
<1> QED
  BY <1>2, <1>3 DEF IsFrame, Lined

(* Of the frames: where the question stands, what was read for it, and what is
   told so far. *)
Tellable(o) == Unit!Items[o].low = INVALID \/ Unit!Items[o].low \notin unit.lost
Fits(x, o) == NameTyped(x) /\ (RightName(x, o) \/ (x = Unit!Unnamed /\ ~Tellable(o)))

ChainRead ==
    /\ \A i \in Unit!Idxs : Unit!getTag(i) = "subprogram" => entries[i].extracted = TRUE
    /\ \A k \in 2 .. Len(chain) : /\ Unit!getTag(chain[k]) = "inlined_subroutine"
                                  /\ entries[chain[k]].extracted = TRUE
    /\ chain[1] = 1 \/ Unit!getTag(chain[1]) = "subprogram"
FrameTyped(a, n, c, m, fs, ft) ==
    /\ a \in {"idle", "naming", "follow", "name", "called", "line"} /\ n \in 1 .. Len(chain)
    /\ c \in Unit!Idxs \cup {INVALID} /\ m \in Unit!Idxs \cup {INVALID} /\ ft \in BOOLEAN
    /\ IsList(fs) /\ Len(fs) <= Len(chain)
    /\ \A k \in 1 .. Len(fs) : IsFrame(fs[k]) /\ fs[k].line \in Nat
PlacedAt(a, n, fs, ft) ==
    /\ a = "naming" => n = Len(fs) + 1
    /\ a # "naming" => Len(fs) >= 1
    /\ a \in {"follow", "name", "called"} => n = Len(fs)
    /\ a = "line" => Len(fs) = Len(chain)
    /\ (a = "idle" /\ unit.hasLines /\ ft = FALSE) =>
           Len(fs) = Len(chain) /\ fs[Len(fs)].line = Unit!Row.line
FollowsAt(a, n, c) ==
    (a = "follow" /\ Unit!ToDeclarations) =>
        /\ c # INVALID /\ Unit!getTag(c) = "inlined_subroutine" => entries[c].extracted = TRUE
        /\ LeadsTo(Unit!OffsetOf(n), OffsetAt(c))
NamesAt(a, n, m) ==
    a = "name" =>
        /\ m # INVALID => Unit!getTag(m) = "subprogram"
        /\ Unit!ToDeclarations => Unit!NamedItem(Unit!OffsetOf(n)) = OffsetAt(m)
FitAt(a, fs) ==
    \A k \in 1 .. Len(fs) :
        /\ NameTyped(fs[k].name)
        /\ k < Len(fs) \/ a \notin {"follow", "name"} => Fits(fs[k].name, Unit!OffsetOf(k))
ToldAt(a, fs) ==
    \A k \in 1 .. Len(fs) - 1 :
        k < Len(fs) - 1 \/ a \in {"naming", "line", "idle"} =>
            fs[k].line = Unit!LineCut(Unit!ItemOf(chain[k + 1]).callLine)
Explained ==
    \/ Unit!Row = BAD_ROW
    \/ Unit!Row # BAD_ROW /\ ~Unit!NamesFile(Unit!Row.file)
    \/ \E o \in 1 .. Len(Unit!Items) :
          /\ Unit!Items[o].kind = "entry" /\ Unit!Items[o].tag = "inlined_subroutine"
          /\ ~Unit!NamesFile(Unit!Items[o].callFile)
FrameStands(a, n, c, m, fs, ft) ==
    /\ FrameTyped(a, n, c, m, fs, ft) /\ PlacedAt(a, n, fs, ft)
    /\ FollowsAt(a, n, c) /\ NamesAt(a, n, m) /\ FitAt(a, fs) /\ ToldAt(a, fs)
    /\ ft = TRUE => Explained

AskedInv ==
    /\ asked \in UnitAddresses /\ chain \in Seq(Unit!Idxs) /\ ChainRead
    /\ FrameStands(at, nth, cur, named, frames, fault)
Unasked ==
    /\ at = "idle" /\ chain = <<>> /\ nth = 0 /\ cur = INVALID /\ named = INVALID
    /\ frames = <<>> /\ fault = FALSE
FrameInv == unit \in Ranged /\ (Unasked \/ AskedInv)

(* A step that only reads more changes nothing that was said. *)
ReadsOn ==
    /\ SameOffsets /\ pos' = pos /\ asked' = asked /\ chain' = chain
    /\ \A i \in Unit!Idxs : entries[i].extracted = TRUE => entries'[i].extracted = TRUE

LEMMA SaysTheSame ==
    ASSUME UnitInv, asked \in UnitAddresses, chain \in Seq(Unit!Idxs), 1 \in 1 .. Len(chain),
           ChainRead, ReadsOn
    PROVE  /\ Unit!Items' = Unit!Items /\ Unit!Idxs' = Unit!Idxs /\ Unit!Row' = Unit!Row
           /\ asked' \in UnitAddresses /\ chain' = chain /\ ChainRead'
           /\ \A i \in Unit!Idxs : /\ Unit!ItemOf(i)' = Unit!ItemOf(i)
                                   /\ Unit!getTag(i)' = Unit!getTag(i)
           /\ \A i \in Unit!Idxs \cup {INVALID} : OffsetAt(i)' = OffsetAt(i)
           /\ \A n \in 1 .. Len(chain) : Unit!OffsetOf(n)' = Unit!OffsetOf(n)
           /\ \A o : Unit!NamedItem(o)' = Unit!NamedItem(o)
           /\ \A o, x : LeadsTo(o, x)' <=> LeadsTo(o, x)
           /\ Unit!ToDeclarations' <=> Unit!ToDeclarations
           /\ \A x, o : Fits(x, o)' <=> Fits(x, o)
<1>1. Listed /\ pos = Len(Unit!Items)
  BY DEF UnitInv
<1>2. unit' = unit /\ SameOffsets
  BY DEF ReadsOn, SameOffsets
<1>3. /\ Unit!Items' = Unit!Items /\ Unit!Idxs' = Unit!Idxs
      /\ \A i \in Unit!Idxs : /\ Unit!ItemOf(i)' = Unit!ItemOf(i)
                              /\ Unit!getTag(i)' = Unit!getTag(i)
  BY <1>1, <1>2, SameNames
<1>4. /\ \A o : Unit!NamedItem(o)' = Unit!NamedItem(o)
      /\ \A o, x : LeadsTo(o, x)' <=> LeadsTo(o, x)
      /\ Unit!ToDeclarations' <=> Unit!ToDeclarations
  BY <1>2, SameWays
<1>5. \A i \in Unit!Idxs \cup {INVALID} : OffsetAt(i)' = OffsetAt(i)
  BY <1>2 DEF OffsetAt, SameOffsets
<1>6. DOMAIN chain = 1 .. Len(chain) /\ Len(chain) \in Nat /\ \A n \in 1 .. Len(chain) : chain[n] \in Unit!Idxs
  OBVIOUS
<1>7. \A n \in 1 .. Len(chain) : Unit!OffsetOf(n)' = Unit!OffsetOf(n)
  BY <1>6 DEF Unit!OffsetOf, ReadsOn, SameOffsets
<1>8. ASSUME NEW x, NEW o PROVE Fits(x, o)' <=> Fits(x, o)
  <2>1. Tellable(o)' <=> Tellable(o)
    BY <1>2, <1>3 DEF Tellable
  <2>2. NameTyped(x) => (RightName(x, o)' <=> RightName(x, o))
    BY <1>1, <1>2, SameRight DEF ReadsOn
  <2> QED BY <2>1, <2>2 DEF Fits
<1>9. ChainRead'
  <2>1. \A n \in 2 .. Len(chain) : n \in 1 .. Len(chain)
    BY <1>6
  <2>2. ASSUME NEW n \in 2 .. Len(chain)
        PROVE  /\ Unit!getTag(chain[n])' = "inlined_subroutine"
               /\ entries'[chain'[n]].extracted = TRUE
    <3>1. chain[n] \in Unit!Idxs /\ chain'[n] = chain[n]
      BY <1>6, <2>1 DEF ReadsOn
    <3>2. Unit!getTag(chain[n])' = Unit!getTag(chain[n])
      <4>1. \A i \in Unit!Idxs : Unit!getTag(i)' = Unit!getTag(i)
        BY <1>3
      <4> QED BY <3>1, <4>1
    <3> QED BY <3>1, <3>2 DEF ChainRead, ReadsOn
  <2>3. chain'[1] = 1 \/ Unit!getTag(chain[1])' = "subprogram"
    <3>1. chain[1] \in Unit!Idxs /\ chain'[1] = chain[1]
      BY <1>6 DEF ReadsOn
    <3>2. Unit!getTag(chain[1])' = Unit!getTag(chain[1])
      <4>1. \A i \in Unit!Idxs : Unit!getTag(i)' = Unit!getTag(i)
        BY <1>3
      <4> QED BY <3>1, <4>1
    <3> QED BY <3>1, <3>2 DEF ChainRead
  <2> QED BY <1>3, <2>2, <2>3 DEF ChainRead, ReadsOn
<1>10. Unit!Row' = Unit!Row
  BY <1>2 DEF Unit!Row, ReadsOn
<1> QED
  BY <1>3, <1>4, <1>5, <1>7, <1>8, <1>9, <1>10 DEF ReadsOn

LEMMA StandsTheSame ==
    ASSUME UnitInv, asked \in UnitAddresses, chain \in Seq(Unit!Idxs), ChainRead, ReadsOn,
           NEW a, NEW n, NEW c, NEW m, NEW fs, NEW ft, FrameStands(a, n, c, m, fs, ft)
    PROVE  FrameStands(a, n, c, m, fs, ft)'
<1>1. FrameTyped(a, n, c, m, fs, ft)
  BY DEF FrameStands
<1>2. /\ n \in 1 .. Len(chain) /\ 1 \in 1 .. Len(chain) /\ Len(chain) \in Nat
      /\ \A k \in 1 .. Len(chain) : chain[k] \in Unit!Idxs
  BY <1>1 DEF FrameTyped
<1>3. /\ Unit!Items' = Unit!Items /\ Unit!Idxs' = Unit!Idxs /\ Unit!Row' = Unit!Row
      /\ chain' = chain
      /\ \A i \in Unit!Idxs : /\ Unit!ItemOf(i)' = Unit!ItemOf(i)
                              /\ Unit!getTag(i)' = Unit!getTag(i)
      /\ \A i \in Unit!Idxs \cup {INVALID} : OffsetAt(i)' = OffsetAt(i)
      /\ \A k \in 1 .. Len(chain) : Unit!OffsetOf(k)' = Unit!OffsetOf(k)
      /\ \A o : Unit!NamedItem(o)' = Unit!NamedItem(o)
      /\ \A o, x : LeadsTo(o, x)' <=> LeadsTo(o, x)
      /\ Unit!ToDeclarations' <=> Unit!ToDeclarations
      /\ \A x, o : Fits(x, o)' <=> Fits(x, o)
  BY <1>2, SaysTheSame
<1>4. unit' = unit /\ \A i \in Unit!Idxs : entries[i].extracted = TRUE => entries'[i].extracted = TRUE
  BY DEF ReadsOn, SameOffsets
<1>5. FrameTyped(a, n, c, m, fs, ft)'
  BY <1>1, <1>3 DEF FrameTyped
<1>6. PlacedAt(a, n, fs, ft)'
  BY <1>3, <1>4 DEF FrameStands, PlacedAt
<1>7. c \in Unit!Idxs \cup {INVALID} /\ m \in Unit!Idxs \cup {INVALID} /\ Len(fs) \in Nat /\ Len(fs) <= Len(chain)
  BY <1>1 DEF FrameTyped, IsList
<1>8. FollowsAt(a, n, c)'
  <2>1. SUFFICES ASSUME a = "follow", Unit!ToDeclarations
        PROVE  /\ c # INVALID /\ Unit!getTag(c)' = "inlined_subroutine" => entries'[c].extracted = TRUE
               /\ LeadsTo(Unit!OffsetOf(n), OffsetAt(c))'
    BY <1>3 DEF FollowsAt
  <2>2. /\ c # INVALID /\ Unit!getTag(c) = "inlined_subroutine" => entries[c].extracted = TRUE
        /\ LeadsTo(Unit!OffsetOf(n), OffsetAt(c))
    BY <2>1 DEF FrameStands, FollowsAt
  <2>3. Unit!OffsetOf(n)' = Unit!OffsetOf(n) /\ OffsetAt(c)' = OffsetAt(c)
    BY <1>2, <1>3, <1>7
  <2>4. LeadsTo(Unit!OffsetOf(n), OffsetAt(c))'
    BY <1>3, <2>2, <2>3
  <2> QED BY <1>3, <1>4, <1>7, <2>2, <2>4
<1>9. NamesAt(a, n, m)'
  <2>1. Unit!OffsetOf(n)' = Unit!OffsetOf(n) /\ OffsetAt(m)' = OffsetAt(m)
    BY <1>2, <1>3, <1>7
  <2>2. Unit!NamedItem(Unit!OffsetOf(n))' = Unit!NamedItem(Unit!OffsetOf(n))
    BY <1>3, <2>1
  <2>3. m # INVALID => Unit!getTag(m)' = Unit!getTag(m)
    BY <1>3, <1>7
  <2> QED BY <1>3, <2>1, <2>2, <2>3 DEF FrameStands, NamesAt
<1>10. FitAt(a, fs)'
  <2>1. ASSUME NEW k \in 1 .. Len(fs)
        PROVE  Fits(fs[k].name, Unit!OffsetOf(k))' <=> Fits(fs[k].name, Unit!OffsetOf(k))
    <3>1. k \in 1 .. Len(chain)
      BY <1>2, <1>7
    <3>2. Unit!OffsetOf(k)' = Unit!OffsetOf(k)
      BY <1>3, <3>1
    <3> QED BY <1>3, <3>2
  <2> QED BY <2>1 DEF FrameStands, FitAt
<1>11. ToldAt(a, fs)'
  <2>1. ASSUME NEW k \in 1 .. Len(fs) - 1
        PROVE  Unit!ItemOf(chain[k + 1])' = Unit!ItemOf(chain[k + 1])
    <3>1. k + 1 \in 1 .. Len(chain)
      BY <1>2, <1>7
    <3>2. chain[k + 1] \in Unit!Idxs /\ chain'[k + 1] = chain[k + 1]
      BY <1>2, <1>3, <3>1
    <3> QED BY <1>3, <3>2
  <2> QED BY <2>1 DEF FrameStands, ToldAt
<1>12. (ft = TRUE => Explained)'
  BY <1>3, <1>4 DEF FrameStands, Explained, Unit!NamesFile, Unit!Files
<1> QED
  BY <1>5, <1>6, <1>8, <1>9, <1>10, <1>11, <1>12 DEF FrameStands

LEMMA StandsOn ==
    ASSUME UnitInv, AskedInv, unit \in Ranged, ReadsOn, FrameStands(at', nth', cur', named', frames', fault')
    PROVE  FrameInv'
<1>1. asked \in UnitAddresses /\ chain \in Seq(Unit!Idxs) /\ ChainRead
  BY DEF AskedInv
<1>2. 1 \in 1 .. Len(chain)
  <2>1. nth \in 1 .. Len(chain) /\ Len(chain) \in Nat
    BY <1>1 DEF AskedInv, FrameStands, FrameTyped
  <2> QED BY <2>1
<1>3. asked' \in UnitAddresses /\ chain' \in Seq(Unit!Idxs') /\ ChainRead'
  BY <1>1, <1>2, SaysTheSame
<1>4. FrameStands(at, nth, cur, named, frames, fault)'
  <2>1. PICK a, n, c, m, fs, ft :
          a = at' /\ n = nth' /\ c = cur' /\ m = named' /\ fs = frames' /\ ft = fault'
    OBVIOUS
  <2>2. FrameStands(a, n, c, m, fs, ft)
    BY <2>1
  <2>3. FrameStands(a, n, c, m, fs, ft)'
    BY <1>1, <2>2, StandsTheSame
  <2> QED BY <2>1, <2>3
<1>5. unit' \in Ranged
  BY DEF ReadsOn, SameOffsets
<1> QED
  BY <1>3, <1>4, <1>5 DEF FrameInv, AskedInv

(* The chain of a question: the first subprogram or the unit's own entry, and
   what is inlined. *)
LEMMA AskStarts ==
    ASSUME UnitInv, FrameInv, NEW a \in UnitAddresses, Unit!getInfoByAddress(a)
    PROVE  UnitInv' /\ FrameInv'
<1> DEFINE walk == answer'
           subs == Unit!OfTag("subprogram", walk)
           first == IF subs = <<>> THEN 1 ELSE subs[1]
           rest == Unit!OfTag("inlined_subroutine", walk)
           I == Unit!Idxs
<1>1. /\ Unit!getDIEIdxsBy(a) /\ chain' = <<first>> \o rest
      /\ at' = "naming" /\ nth' = 1 /\ cur' = INVALID /\ named' = INVALID
      /\ frames' = <<>> /\ fault' = fault /\ fault = FALSE
  <2>1. /\ Unit!getDIEIdxsBy(a) /\ chain' = <<first>> \o rest
        /\ at' = "naming" /\ nth' = 1 /\ cur' = INVALID /\ named' = INVALID
        /\ frames' = <<>> /\ fault' = fault /\ ~fault
    BY Zenon DEF Unit!getInfoByAddress
  <2>2. fault \in BOOLEAN
    BY DEF FrameInv, Unasked, AskedInv, FrameStands, FrameTyped
  <2> QED BY <2>1, <2>2
<1>2. UnitInv'
  BY <1>1, UnitNextKeeps DEF Unit!Next
<1>3. /\ pos = Len(Unit!Items) /\ asked' = a /\ SameOffsets /\ walk \in Seq(I)
  BY <1>1, AnswerIs DEF SameOffsets
<1>4. /\ \A i \in I : Unit!getTag(i) = "subprogram" => entries'[i].extracted = TRUE
      /\ \A p \in 1 .. Len(walk) :
            Unit!getTag(walk[p]) = "inlined_subroutine" => entries'[walk[p]].extracted = TRUE
  BY <1>1, AnswerRead
<1>5. Listed /\ unit \in Ranged
  BY DEF UnitInv, FrameInv
<1>6. Unit!Idxs' = I /\ \A i \in I : Unit!getTag(i)' = Unit!getTag(i)
  BY <1>3, <1>5, SameNames
<1> HIDE DEF walk, I
<1>7. 1 \in I
  <2>1. Len(Unit!Items) > 0 /\ Unit!Items[1].kind = "entry"
    BY <1>5, AggregatorAssumption DEF Unit!AggregatorAssumption, Unit!Items
  <2>2. 1 \in 1 .. pos
    BY <1>3, <1>5, <2>1, UnitTypes
  <2>3. PICK i \in Unit!Idxs : entries[i].Offset = 1
    BY <1>5, <2>1, <2>2 DEF Listed
  <2> QED BY <1>5, <2>3, UnitTypes DEF Unit!Idxs, I
<1>8. /\ subs \in Seq(I) /\ \A p \in 1 .. Len(subs) : Unit!getTag(subs[p]) = "subprogram"
      /\ rest \in Seq(I)
      /\ \A p \in 1 .. Len(rest) : /\ Unit!getTag(rest[p]) = "inlined_subroutine"
                                   /\ \E n \in 1 .. Len(walk) : rest[p] = walk[n]
  <2> DEFINE S == {i \in Unit!Idxs : Unit!getTag(i) = "subprogram"}
             T == {i \in Unit!Idxs : Unit!getTag(i) = "inlined_subroutine"}
  <2>1. subs = Unit!Chosen(walk, S) /\ rest = Unit!Chosen(walk, T)
    BY Zenon DEF Unit!OfTag
  <2> HIDE DEF subs, rest, S, T
  <2>2. subs \in Seq(I) /\ rest \in Seq(I)
    BY <1>3, <2>1, ChosenIs
  <2>3. /\ \A p \in 1 .. Len(subs) : subs[p] \in S
        /\ \A p \in 1 .. Len(rest) : rest[p] \in T /\ \E n \in 1 .. Len(walk) : rest[p] = walk[n]
    BY <1>3, <2>1, ChosenFacts
  <2> QED BY <2>2, <2>3 DEF S, T
<1> HIDE DEF subs, rest
<1>9. first \in I /\ (first = 1 \/ Unit!getTag(first) = "subprogram")
  <2>1. subs # <<>> => 1 \in 1 .. Len(subs)
    <3>1. ASSUME subs # <<>> PROVE 1 \in 1 .. Len(subs)
      <4>1. Len(subs) \in Nat /\ Len(subs) # 0
        BY <1>8, <3>1
      <4> QED BY <4>1
    <3> QED BY <3>1
  <2> QED BY <1>7, <1>8, <2>1
<1> HIDE DEF first
<1> DEFINE c == <<first>> \o rest
<1>10. /\ c \in Seq(I) /\ Len(c) = 1 + Len(rest) /\ Len(rest) \in Nat /\ c[1] = first
       /\ \A n \in 2 .. Len(c) : n - 1 \in 1 .. Len(rest) /\ c[n] = rest[n - 1]
  <2>1. <<first>> \in Seq(I) /\ Len(<<first>>) = 1 /\ <<first>>[1] = first
    BY <1>9
  <2>2. /\ c \in Seq(I) /\ Len(c) = 1 + Len(rest) /\ Len(rest) \in Nat
        /\ \A k \in 1 .. 1 + Len(rest) : c[k] = IF k <= 1 THEN <<first>>[k] ELSE rest[k - 1]
    BY <1>8, <2>1, ConcatProperties, LenProperties
  <2> HIDE DEF c
  <2>3. 1 \in 1 .. 1 + Len(rest)
    BY <2>2
  <2>4. ASSUME NEW n \in 2 .. Len(c) PROVE n - 1 \in 1 .. Len(rest) /\ c[n] = rest[n - 1]
    <3>1. n \in 1 .. 1 + Len(rest) /\ ~(n <= 1) /\ n - 1 \in 1 .. Len(rest)
      BY <2>2
    <3> QED BY <2>2, <3>1
  <2> QED BY <2>1, <2>2, <2>3, <2>4
<1>11. PICK w : w = chain' /\ w = c
  BY <1>1
<1> HIDE DEF c
<1>15. /\ w \in Seq(I) /\ 1 \in 1 .. Len(w) /\ (w[1] = 1 \/ Unit!getTag(w[1]) = "subprogram")
       /\ \A n \in 1 .. Len(w) : w[n] \in I
       /\ \A n \in 2 .. Len(w) : /\ Unit!getTag(w[n]) = "inlined_subroutine"
                                 /\ entries'[w[n]].extracted = TRUE
  <2>1. w \in Seq(I) /\ 1 \in 1 .. Len(w)
    BY <1>10, <1>11
  <2>2. w[1] = 1 \/ Unit!getTag(w[1]) = "subprogram"
    BY <1>9, <1>10, <1>11
  <2>3. ASSUME NEW n \in 2 .. Len(w)
        PROVE  Unit!getTag(w[n]) = "inlined_subroutine" /\ entries'[w[n]].extracted = TRUE
    <3>1. n - 1 \in 1 .. Len(rest) /\ w[n] = rest[n - 1]
      BY <1>10, <1>11
    <3>2. Unit!getTag(w[n]) = "inlined_subroutine"
      BY <1>8, <3>1
    <3>3. PICK m \in 1 .. Len(walk) : w[n] = walk[m]
      BY <1>8, <3>1
    <3> QED BY <1>4, <3>2, <3>3
  <2>4. \A n \in 1 .. Len(w) : w[n] \in I
    BY <2>1
  <2> QED BY <2>1, <2>2, <2>3, <2>4
<1>12. FrameTyped(at, nth, cur, named, frames, fault)' /\ chain' \in Seq(Unit!Idxs')
  <2>1. chain' \in Seq(Unit!Idxs') /\ 1 \in 1 .. Len(chain')
    BY <1>6, <1>11, <1>15 DEF I
  <2>2. IsList(frames') /\ Len(frames') = 0
    <3>1. frames' = <<>>
      BY <1>1
    <3> QED BY <3>1, ListStarts
  <2>3. Len(chain') \in Nat /\ Len(frames') <= Len(chain')
    BY <2>1, <2>2
  <2>4. fault' \in BOOLEAN
    BY <1>1
  <2>5. \A n \in 1 .. Len(frames') : IsFrame(frames'[n]) /\ frames'[n].line \in Nat
    BY <2>2
  <2>6. /\ at' \in {"idle", "naming", "follow", "name", "called", "line"}
        /\ nth' \in 1 .. Len(chain')
        /\ cur' \in Unit!Idxs' \cup {INVALID} /\ named' \in Unit!Idxs' \cup {INVALID}
    BY <1>1, <2>1
  <2> QED BY <2>1, <2>2, <2>3, <2>4, <2>5, <2>6, Zenon DEF FrameTyped
<1>13. PlacedAt(at, nth, frames, fault)'
  <2>1. Len(frames') = 0
    BY <1>1
  <2> QED BY <1>1, <2>1 DEF PlacedAt
<1>14. ChainRead'
  <2>1. \A i \in Unit!Idxs' : Unit!getTag(i)' = "subprogram" => entries'[i].extracted = TRUE
    BY <1>4, <1>6
  <2>2. ASSUME NEW n \in 2 .. Len(w)
        PROVE  Unit!getTag(w[n])' = "inlined_subroutine" /\ entries'[w[n]].extracted = TRUE
    <3>1. n \in 1 .. Len(w)
      BY <1>15
    <3>2. w[n] \in I
      BY <1>15, <3>1
    <3> QED BY <1>6, <1>15, <3>2
  <2>3. w[1] = 1 \/ Unit!getTag(w[1])' = "subprogram"
    <3>1. w[1] \in I
      BY <1>15
    <3> QED BY <1>6, <1>15, <3>1
  <2> QED BY <1>11, <2>1, <2>2, <2>3 DEF ChainRead
<1>16. /\ FollowsAt(at, nth, cur)' /\ NamesAt(at, nth, named)'
       /\ FitAt(at, frames)' /\ ToldAt(at, frames)'
  <2>1. Len(frames') = 0 /\ at' = "naming"
    BY <1>1
  <2>2. 1 .. Len(frames') = {} /\ 1 .. Len(frames') - 1 = {}
    BY <2>1
  <2> QED BY <2>1, <2>2 DEF FollowsAt, NamesAt, FitAt, ToldAt
<1>17. (fault = TRUE => Explained)'
  BY <1>1
<1>18. asked' \in UnitAddresses /\ unit' \in Ranged
  BY <1>3, <1>5 DEF SameOffsets
<1> QED
  BY <1>2, <1>12, <1>13, <1>14, <1>16, <1>17, <1>18 DEF FrameInv, AskedInv, FrameStands

LEMMA ReadsNothing ==
    ASSUME UNCHANGED Unit!vars, chain' = chain
    PROVE  ReadsOn
<1>1. unit' = unit /\ pos' = pos /\ entries' = entries /\ asked' = asked
  BY DEF Unit!vars
<1> QED
  BY <1>1 DEF ReadsOn, SameOffsets

LEMMA AskedFacts ==
    ASSUME UnitInv, AskedInv
    PROVE  /\ Listed /\ pos = Len(Unit!Items)
           /\ Len(chain) \in Nat /\ nth \in 1 .. Len(chain)
           /\ \A k \in 1 .. Len(chain) : chain[k] \in Unit!Idxs
           /\ IsList(frames) /\ Len(frames) \in Nat /\ Len(frames) <= Len(chain)
           /\ cur \in Unit!Idxs \cup {INVALID} /\ named \in Unit!Idxs \cup {INVALID}
           /\ INVALID \notin Unit!Idxs
           /\ \A k \in 1 .. Len(frames) : IsFrame(frames[k]) /\ frames[k].line \in Nat
           /\ \A k \in 1 .. Len(chain) : /\ Unit!OffsetOf(k) = OffsetAt(chain[k])
                                         /\ Unit!OffsetOf(k) = entries[chain[k]].Offset
                                         /\ Unit!OffsetOf(k) \in 1 .. Len(Unit!Items)
                                         /\ Unit!Items[Unit!OffsetOf(k)].kind = "entry"
<1>1. Listed /\ pos = Len(Unit!Items)
  BY DEF UnitInv, AskedInv
<1>2. chain \in Seq(Unit!Idxs) /\ FrameTyped(at, nth, cur, named, frames, fault)
  BY DEF AskedInv, FrameStands
<1>3. INVALID \notin Unit!Idxs
  BY <1>1, IdxIs
<1>4. Len(chain) \in Nat /\ \A k \in 1 .. Len(chain) : chain[k] \in Unit!Idxs
  BY <1>2
<1>5. ASSUME NEW k \in 1 .. Len(chain)
      PROVE  /\ Unit!OffsetOf(k) = OffsetAt(chain[k]) /\ Unit!OffsetOf(k) = entries[chain[k]].Offset
             /\ Unit!OffsetOf(k) \in 1 .. Len(Unit!Items)
             /\ Unit!Items[Unit!OffsetOf(k)].kind = "entry"
  <2>1. chain[k] \in Unit!Idxs /\ chain[k] # INVALID
    BY <1>3, <1>4
  <2>2. Unit!OffsetOf(k) = entries[chain[k]].Offset
    BY DEF Unit!OffsetOf
  <2>3. entries[chain[k]].Offset \in 1 .. pos /\ Unit!Items[entries[chain[k]].Offset].kind = "entry"
    BY <1>1, <2>1, UnitTypes
  <2> QED BY <1>1, <2>1, <2>2, <2>3 DEF OffsetAt
<1> QED
  BY <1>1, <1>2, <1>3, <1>4, <1>5 DEF FrameTyped, IsList

(* A name is begun at the entry itself, or not at all if its range is lost. *)
LEMMA BeginNameKeeps ==
    ASSUME UnitInv, AskedInv, unit \in Ranged, Unit!BeginName
    PROVE  FrameInv'
<1>1. /\ at = "naming" /\ frames' = Append(frames, Unit!EmptyFrame)
      /\ at' = IF Unit!Owned(chain[nth]) THEN "follow" ELSE "called"
      /\ cur' = chain[nth] /\ named' = INVALID
      /\ UNCHANGED Unit!vars /\ chain' = chain /\ nth' = nth /\ fault' = fault
  BY DEF Unit!BeginName
<1>2. ReadsOn
  BY <1>1, ReadsNothing
<1>3. /\ Listed /\ pos = Len(Unit!Items)
      /\ Len(chain) \in Nat /\ nth \in 1 .. Len(chain)
      /\ \A k \in 1 .. Len(chain) : chain[k] \in Unit!Idxs
      /\ IsList(frames) /\ Len(frames) \in Nat /\ INVALID \notin Unit!Idxs
      /\ \A k \in 1 .. Len(frames) : IsFrame(frames[k]) /\ frames[k].line \in Nat
      /\ \A k \in 1 .. Len(chain) : /\ Unit!OffsetOf(k) = OffsetAt(chain[k])
                                    /\ Unit!OffsetOf(k) = entries[chain[k]].Offset
                                    /\ Unit!OffsetOf(k) \in 1 .. Len(Unit!Items)
  BY AskedFacts
<1>4. /\ FrameTyped(at, nth, cur, named, frames, fault) /\ PlacedAt(at, nth, frames, fault)
      /\ FitAt(at, frames) /\ ToldAt(at, frames) /\ ChainRead /\ (fault = TRUE => Explained)
  BY DEF AskedInv, FrameStands
<1>5. nth = Len(frames) + 1
  BY <1>1, <1>4 DEF PlacedAt
<1>6. /\ IsList(frames') /\ Len(frames') = nth /\ frames'[nth] = Unit!EmptyFrame
      /\ \A k \in 1 .. Len(frames) : frames'[k] = frames[k]
  <2> DEFINE e == Unit!EmptyFrame
  <2>1. frames' = Append(frames, e)
    BY <1>1
  <2> HIDE DEF e
  <2>2. Longer(frames, frames', e)
    BY <1>3, <2>1, ListGrows, Zenon
  <2> QED BY <1>5, <2>2 DEF Longer, e
<1>7. /\ IsFrame(Unit!EmptyFrame) /\ Unit!EmptyFrame.name = Unit!Unnamed /\ Unit!EmptyFrame.line = 0
  BY EmptyIs
<1>8. \A k \in 1 .. nth : k = nth \/ k \in 1 .. Len(frames)
  BY <1>3, <1>5
<1>9. FrameTyped(at', nth', cur', named', frames', fault')
  <2>1. \A k \in 1 .. nth : IsFrame(frames'[k]) /\ frames'[k].line \in Nat
    <3>1. Unit!EmptyFrame.line \in Nat
      BY <1>7
    <3> QED BY <1>3, <1>6, <1>7, <1>8, <3>1
  <2>2. at' \in {"idle", "naming", "follow", "name", "called", "line"} /\ nth' \in 1 .. Len(chain)
    BY <1>1, <1>3
  <2>3. /\ cur' \in Unit!Idxs \cup {INVALID} /\ named' \in Unit!Idxs \cup {INVALID}
        /\ fault' \in BOOLEAN
    BY <1>1, <1>3, <1>4 DEF FrameTyped
  <2>4. IsList(frames') /\ Len(frames') <= Len(chain)
    BY <1>3, <1>6
  <2> QED BY <1>6, <2>1, <2>2, <2>3, <2>4, Zenon DEF FrameTyped
<1>10. PlacedAt(at', nth', frames', fault')
  BY <1>1, <1>3, <1>6 DEF PlacedAt
<1>11. FollowsAt(at', nth', cur')
  <2>1. SUFFICES ASSUME at' = "follow", Unit!ToDeclarations
        PROVE  /\ cur' # INVALID /\ Unit!getTag(cur') = "inlined_subroutine" => entries[cur'].extracted = TRUE
               /\ LeadsTo(Unit!OffsetOf(nth'), OffsetAt(cur'))
    BY DEF FollowsAt
  <2>2. LeadsTo(Unit!OffsetOf(nth), OffsetAt(chain[nth]))
    <3>1. Unit!OffsetOf(nth) \in KnownItem /\ Unit!OffsetOf(nth) = OffsetAt(chain[nth])
      BY <1>3 DEF KnownItem
    <3> QED BY <3>1, LeadsStart
  <2>3. ASSUME Unit!getTag(chain[nth]) = "inlined_subroutine" PROVE entries[chain[nth]].extracted = TRUE
    <3>1. CASE nth # 1
      <4>1. nth \in 2 .. Len(chain)
        BY <1>3, <3>1
      <4> QED BY <1>4, <4>1 DEF ChainRead
    <3>2. CASE nth = 1
      <4>1. chain[1] = 1
        BY <1>4, <2>3, <3>2 DEF ChainRead
      <4>2. entries[1].Offset = 1
        <5>1. Unit!OffsetOf(1) \in 1 .. Len(Unit!Items) /\ 1 \in Unit!Idxs
          BY <1>3, <3>2, <4>1
        <5>2. Unit!Items[1].kind = "entry" /\ 1 \in 1 .. pos
          <6>1. Unit!Items[1].kind = "entry"
            BY AggregatorAssumption DEF Unit!AggregatorAssumption, Unit!Items
          <6>2. Len(Unit!Items) \in Nat
            BY <1>3, UnitTypes
          <6> QED BY <1>3, <5>1, <6>1, <6>2
        <5>3. PICK i \in Unit!Idxs : entries[i].Offset = 1
          BY <1>3, <5>2 DEF Listed
        <5>4. i = 1 \/ 1 < i
          BY <1>3, <5>3, UnitTypes DEF Unit!Idxs
        <5>5. entries[1].Offset \in 1 .. pos /\ pos \in Nat
          BY <1>3, <5>1, UnitTypes
        <5>6. 1 < i => entries[1].Offset < entries[i].Offset
          BY <1>3, <5>1, <5>3 DEF Listed
        <5> QED BY <5>3, <5>4, <5>5, <5>6
      <4>3. Unit!getTag(1) = Unit!Items[1].tag
        BY <4>2 DEF Unit!getTag, Unit!ItemOf
      <4>4. Unit!Items[1].tag # "inlined_subroutine"
        BY <2>1 DEF Unit!ToDeclarations
      <4> QED BY <2>3, <3>2, <4>1, <4>3, <4>4
    <3> QED BY <3>1, <3>2
  <2> QED BY <1>1, <2>2, <2>3
<1>12. NamesAt(at', nth', named')
  BY <1>1 DEF NamesAt
<1>13. FitAt(at', frames')
  <2>1. NameTyped(Unit!Unnamed)
    BY UnnamedIs
  <2>2. ASSUME NEW k \in 1 .. Len(frames)
        PROVE  NameTyped(frames'[k].name) /\ Fits(frames'[k].name, Unit!OffsetOf(k))
    BY <1>1, <1>4, <1>6, <2>2 DEF FitAt
  <2>3. ASSUME at' = "called" PROVE Fits(Unit!Unnamed, Unit!OffsetOf(nth))
    <3>1. ~Unit!Owned(chain[nth])
      BY <1>1, <2>3
    <3>2. /\ Unit!Attr(entries, chain[nth], "low") # INVALID
          /\ Unit!Attr(entries, chain[nth], "low") \in unit.lost
      BY <3>1 DEF Unit!Owned
    <3>3. Unit!Attr(entries, chain[nth], "low") = Unit!Items[Unit!OffsetOf(nth)].low
      BY <1>3, <3>2 DEF Unit!Attr, Unit!ItemOf
    <3> QED BY <2>1, <3>2, <3>3 DEF Fits, Tellable
  <2>4. at' = "follow" \/ at' = "called"
    BY <1>1
  <2>5. ASSUME NEW k \in 1 .. nth
        PROVE  /\ NameTyped(frames'[k].name)
               /\ k < nth \/ at' \notin {"follow", "name"} => Fits(frames'[k].name, Unit!OffsetOf(k))
    <3>1. CASE k = nth
      BY <1>3, <1>6, <1>7, <2>1, <2>3, <2>4, <3>1
    <3>2. CASE k # nth
      BY <1>8, <2>2, <3>2
    <3> QED BY <3>1, <3>2
  <2> QED BY <1>6, <2>5 DEF FitAt
<1>14. ToldAt(at', frames')
  <2>1. ASSUME NEW k \in 1 .. nth - 1, k < nth - 1
        PROVE  frames'[k].line = Unit!LineCut(Unit!ItemOf(chain[k + 1]).callLine)
    <3>1. k \in 1 .. Len(frames) - 1 /\ k \in 1 .. Len(frames)
      BY <1>3, <1>5, <2>1
    <3> QED BY <1>1, <1>4, <1>6, <3>1 DEF ToldAt
  <2> QED BY <1>1, <1>6, <2>1 DEF ToldAt
<1>15. FrameStands(at', nth', cur', named', frames', fault')
  BY <1>1, <1>4, <1>9, <1>10, <1>11, <1>12, <1>13, <1>14 DEF FrameStands
<1> QED
  BY <1>2, <1>15, StandsOn

(* Where what was read of an entry leads is where its item leads, and not to
   where something is inlined. *)
LEMMA FollowLeads ==
    ASSUME Listed, pos = Len(Unit!Items), Unit!ToDeclarations,
           NEW i \in Unit!Idxs, entries[i].extracted = TRUE,
           Unit!getTag(i) \in {"subprogram", "inlined_subroutine"},
           NEW a \in {"spec", "origin", "object"}, NEW j,
           j = Unit!getIdxByOffset(Unit!Attr(entries, i, a))
    PROVE  j # INVALID => Unit!getTag(j) # "inlined_subroutine"
<1> DEFINE o == entries[i].Offset
           x == Unit!Attr(entries, i, a)
<1>1. o \in 1 .. Len(Unit!Items) /\ Unit!Items[o].kind = "entry" /\ Unit!Items[o].tag = Unit!getTag(i)
  BY UnitTypes DEF Unit!getTag, Unit!ItemOf
<1>2. x = Unit!Items[o][a]
  BY DEF Unit!Attr, Unit!ItemOf
<1>3. ASSUME j # INVALID
      PROVE  j \in Unit!Idxs /\ Unit!ItemAt(x) = x /\ entries[j].Offset = x
  <2>1. Unit!getIdxByOffset(x) # INVALID
    BY <1>3
  <2>2. /\ Unit!getIdxByOffset(x) \in Unit!Idxs /\ Unit!ItemAt(x) = x
        /\ entries[Unit!getIdxByOffset(x)].Offset = x
    <3> HIDE DEF x
    <3> QED BY <2>1, ItemAtIs
  <2> QED BY <2>2
<1>4. ASSUME j # INVALID PROVE x # INVALID /\ Unit!getTag(j) = Unit!Items[x].tag
  <2>1. x \in Nat
    BY <1>3, <1>4, UnitTypes
  <2> QED BY <1>3, <1>4, <2>1, CompileUnitAssumption DEF Unit!CompileUnitAssumption, Unit!getTag, Unit!ItemOf
<1>5. ASSUME j # INVALID PROVE Unit!Items[x].tag # "inlined_subroutine"
  <2> DEFINE r == Unit!ItemAt(Unit!Items[o][a])
  <2>1. r # INVALID => Unit!Items[r].tag # "inlined_subroutine"
    <3> HIDE DEF o
    <3> QED BY <1>1 DEF Unit!ToDeclarations
  <2>2. r = x
    BY <1>2, <1>3, <1>5
  <2> HIDE DEF r, x
  <2> QED BY <1>4, <1>5, <2>1, <2>2
<1> HIDE DEF x
<1> QED
  BY <1>4, <1>5

LEMMA FollowKeeps ==
    ASSUME UnitInv, AskedInv, unit \in Ranged, Unit!FollowOrigin \/ Unit!FollowReference
    PROVE  FrameInv'
<1>1. /\ at = "follow" /\ cur # INVALID
      /\ UNCHANGED Unit!vars /\ chain' = chain /\ at' = at /\ nth' = nth /\ named' = named
      /\ frames' = frames /\ fault' = fault
      /\ \/ /\ Unit!getTag(cur) = "inlined_subroutine"
            /\ cur' = Unit!getIdxByOffset(Unit!Attr(entries, cur, "origin"))
         \/ /\ Unit!getTag(cur) = "subprogram" /\ ~Unit!HasName(cur)
            /\ cur' = Unit!Reference(cur)
  BY DEF Unit!FollowOrigin, Unit!FollowReference
<1>2. ReadsOn
  BY <1>1, ReadsNothing
<1>3. /\ Listed /\ pos = Len(Unit!Items) /\ cur \in Unit!Idxs
  BY <1>1, AskedFacts
<1>4. /\ FrameTyped(at, nth, cur, named, frames, fault) /\ PlacedAt(at, nth, frames, fault)
      /\ FollowsAt(at, nth, cur)
      /\ FitAt(at, frames) /\ ToldAt(at, frames) /\ ChainRead /\ (fault = TRUE => Explained)
  BY DEF AskedInv, FrameStands
<1>5. PICK x \in {"spec", "origin", "object"} : cur' = Unit!getIdxByOffset(Unit!Attr(entries, cur, x))
  <2>1. CASE cur' = Unit!getIdxByOffset(Unit!Attr(entries, cur, "origin"))
    BY <2>1
  <2>2. CASE cur' = Unit!Reference(cur)
    BY <2>2, Zenon DEF Unit!Reference
  <2> QED BY <1>1, <2>1, <2>2
<1>6. cur' \in Unit!Idxs \cup {INVALID}
  BY <1>3, <1>5, IdxIs
<1>7. FrameTyped(at', nth', cur', named', frames', fault')
  BY <1>1, <1>4, <1>6 DEF FrameTyped
<1>8. FollowsAt(at', nth', cur')
  <2>1. SUFFICES ASSUME Unit!ToDeclarations
        PROVE  /\ cur' # INVALID /\ Unit!getTag(cur') = "inlined_subroutine" => entries[cur'].extracted = TRUE
               /\ LeadsTo(Unit!OffsetOf(nth), OffsetAt(cur'))
    BY <1>1 DEF FollowsAt
  <2> DEFINE o == entries[cur].Offset
  <2>2. entries[cur].extracted = TRUE
    BY <1>1, <1>3, <1>4, <2>1 DEF FollowsAt, ChainRead
  <2>3. LeadsTo(Unit!OffsetOf(nth), o)
    BY <1>1, <1>4, <2>1 DEF FollowsAt, OffsetAt
  <2>4. o # INVALID /\ ~Unit!Stays(o) /\ OffsetAt(cur') = Unit!NextItem(o)
    <3>1. /\ o # INVALID
          /\ Unit!getTag(cur) = "inlined_subroutine" =>
               ~Unit!Stays(o)
               /\ OffsetAt(Unit!getIdxByOffset(Unit!Attr(entries, cur, "origin"))) = Unit!NextItem(o)
          /\ Unit!getTag(cur) = "subprogram" => (Unit!HasName(cur) <=> Unit!Stays(o))
          /\ (Unit!getTag(cur) = "subprogram" /\ ~Unit!HasName(cur)) =>
               OffsetAt(Unit!Reference(cur)) = Unit!NextItem(o)
      BY <1>3, <2>2, FollowIs
    <3> HIDE DEF o
    <3>2. CASE Unit!getTag(cur) = "inlined_subroutine"
               /\ cur' = Unit!getIdxByOffset(Unit!Attr(entries, cur, "origin"))
      BY <3>1, <3>2
    <3>3. CASE Unit!getTag(cur) = "subprogram" /\ ~Unit!HasName(cur) /\ cur' = Unit!Reference(cur)
      BY <3>1, <3>3
    <3> QED BY <1>1, <3>2, <3>3
  <2> HIDE DEF o
  <2>5. LeadsTo(Unit!OffsetOf(nth), Unit!NextItem(o))
    BY <2>3, <2>4, LeadsMore
  <2>6. cur' # INVALID => Unit!getTag(cur') # "inlined_subroutine"
    <3>1. Unit!getTag(cur) \in {"subprogram", "inlined_subroutine"}
      BY <1>1
    <3> QED BY <1>3, <1>5, <2>1, <2>2, <3>1, FollowLeads
  <2> QED BY <2>4, <2>5, <2>6
<1>9. NamesAt(at', nth', named')
  BY <1>1 DEF NamesAt
<1>10. FrameStands(at', nth', cur', named', frames', fault')
  BY <1>1, <1>4, <1>7, <1>8, <1>9 DEF FrameStands
<1> QED
  BY <1>2, <1>10, StandsOn

(* The search ends where the references lead. *)
LEMMA EndFollowKeeps ==
    ASSUME UnitInv, AskedInv, unit \in Ranged, Unit!EndFollow
    PROVE  FrameInv'
<1>1. /\ at = "follow"
      /\ UNCHANGED Unit!vars /\ chain' = chain /\ nth' = nth /\ cur' = cur
      /\ frames' = frames /\ fault' = fault
      /\ \/ cur = INVALID
         \/ cur # INVALID /\ Unit!getTag(cur) = "subprogram" /\ Unit!HasName(cur)
         \/ cur # INVALID /\ Unit!getTag(cur) \notin {"inlined_subroutine", "subprogram"}
      /\ named' = (IF cur # INVALID /\ Unit!getTag(cur) = "subprogram" THEN cur ELSE INVALID)
      /\ at' = "name"
  BY DEF Unit!EndFollow
<1>2. ReadsOn
  BY <1>1, ReadsNothing
<1>3. /\ Listed /\ pos = Len(Unit!Items) /\ cur \in Unit!Idxs \cup {INVALID} /\ nth \in 1 .. Len(chain)
      /\ \A k \in 1 .. Len(chain) : Unit!OffsetOf(k) \in 1 .. Len(Unit!Items)
  BY AskedFacts
<1>4. /\ FrameTyped(at, nth, cur, named, frames, fault) /\ PlacedAt(at, nth, frames, fault)
      /\ FollowsAt(at, nth, cur)
      /\ FitAt(at, frames) /\ ToldAt(at, frames) /\ ChainRead /\ (fault = TRUE => Explained)
  BY DEF AskedInv, FrameStands
<1>5. FrameTyped(at', nth', cur', named', frames', fault')
  BY <1>1, <1>3, <1>4 DEF FrameTyped
<1>6. PlacedAt(at', nth', frames', fault')
  BY <1>1, <1>4 DEF PlacedAt
<1>7. FollowsAt(at', nth', cur')
  BY <1>1 DEF FollowsAt
<1>8. NamesAt(at', nth', named')
  <2>1. SUFFICES ASSUME Unit!ToDeclarations
        PROVE  Unit!NamedItem(Unit!OffsetOf(nth)) = OffsetAt(named')
    BY <1>1 DEF NamesAt
  <2> DEFINE s == Unit!OffsetOf(nth)
             o == OffsetAt(cur)
             r == Unit!Reached(s)
  <2>2. LeadsTo(s, o)
    BY <1>1, <1>4, <2>1 DEF FollowsAt
  <2>3. s \in KnownItem /\ Len(Unit!Items) \in Nat
    BY <1>3, UnitTypes DEF KnownItem
  <2>4. Unit!NamedItem(s) =
          IF r # INVALID /\ Unit!Items[r].tag = "subprogram" /\ Unit!Stays(r) THEN r ELSE INVALID
    BY Zenon DEF Unit!NamedItem
  <2>5. ASSUME cur # INVALID
        PROVE  o # INVALID /\ o = entries[cur].Offset /\ Unit!Items[o].tag = Unit!getTag(cur)
    <3>1. cur \in Unit!Idxs
      BY <1>3, <2>5
    <3>2. o = entries[cur].Offset /\ o \in Nat
      BY <1>3, <2>5, <3>1, UnitTypes DEF OffsetAt
    <3> QED BY <3>2, CompileUnitAssumption DEF Unit!CompileUnitAssumption, Unit!getTag, Unit!ItemOf
  <2>6. CASE cur = INVALID
    <3>1. o = INVALID
      BY <2>6 DEF OffsetAt
    <3> HIDE DEF s, o
    <3>2. r = INVALID
      BY <2>2, <2>3, <3>1, ReachedIs
    <3> QED BY <1>1, <2>4, <2>6, <3>2 DEF OffsetAt, s
  <2>7. CASE cur # INVALID /\ Unit!getTag(cur) = "subprogram" /\ Unit!HasName(cur)
    <3>1. cur \in Unit!Idxs /\ entries[cur].extracted = TRUE
      BY <1>3, <1>4, <2>7 DEF ChainRead
    <3>2. Unit!Stays(o)
      BY <1>3, <2>5, <2>7, <3>1, FollowIs
    <3>3. o # INVALID /\ Unit!Items[o].tag = "subprogram" /\ OffsetAt(named') = o
      BY <1>1, <2>5, <2>7
    <3> HIDE DEF s, o
    <3>4. r = o
      BY <2>2, <2>3, <3>2, ReachedIs
    <3> HIDE DEF r
    <3> QED BY <2>4, <3>2, <3>3, <3>4 DEF s
  <2>8. CASE cur # INVALID /\ Unit!getTag(cur) \notin {"inlined_subroutine", "subprogram"}
    <3>1. o # INVALID /\ Unit!Items[o].tag \notin {"inlined_subroutine", "subprogram"}
      BY <2>5, <2>8
    <3>2. Unit!Stays(o)
      BY <3>1 DEF Unit!Stays
    <3>3. OffsetAt(named') = INVALID
      BY <1>1, <2>8 DEF OffsetAt
    <3> HIDE DEF s, o
    <3>4. r = o
      BY <2>2, <2>3, <3>2, ReachedIs
    <3> HIDE DEF r
    <3> QED BY <2>4, <3>1, <3>3, <3>4 DEF s
  <2> QED BY <1>1, <2>6, <2>7, <2>8
<1>9. FitAt(at', frames') /\ ToldAt(at', frames')
  BY <1>1, <1>4 DEF FitAt, ToldAt
<1>10. FrameStands(at', nth', cur', named', frames', fault')
  BY <1>1, <1>4, <1>5, <1>6, <1>7, <1>8, <1>9 DEF FrameStands
<1> QED
  BY <1>2, <1>10, StandsOn

(* A name is put together of what its entry and the entries around it say. *)
LEMMA EndNameKeeps ==
    ASSUME UnitInv, AskedInv, unit \in Ranged, Unit!EndName
    PROVE  UnitInv' /\ FrameInv'
<1> DEFINE s == Unit!OffsetOf(nth)
           o == OffsetAt(named)
           N == Len(frames)
           Linkage == Unit!Attr(entries, named, "linkage")
<1>1. /\ at = "name" /\ at' = "called"
      /\ unit' = unit /\ pos' = pos /\ depth' = depth /\ m_base_address' = m_base_address
      /\ asked' = asked /\ answer' = answer /\ chain' = chain /\ nth' = nth /\ cur' = cur
      /\ named' = named /\ fault' = fault
      /\ \/ /\ named = INVALID
            /\ Unit!SetName(Unit!Unnamed) /\ entries' = entries
         \/ /\ named # INVALID /\ Linkage # INVALID
            /\ Unit!SetName([Unit!Unnamed EXCEPT !.linkage = Linkage]) /\ entries' = entries
         \/ /\ named # INVALID /\ Linkage = INVALID
            /\ Unit!SetName(Unit!makeFullSubRoutineName(named))
            /\ entries' = IF Unit!ItemOf(named).objc THEN entries
                          ELSE Unit!fullExtract(entries, Unit!ReadFor(named))
  BY DEF Unit!EndName
<1>2. /\ Listed /\ pos = Len(Unit!Items)
      /\ Len(chain) \in Nat /\ nth \in 1 .. Len(chain) /\ named \in Unit!Idxs \cup {INVALID}
      /\ IsList(frames) /\ N \in Nat /\ INVALID \notin Unit!Idxs
      /\ \A k \in 1 .. N : IsFrame(frames[k]) /\ frames[k].line \in Nat
  BY AskedFacts
<1>3. /\ FrameTyped(at, nth, cur, named, frames, fault) /\ PlacedAt(at, nth, frames, fault)
      /\ NamesAt(at, nth, named)
      /\ FitAt(at, frames) /\ ToldAt(at, frames) /\ ChainRead /\ (fault = TRUE => Explained)
  BY DEF AskedInv, FrameStands
<1>4. nth = N /\ N \in 1 .. N
  BY <1>1, <1>2, <1>3 DEF PlacedAt
<1>5. UnitInv' /\ ReadsOn
  <2>1. CASE entries' = entries
    <3>1. UNCHANGED Unit!vars
      BY <1>1, <2>1 DEF Unit!vars
    <3> QED BY <1>1, <3>1, ReadsNothing, UnitNextKeeps
  <2>2. CASE entries' = Unit!fullExtract(entries, Unit!ReadFor(named))
    BY <1>1, <2>2, ReadKeeps DEF ReadsOn
  <2> QED BY <1>1, <2>1, <2>2
<1>6. PICK x : frames' = [frames EXCEPT ![N].name = x] /\ Fits(x, s)
  <2>1. Unit!ToDeclarations => Unit!NamedItem(s) = o
    BY <1>1, <1>3 DEF NamesAt
  <2>2. ASSUME named # INVALID
        PROVE  /\ named \in Unit!Idxs /\ entries[named].extracted = TRUE
               /\ o = entries[named].Offset /\ o # INVALID
               /\ Linkage = Unit!Items[o].linkage
    <3>1. named \in Unit!Idxs /\ entries[named].extracted = TRUE
      BY <1>1, <1>2, <1>3, <2>2 DEF NamesAt, ChainRead
    <3>2. o = entries[named].Offset /\ o \in Nat
      BY <1>2, <2>2, <3>1, UnitTypes DEF OffsetAt
    <3>3. o # INVALID
      BY <3>2, CompileUnitAssumption DEF Unit!CompileUnitAssumption
    <3>4. Linkage = Unit!Items[o].linkage
      BY <3>1, <3>2 DEF Unit!Attr, Unit!ItemOf
    <3> QED BY <3>1, <3>2, <3>3, <3>4
  <2> HIDE DEF s, Linkage
  <2>3. ASSUME NEW x, NameTyped(x), Unit!WellFormed => Unit!NamedAs(x, o) /\ Unit!ParametersOf(x, o)
        PROVE  Fits(x, s)
    BY <2>1, <2>3 DEF Fits, RightName, Answerable
  <2>4. CASE named = INVALID /\ Unit!SetName(Unit!Unnamed)
    <3>1. o = INVALID
      BY <2>4 DEF OffsetAt
    <3>2. Unit!NamedAs(Unit!Unnamed, o)
      BY <3>1 DEF Unit!NamedAs
    <3>3. Fits(Unit!Unnamed, s)
      BY <2>3, <3>2, UnnamedIs
    <3>4. frames' = [frames EXCEPT ![N].name = Unit!Unnamed]
      BY <2>4 DEF Unit!SetName
    <3> QED BY <3>3, <3>4
  <2>5. CASE named # INVALID /\ Linkage # INVALID
             /\ Unit!SetName([Unit!Unnamed EXCEPT !.linkage = Linkage])
    <3>1. PICK x : x = [Unit!Unnamed EXCEPT !.linkage = Linkage]
      OBVIOUS
    <3>2. x = [Unit!Unnamed EXCEPT !.linkage = Unit!Items[o].linkage] /\ o # INVALID
          /\ Unit!Items[o].linkage # INVALID
      BY <2>2, <2>5, <3>1
    <3>3. NameTyped(x) /\ Unit!NamedAs(x, o) /\ Unit!ParametersOf(x, o)
      <4> HIDE DEF o
      <4> QED BY <3>2, LinkageNamed
    <3>4. frames' = [frames EXCEPT ![N].name = x]
      BY <2>5, <3>1 DEF Unit!SetName
    <3> QED BY <2>3, <3>3, <3>4
  <2>6. CASE named # INVALID /\ Linkage = INVALID /\ Unit!SetName(Unit!makeFullSubRoutineName(named))
    <3>1. PICK x : x = Unit!makeFullSubRoutineName(named)
      OBVIOUS
    <3>2. NameTyped(x) /\ (Unit!WellFormed => Unit!NamedAs(x, o) /\ Unit!ParametersOf(x, o))
      <4>1. /\ named \in Unit!Idxs /\ entries[named].extracted = TRUE
            /\ o = entries[named].Offset /\ Unit!Items[o].linkage = INVALID
        BY <2>2, <2>6
      <4> HIDE DEF o
      <4> QED BY <1>2, <3>1, <4>1, FullName
    <3>3. frames' = [frames EXCEPT ![N].name = x]
      BY <2>6, <3>1 DEF Unit!SetName
    <3> QED BY <2>3, <3>2, <3>3
  <2> QED BY <1>1, <2>4, <2>5, <2>6
<1> DEFINE e == [frames[N] EXCEPT !.name = x]
<1>7. IsFrame(e) /\ e.name = x /\ e.line = frames[N].line
  <2>1. IsFrame(frames[N])
    BY <1>2, <1>4
  <2>2. PICK f : f = frames[N]
    OBVIOUS
  <2> QED BY <2>1, <2>2, NameSet, Zenon
<1>8. frames' = [frames EXCEPT ![N] = e]
  BY <1>6
<1> HIDE DEF e
<1>9. Replaced(frames, frames', N, e)
  BY <1>2, <1>4, <1>8, ListKeeps, Zenon
<1>10. /\ IsList(frames') /\ Len(frames') = N /\ frames'[N] = e
       /\ \A k \in 1 .. N : k # N => frames'[k] = frames[k]
  BY <1>9 DEF Replaced
<1>11. FrameTyped(at', nth', cur', named', frames', fault')
  <2>1. \A k \in 1 .. N : IsFrame(frames'[k]) /\ frames'[k].line \in Nat
    BY <1>2, <1>4, <1>7, <1>10
  <2> QED BY <1>1, <1>3, <1>10, <2>1 DEF FrameTyped
<1>12. PlacedAt(at', nth', frames', fault')
  BY <1>1, <1>4, <1>10 DEF PlacedAt
<1>13. FollowsAt(at', nth', cur') /\ NamesAt(at', nth', named')
  BY <1>1 DEF FollowsAt, NamesAt
<1>14. FitAt(at', frames')
  <2>1. ASSUME NEW k \in 1 .. N
        PROVE  NameTyped(frames'[k].name) /\ Fits(frames'[k].name, Unit!OffsetOf(k))
    <3>1. CASE k = N
      BY <1>4, <1>6, <1>7, <1>10, <3>1 DEF Fits
    <3>2. CASE k # N
      <4>1. k < N
        BY <1>2, <3>2
      <4> QED BY <1>3, <1>10, <3>2, <4>1 DEF FitAt
    <3> QED BY <3>1, <3>2
  <2> QED BY <1>10, <2>1 DEF FitAt
<1>15. ToldAt(at', frames')
  <2>1. ASSUME NEW k \in 1 .. N - 1, k < N - 1
        PROVE  frames'[k].line = Unit!LineCut(Unit!ItemOf(chain[k + 1]).callLine)
    <3>1. k \in 1 .. N /\ k # N
      BY <1>2
    <3> QED BY <1>3, <1>10, <2>1, <3>1 DEF ToldAt
  <2> QED BY <1>1, <1>10, <2>1 DEF ToldAt
<1>16. FrameStands(at', nth', cur', named', frames', fault')
  BY <1>1, <1>3, <1>11, <1>12, <1>13, <1>14, <1>15 DEF FrameStands
<1> QED
  BY <1>5, <1>16, StandsOn

(* The frame before is told where the new one is called. *)
LEMMA CalledKeeps ==
    ASSUME UnitInv, AskedInv, unit \in Ranged, Unit!Called
    PROVE  FrameInv'
<1> DEFINE l == Unit!LineCut(Unit!Attr(entries, chain[nth], "callLine"))
           d == Unit!FileCut(Unit!Attr(entries, chain[nth], "callFile"))
           q == nth - 1
           N == Len(frames)
           o == Unit!OffsetOf(nth)
           e == [frames[q] EXCEPT !.line = l, !.file = d]
<1>1. /\ at = "called" /\ nth > 1
      /\ frames' = [frames EXCEPT ![nth - 1].line = l, ![nth - 1].file = d]
      /\ fault' = (~Unit!IsFile(d))
      /\ at' = (IF nth < Len(chain) THEN "naming" ELSE "line")
      /\ nth' = (IF nth < Len(chain) THEN nth + 1 ELSE nth)
      /\ UNCHANGED Unit!vars /\ chain' = chain /\ cur' = cur /\ named' = named
  BY DEF Unit!Called, Unit!CallOf
<1>2. ReadsOn
  BY <1>1, ReadsNothing
<1>3. /\ Listed /\ pos = Len(Unit!Items)
      /\ Len(chain) \in Nat /\ nth \in 1 .. Len(chain)
      /\ \A k \in 1 .. Len(chain) : chain[k] \in Unit!Idxs
      /\ IsList(frames) /\ N \in Nat /\ N <= Len(chain)
      /\ \A k \in 1 .. N : IsFrame(frames[k]) /\ frames[k].line \in Nat
      /\ o = entries[chain[nth]].Offset /\ o \in 1 .. Len(Unit!Items)
      /\ Unit!Items[o].kind = "entry"
  BY AskedFacts
<1>4. /\ FrameTyped(at, nth, cur, named, frames, fault) /\ PlacedAt(at, nth, frames, fault)
      /\ FitAt(at, frames) /\ ToldAt(at, frames) /\ ChainRead
  BY DEF AskedInv, FrameStands
<1>5. nth = N /\ q \in 1 .. N /\ q \in 1 .. N - 1 /\ q + 1 = nth /\ q # N
  BY <1>1, <1>3, <1>4 DEF PlacedAt
<1>6. /\ l = Unit!LineCut(Unit!ItemOf(chain[nth]).callLine)
      /\ l = Unit!LineCut(Unit!Items[o].callLine) /\ d = Unit!FileCut(Unit!Items[o].callFile)
      /\ Unit!Items[o].tag = "inlined_subroutine"
  <2>1. nth \in 2 .. Len(chain)
    BY <1>1, <1>3
  <2>2. Unit!getTag(chain[nth]) = "inlined_subroutine" /\ entries[chain[nth]].extracted = TRUE
    BY <1>4, <2>1 DEF ChainRead
  <2> QED BY <1>3, <2>2 DEF Unit!Attr, Unit!ItemOf, Unit!getTag
<1>7. l \in Nat
  <2> HIDE DEF l, o
  <2> QED BY <1>3, <1>6, AttributesTyped, CutFacts
<1>8. fault' \in BOOLEAN /\ (fault' = TRUE => Explained)
  <2>1. fault' = TRUE => ~Unit!NamesFile(Unit!Items[o].callFile)
    <3> HIDE DEF d, o
    <3>1. Unit!Items[o].callFile \in Nat \cup {INVALID}
      BY <1>3, AttributesTyped
    <3>2. Unit!NamesFile(Unit!Items[o].callFile) => d = Unit!Items[o].callFile
      BY <1>6, <3>1, CutFacts DEF Unit!NamesFile
    <3> QED BY <1>1, <3>2 DEF Unit!IsFile, Unit!NamesFile, Unit!Files
  <2>2. fault' \in BOOLEAN
    BY <1>1
  <2> HIDE DEF o
  <2> QED BY <1>3, <1>6, <2>1, <2>2 DEF Explained
<1>9. frames' = [frames EXCEPT ![q] = e]
  <2> HIDE DEF l, d
  <2> QED BY <1>1, <1>3, <1>5 DEF IsList
<1>10. IsFrame(e) /\ e.name = frames[q].name /\ e.line = l
  <2>1. IsFrame(frames[q])
    BY <1>3, <1>5
  <2> HIDE DEF l, d, q
  <2>2. PICK f : f = frames[q]
    OBVIOUS
  <2>3. e = [f EXCEPT !.line = l, !.file = d]
    BY <2>2
  <2> HIDE DEF e
  <2>4. Lined(f, l, d, e)
    BY <2>1, <2>2, <2>3, LineSet, Zenon
  <2> QED BY <2>2, <2>4 DEF Lined
<1> HIDE DEF e, l, d, q
<1>11. Replaced(frames, frames', q, e)
  BY <1>3, <1>5, <1>9, ListKeeps, Zenon
<1>12. /\ IsList(frames') /\ Len(frames') = N /\ frames'[q] = e
       /\ \A k \in 1 .. N : k # q => frames'[k] = frames[k]
  BY <1>11 DEF Replaced
<1>13. \A k \in 1 .. N : /\ IsFrame(frames'[k]) /\ frames'[k].line \in Nat
                         /\ frames'[k].name = frames[k].name
  BY <1>3, <1>7, <1>10, <1>12
<1>14. /\ at' \in {"naming", "line"} /\ nth' \in 1 .. Len(chain)
       /\ at' = "naming" => nth' = N + 1
       /\ at' = "line" => N = Len(chain)
  BY <1>1, <1>3, <1>5
<1>15. FrameTyped(at', nth', cur', named', frames', fault')
  <2>1. cur' \in Unit!Idxs \cup {INVALID} /\ named' \in Unit!Idxs \cup {INVALID}
    BY <1>1, <1>4 DEF FrameTyped
  <2>2. at' \in {"idle", "naming", "follow", "name", "called", "line"}
    BY <1>14
  <2>3. \A k \in 1 .. Len(frames') : IsFrame(frames'[k]) /\ frames'[k].line \in Nat
    BY <1>12, <1>13
  <2>4. Len(frames') <= Len(chain) /\ IsList(frames')
    BY <1>3, <1>12
  <2> QED BY <1>8, <1>14, <2>1, <2>2, <2>3, <2>4, Zenon DEF FrameTyped
<1>16. PlacedAt(at', nth', frames', fault')
  <2>1. N >= 1
    BY <1>3, <1>5
  <2> QED BY <1>12, <1>14, <2>1 DEF PlacedAt
<1>17. FollowsAt(at', nth', cur') /\ NamesAt(at', nth', named')
  BY <1>14 DEF FollowsAt, NamesAt
<1>18. FitAt(at', frames')
  <2>1. ASSUME NEW k \in 1 .. N
        PROVE  NameTyped(frames[k].name) /\ Fits(frames[k].name, Unit!OffsetOf(k))
    BY <1>1, <1>4 DEF FitAt
  <2> QED BY <1>12, <1>13, <2>1 DEF FitAt
<1>19. ToldAt(at', frames')
  <2>1. ASSUME NEW k \in 1 .. N - 1 PROVE frames'[k].line = Unit!LineCut(Unit!ItemOf(chain[k + 1]).callLine)
    <3>1. CASE k = q
      BY <1>5, <1>6, <1>10, <1>12, <3>1
    <3>2. CASE k # q
      <4>1. k \in 1 .. N /\ k < N - 1
        BY <1>3, <1>5, <3>2 DEF q
      <4> QED BY <1>4, <1>12, <3>2, <4>1 DEF ToldAt
    <3> QED BY <3>1, <3>2
  <2> QED BY <1>12, <2>1 DEF ToldAt
<1>20. FrameStands(at', nth', cur', named', frames', fault')
  BY <1>8, <1>15, <1>16, <1>17, <1>18, <1>19 DEF FrameStands
<1> QED
  BY <1>2, <1>20, StandsOn

LEMMA LineTableKeeps ==
    ASSUME UnitInv, AskedInv, unit \in Ranged, Unit!LineTable
    PROVE  FrameInv'
<1>1. /\ at = "called" /\ nth = 1
      /\ at' = (IF ~unit.hasLines THEN "idle" ELSE IF Len(chain) > 1 THEN "naming" ELSE "line")
      /\ nth' = (IF unit.hasLines /\ Len(chain) > 1 THEN 2 ELSE 1)
      /\ UNCHANGED Unit!vars /\ chain' = chain /\ cur' = cur /\ named' = named
      /\ frames' = frames /\ fault' = fault
  BY DEF Unit!LineTable
<1>2. ReadsOn
  BY <1>1, ReadsNothing
<1>3. Len(chain) \in Nat /\ nth \in 1 .. Len(chain)
  BY AskedFacts
<1>4. /\ FrameTyped(at, nth, cur, named, frames, fault) /\ PlacedAt(at, nth, frames, fault)
      /\ FitAt(at, frames) /\ ToldAt(at, frames) /\ ChainRead /\ (fault = TRUE => Explained)
  BY DEF AskedInv, FrameStands
<1>5. Len(frames) = 1
  BY <1>1, <1>4 DEF PlacedAt
<1>6. /\ at' \in {"idle", "naming", "line"} /\ nth' \in 1 .. Len(chain)
      /\ at' = "naming" => nth' = 2
      /\ at' = "line" => Len(chain) = 1
      /\ at' = "idle" => ~unit.hasLines
  <2>1. CASE unit.hasLines /\ Len(chain) > 1
    <3>1. at' = "naming" /\ nth' = 2
      BY <1>1, <2>1, Zenon
    <3> QED BY <1>3, <2>1, <3>1
  <2>2. CASE unit.hasLines /\ ~(Len(chain) > 1)
    <3>1. at' = "line" /\ nth' = 1
      BY <1>1, <2>2, Zenon
    <3>2. Len(chain) = 1
      <4>1. PICK l : l = Len(chain)
        OBVIOUS
      <4>2. ~(l > 1) /\ l \in Nat /\ nth \in 1 .. l
        BY <1>3, <2>2, <4>1, Zenon
      <4>3. l = 1
        BY ONLY <4>2
      <4> QED BY <4>1, <4>3
    <3> QED BY <3>1, <3>2
  <2>3. CASE ~unit.hasLines
    <3>1. at' = "idle" /\ nth' = 1
      BY <1>1, <2>3, Zenon
    <3>2. 1 \in 1 .. Len(chain)
      BY <1>3
    <3> QED BY <2>3, <3>1, <3>2
  <2> QED BY <2>1, <2>2, <2>3
<1>7. FrameTyped(at', nth', cur', named', frames', fault')
  BY <1>1, <1>4, <1>6 DEF FrameTyped
<1>8. PlacedAt(at', nth', frames', fault')
  BY <1>1, <1>5, <1>6 DEF PlacedAt
<1>9. FollowsAt(at', nth', cur') /\ NamesAt(at', nth', named')
  BY <1>6 DEF FollowsAt, NamesAt
<1>10. FitAt(at', frames')
  BY <1>1, <1>4 DEF FitAt
<1>11. ToldAt(at', frames')
  <2>1. 1 .. Len(frames') - 1 = {}
    BY <1>1, <1>5
  <2> QED BY <2>1 DEF ToldAt
<1>12. FrameStands(at', nth', cur', named', frames', fault')
  BY <1>1, <1>4, <1>7, <1>8, <1>9, <1>10, <1>11 DEF FrameStands
<1> QED
  BY <1>2, <1>12, StandsOn

(* The last frame is at the row of the address. *)
LEMMA EndLineKeeps ==
    ASSUME UnitInv, AskedInv, unit \in Ranged, Unit!EndLine
    PROVE  FrameInv'
<1> DEFINE r == Unit!Row
           N == Len(frames)
           e == [frames[N] EXCEPT !.line = r.line, !.file = r.file]
<1>1. /\ at = "line" /\ at' = "idle"
      /\ fault' = (r = BAD_ROW \/ ~Unit!IsFile(r.file))
      /\ frames' = (IF r = BAD_ROW THEN frames
                    ELSE [frames EXCEPT ![N].line = r.line, ![N].file = r.file])
      /\ UNCHANGED Unit!vars /\ chain' = chain /\ nth' = nth /\ cur' = cur /\ named' = named
  BY DEF Unit!EndLine
<1>2. ReadsOn
  BY <1>1, ReadsNothing
<1>3. /\ Len(chain) \in Nat /\ nth \in 1 .. Len(chain)
      /\ IsList(frames) /\ N \in Nat
      /\ \A k \in 1 .. N : IsFrame(frames[k]) /\ frames[k].line \in Nat
  BY AskedFacts
<1>4. /\ FrameTyped(at, nth, cur, named, frames, fault) /\ PlacedAt(at, nth, frames, fault)
      /\ FitAt(at, frames) /\ ToldAt(at, frames) /\ ChainRead
  BY DEF AskedInv, FrameStands
<1>5. N = Len(chain) /\ N \in 1 .. N
  BY <1>1, <1>3, <1>4 DEF PlacedAt
<1>6. /\ r # BAD_ROW => r.line \in Nat /\ r.file \in 0 .. FileMod - 1
      /\ FileMod \in Nat
  BY AggregatorAssumption DEF Unit!AggregatorAssumption, Unit!Row, AskedInv
<1>7. fault' \in BOOLEAN /\ (fault' = TRUE => Explained)
  <2>1. r # BAD_ROW /\ Unit!NamesFile(r.file) => Unit!IsFile(r.file)
    BY DEF Unit!IsFile, Unit!NamesFile, Unit!Files
  <2> QED BY <1>1, <2>1 DEF Explained
<1>8. fault' = FALSE => r # BAD_ROW
  BY <1>1
<1> HIDE DEF r
<1>9. /\ IsList(frames') /\ Len(frames') = N
      /\ \A k \in 1 .. N : /\ k # N => frames'[k] = frames[k]
                           /\ frames'[k].name = frames[k].name
                           /\ IsFrame(frames'[k]) /\ frames'[k].line \in Nat
      /\ r # BAD_ROW => frames'[N].line = r.line
  <2>1. CASE r = BAD_ROW
    BY <1>1, <1>3, <2>1
  <2>2. CASE r # BAD_ROW
    <3>1. frames' = [frames EXCEPT ![N] = e]
      BY <1>1, <1>3, <1>5, <2>2 DEF IsList
    <3>2. IsFrame(e) /\ e.name = frames[N].name /\ e.line = r.line
      <4>1. IsFrame(frames[N])
        BY <1>3, <1>5
      <4>2. PICK f, l, d : f = frames[N] /\ l = r.line /\ d = r.file
        OBVIOUS
      <4>3. e = [f EXCEPT !.line = l, !.file = d]
        BY <4>2
      <4> HIDE DEF e
      <4>4. Lined(f, l, d, e)
        BY <4>1, <4>2, <4>3, LineSet, Zenon
      <4> QED BY <4>2, <4>4 DEF Lined
    <3> HIDE DEF e
    <3>3. Replaced(frames, frames', N, e)
      BY <1>3, <1>5, <3>1, ListKeeps, Zenon
    <3>4. /\ IsList(frames') /\ Len(frames') = N /\ frames'[N] = e
          /\ \A k \in 1 .. N : k # N => frames'[k] = frames[k]
      BY <3>3 DEF Replaced
    <3> QED BY <1>3, <1>5, <1>6, <2>2, <3>2, <3>4
  <2> QED BY <2>1, <2>2
<1>10. FrameTyped(at', nth', cur', named', frames', fault')
  <2>1. cur' \in Unit!Idxs \cup {INVALID} /\ named' \in Unit!Idxs \cup {INVALID}
    BY <1>1, <1>4 DEF FrameTyped
  <2>2. at' \in {"idle", "naming", "follow", "name", "called", "line"} /\ nth' \in 1 .. Len(chain)
    BY <1>1, <1>3
  <2>3. \A k \in 1 .. Len(frames') : IsFrame(frames'[k]) /\ frames'[k].line \in Nat
    BY <1>9
  <2>4. Len(frames') <= Len(chain) /\ IsList(frames')
    BY <1>3, <1>5, <1>9
  <2> QED BY <1>7, <2>1, <2>2, <2>3, <2>4, Zenon DEF FrameTyped
<1>11. PlacedAt(at', nth', frames', fault')
  BY <1>1, <1>3, <1>5, <1>8, <1>9 DEF PlacedAt, r
<1>12. FollowsAt(at', nth', cur') /\ NamesAt(at', nth', named')
  BY <1>1 DEF FollowsAt, NamesAt
<1>13. FitAt(at', frames')
  BY <1>1, <1>4, <1>9 DEF FitAt
<1>14. ToldAt(at', frames')
  <2>1. ASSUME NEW k \in 1 .. N - 1 PROVE frames'[k].line = Unit!LineCut(Unit!ItemOf(chain[k + 1]).callLine)
    <3>1. k \in 1 .. N /\ k # N
      BY <1>3
    <3> QED BY <1>1, <1>4, <1>9, <3>1 DEF ToldAt
  <2> QED BY <1>9, <2>1 DEF ToldAt
<1>15. FrameStands(at', nth', cur', named', frames', fault')
  BY <1>7, <1>10, <1>11, <1>12, <1>13, <1>14 DEF FrameStands
<1> QED
  BY <1>2, <1>15, StandsOn

(* What is parsed is parsed before anything is asked. *)
LEMMA ParseKeeps ==
    ASSUME UnitInv, FrameInv, Unit!Parse
    PROVE  UnitInv' /\ FrameInv'
<1>1. /\ Unit!Extract \/ Unit!Close
      /\ at' = at /\ chain' = chain /\ nth' = nth /\ cur' = cur /\ named' = named
      /\ frames' = frames /\ fault' = fault
  BY DEF Unit!Parse, Unit!frame
<1>2. unit' = unit /\ pos < Len(Unit!Items)
  BY <1>1 DEF Unit!Extract, Unit!Close
<1>3. UnitInv'
  BY <1>1, UnitNextKeeps DEF Unit!Next
<1>4. ~AskedInv
  <2>1. ASSUME AskedInv PROVE FALSE
    <3>1. pos = Len(Unit!Items) /\ pos \in Nat
      BY <2>1, AskedFacts, UnitTypes
    <3> QED BY <1>2, <3>1
  <2> QED BY <2>1
<1>5. FrameInv'
  BY <1>1, <1>2, <1>4 DEF FrameInv, Unasked
<1> QED
  BY <1>3, <1>5

LEMMA FrameStutterKeeps ==
    ASSUME UnitInv, FrameInv, UNCHANGED Unit!allVars
    PROVE  UnitInv' /\ FrameInv'
<1>1. /\ UNCHANGED Unit!vars
      /\ at' = at /\ chain' = chain /\ nth' = nth /\ cur' = cur /\ named' = named
      /\ frames' = frames /\ fault' = fault
  BY DEF Unit!allVars, Unit!frame
<1>2. UnitInv'
  BY <1>1, UnitNextKeeps
<1>3. CASE Unasked
  BY <1>1, <1>2, <1>3 DEF FrameInv, Unasked, Unit!vars
<1>4. CASE AskedInv
  <2>1. ReadsOn
    BY <1>1, ReadsNothing
  <2>2. FrameStands(at', nth', cur', named', frames', fault')
    BY <1>1, <1>4 DEF AskedInv
  <2> QED BY <1>2, <1>4, <2>1, <2>2, StandsOn DEF FrameInv
<1> QED
  BY <1>2, <1>3, <1>4 DEF FrameInv

LEMMA FrameNextKeeps ==
    ASSUME UnitInv, FrameInv, Unit!AggregatorNext \/ UNCHANGED Unit!allVars
    PROVE  UnitInv' /\ FrameInv'
<1>1. CASE UNCHANGED Unit!allVars
  BY <1>1, FrameStutterKeeps
<1>2. CASE Unit!Parse
  BY <1>2, ParseKeeps
<1>3. ASSUME NEW a \in UnitAddresses, Unit!getInfoByAddress(a) PROVE UnitInv' /\ FrameInv'
  BY <1>3, AskStarts
<1>4. CASE Unit!Step
  <2>1. AskedInv /\ unit \in Ranged
    <3>1. at # "idle"
      BY <1>4 DEF Unit!Step, Unit!BeginName, Unit!Follow, Unit!FollowOrigin, Unit!FollowReference,
                  Unit!EndFollow, Unit!EndName, Unit!Called, Unit!LineTable, Unit!EndLine
    <3> QED BY <3>1 DEF FrameInv, Unasked
  <2>2. CASE Unit!EndName
    BY <2>1, <2>2, EndNameKeeps
  <2>3. CASE ~Unit!EndName
    <3>1. UNCHANGED Unit!vars
      BY <1>4, <2>3 DEF Unit!Step, Unit!BeginName, Unit!Follow, Unit!FollowOrigin,
             Unit!FollowReference, Unit!EndFollow, Unit!Called, Unit!LineTable, Unit!EndLine
    <3>2. UnitInv'
      BY <3>1, UnitNextKeeps
    <3>3. FrameInv'
      BY <1>4, <2>1, <2>3, BeginNameKeeps, FollowKeeps, EndFollowKeeps, CalledKeeps,
         LineTableKeeps, EndLineKeeps DEF Unit!Step, Unit!Follow
    <3> QED BY <3>2, <3>3
  <2> QED BY <2>2, <2>3
<1> QED
  BY <1>1, <1>2, <1>3, <1>4 DEF Unit!AggregatorNext

LEMMA FrameInitHolds ==
    ASSUME Unit!AggregatorInit
    PROVE  UnitInv /\ FrameInv
BY UnitInitHolds DEF Unit!AggregatorInit, FrameInv, Unasked

LEMMA FrameInvImplies ==
    ASSUME UnitInv, FrameInv
    PROVE  /\ Unit!AggregatorTypeOK
           /\ Unit!FramesNamed /\ Unit!ParametersSpelled
           /\ Unit!FramesTell /\ Unit!FaultExplained
<1>1. Unit!TypeOK
  BY UnitInvImplies
<1>2. CASE Unasked
  <2>1. frames = <<>> /\ fault = FALSE
    BY <1>2 DEF Unasked
  <2>2. Unit!AggregatorTypeOK
    <3>1. chain = <<>> /\ nth = 0 /\ Len(chain) = 0 /\ Len(frames) = 0 /\ DOMAIN frames = {}
      BY <1>2 DEF Unasked
    <3>2. chain \in Seq(Unit!Idxs) /\ nth \in 0 .. Len(chain)
      BY <3>1
    <3>3. /\ at = "idle" /\ cur = INVALID /\ named = INVALID /\ fault = FALSE
      BY <1>2 DEF Unasked
    <3>4. at \in {"idle", "naming", "follow", "name", "called", "line"} /\ Len(frames) <= Len(chain)
      BY <3>1, <3>3
    <3>5. cur \in Unit!Idxs \cup {INVALID} /\ named \in Unit!Idxs \cup {INVALID} /\ fault \in BOOLEAN
      BY <3>3, Zenon
    <3>6. \A n \in DOMAIN frames : Unit!FrameOK(frames[n])
      BY <3>1, Zenon
    <3> QED BY <1>1, <3>2, <3>4, <3>5, <3>6, Zenon DEF Unit!AggregatorTypeOK
  <2> QED BY <2>1, <2>2 DEF Unit!FramesNamed, Unit!ParametersSpelled, Unit!FramesTell,
                            Unit!FaultExplained, Unit!Answered
<1>3. CASE AskedInv
  <2>1. /\ Len(chain) \in Nat /\ nth \in 1 .. Len(chain)
        /\ IsList(frames) /\ Len(frames) \in Nat /\ Len(frames) <= Len(chain)
        /\ \A k \in 1 .. Len(frames) : frames[k].line \in Nat
    BY <1>3, AskedFacts
  <2>2. DOMAIN frames = 1 .. Len(frames)
    BY <2>1 DEF IsList
  <2>3. /\ FrameTyped(at, nth, cur, named, frames, fault) /\ PlacedAt(at, nth, frames, fault)
        /\ FitAt(at, frames) /\ ToldAt(at, frames) /\ (fault = TRUE => Explained)
        /\ chain \in Seq(Unit!Idxs)
    BY <1>3 DEF AskedInv, FrameStands
  <2>4. Unit!AggregatorTypeOK
    <3>1. \A n \in DOMAIN frames : Unit!FrameOK(frames[n])
      BY <2>1, <2>2, <2>3 DEF FitAt, NameTyped, Unit!FrameOK
    <3>2. nth \in 0 .. Len(chain)
      BY <2>1
    <3> QED BY <1>1, <2>3, <3>1, <3>2 DEF FrameTyped, Unit!AggregatorTypeOK
  <2>5. ASSUME Unit!Answered, NEW n \in DOMAIN frames
        PROVE  Fits(frames[n].name, Unit!OffsetOf(n)) /\ Answerable
    BY <2>2, <2>3, <2>5 DEF FitAt, Unit!Answered, Answerable
  <2>6. Unit!FramesNamed
    <3>1. ASSUME Unit!Answered, NEW n \in DOMAIN frames, Tellable(Unit!OffsetOf(n))
          PROVE  Unit!NamedAs(frames[n].name, Unit!NamedItem(Unit!OffsetOf(n)))
      BY <2>5, <3>1 DEF Fits, RightName
    <3> QED BY <3>1, Zenon DEF Unit!FramesNamed, Tellable
  <2>7. Unit!ParametersSpelled
    <3>1. ASSUME Unit!Answered, NEW n \in DOMAIN frames
          PROVE  Unit!ParametersOf(frames[n].name, Unit!NamedItem(Unit!OffsetOf(n)))
      BY <2>5, <3>1, UnnamedIs DEF Fits, RightName
    <3> QED BY <3>1, Zenon DEF Unit!ParametersSpelled
  <2>8. Unit!FramesTell
    <3>1. ASSUME at = "idle", ~fault, unit.hasLines
          PROVE  /\ Len(frames) = Len(chain) /\ frames[Len(frames)].line = Unit!Row.line
                 /\ \A n \in 1 .. Len(frames) - 1 :
                       frames[n].line = Unit!LineCut(Unit!ItemOf(chain[n + 1]).callLine)
      <4>1. fault = FALSE
        BY <2>3, <3>1 DEF FrameTyped
      <4> QED BY <2>3, <3>1, <4>1 DEF PlacedAt, ToldAt
    <3>2. ASSUME NEW n \in 1 .. Len(frames) - 1
          PROVE  LET line == Unit!ItemOf(chain[n + 1]).callLine
                 IN line # INVALID /\ line < DepthMod => Unit!LineCut(line) = line
      <4>1. n + 1 \in 1 .. Len(chain) /\ unit \in Ranged
        BY <1>3, <2>1 DEF FrameInv
      <4>2. Unit!ItemOf(chain[n + 1]).callLine = Unit!Items[Unit!OffsetOf(n + 1)].callLine
        BY <1>3, <4>1, AskedFacts DEF Unit!ItemOf
      <4>3. Unit!Items[Unit!OffsetOf(n + 1)].callLine \in Nat \cup {INVALID}
        BY <1>3, <4>1, AskedFacts, AttributesTyped
      <4> QED BY <4>2, <4>3, CutFacts
    <3> QED BY <3>1, <3>2 DEF Unit!FramesTell
  <2>9. Unit!FaultExplained
    <3>1. ASSUME fault PROVE Explained
      BY <2>3, <3>1 DEF FrameTyped
    <3> QED BY <3>1, Zenon DEF Unit!FaultExplained, Explained
  <2> QED BY <2>4, <2>6, <2>7, <2>8, <2>9
<1> QED
  BY <1>2, <1>3 DEF FrameInv

-------------------------------------------------------------------------------
(* Types.  What the last question found is in the table that is kept now. *)
Found == last.index \in DOMAIN symbols \cup {NoIndex}
LEMMA FoundKeeps == ASSUME Symbols!Next PROVE Found'
<1>1. ASSUME NEW t \in Symbols!Preload, NEW index \in DOMAIN t \cup {NoIndex}, NEW name,
             symbols' = t \/ symbols' = Symbols!Demangled(t, index, name), last'.index = index
      PROVE  Found'
  <2>1. DOMAIN symbols' = DOMAIN t
    BY <1>1 DEF Symbols!Demangled
  <2> QED BY <1>1, <2>1 DEF Found
<1>2. ASSUME NEW a \in SymbolAddresses,
             \/ Symbols!getInfoBySymbolTable(a) \/ Symbols!GetSymbolNameAt(a)
             \/ Symbols!resolve(a)
      PROVE  Found'
  <2>1. PICK t \in Symbols!Preload : \E index \in DOMAIN t \cup {NoIndex} :
           /\ last'.index = index
           /\ \/ symbols' = t
              \/ symbols' = Symbols!Demangled(t, index, Symbols!NameOnce(t, index))
              \/ symbols' = Symbols!Demangled(t, index, Symbols!getSymbolAt(t[index]))
    <3>1. CASE Symbols!getInfoBySymbolTable(a)
      BY <3>1 DEF Symbols!getInfoBySymbolTable, Symbols!Says
    <3>2. CASE Symbols!GetSymbolNameAt(a)
      BY <3>2 DEF Symbols!GetSymbolNameAt, Symbols!Says
    <3>3. CASE Symbols!resolve(a)
      BY <3>3 DEF Symbols!resolve, Symbols!Says
    <3> QED BY <1>2, <3>1, <3>2, <3>3
  <2> QED BY <1>1, <2>1
<1>3. CASE Symbols!GetSymbols \/ Symbols!SourceChanges
  <2>1. last'.index = NoIndex
    BY <1>3 DEF Symbols!GetSymbols, Symbols!SourceChanges, Symbols!NoQuestion
  <2> QED BY <2>1 DEF Found
<1> QED
  BY <1>2, <1>3 DEF Symbols!Next

LEMMA SymbolsTyped == ASSUME SymbolsInv, Found PROVE Symbols!TypeOK
<1> DEFINE E == [address : Nat, kind : Symbols!Kinds, name : DOMAIN file,
                 demangled : DOMAIN file \cup {NoName}]
<1>1. file \in SymbolFiles /\ there \in BOOLEAN /\ (symbols # <<>> => TableOf(symbols))
  BY DEF SymbolsInv, SymbolsKept
<1>2. symbols \in Seq(E)
  <2>1. ASSUME symbols # <<>> PROVE symbols \in Seq(E)
    <3>1. symbols \in Seq(SymbolEntry)
      BY <1>1, <2>1 DEF TableOf
    <3>2. Len(symbols) \in Nat /\ DOMAIN symbols = 1 .. Len(symbols)
      BY <3>1
    <3>3. ASSUME NEW i \in 1 .. Len(symbols) PROVE symbols[i] \in E
      <4>1. symbols[i] \in SymbolEntry
        BY <3>1, <3>2, <3>3
      <4>2. symbols[i].name \in DOMAIN file /\ symbols[i].demangled \in {NoName, symbols[i].name}
        BY <1>1, <2>1, <3>2, <3>3 DEF TableOf
      <4> QED BY <4>1, <4>2 DEF SymbolEntry
    <3> HIDE DEF E
    <3>4. symbols \in [1 .. Len(symbols) -> E]
      BY <3>1, <3>2, <3>3
    <3> QED BY <3>2, <3>4
  <2>2. CASE symbols = <<>>
    <3> HIDE DEF E
    <3>1. <<>> \in Seq(E)
      OBVIOUS
    <3> QED BY <2>2, <3>1
  <2> QED BY <2>1, <2>2
<1> QED
  BY <1>1, <1>2 DEF Found, Symbols!TypeOK

(* A name of a package is an offset behind the first of its strings. *)
NameInStrings == last.name \in 1 .. pack.strings - 1 \cup {NoName}
LEMMA NameInStringsKeeps ==
    ASSUME PackInv, NameInStrings, Package!Next PROVE NameInStrings'
<1>1. PackKept /\ pack.strings \in Nat
  BY PackFacts DEF PackInv, PackKept
<1>2. CASE Package!SourceChanges
  BY <1>2 DEF Package!SourceChanges, NameInStrings
<1>3. ASSUME NEW uuid \in UUIDs, NEW a \in SymbolAddresses, Package!getSymbolUnopened(uuid, a)
      PROVE  NameInStrings'
  <2>1. last'.name = NoName
    BY <1>3 DEF Package!getSymbolUnopened
  <2>2. last'.name \in 1 .. pack'.strings - 1 \cup {NoName}
    BY <2>1, Zenon
  <2> QED BY <2>2 DEF NameInStrings
<1>4. ASSUME NEW uuid \in UUIDs, NEW a \in SymbolAddresses, Package!getSymbol(uuid, a)
      PROVE  NameInStrings'
  <2>1. pack' = pack
    BY <1>4 DEF Package!getSymbol
  <2>2. PICK name \in NamesOf(uuid, a) :
            last' = [uuid |-> uuid, address |-> a, name |-> name]
    BY <1>4 DEF Package!getSymbol, NamesOf
  <2>3. ASSUME name # NoName PROVE name \in 1 .. pack.strings - 1
    <3>1. PICK r \in Package!getRecords : name \in Package!NamesIn(r.nodes, a)
      BY <2>2, <2>3 DEF NamesOf
    <3>2. r.nodes \in Seq(PackNode)
      <4>1. PICK l \in DOMAIN pack.records : r = pack.records[l]
        BY <1>1, RecordsKept
      <4> QED BY <1>1, <4>1, PackFacts DEF PackKept
    <3>3. PICK t \in Package!Sorts(r.nodes, Package!Values(r.nodes)) :
             \E i \in Package!Places(t) :
                name = IF Package!Picked(t, i) = <<>> THEN NoName
                       ELSE Package!Name(Package!Picked(t, i)[1])
      BY <3>1 DEF Package!NamesIn
    <3>4. t \in Seq(PackNode)
      <4>1. Package!Values(r.nodes) \in [DOMAIN r.nodes -> Nat]
        <5>1. \A i \in DOMAIN r.nodes : r.nodes[i] \in PackNode
          BY <3>2
        <5>2. \A i \in DOMAIN r.nodes : r.nodes[i].value \in Nat
          BY <5>1 DEF PackNode
        <5> QED BY <5>2 DEF Package!Values
      <4>2. t \in Symbols!Sorts(r.nodes, Package!Values(r.nodes))
        BY <3>3 DEF Package!Sorts, Symbols!Sorts, Package!Ordered, Symbols!Ordered,
              Package!F!Bijection, Symbols!F!Bijection, Package!F!Injection, Symbols!F!Injection,
              Package!F!Surjection, Symbols!F!Surjection, Package!F!IsInjective, Symbols!F!IsInjective
      <4> QED BY <3>2, <4>1, <4>2, SortFacts
    <3>5. PICK j \in 1 .. Len(t) : name = Package!Name(t[j])
      <4>1. PICK i \in Package!Places(t) :
               Package!Picked(t, i) # <<>> /\ name = Package!Name(Package!Picked(t, i)[1])
        BY <2>3, <3>3
      <4>2. i \in Nat /\ Len(t) \in Nat /\ i > 0
        BY <3>3, <3>4 DEF Package!Places
      <4>3. ~(i > Len(t)) /\ Package!Picked(t, i)[1] = t[IF i > 1 THEN i - 1 ELSE i]
        BY <4>1 DEF Package!Picked
      <4> QED BY <4>1, <4>2, <4>3
    <3>6. t[j].stridx \in Nat
      <4>1. t[j] \in PackNode
        BY <3>4, <3>5
      <4> QED BY <4>1 DEF PackNode
    <3>7. name = t[j].stridx /\ 0 < t[j].stridx /\ t[j].stridx < Package!getStrings
      BY <2>3, <3>5 DEF Package!Name
    <3>8. Package!getStrings = pack.strings
      BY <1>1 DEF PackKept, Package!getStrings
    <3> QED BY <1>1, <3>6, <3>7, <3>8
  <2> QED BY <2>1, <2>2, <2>3 DEF NameInStrings
<1> QED
  BY <1>2, <1>3, <1>4 DEF Package!Next

LEMMA PackTyped == ASSUME PackInv, NameInStrings, there \in BOOLEAN PROVE Package!TypeOK
<1>1. records \subseteq {pack.records[i] : i \in DOMAIN pack.records}
  BY DEF PackInv, PackKept, Package!LastOfUUID
<1> QED
  BY <1>1 DEF PackInv, PackKept, NameInStrings, Package!TypeOK

(* Streams are kept with the tables that are made from them. *)
LEMMA TablesTyped ==
    ASSUME TablesInv, Tables!TypeOK, Tables!Next PROVE Tables!TypeOK'
<1>1. /\ file \in DebugFiles /\ NULL \notin BOOLEAN /\ file.cu # NULL
      /\ DOMAIN file.cu = TableAddresses /\ file.ranges \in BOOLEAN
  BY UnitFacts DEF TablesInv
<1>2. ASSUME NEW a \in TableAddresses, Tables!getInfoByAddress(a) PROVE Tables!TypeOK'
  BY <1>2 DEF Tables!getInfoByAddress, Tables!tables, Tables!TypeOK
<1>3. CASE Tables!Aranges
  <2>1. CASE arange # NULL
    BY <1>3, <2>1 DEF Tables!Aranges, Tables!tables, Tables!TypeOK
  <2>2. CASE arange = NULL
    <3>1. /\ headers' = IF there THEN headers \cup {"aranges"} ELSE headers
          /\ fault' = ~there /\ UNCHANGED <<abbr, units, ranges, file, there, asked, answer>>
          /\ \/ there /\ arange' = file.cu /\ kept' = kept \cup {"aranges"} /\ at' = "find"
             \/ ~there /\ arange' = NULL /\ kept' = kept /\ at' = "idle"
      BY <1>3, <2>2 DEF Tables!Aranges, Tables!Opened
    <3>2. fault' \in BOOLEAN
      BY <3>1, Zenon
    <3>3. headers' \subseteq Tables!Sections
      BY <3>1 DEF Tables!TypeOK, Tables!Sections
    <3>4. kept' = {s \in {"aranges"} : arange' # NULL} \cup {s \in {"abbrev"} : abbr' # NULL}
      BY <1>1, <2>2, <3>1 DEF Tables!TypeOK
    <3> QED BY <1>1, <3>1, <3>2, <3>3, <3>4 DEF Tables!TypeOK
  <2> QED BY <2>1, <2>2
<1>4. CASE Tables!Find
  BY <1>4 DEF Tables!Find, Tables!tables, Tables!TypeOK
<1>5. CASE Tables!Abbreviations
  <2>1. CASE abbr # NULL
    BY <1>5, <2>1 DEF Tables!Abbreviations, Tables!tables, Tables!TypeOK
  <2>2. CASE abbr = NULL
    <3>1. /\ headers' = IF there THEN headers \cup {"abbrev"} ELSE headers
          /\ fault' = ~there /\ UNCHANGED <<arange, units, ranges, file, there, asked, answer>>
          /\ \/ there /\ abbr' = TRUE /\ kept' = kept \cup {"abbrev"} /\ at' = "extract"
             \/ ~there /\ abbr' = NULL /\ kept' = kept /\ at' = "idle"
      BY <1>5, <2>2 DEF Tables!Abbreviations, Tables!Opened
    <3>2. fault' \in BOOLEAN /\ TRUE # NULL
      BY <1>1, <3>1, Zenon
    <3>3. headers' \subseteq Tables!Sections
      BY <3>1 DEF Tables!TypeOK, Tables!Sections
    <3>4. kept' = {s \in {"aranges"} : arange' # NULL} \cup {s \in {"abbrev"} : abbr' # NULL}
      BY <2>2, <3>1, <3>2 DEF Tables!TypeOK
    <3>5. abbr' \in BOOLEAN \cup {NULL}
      BY <3>1, Zenon
    <3> QED BY <3>1, <3>2, <3>3, <3>4, <3>5 DEF Tables!TypeOK
  <2> QED BY <2>1, <2>2
<1>6. CASE Tables!Extract
  <2>1. /\ headers' = IF there THEN headers \cup {"str", "info"} ELSE headers
        /\ fault' = (~there /\ ~Tables!IsParsed(arange[asked]))
        /\ at' = IF fault' THEN "idle" ELSE "lookup"
        /\ UNCHANGED <<file, there, kept, arange, abbr, ranges, asked, answer>>
    BY <1>6 DEF Tables!Extract, Tables!OpenedAll
  <2>2. fault' \in BOOLEAN
    BY <2>1, Zenon
  <2>3. headers' \subseteq Tables!Sections
    BY <2>1 DEF Tables!TypeOK, Tables!Sections
  <2>4. at' \in {"idle", "lookup"}
    BY <2>1, Zenon
  <2> QED BY <2>1, <2>2, <2>3, <2>4 DEF Tables!TypeOK
<1>7. CASE Tables!Lookup
  BY <1>7 DEF Tables!Lookup, Tables!tables, Tables!TypeOK
<1>8. CASE Tables!Ask
  <2>1. /\ \/ headers' = headers
           \/ headers' = headers \cup ({"str", "info"} \cup IF file.ranges THEN {"ranges"} ELSE {})
        /\ fault' \in IF there THEN {FALSE} ELSE BOOLEAN
        /\ ranges' = (ranges \/ file.ranges)
        /\ at' = "idle" /\ UNCHANGED <<file, there, kept, arange, abbr, units, asked>>
    BY <1>8 DEF Tables!Ask, Tables!OpenedAll
  <2>2. fault' \in BOOLEAN /\ ranges' \in BOOLEAN
    BY <2>1, Zenon
  <2>3. headers' \subseteq Tables!Sections
    BY <2>1 DEF Tables!TypeOK, Tables!Sections
  <2> QED BY <2>1, <2>2, <2>3 DEF Tables!TypeOK
<1>9. CASE Tables!clean
  <2>1. /\ kept' = {} /\ arange' = NULL /\ abbr' = NULL /\ ranges' = FALSE
        /\ UNCHANGED <<file, there, headers, at, asked, answer, fault>>
    BY <1>9 DEF Tables!clean
  <2>2. ranges' \in BOOLEAN /\ abbr' \in BOOLEAN \cup {NULL}
    BY <2>1, Zenon
  <2> QED BY <2>1, <2>2 DEF Tables!TypeOK
<1>10. CASE Tables!Vanish \/ Tables!ComeBack
  <2>1. there' \in BOOLEAN
    BY <1>10, Zenon DEF Tables!Vanish, Tables!ComeBack
  <2> QED BY <1>10, <2>1 DEF Tables!Vanish, Tables!ComeBack, Tables!tables, Tables!TypeOK
<1> QED
  BY <1>2, <1>3, <1>4, <1>5, <1>6, <1>7, <1>8, <1>9, <1>10 DEF Tables!Next, Tables!Work

-------------------------------------------------------------------------------
(* What holds of the part that runs. *)
IInv ==
    /\ part = "unit" => UnitInv
    /\ part = "frames" => UnitInv /\ FrameInv
    /\ part = "symbols" => SymbolsInv /\ Found
    /\ part = "package" => PackInv /\ NameInStrings /\ there \in BOOLEAN
    /\ part = "tables" => TablesInv /\ Tables!TypeOK

(* Nothing is kept at first, and nothing was asked. *)
LEMMA InitHolds == ASSUME Init PROVE IInv
<1>1. ASSUME part = "symbols" PROVE SymbolsInv /\ Found
  <2>1. Symbols!Init
    BY <1>1 DEF Init
  <2> QED BY <2>1 DEF Symbols!Init, Symbols!NoQuestion, SymbolsInv, SymbolsKept, Found,
               Symbols!NearestFound, Symbols!NameIsNearest, Symbols!NamedIfDefined
<1>2. ASSUME part = "package" PROVE PackInv /\ NameInStrings /\ there \in BOOLEAN
  <2>1. Package!Init
    BY <1>2 DEF Init
  <2> QED BY <2>1 DEF Package!Init, PackInv, PackKept, Package!NameIsNearest, NameInStrings
<1>3. ASSUME part = "tables" PROVE TablesInv /\ Tables!TypeOK
  <2>1. Tables!Init
    BY <1>3 DEF Init
  <2>2. Tables!Made = <<>>
    BY <2>1 DEF Tables!Init, Tables!Made
  <2>3. there \in BOOLEAN /\ ranges \in BOOLEAN /\ fault \in BOOLEAN
    BY <2>1, Zenon DEF Tables!Init
  <2>4. Tables!TypeOK
    BY <2>1, <2>3 DEF Tables!Init, Tables!TypeOK, Tables!Sections
  <2> QED BY <2>1, <2>2, <2>4 DEF Tables!Init, TablesInv, Tables!TablesWhole,
               Tables!AnswerOfFile, Tables!FaultOnlyGone
<1>4. ASSUME part = "unit" PROVE UnitInv
  <2>1. Unit!Init
    BY <1>4 DEF Init
  <2> QED BY <2>1, UnitInitHolds
<1>5. ASSUME part = "frames" PROVE UnitInv /\ FrameInv
  <2>1. Unit!AggregatorInit
    BY <1>5 DEF Init
  <2> QED BY <2>1, FrameInitHolds
<1> QED
  BY <1>1, <1>2, <1>3, <1>4, <1>5 DEF IInv

(* What a part does not change stays true. *)
LEMMA StutterKeeps == ASSUME IInv, UNCHANGED all PROVE IInv'
<1>1. ASSUME SymbolsInv, UNCHANGED <<file, there, symbols, last>> PROVE SymbolsInv'
  <2>1. SymbolsKept'
    BY <1>1 DEF SymbolsInv, SymbolsKept, TableOf
  <2>2. Symbols!NearestFound' /\ Symbols!NameIsNearest' /\ Symbols!NamedIfDefined'
    BY <1>1 DEF SymbolsInv, Symbols!NearestFound, Symbols!NameIsNearest,
        Symbols!NamedIfDefined, Symbols!NearestBelow, Symbols!AtOrBelow, Symbols!Above
  <2> QED BY <2>1, <2>2 DEF SymbolsInv
<1>2. ASSUME PackInv, UNCHANGED <<pack, records, strings, last>> PROVE PackInv'
  BY <1>2, SamePackage
<1>3. ASSUME TablesInv, UNCHANGED <<file, there, arange, abbr, units, at, asked, answer, fault>>
      PROVE  TablesInv'
  <2>1. Tables!Made' = Tables!Made /\ \A o : Tables!IsParsed(o)' <=> Tables!IsParsed(o)
    BY <1>3, SameUnits
  <2> QED BY <1>3, <2>1
          DEF TablesInv, Tables!TablesWhole, Tables!AnswerOfFile, Tables!FaultOnlyGone
<1>4. ASSUME UnitInv, UNCHANGED all PROVE UnitInv'
  <2>1. UNCHANGED Unit!vars
    BY <1>4 DEF all, called, unitOnly, Unit!vars
  <2> QED BY <1>4, <2>1, UnitNextKeeps
<1>5. ASSUME UnitInv, FrameInv, UNCHANGED all PROVE UnitInv' /\ FrameInv'
  <2>1. UNCHANGED Unit!allVars
    BY <1>5 DEF all, called, unitOnly, framesOnly, Unit!vars, Unit!frame, Unit!allVars
  <2> QED BY <1>5, <2>1, FrameNextKeeps
<1>6. UNCHANGED all => /\ part' = part /\ UNCHANGED <<file, there, symbols, last>>
                       /\ UNCHANGED <<pack, records, strings, last>>
                       /\ UNCHANGED <<file, there, arange, abbr, units, at, asked, answer, fault>>
  BY DEF all, called, tablesOnly, packageOnly
<1>7. ASSUME UNCHANGED all PROVE /\ Found => Found'
                                 /\ NameInStrings => NameInStrings'
                                 /\ Tables!TypeOK => Tables!TypeOK'
  BY <1>7 DEF Found, NameInStrings, Tables!TypeOK, all, called, tablesOnly, packageOnly
<1> QED
  BY <1>1, <1>2, <1>3, <1>4, <1>5, <1>6, <1>7 DEF IInv

(* What is kept between questions is what the file says, whatever was asked,
   cleaned or not to be opened. *)
THEOREM KeptInvariant == Spec => []IInv
<1>1. Init => IInv
  BY InitHolds
<1>2. IInv /\ [Next]_all => IInv'
  <2>1. ASSUME [Next]_all
        PROVE  /\ part' = part
               /\ part = "unit" => Unit!Next \/ UNCHANGED all
               /\ part = "frames" => Unit!AggregatorNext \/ UNCHANGED all
               /\ part = "symbols" => Symbols!Next \/ UNCHANGED all
               /\ part = "package" => Package!Next \/ UNCHANGED all
               /\ part = "tables" => Tables!Next \/ UNCHANGED all
    <3>1. CASE UnitRead
      BY <3>1 DEF UnitRead, NotOfFrames
    <3>6. CASE FramesMade
      BY <3>6 DEF FramesMade, NotOfFrames
    <3>2. CASE TablesNext
      BY <3>2 DEF TablesNext, NotOfTables
    <3>3. CASE SymbolsNext
      BY <3>3 DEF SymbolsNext
    <3>4. CASE PackageNext
      BY <3>4 DEF PackageNext
    <3>5. CASE UNCHANGED all
      BY <3>5 DEF all
    <3> QED BY <2>1, <3>1, <3>2, <3>3, <3>4, <3>5, <3>6 DEF Next
  <2>2. ASSUME IInv, [Next]_all, part = "symbols" PROVE SymbolsInv' /\ Found'
    BY <2>1, <2>2, SymbolsNextKeeps, FoundKeeps, StutterKeeps DEF IInv
  <2>3. ASSUME IInv, [Next]_all, part = "package"
        PROVE  PackInv' /\ NameInStrings' /\ (there \in BOOLEAN)'
    <3>1. CASE UNCHANGED all
      BY <2>1, <2>3, <3>1, StutterKeeps DEF IInv
    <3>2. CASE Package!Next
      <4>1. there' \in BOOLEAN
        <5>1. there' = there \/ there' = ~there
          BY <3>2 DEF Package!Next, Package!getSymbol, Package!getSymbolUnopened,
                      Package!SourceChanges
        <5> QED BY <2>3, <5>1, Zenon DEF IInv
      <4> QED BY <2>3, <3>2, <4>1, PackNextKeeps, NameInStringsKeeps DEF IInv
    <3> QED BY <2>1, <2>3, <3>1, <3>2
  <2>4. ASSUME IInv, [Next]_all, part = "tables" PROVE TablesInv' /\ Tables!TypeOK'
    BY <2>1, <2>4, TablesNextKeeps, TablesTyped, StutterKeeps DEF IInv
  <2>5. ASSUME IInv, [Next]_all, part = "unit" PROVE UnitInv'
    <3>1. Unit!Next \/ UNCHANGED Unit!vars
      BY <2>1, <2>5 DEF all, called, unitOnly, Unit!vars
    <3> QED BY <2>5, <3>1, UnitNextKeeps DEF IInv
  <2>6. ASSUME IInv, [Next]_all, part = "frames" PROVE UnitInv' /\ FrameInv'
    <3>1. Unit!AggregatorNext \/ UNCHANGED Unit!allVars
      BY <2>1, <2>6 DEF all, called, unitOnly, framesOnly, Unit!vars, Unit!frame, Unit!allVars
    <3> QED BY <2>6, <3>1, FrameNextKeeps DEF IInv
  <2> QED BY <2>1, <2>2, <2>3, <2>4, <2>5, <2>6 DEF IInv
<1> QED
  BY <1>1, <1>2, PTL DEF Spec

(* For every unit and any addresses in any order: where one entry encloses the
   others, the depths tell the tree, whatever levels were closed and opened in
   between, refused entries among them; and where the unit has a base that its
   ranges are placed by, an address is answered by the subprograms that cover
   it with what is inlined in them there, in order, whatever was asked before.
   About CDWARFCompileUnit::extract, getParents,
   getParentsIdxs, getChildrensIdxs, getAllChildrensIdxs and getDIEIdxsBy. *)
THEOREM EntriesAlwaysTheTree == Spec => []EntriesAreTheTree
<1>1. IInv => EntriesAreTheTree
  BY UnitInvImplies DEF IInv, EntriesAreTheTree
<1> QED
  BY <1>1, KeptInvariant, PTL

(* For every unit, whatever was asked and read before: each frame is named after
   the entry its references lead to, by its linkage name or by all scopes
   around it and its parameters; it has the line where the next one is called,
   if that is given and fits the 32 bits it is cast to, the last one that of
   the address; and only a unit no correct producer writes
   lets a row or a file be used that is not there.  About
   CDWARFAggregator::getInfoByAddress, getNameBy and
   makeFullSubRoutineName. *)
THEOREM FramesAlwaysTheUnits == Spec => []FramesAreTheUnits
<1>1. IInv => FramesAreTheUnits
  BY FrameInvImplies DEF IInv, FramesAreTheUnits
<1> QED
  BY <1>1, KeptInvariant, PTL

(* For every table of symbols and every package, whichever readers come in
   whatever order and whenever the file can be opened: a name that is given is
   that of a nearest symbol at or below the address, found whenever the file
   lets it be.  About CSymbolTable and its readers getInfoBySymbolTable,
   GetSymbolNameAt, resolve and GetSymbols, and about SymbolsPack::getSymbol. *)
THEOREM NearestAlwaysNamed == Spec => []NearestSymbolNamed
<1>1. SymbolsInv => Symbols!StabsUnnamed
  BY DEF SymbolsInv, SymbolsKept, TableOf, Symbols!StabsUnnamed
<1>2. ASSUME PackInv PROVE Package!OneRecordPerUUID
  <2>1. pack \in Packs
    BY <1>2 DEF PackInv, PackKept
  <2>2. Len(pack.records) \in Nat /\ DOMAIN pack.records = 1 .. Len(pack.records)
    BY <2>1, PackFacts
  <2>3. ASSUME NEW r \in records
        PROVE  \E m \in 1 .. Len(pack.records) :
                  /\ r = pack.records[m]
                  /\ \A j \in 1 .. Len(pack.records) : pack.records[j].uuid = r.uuid => j <= m
    BY <1>2, <2>2, <2>3 DEF PackInv, PackKept, Package!LastOfUUID
  <2>4. ASSUME NEW r \in records, NEW s \in records, r.uuid = s.uuid PROVE r = s
    <3>1. PICK m \in 1 .. Len(pack.records) :
             /\ r = pack.records[m]
             /\ \A j \in 1 .. Len(pack.records) : pack.records[j].uuid = r.uuid => j <= m
      BY <2>3
    <3>2. PICK l \in 1 .. Len(pack.records) :
             /\ s = pack.records[l]
             /\ \A j \in 1 .. Len(pack.records) : pack.records[j].uuid = s.uuid => j <= l
      BY <2>3
    <3>3. l <= m /\ m <= l
      BY <2>4, <3>1, <3>2
    <3> QED BY <2>2, <3>1, <3>2, <3>3
  <2>5. ASSUME NEW r \in records
        PROVE  \E m \in DOMAIN pack.records :
                  /\ r = pack.records[m]
                  /\ \A j \in m + 1 .. Len(pack.records) : pack.records[j].uuid # r.uuid
    <3>1. PICK m \in 1 .. Len(pack.records) :
             /\ r = pack.records[m]
             /\ \A j \in 1 .. Len(pack.records) : pack.records[j].uuid = r.uuid => j <= m
      BY <2>3
    <3>2. ASSUME NEW j \in m + 1 .. Len(pack.records) PROVE pack.records[j].uuid # r.uuid
      <4>1. j \in 1 .. Len(pack.records) /\ ~(j <= m)
        BY <2>2
      <4> QED BY <3>1, <4>1
    <3> QED BY <2>2, <3>1, <3>2
  <2> QED BY <2>4, <2>5 DEF Package!OneRecordPerUUID
<1>3. IInv => NearestSymbolNamed
  BY <1>1, <1>2 DEF IInv, SymbolsInv, PackInv, NearestSymbolNamed
<1> QED
  BY <1>3, KeptInvariant, PTL

(* For every file, whatever was asked before, cleaned, or failed because the
   file was gone: the tables are whole, an address is answered by its unit if
   that parses and by the symbol table otherwise, and only a file that is gone
   has what is not there used.  About CDWARFAggregator::getInfoByAddress,
   clean and CDWARFCompileUnitTable::extractCompileUnitBy. *)
THEOREM TablesAlwaysAnswer == Spec => []TablesAnswer
<1>1. IInv => TablesAnswer
  BY DEF IInv, TablesInv, TablesAnswer
<1> QED
  BY <1>1, KeptInvariant, PTL

(* The state of every part keeps its type: no entry is without its item, what
   was found is in the table, a name in the strings, and a stream is kept with
   the table that was made from it.  About the members of CDWARFCompileUnit,
   CDWARFAggregator, CSymbolTable and SymbolsPack. *)
THEOREM TypeCorrect == Spec => []TypeOK
<1>1. IInv => TypeOK
  BY UnitInvImplies, FrameInvImplies, SymbolsTyped, PackTyped DEF IInv, TypeOK
<1> QED
  BY <1>1, KeptInvariant, PTL
================================================================================
