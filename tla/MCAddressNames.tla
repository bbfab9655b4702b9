----------------------------- MODULE MCAddressNames ----------------------------
(***************************************************************************)
(* Where a name of an address is taken from: the entries of a unit and the *)
(* frames made of them, the unit that the debug tables of a file give, a   *)
(* symbol table, and a package of symbols.  One of them in each behaviour: *)
(* they share no state.  A unit is either asked for entries or for frames. *)
(* The variables of the parts that do not run are Idle.                    *)
(***************************************************************************)
EXTENDS Integers, Sequences, TLC

CONSTANTS
    Contents, Ranged, DebugFiles, SymbolFiles, Packs, \* inputs
    UnitAddresses, TableAddresses, SymbolAddresses, UUIDs, \* what is asked for
    CanVanish,
    DepthMod,           \* 2^32
    AddressMod,         \* 2^64
    FileMod,            \* 2^16
    NULL, INVALID, BAD_ROW, NoName, NoIndex, Idle

VARIABLES
    part,                                    \* constant: what names the address
    at, asked, answer, fault,                \* Aggregator, DebugTables
    unit, pos, depth, entries, m_base_address, \* CompileUnit
    chain, nth, cur, named, frames,          \* Aggregator
    file, there,                             \* DebugTables, SymbolLookup, SymbolPack
    headers, kept, arange, abbr, units, ranges, \* DebugTables
    last, symbols,                           \* SymbolLookup; last also SymbolPack
    pack, records, strings                   \* SymbolPack

Unit == INSTANCE Aggregator WITH Addresses <- UnitAddresses
Tables == INSTANCE DebugTables WITH Files <- DebugFiles, Addresses <- TableAddresses
Symbols == INSTANCE SymbolLookup WITH Files <- SymbolFiles, Addresses <- SymbolAddresses
Package == INSTANCE SymbolPack WITH Addresses <- SymbolAddresses

ASSUME CompileUnitAssumption == Unit!CompileUnitAssumption
ASSUME AggregatorAssumption == Unit!AggregatorAssumption
ASSUME FilesAssumption == Tables!FilesAssumption
ASSUME SymbolAssumption == Symbols!SymbolAssumption
ASSUME PackAssumption == Package!PackAssumption

(* The variables by the parts that have them. *)
called == <<at, asked, answer, fault>>
unitOnly == <<unit, pos, depth, entries, m_base_address>>
framesOnly == <<chain, nth, cur, named, frames>>
tablesOnly == <<headers, kept, arange, abbr, units, ranges>>
packageOnly == <<pack, records, strings>>
all == <<part, called, unitOnly, framesOnly, file, there, tablesOnly, last, symbols, packageOnly>>

NoCall == at = Idle /\ asked = Idle /\ answer = Idle /\ fault = Idle
NoUnit == unit = Idle /\ pos = Idle /\ depth = Idle /\ entries = Idle /\ m_base_address = Idle
NoFrames == chain = Idle /\ nth = Idle /\ cur = Idle /\ named = Idle /\ frames = Idle
NoTables ==
    /\ headers = Idle /\ kept = Idle /\ arange = Idle /\ abbr = Idle
    /\ units = Idle /\ ranges = Idle
NoPackage == pack = Idle /\ records = Idle /\ strings = Idle

Init ==
    \/ /\ part = "unit" /\ Unit!Init /\ unit \notin Ranged /\ at = Idle /\ fault = Idle
       /\ file = Idle /\ there = Idle /\ last = Idle /\ symbols = Idle
       /\ NoFrames /\ NoTables /\ NoPackage
    \/ /\ part = "frames" /\ Unit!AggregatorInit
       /\ file = Idle /\ there = Idle /\ last = Idle /\ symbols = Idle
       /\ NoTables /\ NoPackage
    \/ /\ part = "tables" /\ Tables!Init /\ last = Idle /\ symbols = Idle
       /\ NoUnit /\ NoFrames /\ NoPackage
    \/ /\ part = "symbols" /\ Symbols!Init
       /\ NoCall /\ NoUnit /\ NoFrames /\ NoTables /\ NoPackage
    \/ /\ part = "package" /\ Package!Init /\ file = Idle /\ symbols = Idle
       /\ NoCall /\ NoUnit /\ NoFrames /\ NoTables

NotOfFrames == UNCHANGED <<part, file, there, tablesOnly, last, symbols, packageOnly>>
NotOfTables == UNCHANGED <<part, unitOnly, framesOnly, last, symbols, packageOnly>>

UnitRead == part = "unit" /\ Unit!Next /\ NotOfFrames /\ UNCHANGED <<at, fault, framesOnly>>
FramesMade == part = "frames" /\ Unit!AggregatorNext /\ NotOfFrames
TablesNext == part = "tables" /\ Tables!Next /\ NotOfTables
SymbolsNext ==
    /\ part = "symbols" /\ Symbols!Next
    /\ UNCHANGED <<part, called, unitOnly, framesOnly, tablesOnly, packageOnly>>
PackageNext ==
    /\ part = "package" /\ Package!Next
    /\ UNCHANGED <<part, called, unitOnly, framesOnly, file, tablesOnly, symbols>>

Next == UnitRead \/ FramesMade \/ TablesNext \/ SymbolsNext \/ PackageNext

(* The loop of getNameBy and a question once asked run without a pause. *)
Work ==
    \/ part = "frames" /\ Unit!Follow /\ NotOfFrames
    \/ part = "tables" /\ Tables!Work /\ NotOfTables
Spec == Init /\ [][Next]_all /\ WF_all(Work)

-------------------------------------------------------------------------------
(* Type invariant of the five parts. *)
TypeOK ==
    /\ part = "unit" => Unit!TypeOK
    /\ part = "frames" => Unit!AggregatorTypeOK
    /\ part = "tables" => Tables!TypeOK
    /\ part = "symbols" => Symbols!TypeOK
    /\ part = "package" => Package!TypeOK

(* The flat list of entries with their depths gives back the unit's tree, and
   an address the same chain of entries whatever was asked before. *)
EntriesAreTheTree ==
    part = "unit" =>
        /\ Unit!ParentsEnclose /\ Unit!ChildrenEnclosed /\ Unit!FirstChildren
        /\ Unit!AnswerIsTheUnits /\ Unit!ChainIsNested

(* Every frame has the name and the parameters its entry leads to, and the
   line where the next one is called, whatever was read before; a row or file
   that is not there is used only for a unit no correct producer writes. *)
FramesAreTheUnits ==
    part = "frames" =>
        /\ Unit!FramesNamed /\ Unit!ParametersSpelled
        /\ Unit!FramesTell /\ Unit!FaultExplained

(* The tables kept of a file are whole and give every address its unit, or
   the symbol table, whatever was asked before, cleaned or not to be opened;
   only a file that is gone lets the code use what is not there. *)
TablesAnswer ==
    part = "tables" => Tables!TablesWhole /\ Tables!AnswerOfFile /\ Tables!FaultOnlyGone

(* A name from a symbol table or a package is that of a nearest symbol at or
   below the address, found whenever the file lets it be, although names,
   records and strings are cached by readers of different habits. *)
NearestSymbolNamed ==
    /\ part = "symbols" =>
        /\ Symbols!NearestFound /\ Symbols!NameIsNearest
        /\ Symbols!NamedIfDefined /\ Symbols!StabsUnnamed
    /\ part = "package" => Package!OneRecordPerUUID /\ Package!NameIsNearest

(* A name is found or given up, unless references run in a circle, and every
   question to the tables is answered or meets a missing file. *)
QuestionsEnd ==
    /\ (part = "frames" /\ Unit!Acyclic /\ at = "follow") ~> (at = "name")
    /\ (part = "tables" /\ at # "idle") ~> (at = "idle" /\ (answer # NULL \/ fault))

-------------------------------------------------------------------------------
(* Units of up to six items behind a root, in every order: subprograms and
   inlined subroutines with their ranges in one of the encodings of each
   version, blocks, entries of unknown code, NULL entries and refused ones. *)
NoPcs == [low |-> INVALID, high |-> INVALID, highClass |-> "address", ranges |-> {}, entry |-> INVALID]
NullEntry == [kind |-> "null"]
Refused == [kind |-> "refused"]
Entry(tag, children, attrs, pcs) ==
    [kind |-> "entry", tag |-> tag, children |-> children, pcs |-> pcs] @@ attrs

ToAddress(lo, hi) == [NoPcs EXCEPT !.low = lo, !.high = hi]
ToConstant(lo, n) == [NoPcs EXCEPT !.low = lo, !.high = n, !.highClass = "constant"]
InRanges(R) == [NoPcs EXCEPT !.ranges = R]

FirstRoot == Entry("compile_unit", TRUE, [NoPcs EXCEPT !.low = 1], {})
Roots == {FirstRoot,
          Entry("compile_unit", TRUE, [NoPcs EXCEPT !.entry = 1], {})}

(* Version 4: constants are lengths; before, they are addresses. *)
Length(v) == IF v = 4 THEN ToConstant(1, 3) ELSE ToConstant(1, 4)
Choice(v) ==
    {NullEntry,
     Entry("subprogram", TRUE, Length(v), {1, 2, 3}),
     Entry("subprogram", FALSE, ToAddress(4, 5), {4}),
     Entry("inlined_subroutine", TRUE, ToAddress(1, 3), {1, 2}),
     Entry("inlined_subroutine", FALSE, InRanges({<<0, 1>>, <<2, 3>>}), {1, 3}),
     Entry("lexical_block", TRUE, NoPcs, {}),
     Entry("formal_parameter", FALSE, NoPcs, {})}
Odd(v) == {Refused, Entry("invalid", FALSE, NoPcs, {})}

Bodies(S, n) == UNION {[1 .. k -> S] : k \in 0 .. n}
SmallUnits ==
    {[version |-> v, items |-> <<r>> \o b] : r \in {FirstRoot}, v \in {4}, b \in Bodies(Choice(4), 4)}
    \cup {[version |-> 3, items |-> <<r>> \o b] : r \in Roots, b \in Bodies(Choice(3) \cup Odd(3), 3)}
    \cup {[version |-> 4, items |-> b] : b \in Bodies({NullEntry, Refused} \cup
                {Entry("subprogram", TRUE, Length(4), {1, 2, 3}), Entry("lexical_block", TRUE, NoPcs, {})}, 4)}

(* No base for the ranges. *)
NoBase == Entry("compile_unit", TRUE, NoPcs, {})
BaselessUnits ==
    {[version |-> 4, items |-> <<NoBase>> \o b] :
        b \in Bodies({NullEntry, Entry("subprogram", TRUE, Length(4), {1, 2, 3}),
                      Entry("subprogram", TRUE, InRanges({<<2, 4>>}), {}),
                      Entry("inlined_subroutine", FALSE, InRanges({<<0, 2>>, <<3, 4>>}), {})}, 3)}

(* Deep nesting of few kinds. *)
DeepUnits ==
    {[version |-> 4, items |-> <<FirstRoot>> \o b] :
        b \in [1 .. 6 -> {NullEntry, Entry("subprogram", TRUE, Length(4), {1, 2, 3}),
                          Entry("inlined_subroutine", TRUE, ToAddress(1, 3), {1, 2})}]}

(* One unit in many variants: a method declared in a class in a namespace and
   defined outside, a function inlined in it, and types. *)
Plain == [kind |-> "entry", children |-> FALSE, pcs |-> {}, low |-> INVALID, high |-> INVALID,
          highClass |-> "address", ranges |-> {}, entry |-> INVALID, name |-> INVALID,
          linkage |-> INVALID, spec |-> INVALID, origin |-> INVALID, object |-> INVALID,
          type |-> INVALID, artificial |-> FALSE, objc |-> FALSE, callLine |-> INVALID,
          callFile |-> INVALID, tag |-> "none"]
Is(tag, name) == [Plain EXCEPT !.tag = tag, !.name = name]
Parent(e) == [e EXCEPT !.children = TRUE]

FrameBody(spec, object, origin, linkage, types, call, objc) == <<
    Parent([Is("compile_unit", "unit") EXCEPT !.low = 1]),               \*  1
    Parent(Is("namespace", "N")),                                        \*  2
    Parent(Is("class_type", "S")),                                       \*  3
    Parent([Is("subprogram", "f") EXCEPT !.linkage = linkage,
                                         !.objc = objc]),                \*  4
    [Is("formal_parameter", "this") EXCEPT !.artificial = TRUE],         \*  5
    [Is("formal_parameter", "p") EXCEPT !.type = 16],                    \*  6
    NullEntry, NullEntry, NullEntry,                                     \*  7
    Parent([Is("subprogram", INVALID) EXCEPT !.spec = spec, !.object = object,
                !.low = 1, !.high = 4, !.pcs = {1, 2, 3}]),              \* 10
    Is("formal_parameter", INVALID),                                     \* 11
    [Is("inlined_subroutine", INVALID) EXCEPT !.origin = origin, !.low = 2, !.high = 4,
                !.pcs = {2, 3}, !.callLine = call[1], !.callFile = call[2]],  \* 12
    NullEntry,
    [Is("subprogram", "g") EXCEPT !.linkage = linkage],                  \* 14
    [Is("subprogram", INVALID) EXCEPT !.origin = 10],                    \* 15
    [Is(types[1], INVALID) EXCEPT !.type = 17],                          \* 16
    [Is(types[2], INVALID) EXCEPT !.type = types[3]],                    \* 17
    Is("base_type", "char"),                                             \* 18
    NullEntry >>

FrameTypes ==
    {<<"pointer_type", "const_type", 18>>, <<"pointer_type", "pointer_type", 18>>,
     <<"reference_type", "pointer_type", 18>>, <<"pointer_type", "const_type", INVALID>>,
     <<"pointer_type", "const_type", 16>>}
RowsOf(r) == [a \in {1, 2, 3} |-> r]
LinesOf == {<<TRUE, RowsOf([line |-> 9, file |-> 1])>>, <<TRUE, RowsOf([line |-> 9, file |-> 0])>>,
            <<TRUE, RowsOf(BAD_ROW)>>, <<FALSE, RowsOf(BAD_ROW)>>}
FrameUnit(s, o, g, m, t, c, b, l, r) ==
    [version |-> 4, items |-> FrameBody(s, o, g, m, t, c, b), lost |-> l,
     files |-> IF c[2] = 8 THEN 9 ELSE 1,
     hasLines |-> r[1], rows |-> r[2]]
OneType == <<"pointer_type", "const_type", 18>>
(* The line and the file of the call; 39 and 8 have a bit too many. *)
OneCall == <<7, 1>>
Calls == {OneCall, <<39, 9>>, <<7, 8>>, <<INVALID, INVALID>>}
OneRow == <<TRUE, RowsOf([line |-> 9, file |-> 1])>>

(* Where a name comes from, how it is spelled, and what lines there are. *)
ByReference == {FrameUnit(s, o, g, m, OneType, OneCall, FALSE, l, OneRow) :
    s \in {4, 99, 15, INVALID}, o \in {11, INVALID}, g \in {14, 12, 10, INVALID},
    m \in {"_f", INVALID}, l \in {{}, {1}}}
BySpelling == {FrameUnit(4, INVALID, 14, INVALID, t, OneCall, b, {}, OneRow) : t \in FrameTypes, b \in BOOLEAN}
ByLine == {FrameUnit(s, INVALID, 14, INVALID, OneType, c, FALSE, {}, r) :
    s \in {4, INVALID}, c \in Calls, r \in LinesOf}
FrameUnits == ByReference \cup BySpelling \cup ByLine

(* A name of its own for the union, so that TLC evaluates it once. *)
TreesAndFrames == SmallUnits \cup BaselessUnits \cup DeepUnits \cup FrameUnits
AllUnits == TreesAndFrames

(* Debug tables: two units; an address may have none, and one may not parse. *)
Units == {"u1", "u2"}
SomeDebugFiles ==
    [cu : [{1, 2} -> Units \cup {NULL}], good : SUBSET Units, ranges : BOOLEAN]

(* Symbol tables: up to three symbols, in any file order, some at one address. *)
Kinds == {"defined", "undefined", "stab"}
Symbol == [address : {1, 2, 3}, kind : Kinds]
SomeSymbolFiles == {<<>>} \cup (Symbol \X Symbol)
    \cup {<<a, b, c>> : a \in Symbol, b \in [address : {1, 2}, kind : Kinds],
                        c \in [address : {1, 3}, kind : {"defined", "stab"}]}

(* Packages: one or two records of up to two symbols; strings that hold all
   names, some of them, or that do not unpack. *)
Node == [stridx : {0, 2}, value : {1, 2}]
Nodes == {<<>>} \cup {<<n>> : n \in Node} \cup (Node \X Node)
Record == [uuid : {"A"}, nodes : Nodes] \cup [uuid : {"B"}, nodes : {<<[stridx |-> 1, value |-> 1],
                                                                      [stridx |-> 2, value |-> 3]>>}]
SomePacks ==
    [records : {<<r>> : r \in Record} \cup (Record \X Record), strings : {0, 2, 3}]
===============================================================================
