------------------------------ MODULE MachObject ------------------------------
(***************************************************************************)
(* macho::CMachO: one Mach-O object, read lazily.  Nothing is read when it *)
(* is built; each unit walks the load commands the first time somebody     *)
(* asks it, each CSegment and CSection reads its header the first time it  *)
(* is touched.  One object is shared by every handle onto it (CFATW,       *)
(* CMachOW, CDWARFAggregator), so what one client's lookup leaves in the   *)
(* tables is what the next client finds.                                   *)
(*                                                                         *)
(* Every call opens the source again.  A memory stream always opens; a     *)
(* path may be gone for a while (deleted, or held by another program) and  *)
(* come back.  A definition marked mutant is a plausible bug in the one    *)
(* below it; no behaviour uses it.                                         *)
(***************************************************************************)
EXTENDS Naturals, Sequences

CONSTANTS
    Programs,   \* what is read and how: the load commands of the file, whether
                \* it is a path and not a memory stream (onDisk), and the calls
                \* that clients make
    MaxLoads,   \* bound on calls of CMachO::load
    NULL

(* A load command; of one that is no segment only the kind and the identity
   matter. *)
LoadCommand ==
    [cmd : {"UUID", "LOAD_DYLIB", "LOAD_WEAK_DYLIB", "SYMTAB", "VERSION_MIN"}, id : Nat]
    \cup [cmd : {"SEGMENT"}, name : STRING, sections : SUBSET STRING]

ASSUME ProgramsAssumption ==
    \A p \in Programs :
        p.file \in Seq(LoadCommand) /\ p.onDisk \in BOOLEAN

kSEGMENT_TEXT == "__TEXT"
kSEGMENT_DWARF == "__DWARF"
kSECTION_TEXT == "__text"
kSECTION_DEBUG_LINE == "__debug_line"
kSECTION_DEBUG_RANGES == "__debug_ranges"

(* The sections a CDWARFAggregator asks for; it can do without the ranges. *)
DebugSections ==
    {kSECTION_DEBUG_LINE, "__debug_info", "__debug_abbrev", "__debug_str",
     "__debug_aranges", kSECTION_DEBUG_RANGES}

(* Every name a section is asked for by. *)
SectionsIn(f) == UNION {f[i].sections : i \in {j \in DOMAIN f : f[j].cmd = "SEGMENT"}}
SectionNames ==
    (UNION {SectionsIn(p.file) : p \in Programs}) \cup DebugSections \cup {kSECTION_TEXT}

(* What a map holds: a value for each of some keys. *)
Maps(keys, values) == UNION {[S -> values] : S \in SUBSET keys}

(* A segment that was built: the command it stands for, whether its header was
   read, and of each section somebody named whether that was read. *)
CSegment == [at : Nat, loaded : BOOLEAN, secs : Maps(SectionNames, BOOLEAN \cup {NULL})]

ASSUME MaxLoadsAssumption == MaxLoads \in Nat
ASSUME NULLAssumption == NULL \notin BOOLEAN \cup CSegment \cup SectionNames

(* The load commands each unit looks for. *)
Wanted == [uuid         |-> {"UUID"},
           dependencies |-> {"LOAD_DYLIB", "LOAD_WEAK_DYLIB"},
           symbols      |-> {"SYMTAB"},
           commands     |-> {"UUID", "LOAD_DYLIB", "LOAD_WEAK_DYLIB", "SYMTAB",
                             "VERSION_MIN", "SEGMENT"},
           version      |-> {"VERSION_MIN"}]

ListUnits == DOMAIN Wanted
Units == ListUnits \cup {"info", "segments", "dwarf"}

VARIABLES
    program, \* constant
    there,   \* its source can be opened
    obj,     \* the CMachO: the units that are COMPLETE (done), what each list
             \* unit collected (found), the map of segments (segs), whether the
             \* symbols were read (symtab) and the line tables parsed (lines)
    agg,     \* m_isvalid of the last CDWARFAggregator, NULL before there is one
    fault,   \* <<segment, section>> of a NULL that was dereferenced; NULL if none
    loads    \* CMachO::load calls so far

vars == <<program, there, obj, agg, fault, loads>>

file == program.file

Segments == {i \in DOMAIN file : file[i].cmd = "SEGMENT"}
SegmentNames == {file[i].name : i \in Segments}
FirstOf(n) == CHOOSE i \in Segments :
                 /\ file[i].name = n
                 /\ \A j \in Segments : file[j].name = n => i <= j
SectionsOf(n) == file[FirstOf(n)].sections
Sections == (UNION {file[i].sections : i \in Segments}) \cup DebugSections

Init ==
    /\ program \in Programs
    /\ there \in (IF program.onDisk THEN BOOLEAN ELSE {TRUE})
    /\ obj = [done |-> {}, found |-> [u \in ListUnits |-> <<>>],
              segs |-> <<>>, symtab |-> FALSE, lines |-> FALSE]
    /\ agg = NULL
    /\ fault = NULL
    /\ loads = 0

-------------------------------------------------------------------------------
(* The header is read once; an object without load commands never counts
   as read. *)
InfoLoaded(o) ==
    IF there /\ file # <<>> THEN [o EXCEPT !.done = @ \cup {"info"}] ELSE o

WalkUncounted(o) ==                                                 \* mutant
    IF there /\ "info" \in obj.done THEN file ELSE <<>>
(* What lc_iterator visits: all commands, or none when the source is gone or
   the number of commands is not known. *)
Walk(o) == IF there /\ "info" \in o.done THEN file ELSE <<>>

(* The commands of a walk that are of some kinds, in the order of the walk. *)
Picked(walk, kinds) ==
    LET picked[k \in 0 .. Len(walk)] ==
            IF k = 0 THEN <<>>
            ELSE IF walk[k].cmd \in kinds THEN Append(picked[k - 1], walk[k])
            ELSE picked[k - 1]
    IN picked[Len(walk)]

CollectedFirst(u, old, hits) ==                                     \* mutant
    IF u \in {"dependencies", "commands"} THEN old \o hits
    ELSE IF hits = <<>> THEN old ELSE <<hits[1]>>
(* Dependencies and commands are appended, the first UUID and version and
   the last symbol table win. *)
Collected(u, old, hits) ==
    IF u \in {"dependencies", "commands"} THEN old \o hits
    ELSE IF hits = <<>> THEN old
    ELSE IF u = "symbols" THEN <<hits[Len(hits)]>>
    ELSE <<hits[1]>>

UnitLoadedAnyway(o, u) ==                                           \* mutant
    LET i    == InfoLoaded(o)
        hits == Picked(Walk(i), Wanted[u])
    IN [i EXCEPT !.found[u] = Collected(u, @, hits), !.done = @ \cup {u},
                 !.symtab = @ /\ ~(u = "symbols" /\ hits # <<>>)]
(* _load of a list unit.  Only the UUID's fails when it finds nothing. *)
UnitLoaded(o, u) ==
    LET i    == InfoLoaded(o)
        hits == Picked(Walk(i), Wanted[u])
    IN [i EXCEPT !.found[u] = Collected(u, @, hits),
                 !.done = IF u = "uuid" /\ hits = <<>> THEN @ \ {u}
                                                       ELSE @ \cup {u},
                 !.symtab = @ /\ ~(u = "symbols" /\ hits # <<>>)]

UnitReadyAgain(o, u) == UnitLoaded(o, u)                            \* mutant
UnitReady(o, u) == IF u \in o.done THEN o ELSE UnitLoaded(o, u)

NewSegment(i) == [at |-> i, loaded |-> FALSE, secs |-> <<>>]

SegmentsLoadedFirst(o) ==                                           \* mutant
    LET i == InfoLoaded(o)
        names == IF Walk(i) = <<>> THEN {}
                 ELSE {n \in SegmentNames : \A j \in Segments : FirstOf(n) <= j}
    IN [i EXCEPT !.done = @ \cup {"segments"},
                 !.segs = [n \in DOMAIN @ \cup names |->
                              IF n \in DOMAIN @ THEN @[n]
                                                ELSE NewSegment(FirstOf(n))]]
SegmentsReplaced(o) ==                                              \* mutant
    LET i     == InfoLoaded(o)
        names == IF Walk(i) = <<>> THEN {} ELSE SegmentNames
    IN [i EXCEPT !.done = @ \cup {"segments"},
                 !.segs = [n \in DOMAIN @ \cup names |->
                              IF n \in names THEN NewSegment(FirstOf(n))
                                             ELSE @[n]]]
(* _load of the segments: map::insert keeps an entry that is there. *)
SegmentsLoaded(o) ==
    LET i     == InfoLoaded(o)
        names == IF Walk(i) = <<>> THEN {} ELSE SegmentNames
    IN [i EXCEPT !.done = @ \cup {"segments"},
                 !.segs = [n \in DOMAIN @ \cup names |->
                              IF n \in DOMAIN @ THEN @[n]
                                                ELSE NewSegment(FirstOf(n))]]

SegmentsReady(o) == IF "segments" \in o.done THEN o ELSE SegmentsLoaded(o)

HasSegment(o, n) == n \in DOMAIN o.segs

(* getSegment is mSegments[name]: a name that is not there becomes a NULL. *)
SegmentLookedUp(o, n) ==
    IF HasSegment(o, n) THEN o
    ELSE [o EXCEPT !.segs = [m \in DOMAIN @ \cup {n} |->
                                IF m = n THEN NULL ELSE @[m]]]

(* What the insert of a segment's sections makes of the ones it has. *)
WithSections(s) ==
    [c \in DOMAIN s.secs \cup file[s.at].sections |->
        IF c \in DOMAIN s.secs THEN s.secs[c] ELSE FALSE]

PreloadedUnmarked(s) ==                                             \* mutant
    IF s.loaded \/ ~there THEN s ELSE [s EXCEPT !.secs = WithSections(s)]
PreloadedAnyway(s) ==                                               \* mutant
    IF s.loaded \/ ~there THEN [s EXCEPT !.loaded = TRUE]
    ELSE [s EXCEPT !.loaded = TRUE, !.secs = WithSections(s)]
(* CSegment::preload, with the same insert.  A section holds whether its own
   header was read. *)
Preloaded(s) ==
    IF s.loaded \/ ~there THEN s
    ELSE [s EXCEPT !.loaded = TRUE, !.secs = WithSections(s)]

(* CSection::preload of a section that is there. *)
SectionRead(s, c) == [s EXCEPT !.secs[c] = @ \/ there]

Touched(o, n) == [o EXCEPT !.segs[n] = Preloaded(@)]
HasSection(o, n, c) == c \in DOMAIN o.segs[n].secs
SectionPresent(o, n, c) == HasSection(o, n, c) /\ o.segs[n].secs[c] # NULL

(* CSymbolTable::preload, tried again as long as there are no symbols. *)
SymbolsRead(o) ==
    [o EXCEPT !.symtab = @ \/ (there /\ o.found.symbols # <<>>)]

DwarfTouchedUntested(o) ==                                          \* mutant
    LET s == SegmentLookedUp(SegmentsReady(o), kSEGMENT_DWARF)
    IN IF s.segs[kSEGMENT_DWARF] # NULL THEN Touched(s, kSEGMENT_DWARF) ELSE s
(* hasDebugLines, and the first half of the line table unit's _load. *)
DwarfTouched(o) ==
    LET s == SegmentsReady(o)
    IN IF HasSegment(s, kSEGMENT_DWARF) /\ s.segs[kSEGMENT_DWARF] # NULL
       THEN Touched(s, kSEGMENT_DWARF) ELSE s

HasDebugLines(o) ==
    /\ HasSegment(o, kSEGMENT_DWARF)
    /\ o.segs[kSEGMENT_DWARF] # NULL
    /\ HasSection(o, kSEGMENT_DWARF, kSECTION_DEBUG_LINE)

HasLineStream(o) ==
    HasDebugLines(o) /\ o.segs[kSEGMENT_DWARF].secs[kSECTION_DEBUG_LINE] # NULL

DwarfLoaded(o) ==
    LET t == DwarfTouched(o)
        d == [t EXCEPT !.done = @ \cup {"dwarf"}]
    IN IF ~HasLineStream(t) THEN d
       ELSE [d EXCEPT !.lines = TRUE,
                      !.segs[kSEGMENT_DWARF] = SectionRead(@, kSECTION_DEBUG_LINE)]

-------------------------------------------------------------------------------
(* A call ends normally, or dereferences the NULL it found under a name. *)
Returns(o) == obj' = o /\ UNCHANGED <<program, there, fault, loads>>
Faults(o, n, c) ==
    /\ obj' = o
    /\ fault' = <<n, c>>
    /\ UNCHANGED <<program, there, loads>>

(* hasDebugLines, then getDebugLines.  The parser is given a NULL stream when the source
   cannot be opened. *)
AsksForLines(o) ==
    LET t == DwarfTouched(o) IN
    IF ~HasDebugLines(t) \/ "dwarf" \in t.done THEN Returns(t)
    ELSE IF HasLineStream(t) /\ ~there
    THEN Faults(t, kSEGMENT_DWARF, kSECTION_DEBUG_LINE)
    ELSE Returns(DwarfLoaded(t))

Made(call) == fault = NULL /\ call \in program.calls

-------------------------------------------------------------------------------
(* CMachO::load: the units again, whether they were loaded or not. *)
LoadedAgain ==
    LET o1 == UnitLoaded(UnitLoaded(InfoLoaded(obj), "uuid"), "dependencies")
        o2 == DwarfLoaded(UnitLoaded(SegmentsLoaded(o1), "symbols"))
    IN UnitLoaded(UnitLoaded(o2, "commands"), "version")

Load ==
    /\ Made("load")
    /\ loads < MaxLoads
    /\ loads' = loads + 1
    /\ obj' = IF there /\ file # <<>> THEN LoadedAgain
              ELSE [obj EXCEPT !.done = @ \ {"info"}]
    /\ UNCHANGED <<program, there, agg, fault>>

(* getTypeOfCPU, hasUUID and the other calls that need the header only. *)
ReadHeader ==
    /\ Made("ReadHeader")
    /\ Returns(InfoLoaded(obj))
    /\ UNCHANGED agg

(* CFATW::debug_lines. *)
GetDebugLines ==
    /\ Made("GetDebugLines")
    /\ AsksForLines(obj)
    /\ UNCHANGED agg

(* getUUID, getRequiredDyLibs, getLoadCommands, getMinOSVersion ... *)
Query(u) ==
    /\ Made(u)
    /\ Returns(UnitReady(obj, u))
    /\ UNCHANGED agg

(* CFATW::GetSymbols, and GetSymbolNameAt when the address resolves to a
   defined symbol, which then also asks for its line. *)
LookUpSymbols(resolved) ==
    LET o1 == SegmentsReady(UnitReady(obj, "symbols"))
        o2 == SegmentLookedUp(o1, kSEGMENT_TEXT)
        o3 == SymbolsRead(Touched(o2, kSEGMENT_TEXT))
    IN
    /\ Made("LookUpSymbols")
    /\ IF o2.segs[kSEGMENT_TEXT] = NULL
       THEN Returns(o2)
       ELSE /\ resolved => o3.symtab
            /\ IF resolved THEN AsksForLines(o3) ELSE Returns(o3)
    /\ UNCHANGED agg

(* CFATW::HasDebugInformation, which looks the segment up untested. *)
HasDebugInformation ==
    LET o1 == SegmentLookedUp(SegmentsReady(obj), kSEGMENT_DWARF) IN
    /\ Made("HasDebugInformation")
    /\ Returns(IF o1.segs[kSEGMENT_DWARF] = NULL THEN o1
               ELSE Touched(o1, kSEGMENT_DWARF))
    /\ UNCHANGED agg

(* CFATW::DumpDebugLines, which asks HasDebugInformation first and so looks the
   segment up untested too; when there are rows each is named from the symbol
   table. *)
DumpDebugLines(rows) ==
    LET o1 == SegmentLookedUp(SegmentsReady(obj), kSEGMENT_DWARF)
        o2 == Touched(o1, kSEGMENT_DWARF)
        o3 == [o2 EXCEPT !.segs[kSEGMENT_DWARF] =
                  SectionRead(@, kSECTION_DEBUG_LINE)]
    IN
    /\ Made("DumpDebugLines")
    /\ IF o1.segs[kSEGMENT_DWARF] = NULL THEN Returns(o1)
       ELSE IF ~SectionPresent(o2, kSEGMENT_DWARF, kSECTION_DEBUG_LINE)
       THEN Returns(o2)
       ELSE IF ~there THEN Faults(o3, kSEGMENT_DWARF, kSECTION_DEBUG_LINE)
       ELSE Returns(IF rows THEN SymbolsRead(UnitReady(o3, "symbols")) ELSE o3)
    /\ UNCHANGED agg

-------------------------------------------------------------------------------
AllNamed(s) ==                                                      \* mutant
    DebugSections \ {kSECTION_DEBUG_RANGES} \subseteq DOMAIN s.secs
(* The debug sections a CDWARFAggregator finds: all but the ranges needed. *)
AllFound(s) ==
    \A c \in DebugSections \ {kSECTION_DEBUG_RANGES} : s.secs[c] # NULL

WithDebugSections(s) ==
    [s EXCEPT !.secs = [c \in DOMAIN @ \cup DebugSections |->
                           IF c \in DOMAIN @ THEN @[c] ELSE NULL]]

(* new CMachOW: its aggregator takes the debug sections at once. *)
NewMachOW ==
    LET o1 == SegmentsReady(obj)
        o2 == [o1 EXCEPT !.segs[kSEGMENT_DWARF] = WithDebugSections(Preloaded(@))]
    IN
    /\ Made("NewMachOW")
    /\ \/ /\ ~HasSegment(o1, kSEGMENT_DWARF)
          /\ Returns(o1)
          /\ agg' = FALSE
       \/ /\ HasSegment(o1, kSEGMENT_DWARF)
          /\ o1.segs[kSEGMENT_DWARF] = NULL
          /\ Faults(o1, kSEGMENT_DWARF, NULL)
          /\ UNCHANGED agg
       \/ /\ HasSegment(o1, kSEGMENT_DWARF)
          /\ o1.segs[kSEGMENT_DWARF] # NULL
          /\ Returns(o2)
          /\ agg' = AllFound(o2.segs[kSEGMENT_DWARF])

(* CMachOW::GetVMAddress. *)
GetVMAddress ==
    LET o1 == SegmentsReady(obj) IN
    /\ Made("GetVMAddress")
    /\ IF ~HasSegment(o1, kSEGMENT_TEXT) THEN Returns(o1)
       ELSE IF o1.segs[kSEGMENT_TEXT] = NULL THEN Faults(o1, kSEGMENT_TEXT, NULL)
       ELSE Returns(Touched(o1, kSEGMENT_TEXT))
    /\ UNCHANGED agg

(* CMachOW::GetSHA256BySectionText. *)
GetSHA256 ==
    LET o1 == SegmentsReady(obj)
        o2 == Touched(o1, kSEGMENT_TEXT)
        o3 == [o2 EXCEPT !.segs[kSEGMENT_TEXT] = SectionRead(@, kSECTION_TEXT)]
    IN
    /\ Made("GetSHA256")
    /\ IF ~HasSegment(o1, kSEGMENT_TEXT) THEN Returns(o1)
       ELSE IF o1.segs[kSEGMENT_TEXT] = NULL THEN Faults(o1, kSEGMENT_TEXT, NULL)
       ELSE IF ~HasSection(o2, kSEGMENT_TEXT, kSECTION_TEXT) THEN Returns(o2)
       ELSE IF SectionPresent(o2, kSEGMENT_TEXT, kSECTION_TEXT) /\ there
       THEN Returns(o3)
       ELSE Faults(o2, kSEGMENT_TEXT, kSECTION_TEXT)
    /\ UNCHANGED agg

(* CMachOW::GetSegmentCount and GetSegmentAt, and a getter of what it found. *)
ShowSegment(n) ==
    LET o1 == SegmentsReady(obj) IN
    /\ Made("ShowSegment")
    /\ HasSegment(o1, n)
    /\ IF o1.segs[n] = NULL THEN Faults(o1, n, NULL) ELSE Returns(Touched(o1, n))
    /\ UNCHANGED agg

(* CMachOSegmentW::GetSectionAt, and a getter of what it found. *)
ShowSection(n, c) ==
    LET o1 == Touched(obj, n) IN
    /\ Made("ShowSection")
    /\ HasSegment(obj, n)
    /\ obj.segs[n] # NULL
    /\ HasSection(o1, n, c)
    /\ IF SectionPresent(o1, n, c)
       THEN Returns([o1 EXCEPT !.segs[n] = SectionRead(@, c)])
       ELSE Faults(o1, n, c)
    /\ UNCHANGED agg

(* The file goes away or comes back. *)
SourceChanges ==
    /\ program.onDisk
    /\ fault = NULL
    /\ there' = ~there
    /\ UNCHANGED <<program, obj, agg, fault, loads>>

Next ==
    \/ Load
    \/ ReadHeader
    \/ \E u \in ListUnits : Query(u)
    \/ GetDebugLines
    \/ \E resolved \in BOOLEAN : LookUpSymbols(resolved)
    \/ HasDebugInformation
    \/ \E rows \in BOOLEAN : DumpDebugLines(rows)
    \/ NewMachOW
    \/ GetVMAddress
    \/ GetSHA256
    \/ \E n \in SegmentNames \cup {kSEGMENT_TEXT, kSEGMENT_DWARF} : ShowSegment(n)
    \/ \E n \in SegmentNames, c \in Sections : ShowSection(n, c)
    \/ SourceChanges

Spec == Init /\ [][Next]_vars

-------------------------------------------------------------------------------
(* The commands of the file that a list unit looks for. *)
Hits(u) == Picked(file, Wanted[u])

(* The i-th command is the one that counts for a unit that keeps a single
   one: the last symbol table, the first of anything else. *)
Counts(u, i) ==
    /\ file[i].cmd \in Wanted[u]
    /\ \A j \in DOMAIN file : file[j].cmd \in Wanted[u] =>
          IF u = "symbols" THEN j <= i ELSE i <= j

Repeated(s, k) == [i \in 1 .. k * Len(s) |-> s[((i - 1) % Len(s)) + 1]]

(* A segment whose header is unread knows no section, only NULLs that a
   lookup left there. *)
SegmentOK(s) ==
    /\ s.at \in Segments
    /\ s.loaded \in BOOLEAN
    /\ DOMAIN s.secs \subseteq Sections \cup {kSECTION_TEXT}
    /\ \A c \in DOMAIN s.secs :
          s.secs[c] \in (IF s.loaded THEN BOOLEAN \cup {NULL} ELSE {NULL})

TypeOK ==
    /\ program \in Programs
    /\ there \in BOOLEAN
    /\ obj.done \subseteq Units
    /\ \A u \in ListUnits : \A i \in DOMAIN obj.found[u] :
          obj.found[u][i].cmd \in Wanted[u]
    /\ DOMAIN obj.segs \subseteq SegmentNames \cup {kSEGMENT_TEXT, kSEGMENT_DWARF}
    /\ \A n \in DOMAIN obj.segs : obj.segs[n] = NULL \/ SegmentOK(obj.segs[n])
    /\ obj.symtab \in BOOLEAN /\ obj.lines \in BOOLEAN
    /\ agg \in BOOLEAN \cup {NULL}
    /\ loads \in 0 .. MaxLoads

(***************************************************************************)
(* An aggregator that called itself valid holds sections of the file, and  *)
(* the object goes on holding the same ones (CDWARFAggregator, m_isvalid). *)
(***************************************************************************)
AggregatorBacked ==
    agg = TRUE =>
        /\ HasSegment(obj, kSEGMENT_DWARF) /\ obj.segs[kSEGMENT_DWARF] # NULL
        /\ \A c \in DebugSections \ {kSECTION_DEBUG_RANGES} :
              /\ c \in SectionsOf(kSEGMENT_DWARF)
              /\ SectionPresent(obj, kSEGMENT_DWARF, c)

(***************************************************************************)
(* What the tables hold is the file's: a segment stands for the first      *)
(* command of its name, a segment that was read lists every section of the *)
(* file and no other, and the UUID, version and symbol table are the right *)
(* ones, whenever the source was away and however often CMachO::load ran   *)
(* (the _load of every unit, CSegment::preload); and an aggregator is      *)
(* valid only on what the tables hold.                                     *)
(***************************************************************************)
TablesFaithful ==
    /\ \A n \in DOMAIN obj.segs : obj.segs[n] # NULL =>
          LET s == obj.segs[n] IN
          /\ n \in SegmentNames /\ s.at = FirstOf(n)
          /\ s.loaded => SectionsOf(n) \subseteq DOMAIN s.secs
          /\ \A c \in DOMAIN s.secs : s.secs[c] # NULL => c \in SectionsOf(n)
    /\ \A u \in {"uuid", "version", "symbols"} :
          obj.found[u] \in {<<>>} \cup {<<file[i]>> : i \in {j \in DOMAIN file : Counts(u, j)}}
    /\ obj.symtab => obj.found.symbols # <<>>
    /\ AggregatorBacked

(***************************************************************************)
(* A load takes effect as a whole or not at all.  The segment map is never *)
(* half filled: once it holds one segment of the file it has an entry for  *)
(* each, even if the source went away and came back in between             *)
(* (MachOUnitSegments::_load).  Dependencies and load commands, which are  *)
(* appended and never cleared, are listed at most once for the lazy read   *)
(* and once per CMachO::load.  A UUID that could not be read is still to   *)
(* be read: the unit is not complete and the next caller tries again.      *)
(***************************************************************************)
LoadsAreWhole ==
    /\ (\E n \in DOMAIN obj.segs : obj.segs[n] # NULL) =>
            SegmentNames \subseteq DOMAIN obj.segs
    /\ \A u \in {"dependencies", "commands"} :
            \E k \in 0 .. loads + 1 : obj.found[u] = Repeated(Hits(u), k)
    /\ "uuid" \in obj.done <=> obj.found.uuid # <<>>

(***************************************************************************)
(* In a file that stays, a NULL is only ever met under a name the file     *)
(* does not have: no lookup, in whatever order the clients call, hides a   *)
(* segment or section that exists (getSegment and getSection insert).      *)
(* Three calls look a segment up untested (CFATW::GetSymbols and           *)
(* GetSymbolNameAt, HasDebugInformation, and DumpDebugLines through it);   *)
(* clients that make none of them, on objects with a __TEXT whose __DWARF  *)
(* is complete, never meet one, not even there (CDWARFAggregator's         *)
(* constructor, MachOUnitDwarf, GetVMAddress, GetSegmentAt).  On a disk a  *)
(* stream is NULL only while the file is away (CMachO::getDebugLines); a   *)
(* fault while it is there comes from a NULL a lookup left in the tables.  *)
(***************************************************************************)
Untested == {"LookUpSymbols", "HasDebugInformation", "DumpDebugLines"}
HasAll ==
    /\ kSEGMENT_TEXT \in SegmentNames
    /\ kSEGMENT_DWARF \in SegmentNames => DebugSections \subseteq SectionsOf(kSEGMENT_DWARF)
FaultsOnAbsent ==
    \/ fault[1] \notin SegmentNames
    \/ fault[2] # NULL /\ fault[2] \notin SectionsOf(fault[1])
NullUnder(n, c) == obj.segs[n] = NULL \/ (c # NULL /\ obj.segs[n].secs[c] = NULL)
FaultsExplained ==
    /\ (fault # NULL /\ ~program.onDisk) =>
          /\ program.calls \cap Untested # {} \/ ~HasAll
          /\ FaultsOnAbsent
    /\ (fault # NULL /\ there) => FaultsOnAbsent \/ NullUnder(fault[1], fault[2])

(***************************************************************************)
(* Nothing that was handed out is forgotten: lists only grow at their end, *)
(* a segment or section that was there stays there, read if it was read,   *)
(* also when everything is loaded again.                                   *)
(***************************************************************************)
Extends(s, t) == Len(s) <= Len(t) /\ SubSeq(t, 1, Len(s)) = s

KeptSegment(s, t) ==
    /\ t # NULL /\ t.at = s.at
    /\ s.loaded => t.loaded
    /\ \A c \in DOMAIN s.secs : s.secs[c] # NULL =>
          c \in DOMAIN t.secs /\ t.secs[c] # NULL /\ (s.secs[c] => t.secs[c])

NothingForgotten ==
    [][/\ \A u \in ListUnits : Extends(obj.found[u], obj'.found[u])
       /\ DOMAIN obj.segs \subseteq DOMAIN obj'.segs
       /\ \A n \in DOMAIN obj.segs :
             obj.segs[n] # NULL => KeptSegment(obj.segs[n], obj'.segs[n])]_vars
===============================================================================
