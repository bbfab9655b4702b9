# A TLA+ development for MachOLib

MachOLib is a C++ library that symbolicates iOS crash logs on Windows. It reads
Mach-O objects (alone or in universal binaries, from a path or from memory),
their symbol tables and their DWARF sections, answers which function, file and
line an address belongs to, and shows C++ names as their authors wrote them. It
is sequential: there are no threads, and nothing is persisted by the readers.
What makes it hard is that everything is read lazily and shared. A `CMachO`
reads nothing until it is asked; one object is held by several handles; every
reader of an in-memory object moves the position of the same stream; tables are
filled as a side effect of lookups; names are put together from entries that
earlier questions may or may not have read; and a file on disk can be gone for
one call and back for the next.

## Inventory

| Part | State it keeps | Operations | Depends on | Hard behaviours | What makes it correct |
|---|---|---|---|---|---|
| Section streams (`io/stream_cache.hpp`, `substream`, `stream_file`) | three positions, a buffer and what it holds | seek, read, write | the base stream, shared in memory | stale buffer, other readers, seeks ignored behind the end | the reader sees the bytes of its section as if it were alone |
| Memory streams, numbers (`io/stream_memory`, `stream_dmemory`, `stream_base`, codecs) | bytes, position, reserve, byte order | seek, read, write, copy, swrite, LEB128 | - | growth, ignored seeks, an order changed between write and read, 32-bit shifts | a tape of bytes; numbers come back as they were put |
| Source of streams (`io/source_of_stream`), universal binary (`macho/CFAT`, `CFatArch`) | the shared stream, objects built on demand | validate, load, getMachO, getAllUUIDs | memory or file streams | a position left by the reader before, a wrong count, a source that goes away | every answer is what the file says |
| Mach-O object (`macho/CMachO`, `CSegment`, `CSection`, `base/Loadable`) | which units are complete, what each list collected, the maps of segments and sections | one per client call of `CFATW`, `CMachOW` | source of streams | any order of calls, NULLs left by lookups, a source that goes away | tables hold the file's contents; a NULL only for what does not exist |
| Symbol table (`macho/CSymbolTable`), resolver, wrappers | symbols ordered by address, a cached name in each | lookup, list, names of rows | source | empty table read again, four readers of one cache | nearest symbol at or below, by its own name |
| Symbol package (`utility/zip/SymbolsPack`) | records, strings | getSymbol | zlib | parts read at different times, parts that do not unpack | the nearest symbol of the UUID |
| Address ranges (`dwarf/CDWARFArangeTable`) | table ordered by end | parse, getRangesBy | section stream | malformed sets, adjacent, empty and wrapping ranges | the unit found is right, and found where the format allows |
| Line tables (`dwarf/CDWARFDebugLine`) | registers, rows, extent; names; tables by offset and extent | one per opcode, extract, parse, lookups | section stream | sequences in any order, a prologue that lies or is refused | each byte of code gets the row and the file that describe it |
| Range lists (`dwarf/CDWARFRangeTable`) | table of lists ordered by offset | isInRange | section stream | lists inside lists, offsets behind the section | an answer does not depend on earlier questions |
| Abbreviations, attribute values (`dwarf/CDWARFAbbreviationTable`, `CDWARFFormValue`) | declarations by code; a value that may hold a string | parse, read, skip, assign, copy | streams | a section cut anywhere, two readers of every form, one storage for two types | what the producer wrote, in step, each string destroyed once |
| Compile units (`dwarf/CDWARFCompileUnit*`, `CDWARFDebugInfoEntry`) | flat table of entries with depths, entries extracted on demand | parse, getDIEIdxsBy, parents, children | abbreviations, values, range lists | a level too many, walks through the flat table, entries half read | the tree of the section |
| Symbolication (`dwarf/CDWARFAggregator`) | all DWARF tables, each built at its first use; streams kept | getInfoByAddress, getNameBy, clean | all of the above | references between entries, tables of a file that vanishes, a row that is not there | names and lines of all frames at the address |
| Search (`utility/CSearchMachO`, `CDirectory`) and handles (`CMachODSym`, `CMachOApplication`, `CMachODyLib`) | queue of folders; UUIDs of a handle | Search | file system, universal binary | files that vanish, folders in themselves, a break | every image found once |
| Crash log (`utility/CMachOCrashLog`) | image, libraries, type | Parse | - | lines that break off, an image that is read twice | one scan's fields stay together, every image is linked |
| Builder (`utility/MachOBuilder`) | the object written so far | BuildMiniMachO | object, memory stream | sizes and offsets computed beforehand | what is written is read back |
| Demangler (`libiberty/cp-demangle.c`, `utility/demangler.hpp`) | components, substitutions, template scopes, waiting modifiers | demangle | - | substitutions by number, declarators inside out, arrays of fixed size | the declaration the compiler mangled |

The SHA-256 code, `SmallVector` and zlib are vendored or external. There are no
tests in the repository; its claims about itself are the change log in
`ReadMe.md` and comments.

Interaction is by calls. A client holds a `CFATW`, takes a `CMachOW` per
architecture, and asks for names. `CMachOW` builds a `CDWARFAggregator` over the
segments of the object. `getInfoByAddress` goes from the address-range table to a
compile unit, through its entries (and their range lists) to a function, and to
the unit's line table for the line; when any of that fails it falls back to the
symbol table. All of these read through section streams, and every name that is
shown goes through `demangle`.

## Modules

| Module | Models | State | Actions |
|---|---|---|---|
| `ByteStream` | what a parser relies on: the bytes of a section and a position (abstract) | content, position, bytes delivered | seek, read, write |
| `StreamCache` | `stream_cache` over `substream` over the base stream | the data, three positions, the buffer | `Seek`, `ReadHit`, `ReadMiss`, `ReadDirect`, `Write`, another reader moving the base |
| `StreamCacheProofs` | proofs about `StreamCache` | | |
| `ByteTape` | what a memory stream promises (abstract) | `tape`, `at` | `Put`, `Move` |
| `MemoryStream`, `BytesProofs` | `stream_memory`, `stream_dmemory`, the numbers and texts of `stream_base` | `buffer`, `pos`, `reserved`, `held` (what is allocated), `big`, `copying` | `seek`, `t_read`, `t_write`, `read_sz`, `write_sz`, `set_encoding`, `Copy`, `swrite` step by step |
| `Leb128`, `BytesProofs` | `read_uleb128`, `read_sleb128` | bytes read, `shift`, `out` | a byte, the return |
| `MachObject`, `MCMachObject`, `MachObjectProofs` | one `CMachO` with its units, segments and sections | `program`, `there` (the source can be opened), `obj`, `agg`, `fault`, `loads` | one action per client call; `SourceChanges` |
| `FatLoader`, `FilesProofs` | `CFAT` over `source_of_stream` | `pos` of the stream, `call`, `machos`, `loaded` | `Begin`, one action per read of a call, `SourceChanges` |
| `SortedTable` | what the tables use of `std::sort`, the bounds and `vector::insert` | | operators |
| `SymbolLookup` | `CSymbolTable` and its readers | `symbols` with cached names, `there` | `getInfoBySymbolTable`, `GetSymbolNameAt`, `resolve`, `GetSymbols`, `SourceChanges` |
| `SymbolPack` | the reader of a package | `records`, `strings`, `there` | `getSymbol`, `getSymbolUnopened`, `SourceChanges` |
| `ArangeTable`, `MCArangeTable`, `ArangeTableProofs` | `CDWARFArangeTable` and proofs about it | `section`, `next`, `ranges`, `found` | `ParseSet`, `ParseEnd`, `GetRangesBy` |
| `LineTable`, `MCLineTable`, `LineTableProofs` | `CDWARFLineTable`: the state machine | `row` (registers), `rows`, extent; `emitted` is a history variable | one per opcode, `ParseEnd`, `lookupAddress` |
| `LinePrologue` | the prologue and `DW_LNE_define_file` | `pos`, `prologue`, `end_prologue` | one per part of the head, `ReadDirectory`, `ReadFile`, opcodes, `EndProgram` |
| `LineTables` | `CDWARFDebugLine`: the tables of a section | `pos`, `table`, `answer` | the calls, prologue refused or accepted, an opcode, the ends |
| `RangeLists` | `CDWARFRangeTable` behind `isInRange` | `table`, `query`, `inRange` | `isInRangeKnown`, `isInRangeNew` |
| `AbbrevTable` | `CDWARFAbbreviationTable` | `pos`, `abbr`, `m_map` | `Begin`, `ReadAttribute`, `EndDeclaration`, `End` |
| `FormReader`, `BytesProofs` | the parsing and the skipping reader of `CDWARFFormValue` on one entry | what each has read | `parse`, `Skip` of the next attribute |
| `FormValue`, `BytesProofs` | the storage of a `CDWARFFormValue` | which slots exist, their type, which hold a string | construction, assignment, copy, parse with its indirections, destruction |
| `CompileUnit` | `CDWARFCompileUnit` | `depth`, `entries`, `m_base_address` | `Extract`, `Close`, `getDIEIdxsBy` |
| `DebugTables` | the tables of `CDWARFAggregator` and its `CDWARFCompileUnitTable` | streams kept, tables made, units parsed, `there` | a question step by step, `clean`, the file going and coming |
| `Aggregator` (extends `CompileUnit`) | from a unit to frames with names and lines | the chain, the entry looked at, `frames`, `fault` | the walk from reference to reference, the spelling, the lines |
| `SearchMachO`, `FilesProofs` | `CSearchMachO` and the handles | `queue`, the folder being walked, `reported`, what is `gone` | one per folder and file, `EndWalk`, the observer's break, `Vanish` |
| `CrashLog`, `FilesProofs` | `CMachOCrashLog` | the part read next, `image`, `links`, `type` | `ReadPath`, `FirstLine`, `NextLine`, `LinesEnd`, `ParseType` |
| `MiniMachO`, `FilesProofs` | `MachOBuilder::BuildMiniMachO` and a reader of its result | `out`, `size` | one per part written |
| `V3Components`, `V3Parser`, `V3Printer` | `cp-demangle.c`: components and substitutions, the grammar, the printer | a `d_info`, a `d_print_info` | operators, one per function |
| `V3Mangler` | what they are measured by: entities, how the ABI mangles them and how C++ declares them | | operators |
| `Demangler`, `MCDemangler` | `demangle()` and what it tries in turn | the name, what was parsed and printed | `d_demangle_parse`, `d_demangle_print`, the older styles, the retry without the underscore |

Four MC modules compose parts that one run checks together: `MCBytes`
(`MemoryStream`, `Leb128`, `FormReader`, `FormValue`), `MCDebugSections`
(`RangeLists`, `LineTables`, `AbbrevTable`, `LinePrologue`),
`MCAddressNames` (`CompileUnit` and `Aggregator`, `DebugTables`, `SymbolLookup`,
`SymbolPack`) and `MCFiles` (`FatLoader`, `SearchMachO`, `CrashLog`, `MiniMachO`).
`BytesProofs`, `DebugSectionsProofs`, `AddressNamesProofs` and `FilesProofs` are about
all of them, in this order. The parts
of one such module share no state in the code, so a behaviour runs one of them,
named by the constant variable `part`, and the variables of the others are the model
value `Idle`; a product would multiply states without a new behaviour. Where
parts do share state they are in one module: all calls on an object, all readers
of a symbol's cached name, a unit and what the aggregator makes of it, a shared
stream and the objects read through it.

Definitions keep the names of the source. A call of the library is one action,
with everything it changes, where nothing can come between its steps; where the
file can vanish meanwhile, where a loop may not end, or where what is checked is
the place a step leaves a stream at, a call takes a step for each read or
element. Where the library does not promise an order (elements with equal keys
after `std::sort`), the model allows every order. A definition marked "mutant"
is a plausible bug in the definition below it; no behaviour uses it.

Abstractions. A stream's bytes are members of a small set. Load commands are
records with a kind, a name and an identity. In `MachObject` the source is
either available or not for the length of one call. In `ArangeTable` a section
is a sequence of sets, a header is accepted or refused, and all tuples have one
width. In `LineTable` the registers that are never read after the parse are left
out and a program may end after any opcode; `LinePrologue` has the end of the
program and the names, a cell for each character or number; `LineTables` has of
each table its length, its extent and whether the prologue is accepted. In
`RangeLists` offsets count entries. In `CompileUnit` a section is a sequence of
items: entries, NULL entries and entries that cannot be skipped; `FormReader` has
the bytes of one entry. In `DebugTables` a file is which unit has an address and
which units parse. `SymbolPack` and `DebugTables` have a part that unpacks or
parses, or does not. `CrashLog` has the words of the image lines and
where each line begins, since `swscanf` passes over the ends of lines, and UUIDs
up to case; a carriage return is the end of one more, blank line. A log that
`SearchMachO` calls one is a report `Parse` does not throw on. The demangler
has names character by character, since its parser is about nothing else, and
shows texts as sequences of words.

Integers keep their width where the code cuts or wraps them, by constants that
are small in the runs: `AddressMod` (2^64) where ranges are added to a base,
`DepthMod` (2^32) of depths and call lines and `FileMod` (2^16) of file numbers in
`CompileUnit` and `Aggregator`, `Lines` and `Files` (2^16) in `LineTable`, `Codes` (2^32)
and `Kinds` (2^16) in `AbbrevTable`, whose declarations have numbers below them: a
declaration with larger ones is not one the code can keep. Of the padding a
producer may leave between the tables of a prologue and its end, `LinePrologue`
has opcodes without operands.

## Runs

| Run | Question | Bounds and why they are enough |
|---|---|---|
| `stream_shared_memory` | is the stack of streams the plain section stream it is taken for, when other readers move the base and others write | a buffer of 2, a section of 2 at offset 1 in 4 bytes, requests up to 3: all relations of request, buffer and section end occur |
| `object` | what can the tables of an object hold, and when does a client meet a NULL, in every order of calls | `Programs`: a stripped, a complete, a rangeless, a doubled and an empty object in memory; two that may vanish and come back at any time; two whose clients make no call that looks up without testing. One explicit load |
| `aranges` | is the unit found right, and which addresses are lost | two sets, three ranges in all, lengths 0 to 3 in an address space of 5, so that ranges touch, nest, overlap and wrap |
| `line_table` | does a lookup answer with a nearest row, and each byte of code get its row | `Encoders`: programs of 5 opcodes of every kind, and of 7 opcodes with two sequences in either order; an address space of 5, line numbers modulo 8, file numbers modulo 4, one of which is cut, up to 4 rows |
| `line_seam` | the change log's claim about previous lines; TLC finds it violated | two sequences, one behind the other |
| `debug_sections` | do kept tables, cut sections and prologues with opcodes between files and program give back what the producer wrote, and does every parse end | range sections of up to 3 entries with a base selection; every line section of 3 units; two declarations with two attributes, cut anywhere; two directories, two files and two defined ones |
| `address_names` | does every way from an address to a name lead to the right one, whatever was asked before | units of up to 4 items of every kind behind a root and of 6 of three, at depths modulo 32, larger than any unit, with and without a base for their ranges, addresses modulo 64; one unit with a namespace, a class, a method and an inlined call in many variants of its references, types and rows, of calls without a line or file and with ones that are cut (files modulo 8); every assignment of 2 addresses to 2 units of which any parse; up to 3 symbols of every kind on 3 addresses; packages of up to 2 records of 2 symbols |
| `files` | are objects, images, reports and reduced objects what the files say, though streams are shared, files vanish and lines break off | binaries with a count of 0 to 3, entries that point to objects or not, two loads; trees five deep with bundles, a folder in itself, searches that start at a root, a file, a bundle, a folder below, a folder named like a crash log or a path of one level; reports of up to 3 lines, whole, short of words, blank or with a path on a line of its own; 5 symbols and 3 words of strings |
| `bytes` | is the memory stream a tape, do numbers, texts and attribute values survive | bits for bytes, 4 of them, a reserve of 2; digits of 3 bits, an int of 8 and a long of 16; entries of two attributes of every form, cut anywhere; three values, one in each state, of one form per type |
| `form_string` (`MCBytes`) | is a string that stands in the entry read whole; TLC finds it violated | strings of up to 5 characters |
| `demangler` | does each mangled name come back as it was declared, within the arrays the code reserves | types three deep, pairs of types, methods, constructors, local names, templates with parameters, packs and expressions two deep, each in up to four forms; every prefix of a selection, typed lists among them, and symbols that are no names |
| `demangler_packs` | is the space between two > kept; TLC finds it violated | a template argument in front of an empty pack |

What they show.

* Streams: the cached section refines `ByteStream`, under other readers and
  writers; the memory stream refines `ByteTape`, whatever order of seeks and
  writes, although a seek to the end is ignored. A write leaves the allocated
  block only in a stream that was copied, which nothing in the sources does.
* `object`: the tables are always the file's; a NULL left by a lookup is only met
  by a client who asks for what is not there, and on a disk a NULL stream is only
  used while the file is away. Three calls leave such a NULL, since they look a
  segment up without testing for it: `GetSymbolNameAt` (with `GetSymbols`),
  `HasDebugInformation` and `DumpDebugLines`, which asks the one before
  (`CFATW.cpp:172`, 180); a stripped object for which `DumpDebugLines` and then
  `NewMachOW` are called faults. On an object in memory that has a __TEXT, and a
  complete __DWARF if any, clients who make none of the three never meet a NULL.
* Lookup by address: `ArangeTable` finds the right unit or none; an address it
  loses has another range ending between it and the end of its own, which is
  how the first address of a range adjacent to another is missed. A symbol is
  the nearest one, and has a name if the file could be read and no other symbol
  shares its address.
* Debug sections: a section that is cut gives a prefix of what was written;
  a section as long as its headers claim is parsed to the end. The tree of a
  unit is found again as long as its root encloses all other entries, and so are
  the entries at an address if the unit has a base: `isInRange` adds a range to
  the base without asking for one (`CDWARFRangeTable.h:47`), and the invalid base,
  2^64 - 1, shifts ranges down by one and loses those that begin at 0.
* Symbolication: a frame's name depends on the entries alone, not on which of
  them earlier questions have read; tables are never left half made, and a
  missing stream is used only while the file is gone. A row or file that is not
  there is used only for units no correct producer writes. A call without a line
  is shown at line 2^32 - 1, by the cast (`CDWARFAggregator.cpp:283`).
* Files: sharing one stream in memory can make a valid universal binary be
  refused or loaded with fewer objects, never with a wrong one. A search reports
  each image once, nearest first; a path of a single level is never taken for a
  bundle, and a folder named like a crash log is read as one and walked.
* Crash logs: the loop over the images begins at the end of the token's own line,
  so the first image is read again and linked, the crashed one usually with
  itself; it is not linked if it stands on the token's own line. A line that lacks words
  takes them from the next. The crashed image is nevertheless of one scan. A
  "Path:" followed by a blank makes `Parse` throw (`CMachOCrashLog.cpp:335`),
  and with it a search that meets the log.
* Demangling: thousands of declarations come back as declared, and neither a
  whole name nor one cut off exceeds the arrays or reads past its end, unless the
  cut is right behind the code of a typed list, as in `_Z1fIXtl`.

Three runs are disagreements of the code with what the repository says:

* `line_seam` with `ReadMe.md:50`, which says that the issue of previous lines is
  fixed: where a sequence begins at the address another ends at, the row found
  can be the end row of the other, with the previous code's line.
* `form_string` with `CDWARFFormValue.cpp:363`: a string of three or more
  characters is cut, since the limit is `sizeof(8192) - 1`, and the next
  attribute is read from its middle.
* `demangler_packs` with `cp-demangle.c:4482`: after an empty pack was taken back,
  the test for two > in a row looks at a stale character.

Others that were met while modelling, and that the properties leave out: a
crash's type deduced from the exception is not assigned
(`CMachOCrashLog.cpp:412`, against `CMachOCrashLog.h:14`), so `ParseType` has only
what the rest of the report tells; LEB128 numbers beyond 32
bits lose bits (`stream_base.cpp:77`, against `ReadMe.md:29`), so exactness is
stated of those below; the type in front of an initializer list is taken from
the t of its own code (`cp-demangle.c:3145`, against line 3142), so such lists are
outside `RoundTrip`, and
a name that ends in `tl` is left past its terminating zero (`cp-demangle.c:3146`,
against `cp-demangle.h:132-136`), which `BoundsKept` allows of such names only; `CMachOW::GetUUID` (`CMachOW.cpp:22`) pairs the `begin` of one
temporary with the `end` of another; `read_sz` leaves a text of 4096 or more
characters without its end (`CDWARFDebugLine.cpp:133`); type suffixes are spelled
from the outside in (`CDWARFAggregator.cpp:454`), so their order is compared with
C++ only where it makes no difference; a list of range entries that selects a
base is read as if it did not (`CDWARFRangeTable.cpp:37`); and a 64-bit reduced
object loses its last four bytes (`MachOBuilder.cpp:109`), which `RoundTrip64`
states.

### Fairness and liveness

Weak fairness is assumed of the steps inside a call only: `WF(Run)`, `WF(Work)`,
`WF(Parse)`, `WF(Search)`. The library is sequential and never waits, so a call
that has begun takes its next step. Nothing is assumed of clients, of the
observer who may break a search, nor of the file system: a file need not vanish
or come back. Under that fairness every parse, question, search and copy ends
(`ParsesEnd`, `QuestionsEnd`, `CallsReturn`, `SwriteReturns`). Three limits are part
of the properties: the parse of line tables ends in sections as long as their
prologues claim (`CDWARFDebugLine.cpp:239` loops in shorter ones); a name is found
unless references form a circle; a search of a folder that holds itself ends
because its paths become too long to list.

The deadlock check is off where a model stops for good: a dereferenced NULL is a
crash after which nothing happens, and a parse, a search or an object that is
done stays so.

## Proofs

`StreamCacheProofs` proves, for every buffer size, section, file length and
alphabet satisfying `StreamAssumption`, so also for a private file and for a file
shorter than its section header claims, which no run has:

* `TypeCorrect`: `Spec => []TypeOK`.
* `CacheIsCoherent`: `Spec => []CacheCoherent`. The inductive invariant is type
  correctness and coherence together: that a refill labels the buffer with the
  place its bytes come from needs the positions to be inside the section, which
  is what the type invariant says of them.
* `WritesStayInside`: no step changes a byte outside the section through it.
* `StackImplementsByteStream`: each initial state and each step of the stack is
  an initial state and a step, or a stutter, of `ByteStream` under the mapping
  in `StreamCache`: every read delivers the bytes that are left, also one that
  asks for more than that.

`ArangeTableProofs` proves all that is checked of `ArangeTable`, for every
section and every width of addresses, from `TopAssumption`,
`SectionsAssumption` and `NULLAssumption`:

* `TableInvariant`: `Spec => []IInv`. None of the properties is inductive: they
  speak of the section and the last answer, and hold because of the table in
  between. `IInv` says what the table is while it is filled (exactly the ranges
  of the sets that were read, `Filled`), what it is afterwards (ordered by end,
  and complete because the next set cannot be read, `Parsed`), and that the last
  answer is the one this table gives (`Answered`).
* `TypeCorrect`, `FoundAlwaysRight`, `InnerAddressAlwaysFound` and
  `LostAlwaysBehindAnEnd` follow from `IInv` without looking at a step again;
  the last two rest on `FirstEnd`, that the place of the lower bound ends
  between the address and the end of any listed range behind it.

`MachObjectProofs` proves all that is checked of `MachObject`, for every object,
every set of clients and any number of loads (`ProgramsAssumption`,
`MaxLoadsAssumption`, `NULLAssumption`):

* `ObjectInvariant`: `Spec => []IInv`. The hard part is which names may hold a
  NULL: a lookup of a segment or section that is not there leaves one in the
  map, and a file that is away leaves one for what is there. `SegmentsOK` says
  what a segment that is there holds, and that one segment brings all of them;
  `InMemory` that a stream in memory leaves NULLs only for what does not exist,
  and none at all if clients make none of the three untested calls on an object
  that has what the others ask for; `ListedOK` that a list was appended
  once by the lazy read and once per explicit load.
* A client call is a composition of a few operators on the object. `Step`, the
  relation of an object before and after one of them, is transitive and keeps
  `ObjInv`; so a call inherits both from its parts, and the proof has a lemma
  for each operator and a line for each call.
* `TypeCorrect`, `TablesAreFaithful`, `LoadsWhole` and `NullsExplained` follow from
  the invariant, the action property `NothingIsForgotten` from `Step`.

`LineTableProofs` proves all safety that is checked of `LineTable`, for every
program of opcodes and every prologue that `PrologueAssumption` admits:
`TableInvariant`, and from it `TypeCorrect`, `NearestAlwaysFound` and
`DescribingRowFound`. While it parses, the rows are those emitted and the ends of
sequences lie inside the extent (`Emitted`); afterwards the table has the same
rows by address (`Arranged`). That a byte's own row is found is then a matter of
the table alone: in the programs `RowOfByte` speaks of no other row lies between.

`DebugSectionsProofs` proves all safety that is checked of `MCDebugSections`, for
every section, set of declarations and prologue that the constants admit:
`TablesInvariant`, and from it `TypeCorrect`, `KeptTablesAlwaysAnswer` and
`ProducersAlwaysRead`.

* Range lists: every set kept is the list at its offset, by offset, no offset
  twice, and the last answer is that list's (`ListsKept`, `RangeAnswered`).
* Line tables: every table kept is the section's at its offset, none twice, and
  they are in order of their ends whenever one is searched, which is not so in the
  middle of a parse (`TablesKept`); a parse stands behind all tables it has read,
  an extraction at one that nobody has read (`CallStands`).
* Declarations: a number n of them was read. The map has their codes, for each
  the first of the producer's, shortened only if the section ends in it
  (`Known`), and the parse stands where declaration n ends or behind an
  attribute of the next, or where a shorter section does (`Stands`).
* Prologues: the same for directories, files and definitions (`StandsAt`): the
  place is that of the k-th name and the first k have been read, or the section
  has ended and what was read is a prefix whose last name is shortened at most.
  It is claimed only if names fit in the buffer they are read into.

`FilesProofs` proves all that is checked of `MCFiles` but that calls return.
First `LoaderInvariant` and `ObjectsAlwaysTheFiles`, for every
file, in memory or on a disk where it comes and goes, and any sequence of calls.
Between two entries, those read so far point to objects (`Validated`), one
object was made for each (`Made`), and the stream stands behind them, or, when
it is shared, where no entry is; the objects kept are all of the file's or none,
and those whose UUID was read come first (`OfFile`). `FatAssumption` says how a
file is laid out: a magic only begins a file, and its entries follow it without
a gap. Of the other three parts:

* `ParserInvariant` and `LogAlwaysTheReports`, for reports of any length whose
  lines break off anywhere and run into each other. The invariant follows the
  lines the loop has read: the image is that of the last of them with the report's
  path, else of the first scan (`ImageRead`), and a name is linked to the UUID of
  its first line (`LinksRead`). That the first scan's image is linked with itself
  rests on `FirstAgain`: the line below the token is the same words.
* `MiniInvariant` and `ReducedAlwaysReadBack`, for any number of symbols and any
  size of the string table (`MiniAssumption`). What is written so far has the words
  a reader needs at their places (`IsWord`), and ends where the step or the buffer
  does; the buffer is sized for a header of 32 bits and entries of the other
  width, and the theorem says what that costs a 64-bit object.
* `SearchInvariant` and `SearchFindsTheTree`, for every file system that
  `WorldAssumption` admits: entries of one folder have different names, and images
  of one binary different UUIDs. A folder may hold itself or be held by several.
  That no path is reported twice rests on `Fresh`: nothing below a queued folder,
  nor an entry not yet looked at, has been queued or reported; and that on
  `ByDepth`, since an entry queued now is deeper than all that was met. That
  nothing is missed is `Covers`: what is expected has been reported, or lies below
  a queued folder or is an entry not yet looked at. What is expected is defined
  apart from the search, by depth, and `OpenedBelow` and `ExpectedFacts` say
  what its recursive definition amounts to.

`BytesProofs` proves all safety that is checked of `MCBytes`, for every base of a
byte, size of a buffer, width of a payload, an int and a long, entry and unit that
`MemoryAssumption`, `LebAssumption`, `FormReaderAssumption` and `FormValueAssumption`
admit: `BytesInvariant`, and from it `TypeCorrect`, `StreamAlwaysKeeps` and
`AttributesAlwaysKept`; and `StreamIsATape`, that a stream in memory implements
`ByteTape`.

* Streams: a stream that is no copy has the block it thinks it has (`BlockKept`),
  which is what keeps its writes inside. While a copy from another stream runs,
  the bytes behind its start are the first of the other's, and the other has the
  rest of them left unless there was no room (`Putting`); so a copy that
  reports a size has put them all. `WriteFacts` says what any write does, fixed
  or growing; each operation that writes, and each `Put` of the tape, is an
  instance of it. Numbers come back because a byte of either order holds the
  digit whose weight the decoder gives it (`EncodedFacts`, `DecodedFacts`).
* LEB128: the payloads read so far are a number below the power of their width,
  and the result is that number as long as it fits an int (`LebInv`). A new
  payload is put together with it by a bitwise or, which is a sum since no bit is
  in both (`OrIsSum`). Powers of two have no theory in the provers: that they
  double is counted on the subsets of an interval (`PowerFacts`).
* Readers of attributes: each stands where the sizes of the attributes it has
  read put it, and goes on only if every one of them was good (`ReaderKept`); the
  two are then the same, as the position is a function of what was read.
* Values: what is checked is inductive as it stands (`HeldInv`).

`AddressNamesProofs` proves all safety that is checked of `MCAddressNames`, for
every table of symbols, package, file of debug tables and unit that
`SymbolAssumption`, `PackAssumption`, `FilesAssumption`, `CompileUnitAssumption` and
`AggregatorAssumption` admit: `KeptInvariant`, and from it `TypeCorrect`,
`NearestAlwaysNamed`, `TablesAlwaysAnswer`, `EntriesAlwaysTheTree` and
`FramesAlwaysTheUnits`. All five parts fill something on the first question and
keep it for the next ones.

* Symbols: the table is the file's by address, and a cached name
  is the symbol's own, whichever of the four readers cached it (`SymbolsKept`), so
  no reader's answer depends on who came before.
* Packages: the records are those of the last block with each UUID, or none yet
  (`PackKept`).
* Debug tables: each is whole or absent, also when the file went away in the
  middle of a question (`TablesInv`); the invariant says which of them the
  question has made at each of its steps, and that no answer is there before the
  last.
* Units: every entry passed is kept, in order, with the level it was found at as
  long as no level fell below the unit's own (`Listed`, `Sound`); the counter wraps
  where it did. `Above`, opened less closed items, is that level. An
  entry encloses another exactly if all between are deeper (`TreeFacts`); from
  there the walks to parents, the runs of children and the answer (`Told`) are
  about a list of depths alone, and each walk has an invariant of its own.
* Frames: none of the four properties is inductive, since they are about an answer
  that is whole and the entries in the unit, and a question is put together over
  many steps from entries read so far. `FrameInv` says how far it has come. The
  entry the search for a name is at leads, as the references in the unit have it,
  where the entry it began at leads (`FollowsAt`, `LeadsTo`), however long the way:
  the search ends at the entry that the unit alone determines (`NamedItem`). Every
  frame but the last is named as that entry is (`Fits`), with its scopes and its
  parameters, since all that is spelled is read first, if it was not yet. Lines run one frame behind names (`ToldAt`). More
  reading changes no name that was told (`ReadsOn`). That what the search reaches
  is what the unit says rests on `PassedOnce`: a way that ends passes no entry
  twice, so the walk of the reference definition, which is as long as the unit,
  goes to its end.

The last four modules are about `MCDebugSections`, `MCFiles`, `MCBytes` and
`MCAddressNames`, which are the specifications the runs check: the invariant is that
of the part that runs, and a step of another part leaves `part` alone. Each
action has lemmas of its own; the temporal theorems combine them at the end.
Each inductive invariant was checked by TLC on the run's instance before it was
proved, with what TLC cannot enumerate (an unbounded quantifier, a set of records
over the naturals) written out.

What proving changed in the models. `RangeLists` compares with a list read
afresh only where a base and an entry stay inside the address space, since the
code adds them in the width of an address; `LineTables` has tables without rows,
whose extent is empty, and tables whose extent starts before it ends; the
constants of the composed modules are those of their parts, with the parts'
assumptions, in place of the sets of one run. `CompileUnit` and `Aggregator` walk
by recursive functions, which a theorem can be about, in place of recursive
operators; `AbbrevTable`, `LinePrologue` and `CompileUnit` put sequences together
with `FlattenSeq`; `SearchMachO` picks entries and `MiniMachO` lays out symbols by
functions too, and `Leb128`, `FormReader` and `MemoryStream` add, or and decode by
functions, with a bitwise or defined by quotients and remainders.
`HandlesAreTheImages` expects a bundle's image under the bundle's own
name only if a file, not a folder, has that name. `CompileUnitAssumption` says what
makes the ranges of an entry those its producer meant (`Covered`), and that a unit
has fewer items than there are depths, as its length has 32 bits: `DepthMod` is
larger than the longest unit of a run. `AnswerIsTheUnits` says what
`getDIEIdxsBy` does for a unit whose own entry is a subprogram: nothing
inside that one is looked at, as it is at depth 0. In `Aggregator` an entry at which
a search for a name ends is one that `Stays`: an inlined subroutine whose origin
is itself was taken for such an end before, and the search it stands for
does not end. `AggregatorAssumption` says of a unit with code that its first item is
an entry and that every address has a row or none; `FilesAssumption`, what an
entry of the address table can be. An address is asked of a unit either for its
entries or for its frames, which extend them: the two are parts of one module.

### What is only model-checked

* Liveness, and what depends on `ENABLED`: outside of what the proof system does.
* The demangler: recursive operators over trees, in modules that cannot hold a
  theorem.
* What a recursive definition computes for every input, where it needs induction
  with a predicate as a parameter. Where a least counterexample is enough, the
  proofs take one from the well-founded order of the naturals (`WFMin`), or
  cite `Induction`, which says of a set of numbers what that order gives.

## Plan

Done: all modules above, and the proof of every safety property any run checks
outside the demangler. What could follow: a printer and a parser of the
demangler by recursive functions, so that theorems about the arrays they
fill (`BoundsKept`) come within reach of the proof system.

## Not modelled

* `CDWARFCompileUnitTable::parse`, `CDWARFRangeTable::parse`, `findDeclaration` and
  `SmallVector` have no caller.
* Demangling in the styles of older compilers (`cplus-dem.c`) and of Java (the
  style; Java's resources are in the grammar and in `V3Parser`): the options
  `demangle` passes reach the former only for symbols that no compiler for
  iOS emits, and the latter not at all. `MCDemangler` has symbols of the old style,
  which are shown as they are or as the old code shows them, unspecified.
* `BuildMultiFat` writes reduced objects into a universal binary and throws its own
  result away; its caller hands it no stream.
* The code signature unit of an object, which only the builder of hashes asks
  for, and the byte order it leaves the stream in; `MemoryStream` has a change of
  order between any two numbers.
* Compression, SHA-256, the text of UUIDs, values and log lines, counters of
  references: conversions and libraries no property is about.
* Undefined behaviour inside one expression or behind a buffer, where the model
  stops at the fault.
