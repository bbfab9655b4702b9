-------------------------------- MODULE MCFiles --------------------------------
(***************************************************************************)
(* What the library does with whole files: it loads universal binaries,    *)
(* searches folders for images, reads crash logs and writes reduced        *)
(* objects.  One of the four in each behaviour: they share no state.  The  *)
(* variables of the others are Idle.                                       *)
(***************************************************************************)
EXTENDS Integers, Sequences

CONSTANTS
    Contents, Worlds, Reports,       \* inputs
    MaxLoads, MaxPath, MaxSymbols, MaxStrings,
    UUIDs, NONE, Idle

VARIABLES
    part,                            \* constant: what is done
    content, inMemory, there, pos, call, machos, loaded, loads, answer, \* FatLoader
    at,                              \* SearchMachO, CrashLog, MiniMachO
    world, gone, queue, current, files, folders, broken, reported, \* SearchMachO
    report, line, image, links, type, \* CrashLog
    object, size, out                \* MiniMachO

Fat == INSTANCE FatLoader
Find == INSTANCE SearchMachO
Log == INSTANCE CrashLog
Mini == INSTANCE MiniMachO

ASSUME FatAssumption == Fat!FatAssumption
ASSUME WorldAssumption == Find!WorldAssumption
ASSUME ReportAssumption == Log!ReportAssumption
ASSUME MiniAssumption == Mini!MiniAssumption

fatOnly == <<content, inMemory, there, pos, call, machos, loaded, loads, answer>>
findOnly == <<world, gone, queue, current, files, folders, broken, reported>>
logOnly == <<report, line, image, links, type>>
miniOnly == <<object, size, out>>
all == <<part, fatOnly, at, findOnly, logOnly, miniOnly>>

NoFat ==
    /\ content = Idle /\ inMemory = Idle /\ there = Idle /\ pos = Idle /\ call = Idle
    /\ machos = Idle /\ loaded = Idle /\ loads = Idle /\ answer = Idle
NoFind ==
    /\ world = Idle /\ gone = Idle /\ queue = Idle /\ current = Idle
    /\ files = Idle /\ folders = Idle /\ broken = Idle /\ reported = Idle
NoLog == report = Idle /\ line = Idle /\ image = Idle /\ links = Idle /\ type = Idle
NoMini == object = Idle /\ size = Idle /\ out = Idle

Init ==
    \/ part = "fat" /\ Fat!Init /\ at = Idle /\ NoFind /\ NoLog /\ NoMini
    \/ part = "find" /\ Find!Init /\ NoFat /\ NoLog /\ NoMini
    \/ part = "log" /\ Log!Init /\ NoFat /\ NoFind /\ NoMini
    \/ part = "mini" /\ Mini!Init /\ NoFat /\ NoFind /\ NoLog

NotOfFat == UNCHANGED <<part, at, findOnly, logOnly, miniOnly>>
NotOfFind == UNCHANGED <<part, fatOnly, logOnly, miniOnly>>
LogNext == part = "log" /\ Log!Next /\ UNCHANGED <<part, fatOnly, findOnly, miniOnly>>
MiniNext == part = "mini" /\ Mini!Next /\ UNCHANGED <<part, fatOnly, findOnly, logOnly>>

Next ==
    \/ part = "fat" /\ Fat!Next /\ NotOfFat
    \/ part = "find" /\ Find!Next /\ NotOfFind
    \/ LogNext
    \/ MiniNext

(* A call runs until it returns; nobody has to break a search off. *)
Run ==
    \/ part = "fat" /\ Fat!Run /\ NotOfFat
    \/ part = "find" /\ Find!Search /\ NotOfFind
    \/ LogNext
Spec == Init /\ [][Next]_all /\ WF_all(Run)

-------------------------------------------------------------------------------
(* What a binary is found to hold, by whichever call and in whatever order, is
   what its file claims: objects, their UUIDs and a list of them that is
   complete, though calls on a source in memory share one stream. *)
ObjectsAreTheFiles ==
    part = "fat" =>
        /\ Fat!TypeOK
        /\ Fat!ValidateTruthful /\ Fat!MachosAreTheFiles
        /\ Fat!LookupRight /\ Fat!ListComplete

(* A search reports every image once, the nearest first, each with its own
   UUIDs, in a tree that nobody changes, and nothing twice in any. *)
ImagesAreTheTrees ==
    part = "find" =>
        /\ Find!TypeOK
        /\ Find!EachPathOnce /\ Find!NothingMissed
        /\ Find!NearestFirst /\ Find!HandlesAreTheImages

(* The crashed image and the linked libraries are those of the report's lines,
   also of the lines behind one that cannot be read and of those that a scan
   completes from the next, and the image that crashed is among the linked. *)
LogIsTheReports ==
    part = "log" => Log!TypeOK /\ Log!OneImage /\ Log!UUIDWithAddress /\ Log!LinksComplete

(* A reduced object of 32 bits is read back whole; one of 64 bits loses
   exactly what its writer is known to cut off. *)
ReducedIsReadBack == part = "mini" => Mini!TypeOK /\ Mini!RoundTrip32 /\ Mini!RoundTrip64

(* Every call returns: whatever count a file claims, also in a folder that
   holds itself, and also for a report that breaks off. *)
CallsReturn ==
    /\ (part = "fat" /\ call # Fat!NoCall) ~> (call = Fat!NoCall)
    /\ (part = "find") ~> (at = "returned")
    /\ (part = "log") ~> (at \in {"done", "thrown"})

-------------------------------------------------------------------------------
FatHeader(n) == [kind |-> "fat", value |-> n, uuid |-> NONE]
Arch(p) == [kind |-> "arch", value |-> p, uuid |-> NONE]
Macho(u) == [kind |-> "macho", value |-> 0, uuid |-> u]
Other == [kind |-> "other", value |-> 0, uuid |-> NONE]

(* Two entries, padding, two objects with their commands; the claimed count
   may be off, an entry may point to no object, an object lack its UUID. *)
MCContents ==
    {<<FatHeader(n), Arch(4), Arch(p), Other, Macho(u), Other, Macho(v), Other>> :
        n \in 0 .. 3, p \in {3, 4, 6}, u \in UUIDs \cup {NONE}, v \in UUIDs}
    \cup {<<FatHeader(1), Arch(3), Other, Macho(u), Other>> : u \in UUIDs}
    \cup {<<Macho(u), Other>> : u \in UUIDs \cup {NONE}}
    \cup {<<Other, Macho(u)>> : u \in UUIDs}

(* Reports: whole lines, two of them of one library's name and one path with
   lines of two images; lines that lack their path, or all but an address or two; a
   UUID that is too short, a path on a line of its own and a blank line.  The
   token's own line is blank or holds an image. *)
Token(kind, text) == [kind |-> kind, text |-> text]
L(addr, name, uuid) ==
    <<Token("hex", addr), Token("dash", "-"), Token("hex", addr), Token("other", name), Token("other", "arm64"), uuid>>

App == Append(L("1", "app", Token("uuid", "A1")), Token("other", "/app"))

MCLines == {
    <<>>, App,
    Append(L("2", "lib", Token("uuid", "B1")), Token("other", "/lib")),
    Append(L("3", "lib", Token("uuid", "B2")), Token("other", "/app")),
    Append(L("4", "odd", Token("odd", "C>")), Token("other", "/app")),
    L("5", "cut", Token("uuid", "D1")), SubSeq(App, 1, 3), <<Token("other", "/app")>>}

MCText(ls) ==
    [words  |-> Find!FlattenSeq(ls),
     starts |-> [i \in DOMAIN ls |-> Len(Find!FlattenSeq(SubSeq(ls, 1, i - 1)))]]

MCImages ==
    {NONE} \cup {MCText(<<l>> \o ls) : l \in {<<>>, App},
                                    ls \in UNION {[1 .. n -> MCLines] : n \in 0 .. 3}}

MCReports ==
    [images : MCImages, path : {NONE, "", "/app", "/lib"},
     exception : {TRUE}, tells : {"thread"}]
    \cup [images : {NONE}, path : {NONE}, exception : BOOLEAN,
          tells : {"", "backtrace", "thread"}]

(* Trees: folders in folders, bundles, images and what is none. *)
N(stem, ext) == [stem |-> stem, ext |-> ext]
File(stem, ext, macho, log, uuids) ==
    [name |-> N(stem, ext), folder |-> FALSE, in |-> <<>>,
     macho |-> macho, log |-> log, uuids |-> uuids]
Folder(stem, ext, in) ==
    [name |-> N(stem, ext), folder |-> TRUE, in |-> in,
     macho |-> FALSE, log |-> FALSE, uuids |-> <<>>]

(* A folder with files of every kind, bundles whose image is their own, a
   damaged one, another's or none, and a plain folder below. *)
Tree(own, ext, log) == [node |-> [
        disk |-> Folder("disk", "", <<"top">>),
        top |-> Folder("top", "", <<"lib", "bundle", "note", "log", "plain", "deep">>),
        lib |-> File("lib", "dylib", TRUE, FALSE, <<7>>),
        note |-> File("note", "txt", TRUE, FALSE, <<8>>),
        log |-> File("log", "crash", FALSE, log, <<>>),
        bundle |-> Folder("A", ext, <<"aide", "image">>),
        aide |-> File("aide", "", own # "other", FALSE, <<1, 2>>),
        image |-> File(IF own = "none" THEN "Z" ELSE "A", "", own = "good", FALSE, <<3, 4>>),
        plain |-> Folder("plain", "", <<"tool", "bundle">>),
        deep |-> Folder("deep", "", <<"plain">>),
        tool |-> File("tool", "", TRUE, FALSE, <<5, 6>>)],
    root |-> <<"disk", "top">>]

Trees == {Tree(own, ext, log) : own \in {"good", "damaged", "none", "other"},
                                ext \in {"app", "app.dSYM", "framework.dSYM"},
                                log \in BOOLEAN}

(* Searched from a file, a bundle or a folder below too, and a folder in itself. *)
At(t, p) == [t EXCEPT !.root = p]
Loop == [node |-> [
        disk |-> Folder("disk", "", <<"top">>),
        top |-> Folder("top", "", <<"top", "tool">>),
        tool |-> File("tool", "", TRUE, FALSE, <<5, 6>>)],
    root |-> <<"disk", "top">>]

Inner == [node |-> [
        outer |-> Folder("O", "app", <<"sub">>),
        sub |-> Folder("sub", "", <<"inner">>),
        inner |-> Folder("I", "app", <<"aide", "image">>),
        aide |-> File("aide", "", TRUE, FALSE, <<1>>),
        image |-> File("I", "", TRUE, FALSE, <<2>>)],
    root |-> <<"outer", "sub">>]

(* The same below a folder that is named like a crash log. *)
Crash == [node |-> [Loop.node EXCEPT !.top = Folder("top", "crash", <<"tool">>)],
          root |-> <<"disk", "top">>]

MCWorlds ==
    Trees \cup {Loop, Inner, Crash, At(Inner, <<"outer">>)}
    \cup {At(Tree("good", "app", TRUE), <<n>>) : n \in {"lib", "log", "bundle"}}
    \cup {At(Tree("good", "app", TRUE), <<"disk", "top", n>>) : n \in {"lib", "log", "bundle", "note"}}
    \cup {At(Tree("other", "app.dSYM", FALSE), <<"disk", "top", n>>) : n \in {"log", "bundle", "plain"}}
================================================================================
