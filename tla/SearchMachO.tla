------------------------------ MODULE SearchMachO ------------------------------
(***************************************************************************)
(* CSearchMachO::Search: the walk over a file system that reports crash    *)
(* logs, libraries, applications and dSYMs to an observer, who may break   *)
(* it off; files may vanish while it runs.  The handles it fills           *)
(* (CMachODSym, CMachOApplication, CMachODyLib) read their universal       *)
(* binary whenever they know where it is.                                  *)
(* A path is the sequence of its nodes; a node has a name of a stem and an *)
(* extension.  The DWARF folder inside a dSYM is the dSYM itself.          *)
(* A definition marked mutant is a plausible bug in the one below it; no   *)
(* behaviour uses it.                                                      *)
(***************************************************************************)
EXTENDS Integers, FiniteSets, Sequences, SequencesExt

CONSTANTS
    Worlds,  \* file systems: a function of nodes and the path that is searched
    NONE,    \* no name
    MaxPath  \* longest path the system can list

(* A file system: paths of nodes, entries of different names in each folder,
   images with different UUIDs. *)
WorldAssumption ==
    /\ MaxPath \in Nat
    /\ \A w \in Worlds :
          /\ w.root \in Seq(DOMAIN w.node) /\ w.root # <<>>
          /\ \A f \in {w.node[n] : n \in DOMAIN w.node} :
                /\ f.folder \in BOOLEAN /\ (f.folder => ~f.macho /\ ~f.log)
                /\ f.name # NONE
                /\ f.in \in Seq(DOMAIN w.node)
                /\ \A i, j \in DOMAIN f.in :
                      w.node[f.in[i]].name = w.node[f.in[j]].name => i = j
                /\ f.uuids \in Seq(ToSet(f.uuids))
                /\ Cardinality(ToSet(f.uuids)) = Len(f.uuids)

VARIABLES
    world,    \* constant: [node, root]
    gone,     \* nodes that have vanished
    at,       \* where the call is
    queue,    \* to_search
    current,  \* current_folder
    files,    \* files of the current folder not yet looked at
    folders,  \* its folders not yet looked at
    broken,   \* what isBreak answers
    reported  \* the observer's calls, in their order

vars == <<world, gone, at, queue, current, files, folders, broken, reported>>

Init ==
    /\ world \in Worlds
    /\ gone = {} /\ at = "begin" /\ queue = <<>> /\ current = <<>>
    /\ files = <<>> /\ folders = <<>> /\ broken = FALSE /\ reported = <<>>

-------------------------------------------------------------------------------
Node(n) == world.node[n]
Exists(n) == n \notin gone
IsFolder(n) == Node(n).folder
Ext(n) == Node(n).name.ext

(* The entries that are in a set, in their order. *)
Picked(entries, wanted) ==
    LET f[k \in 0 .. Len(entries)] ==
            IF k = 0 THEN <<>>
            ELSE IF entries[k] \in wanted THEN Append(f[k - 1], entries[k]) ELSE f[k - 1]
    IN  f[Len(entries)]

(* GetFileList and GetDirList: nothing for a path that cannot be opened. *)
Listed(p, folder) ==
    IF Exists(Last(p)) /\ Len(p) <= MaxPath
    THEN Picked(Node(Last(p)).in, {n \in DOMAIN world.node : Exists(n) /\ IsFolder(n) = folder})
    ELSE <<>>

-------------------------------------------------------------------------------
(* The file a handle of a kind looks at. *)
Image(kind, h) ==
    IF kind = "dylib" THEN IF h.path = <<>> THEN {} ELSE {Last(h.path)}
    ELSE {n \in ToSet(Listed(h.path, FALSE)) : Node(n).name = h.name}

Validates(n) == Exists(n) /\ Node(n).macho

(* _loadFat: the UUIDs are added to those the handle has. *)
LoadFat(kind, h) ==
    [h EXCEPT !.uuids =
        IF \E n \in Image(kind, h) : Validates(n)
        THEN @ \o Node(CHOOSE n \in Image(kind, h) : TRUE).uuids
        ELSE @]

Known(kind, h) ==
    IF kind = "dylib" THEN h.path # <<>> ELSE h.path # <<>> /\ h.name # NONE

Reloaded(kind, h) == IF Known(kind, h) THEN LoadFat(kind, h) ELSE h

setPath(kind, h, p) == Reloaded(kind, [h EXCEPT !.path = p])
setName(kind, h, s) == Reloaded(kind, [h EXCEPT !.name = s])

Empty == [path |-> <<>>, name |-> NONE, uuids |-> <<>>]

Nothing == [found |-> FALSE, kind |-> "none", handle |-> Empty]
Found(kind, h) == [found |-> TRUE, kind |-> kind, handle |-> h]

-------------------------------------------------------------------------------
(* path.find of a postfix meets the first name on the path that has it. *)
StemBefore(p, exts) ==
    Node(p[CHOOSE i \in DOMAIN p :
              /\ Ext(p[i]) \in exts
              /\ \A j \in 1 .. (i - 1) : Ext(p[j]) \notin exts]).name.stem

HandleOf(kind, p, s) ==
    IF kind = "dsym" THEN setName(kind, setPath(kind, Empty, p), s)
    ELSE setPath(kind, setName(kind, Empty, s), p)

(* FindMachOInDSYMEx, FindMachOInApplicationEx: the first that validates. *)
FirstValid(kind, p) ==
    LET l == Picked(Listed(p, FALSE), {n \in DOMAIN world.node : Validates(n)})
    IN  IF l = <<>> THEN Nothing
        ELSE Found(kind, setName(kind, setPath(kind, Empty, p), Node(Head(l)).name))

(* The name of a bundle's own image: the bundle's, without its postfix. *)
OwnName(stem) == [stem |-> stem, ext |-> ""]

FindMachOInAny(kind, exts, p) == FirstValid(kind, p)                \* mutant
(* A file of the folder's own name is taken without looking into it. *)
FindMachOIn(kind, exts, p) ==
    LET own == OwnName(StemBefore(p, exts))
    IN  IF \E n \in ToSet(Listed(p, FALSE)) : Node(n).name = own
        THEN Found(kind, HandleOf(kind, p, own))
        ELSE FirstValid(kind, p)

FindMachOInDSYM(p) == FindMachOIn("dsym", {"app.dSYM"}, p)
FindMachOInApplication(p) == FindMachOIn("app", {"app", "app.dSYM"}, p)

(* A file without an extension, or with .dylib anywhere in its path. *)
ReadDyLib(p) ==
    LET h == setPath("dylib", setName("dylib", Empty, Node(Last(p)).name), p)
    IN  IF /\ \/ Ext(Last(p)) = ""
              \/ \E i \in DOMAIN p : Ext(p[i]) = "dylib"
           /\ Validates(Last(p))
        THEN Found("dylib", h) ELSE Nothing

IsCrashLog(n) == Ext(n) \in {"crash", "ips"}

ReadCrashLog(p) ==
    IF IsCrashLog(Last(p)) /\ Exists(Last(p)) /\ Node(Last(p)).log
    THEN Found("log", [Empty EXCEPT !.path = p, !.name = Node(Last(p)).name])
    ELSE Nothing

LookAtFile(p) == IF ReadCrashLog(p).found THEN ReadCrashLog(p) ELSE ReadDyLib(p)

LookAtFolder(p) ==
    IF Ext(Last(p)) = "app.dSYM" THEN FindMachOInDSYM(p)
    ELSE IF Ext(Last(p)) = "app" THEN FindMachOInApplication(p)
    ELSE Nothing

IsPlain(n) == Ext(n) \notin {"app", "app.dSYM"}

Report(r) == reported' = IF r.found THEN Append(reported, r) ELSE reported

-------------------------------------------------------------------------------
(* A path of two levels or more is told by its last name, one of a single
   level never is. *)
Levels == Len(world.root)
Named == Levels > 1 /\ Ext(Last(world.root)) \in {"dylib", "app", "app.dSYM"}

SearchOne ==
    /\ at = "begin" /\ Named
    /\ Report(IF Ext(Last(world.root)) = "dylib" THEN ReadDyLib(world.root)
              ELSE LookAtFolder(world.root))
    /\ at' = "returned"
    /\ UNCHANGED <<world, gone, queue, current, files, folders, broken>>

(* A crash log may be what is searched; it is no branch of its own, and a
   folder that is named like one is walked. *)
SearchNot ==
    /\ at = "begin" /\ ~Named
    /\ Report(IF Levels > 1 THEN ReadCrashLog(world.root) ELSE Nothing)
    /\ IF IsFolder(Last(world.root)) /\ Exists(Last(world.root))
       THEN at' = "walk" /\ queue' = <<world.root>>
       ELSE at' = "returned" /\ UNCHANGED queue
    /\ UNCHANGED <<world, gone, current, files, folders, broken>>

TakeFolderKeeping ==                                                \* mutant
    /\ at = "walk" /\ files = <<>> /\ folders = <<>> /\ queue # <<>> /\ ~broken
    /\ current' = Head(queue)
    /\ folders' = Listed(Head(queue), TRUE)
    /\ files' = Listed(Head(queue), FALSE)
    /\ UNCHANGED <<world, gone, at, queue, broken, reported>>
TakeFolder ==
    /\ at = "walk" /\ files = <<>> /\ folders = <<>> /\ queue # <<>> /\ ~broken
    /\ current' = Head(queue) /\ queue' = Tail(queue)
    /\ folders' = Listed(Head(queue), TRUE)
    /\ files' = Listed(Head(queue), FALSE)
    /\ UNCHANGED <<world, gone, at, broken, reported>>

TakeFile ==
    /\ at = "walk" /\ files # <<>> /\ ~broken
    /\ files' = Tail(files)
    /\ Report(LookAtFile(Append(current, Head(files))))
    /\ UNCHANGED <<world, gone, at, queue, current, folders, broken>>

PushFirst(p) == queue' = <<p>> \o queue                             \* mutant
Push(p) == queue' = Append(queue, p)

VisitFolderAlways ==                                                \* mutant
    /\ at = "walk" /\ files = <<>> /\ folders # <<>> /\ ~broken
    /\ folders' = Tail(folders)
    /\ Report(LookAtFolder(Append(current, Head(folders))))
    /\ Push(Append(current, Head(folders)))
    /\ UNCHANGED <<world, gone, at, current, files, broken>>
VisitFolder ==
    /\ at = "walk" /\ files = <<>> /\ folders # <<>> /\ ~broken
    /\ folders' = Tail(folders)
    /\ LET p == Append(current, Head(folders))
       IN  IF IsPlain(Last(p)) THEN Push(p) /\ UNCHANGED reported
           ELSE Report(LookAtFolder(p)) /\ UNCHANGED queue
    /\ UNCHANGED <<world, gone, at, current, files, broken>>

EndWalkEarly ==                                                     \* mutant
    /\ at = "walk"
    /\ broken \/ (files = <<>> /\ queue = <<>>)
    /\ at' = "returned"
    /\ UNCHANGED <<world, gone, queue, current, files, folders, broken, reported>>
EndWalkUnbroken ==                                                  \* mutant
    /\ at = "walk" /\ ~broken /\ files = <<>> /\ folders = <<>> /\ queue = <<>>
    /\ at' = "returned"
    /\ UNCHANGED <<world, gone, queue, current, files, folders, broken, reported>>
EndWalk ==
    /\ at = "walk"
    /\ broken \/ (files = <<>> /\ folders = <<>> /\ queue = <<>>)
    /\ at' = "returned"
    /\ UNCHANGED <<world, gone, queue, current, files, folders, broken, reported>>

Search == SearchOne \/ SearchNot \/ TakeFolder \/ TakeFile \/ VisitFolder \/ EndWalk

ObserverBreaks ==
    /\ at = "walk" /\ ~broken /\ broken' = TRUE
    /\ UNCHANGED <<world, gone, at, queue, current, files, folders, reported>>

(* One file or folder is removed while the walk is on. *)
Vanish ==
    /\ at = "walk" /\ gone = {}
    /\ \E n \in DOMAIN world.node \ ToSet(world.root) : gone' = {n}
    /\ UNCHANGED <<world, at, queue, current, files, folders, broken, reported>>

Next == Search \/ ObserverBreaks \/ Vanish

(* The search takes its steps; nobody has to break it off. *)
Spec == Init /\ [][Next]_vars /\ WF_vars(Search)

-------------------------------------------------------------------------------
(* The plain folders a search of the whole tree opens, by depth. *)
Opened ==
    LET ToDepth[d \in 0 .. MaxPath] ==
            IF d = 0 THEN {world.root}
            ELSE ToDepth[d - 1] \cup
                 UNION {{Append(p, n) : n \in {m \in DOMAIN world.node :
                                                 IsFolder(m) /\ IsPlain(m)}}
                           : p \in {q \in ToDepth[d - 1] : Len(q) <= MaxPath}}
        Reached(p) == \A i \in (Len(world.root) + 1) .. Len(p) :
                          p[i] \in ToSet(Node(p[i - 1]).in)
    IN  {p \in ToDepth[MaxPath] : Len(p) <= MaxPath /\ Reached(p)}

IsImage(n) == ~IsFolder(n) /\ Node(n).macho

(* What is worth reporting in a tree that nobody changes. *)
Worthy(p) ==
    LET n == Last(p) IN
    IF IsFolder(n)
    THEN /\ ~IsPlain(n) /\ Len(p) <= MaxPath
         /\ \E m \in ToSet(Node(n).in) : IsImage(m)
    ELSE \/ IsCrashLog(n) /\ Node(n).log
         \/ IsImage(n) /\ Ext(n) \in {"", "dylib"}

Expected == {p \in {Append(q, n) : q \in Opened, n \in DOMAIN world.node} :
                Last(p) \in ToSet(Node(p[Len(p) - 1]).in) /\ Worthy(p)}

Paths == {reported[i].handle.path : i \in DOMAIN reported}

(* The lists hold nodes of the current folder, and the queue plain folders. *)
TypeOK ==
    /\ at \in {"begin", "walk", "returned"}
    /\ gone \subseteq DOMAIN world.node /\ broken \in BOOLEAN
    /\ \A n \in ToSet(files) : ~IsFolder(n)
    /\ \A n \in ToSet(folders) : IsFolder(n)
    /\ \A p \in ToSet(queue) : p # world.root => IsFolder(Last(p)) /\ IsPlain(Last(p))
    /\ \A i \in DOMAIN reported : reported[i].found

(* No path is reported twice, whatever vanishes meanwhile. *)
EachPathOnce == \A i, j \in DOMAIN reported :
    reported[i].handle.path = reported[j].handle.path => i = j

(* A walk that ran to its end over a tree nobody changed has reported every
   image, bundle and log in it. *)
NothingMissed ==
    /\ at = "returned" /\ ~broken /\ gone = {} /\ current # <<>>
    => Expected \subseteq Paths

(* What is nearer to the searched folder is reported earlier. *)
NearestFirst == \A i, j \in DOMAIN reported :
    i < j => Len(reported[i].handle.path) <= Len(reported[j].handle.path)

(* A bundle on the way to what is looked at: above the searched path, or that
   path itself if it is walked as a folder. *)
InBundle == \E i \in DOMAIN world.root : ~IsPlain(world.root[i]) /\ (i < Levels \/ Levels = 1)

(* A handle is reported with each UUID of its image once, and a bundle with
   the image of its own name if it has one; only a folder searched from
   inside another bundle is taken for that one. *)
HandlesAreTheImages ==
    at = "returned" /\ gone = {} =>
        \A i \in DOMAIN reported :
            LET r == reported[i]
                n == Last(r.handle.path)
                own == OwnName(Node(n).name.stem)
            IN  r.kind # "log" =>
                /\ Cardinality(ToSet(r.handle.uuids)) = Len(r.handle.uuids)
                /\ \E m \in Image(r.kind, r.handle) :
                      Node(m).macho => r.handle.uuids = Node(m).uuids
                /\ IsFolder(n) /\ ~InBundle
                   /\ (\E m \in ToSet(Node(n).in) : ~IsFolder(m) /\ Node(m).name = own)
                   => r.handle.name = own

(* A search returns, also of a folder that holds itself and also when the
   observer breaks it off. *)
SearchReturns == <>(at = "returned")
===============================================================================
