------------------------------ MODULE FilesProofs ------------------------------
(***************************************************************************)
(* Proofs about the parts that MCFiles composes, each for inputs of any    *)
(* size.                                                                   *)
(*                                                                         *)
(* CrashLog: for every report, with lines that break off anywhere, the     *)
(* crashed image and the linked libraries are those of the report's lines. *)
(* What is known of the image and of the libraries is always what the      *)
(* lines read so far say.                                                  *)
(*                                                                         *)
(* MiniMachO: for every object, what is read back of the reduced one.  The *)
(* words written so far are those a reader needs at their places, up to    *)
(* where the buffer ends.                                                  *)
(*                                                                         *)
(* SearchMachO: for every file system, also one that holds itself, a       *)
(* search reports each image once and misses none.  The queue holds plain  *)
(* folders by depth, none of whose entries has been met; and what is       *)
(* expected has been reported or is below what is still to be done.        *)
(*                                                                         *)
(* FatLoader: for every file, in memory or on a disk where it comes and    *)
(* goes, and through any sequence of calls, what a universal binary is     *)
(* found to hold is what it claims.  The argument follows the readers of   *)
(* the architecture entries: where the stream stands between two entries,  *)
(* what the objects made so far are, and that the UUIDs the objects have   *)
(* read form a prefix of them.                                             *)
(***************************************************************************)
EXTENDS MCFiles, FiniteSetTheorems, WellFoundedInduction, TLAPS

-------------------------------------------------------------------------------
(* Crash logs. *)
(* The images of the loop that were read, those of the path that the report
   names among them. *)
ImagesRead == {i \in Log!Images : i < line}
OfPathRead == {i \in Log!OfPath : i < line}

(* The first scan is behind. *)
Scanning == at \in {"lines", "type", "done"}

(* Where a step of the parser may stand. *)
Progress ==
    /\ report \in Reports
    /\ at \in {"path", "first", "lines", "type", "done", "thrown"}
    /\ line \in Nat /\ line >= 1
    /\ Scanning => line >= 2
    /\ at = "lines" => Log!Listed
    /\ at \in {"type", "done"} /\ Log!Listed => line \notin Log!Lines

(* The image is that of the last line of the path, else of the first line. *)
ImageRead ==
    Scanning /\ Log!Listed =>
        \E i \in Log!Images \cup {1} :
            /\ image = Log!ImageOf(i)
            /\ IF OfPathRead = {} THEN i = 1 ELSE i \in OfPathRead

(* Each name that was read is linked once, to the UUID of its first line. *)
LinksRead ==
    /\ ~Scanning => links = {}
    /\ \A p, q \in links : p[1] = q[1] => p = q
    /\ Scanning /\ Log!Listed =>
         /\ \A i \in ImagesRead : \E p \in links : p[1] = Log!LinkOf(i)[1]
         /\ \A p \in links : \E i \in ImagesRead :
               /\ p = Log!LinkOf(i)
               /\ \A j \in ImagesRead : j < i => Log!LinkOf(j)[1] # p[1]
    /\ ~Log!Listed => links = {}

LogInv == Progress /\ ImageRead /\ LinksRead /\ Log!UUIDWithAddress
LogIInv == part = "log" => LogInv

-------------------------------------------------------------------------------
(* The lines of a report are numbered from 1, and a scan that got through some
   words got through fewer. *)
LEMMA LineFacts ==
    ASSUME report \in Reports
    PROVE  /\ \E n \in Nat : Log!Lines = 1 .. n
           /\ \A i \in Log!Lines, j, k \in 1 .. 7 :
                 Log!Scans(i, k) /\ j <= k => Log!Scans(i, j)
<1>1. CASE report.images = NONE
  <2>1. Log!Lines = 1 .. 0
    BY <1>1 DEF Log!Lines
  <2> QED BY <2>1
<1>2. CASE report.images # NONE
  <2>1. /\ report.images.starts \in Seq(0 .. Len(report.images.words))
        /\ Len(report.images.words) \in Nat
    <3>1. /\ report.images.words \in Seq(Log!Word)
          /\ report.images.starts \in Seq(0 .. Len(report.images.words))
      BY <1>2, ReportAssumption DEF Log!ReportAssumption
    <3> QED BY <3>1
  <2>2. Log!Lines = 1 .. Len(report.images.starts) /\ Len(report.images.starts) \in Nat
    BY <1>2, <2>1 DEF Log!Lines
  <2>3. ASSUME NEW i \in Log!Lines, NEW j \in 1 .. 7, NEW k \in 1 .. 7,
               Log!Scans(i, k), j <= k
        PROVE  Log!Scans(i, j)
    <3>1. report.images.starts[i] \in Nat
      BY <2>1, <2>2
    <3>2. /\ report.images.starts[i] + k <= Len(report.images.words)
          /\ \A m \in 1 .. k : Log!Fits(Log!At(i, m), Log!Format[m])
          /\ k = 7 => Log!At(i, 6).kind = "uuid"
      BY <2>3 DEF Log!Scans, Log!words
    <3>3. \A a, b \in Nat : a + k <= b => a + j <= b
      BY <2>3
    <3>4. report.images.starts[i] + j <= Len(report.images.words)
      BY <2>1, <3>1, <3>2, <3>3
    <3>5. (\A m \in 1 .. j : m \in 1 .. k) /\ (j = 7 => k = 7)
      BY <2>3
    <3> QED BY <3>2, <3>4, <3>5 DEF Log!Scans, Log!words
  <2> QED BY <2>2, <2>3
<1> QED
  BY <1>1, <1>2

(* The report and what its lines say stay what they are. *)
LEMMA SameReport ==
    ASSUME report' = report
    PROVE  /\ Log!Lines' = Log!Lines /\ Log!Images' = Log!Images
           /\ Log!Listed' = Log!Listed /\ Log!OfPath' = Log!OfPath
           /\ \A i : Log!ImageOf(i)' = Log!ImageOf(i) /\ Log!LinkOf(i)' = Log!LinkOf(i)
<1>1. Log!Lines' = Log!Lines
  BY DEF Log!Lines
<1>2. \A i, k : Log!At(i, k)' = Log!At(i, k)
  BY DEF Log!At, Log!words
<1>3. \A i : Log!Whole(i)' = Log!Whole(i)
  BY DEF Log!Whole, Log!Scans, Log!At, Log!words, Log!Fits, Log!Format
<1>4. Log!Images' = Log!Images
  BY <1>1, <1>3 DEF Log!Images
<1>5. \A i : Log!IsMain(i)' = Log!IsMain(i)
  BY <1>2 DEF Log!IsMain
<1>6. Log!OfPath' = Log!OfPath
  BY <1>4, <1>5 DEF Log!OfPath
<1>7. Log!Listed' = Log!Listed
  BY <1>1, <1>3 DEF Log!Listed
<1>8. ASSUME NEW i PROVE Log!ImageOf(i)' = Log!ImageOf(i) /\ Log!LinkOf(i)' = Log!LinkOf(i)
  BY <1>2 DEF Log!ImageOf, Log!LinkOf
<1> QED
  BY <1>1, <1>4, <1>6, <1>7, <1>8

(* The numbers up to one that grows. *)
LEMMA GrownRange ==
    ASSUME NEW S, S \subseteq Nat, NEW n \in Nat
    PROVE  {i \in S : i < n + 1} =
             IF n \in S THEN {i \in S : i < n} \cup {n} ELSE {i \in S : i < n}
<1>1. \A i \in S : i \in Nat /\ (i < n + 1 <=> i < n \/ i = n)
  OBVIOUS
<1> QED
  BY <1>1

(* What was read grows by a line that is whole, and with the next line by no
   other. *)
LEMMA ReadOn ==
    ASSUME report \in Reports, report' = report, line \in Nat, line' = line + 1
    PROVE  /\ ImagesRead' = IF line \in Log!Images THEN ImagesRead \cup {line}
                            ELSE ImagesRead
           /\ OfPathRead' = IF line \in Log!OfPath THEN OfPathRead \cup {line}
                            ELSE OfPathRead
<1>1. Log!Images' = Log!Images /\ Log!OfPath' = Log!OfPath
  BY SameReport
<1>2. Log!OfPath \subseteq Nat /\ Log!Images \subseteq Nat
  <2>1. Log!OfPath \subseteq Log!Images
    BY Zenon DEF Log!OfPath
  <2>2. Log!Lines \subseteq Nat
    BY LineFacts
  <2>3. Log!Images \subseteq Nat
    BY <2>2 DEF Log!Images
  <2> QED BY <2>1, <2>3
<1>3. /\ ImagesRead' = {i \in Log!Images : i < line + 1}
      /\ OfPathRead' = {i \in Log!OfPath : i < line + 1}
  BY <1>1, Zenon DEF ImagesRead, OfPathRead
<1>4. ImagesRead' = IF line \in Log!Images THEN ImagesRead \cup {line} ELSE ImagesRead
  BY <1>2, <1>3, GrownRange, Zenon DEF ImagesRead
<1>5. OfPathRead' = IF line \in Log!OfPath THEN OfPathRead \cup {line} ELSE OfPathRead
  BY <1>2, <1>3, GrownRange, Zenon DEF OfPathRead
<1> QED
  BY <1>4, <1>5

(* A line whose UUID could be scanned has addresses that were scanned, and a
   whole line gives everything. *)
LEMMA ScannedFacts ==
    ASSUME report \in Reports, NEW i \in Log!Lines, NEW garbage
    PROVE  /\ \/ Log!Scanned(i, garbage).uuid = ""
              \/ /\ Log!Scanned(i, garbage).addr = Log!ImageOf(i).addr
                 /\ Log!Scanned(i, garbage).end = Log!ImageOf(i).end
           /\ Log!Whole(i) => Log!Scanned(i, garbage) = Log!ImageOf(i)
<1>1. /\ Log!Scans(i, 6) => Log!Scans(i, 1) /\ Log!Scans(i, 3)
      /\ Log!Scans(i, 7) => Log!Scans(i, 1) /\ Log!Scans(i, 3) /\ Log!Scans(i, 4)
                            /\ Log!Scans(i, 6)
  BY LineFacts
<1>2. Log!Scanned(i, garbage) =
        [addr |-> IF Log!Scans(i, 1) THEN Log!ImageOf(i).addr ELSE garbage,
         end  |-> IF Log!Scans(i, 3) THEN Log!ImageOf(i).end ELSE garbage,
         name |-> IF Log!Scans(i, 4) THEN Log!ImageOf(i).name ELSE "",
         uuid |-> IF Log!Scans(i, 6) THEN Log!ImageOf(i).uuid ELSE ""]
  BY DEF Log!Scanned, Log!ImageOf
<1>3. Log!ImageOf(i) = [addr |-> Log!ImageOf(i).addr, end |-> Log!ImageOf(i).end,
                        name |-> Log!ImageOf(i).name, uuid |-> Log!ImageOf(i).uuid]
  BY DEF Log!ImageOf
<1>4. ASSUME Log!Scans(i, 7) PROVE Log!Scanned(i, garbage) = Log!ImageOf(i)
  BY <1>1, <1>2, <1>3, <1>4
<1>5. \/ Log!Scanned(i, garbage).uuid = ""
      \/ /\ Log!Scanned(i, garbage).addr = Log!ImageOf(i).addr
         /\ Log!Scanned(i, garbage).end = Log!ImageOf(i).end
  <2> DEFINE s == Log!Scanned(i, garbage)
  <2>0. /\ s.addr = IF Log!Scans(i, 1) THEN Log!ImageOf(i).addr ELSE garbage
        /\ s.end = IF Log!Scans(i, 3) THEN Log!ImageOf(i).end ELSE garbage
        /\ s.uuid = IF Log!Scans(i, 6) THEN Log!ImageOf(i).uuid ELSE ""
    BY DEF Log!Scanned, Log!ImageOf
  <2> HIDE DEF s
  <2>1. CASE Log!Scans(i, 6)
    <3>1. s.addr = Log!ImageOf(i).addr /\ s.end = Log!ImageOf(i).end
      BY <2>0, <2>1, <1>1
    <3> QED BY <3>1 DEF s
  <2>2. CASE ~Log!Scans(i, 6)
    <3>1. s.uuid = ""
      BY <2>0, <2>2
    <3> QED BY <3>1 DEF s
  <2> QED BY <2>1, <2>2
<1> QED
  BY <1>4, <1>5 DEF Log!Whole

(* Of a report that is not read yet nothing is known. *)
LEMMA InitHolds == ASSUME Log!Init PROVE LogInv
<1>1. report \in Reports /\ at = "path" /\ line = 1 /\ links = {} /\ image.uuid = NONE
  BY DEF Log!Init, Log!NoImage
<1>2. Progress /\ ImageRead /\ LinksRead
  BY <1>1 DEF Progress, Scanning, ImageRead, LinksRead
<1>3. Log!UUIDWithAddress
  BY <1>1 DEF Log!UUIDWithAddress
<1> QED
  BY <1>2, <1>3 DEF LogInv

(* The path is read before any line. *)
LEMMA ReadPathKeeps == ASSUME LogInv, Log!ReadPath PROVE LogInv'
<1> USE SameReport
<1>1. /\ report \in Reports /\ UNCHANGED <<report, line, image, links>>
      /\ at = "path" /\ at' \in {"thrown", "first"}
      /\ line \in Nat /\ line >= 1 /\ links = {} /\ Log!UUIDWithAddress
  BY DEF Log!ReadPath, LogInv, Progress, LinksRead, Scanning
<1>2. Progress' /\ ImageRead' /\ LinksRead'
  BY <1>1 DEF Progress, Scanning, ImageRead, LinksRead
<1>3. Log!UUIDWithAddress'
  BY <1>1 DEF Log!UUIDWithAddress
<1> QED
  BY <1>2, <1>3 DEF LogInv

(* The first line is the image until another has the path of the report. *)
LEMMA FirstLineKeeps == ASSUME LogInv, Log!FirstLine PROVE LogInv'
<1> USE SameReport DEF Log!FirstLine, Log!FirstLineOver
<1>1. /\ report \in Reports /\ report' = report /\ line' = 2 /\ links' = {}
      /\ at = "first" /\ Log!UUIDWithAddress
  BY DEF LogInv, Progress, LinksRead, Scanning
<1>2. ImagesRead' = {} /\ OfPathRead' = {}
  <2>1. \A i \in Log!Images : i \in Nat /\ ~(i < 2)
    BY <1>1, LineFacts DEF Log!Images
  <2>2. Log!OfPath \subseteq Log!Images
    BY DEF Log!OfPath
  <2> QED BY <2>1, <2>2, <1>1 DEF ImagesRead, OfPathRead
<1>3. CASE Log!Lines = {}
  <2>1. at' = "type" /\ image' = image /\ ~Log!Listed
    BY <1>1, <1>3 DEF Log!Listed
  <2>2. Progress' /\ ImageRead' /\ LinksRead'
    BY <1>1, <2>1 DEF Progress, Scanning, ImageRead, LinksRead
  <2>3. Log!UUIDWithAddress'
    BY <1>1, <2>1 DEF Log!UUIDWithAddress
  <2> QED BY <2>2, <2>3 DEF LogInv
<1>4. CASE Log!Lines # {}
  <2>1. 1 \in Log!Lines
    BY <1>1, <1>4, LineFacts
  <2>2. PICK garbage \in {NONE, "0"} : image' = Log!Scanned(1, garbage)
    BY <1>4
  <2>3. at' = IF Log!Whole(1) THEN "lines" ELSE "type"
    BY <1>4
  <2>4. Log!Listed <=> Log!Whole(1)
    BY <1>4 DEF Log!Listed
  <2>5. Progress'
    BY <1>1, <2>1, <2>3, <2>4 DEF Progress, Scanning
  <2>6. ImageRead'
    <3>1. SUFFICES ASSUME Log!Listed PROVE image' = Log!ImageOf(1)
      BY <1>1, <1>2 DEF ImageRead
    <3> QED BY <3>1, <1>1, <2>1, <2>2, <2>4, ScannedFacts
  <2>7. LinksRead'
    BY <1>1, <1>2 DEF LinksRead
  <2>8. Log!UUIDWithAddress'
    <3>1. \/ image'.uuid = ""
          \/ image'.addr = Log!ImageOf(1).addr /\ image'.end = Log!ImageOf(1).end
      BY <1>1, <2>1, <2>2, ScannedFacts
    <3> QED BY <3>1, <1>1, <2>1 DEF Log!UUIDWithAddress
  <2> QED BY <2>5, <2>6, <2>7, <2>8 DEF LogInv
<1> QED
  BY <1>3, <1>4

(* A line that is not whole is passed over: nothing that is known changes. *)
LEMMA BrokenLineKeeps ==
    ASSUME LogInv, Log!NextLine, ~Log!Whole(line)
    PROVE  LogInv'
<1> USE SameReport DEF Log!NextLine
<1>1. /\ report \in Reports /\ report' = report /\ line' = line + 1 /\ at' = at
      /\ UNCHANGED <<links, image>> /\ at = "lines" /\ Log!Listed
      /\ line \in Nat /\ line >= 2
      /\ ImageRead /\ LinksRead /\ Log!UUIDWithAddress
  BY DEF LogInv, Progress, Scanning
<1>2. ImagesRead' = ImagesRead /\ OfPathRead' = OfPathRead
  <2>1. line \notin Log!Images
    BY DEF Log!Images
  <2>2. line \notin Log!OfPath
    BY <2>1 DEF Log!OfPath
  <2> QED BY <2>1, <2>2, <1>1, ReadOn
<1>3. Progress'
  BY <1>1 DEF Progress, Scanning
<1>4. ImageRead'
  <2>1. PICK i \in Log!Images \cup {1} :
            image = Log!ImageOf(i) /\ IF OfPathRead = {} THEN i = 1 ELSE i \in OfPathRead
    BY <1>1 DEF ImageRead, Scanning
  <2> QED BY <2>1, <1>1, <1>2 DEF ImageRead
<1>5. LinksRead'
  BY <1>1, <1>2 DEF LinksRead, Scanning
<1>6. Log!UUIDWithAddress'
  BY <1>1 DEF Log!UUIDWithAddress
<1> QED
  BY <1>3, <1>4, <1>5, <1>6 DEF LogInv

(* Linking a whole line keeps the links those of the lines that were read. *)
LEMMA WholeLineLinks ==
    ASSUME LogInv, at = "lines", NEW n \in Log!Images, line = n, Log!Listed, report' = report,
           line' = line + 1, at' = at, links' = Log!Link(n),
           ImagesRead' = ImagesRead \cup {n}
    PROVE  LinksRead'
<1> USE SameReport
<1> DEFINE pair(i) == Log!LinkOf(i)
           new == ImagesRead \cup {n}
<1>1. /\ report \in Reports /\ n \in Nat /\ \A i \in ImagesRead : i \in Nat /\ i < n
  BY LineFacts DEF LogInv, Progress, ImagesRead, Log!Images
<1>2. /\ \A p, q \in links : p[1] = q[1] => p = q
      /\ \A i \in ImagesRead : \E p \in links : p[1] = pair(i)[1]
      /\ \A p \in links : \E i \in ImagesRead :
            p = pair(i) /\ \A j \in ImagesRead : j < i => pair(j)[1] # p[1]
  BY DEF LogInv, LinksRead, Scanning
<1>3. \A i : pair(i)' = pair(i)
  BY SameReport
<1>4. CASE \E p \in links : p[1] = pair(n)[1]
  <2>1. links' = links
    BY <1>4 DEF Log!Link
  <2> HIDE DEF pair
  <2>2. \A i \in new : \E p \in links : p[1] = pair(i)[1]
    BY <1>2, <1>4
  <2>3. \A p \in links : \E i \in new :
            p = pair(i) /\ \A j \in new : j < i => pair(j)[1] # p[1]
    <3>1. SUFFICES ASSUME NEW p \in links
                   PROVE  \E i \in new :
                            p = pair(i) /\ \A j \in new : j < i => pair(j)[1] # p[1]
      OBVIOUS
    <3>2. PICK i \in ImagesRead :
              p = pair(i) /\ \A j \in ImagesRead : j < i => pair(j)[1] # p[1]
      BY <1>2
    <3>3. ~(n < i)
      BY <1>1, <3>2
    <3> QED BY <3>2, <3>3
  <2> QED BY <2>1, <2>2, <2>3, <1>2, <1>3 DEF LinksRead, Scanning, pair
<1>5. CASE ~ \E p \in links : p[1] = pair(n)[1]
  <2>1. links' = links \cup {pair(n)}
    BY <1>5 DEF Log!Link
  <2> HIDE DEF pair
  <2>2. \A p, q \in links' : p[1] = q[1] => p = q
    BY <2>1, <1>2, <1>5
  <2>3. \A i \in new : \E p \in links' : p[1] = pair(i)[1]
    BY <2>1, <1>2
  <2>4. \A p \in links' : \E i \in new :
            p = pair(i) /\ \A j \in new : j < i => pair(j)[1] # p[1]
    <3>1. SUFFICES ASSUME NEW p \in links'
                   PROVE  \E i \in new :
                            p = pair(i) /\ \A j \in new : j < i => pair(j)[1] # p[1]
      OBVIOUS
    <3>2. CASE p \in links
      <4>1. PICK i \in ImagesRead :
                p = pair(i) /\ \A j \in ImagesRead : j < i => pair(j)[1] # p[1]
        BY <1>2, <3>2
      <4>2. ~(n < i)
        BY <1>1, <4>1
      <4> QED BY <4>1, <4>2
    <3>3. CASE p = pair(n)
      <4>1. ASSUME NEW j \in new, j < n PROVE pair(j)[1] # p[1]
        <5>1. j \in ImagesRead
          BY <4>1, <1>1
        <5> QED BY <5>1, <1>2, <1>5, <3>3
      <4> QED BY <4>1, <3>3
    <3> QED BY <3>2, <3>3, <2>1
  <2> QED BY <2>2, <2>3, <2>4, <1>3 DEF LinksRead, Scanning, pair
<1> QED
  BY <1>4, <1>5

(* A whole line is linked, and is the image if its path is the report's. *)
LEMMA WholeLineKeeps ==
    ASSUME LogInv, Log!NextLine, Log!Whole(line)
    PROVE  LogInv'
<1> USE SameReport DEF Log!NextLine
<1>1. /\ report \in Reports /\ report' = report /\ line' = line + 1 /\ at' = at
      /\ at = "lines" /\ Log!Listed /\ line \in Log!Lines
      /\ line \in Nat /\ line >= 2
      /\ ImageRead /\ Log!UUIDWithAddress
  BY DEF LogInv, Progress, Scanning
<1>2. line \in Log!Images
  BY <1>1 DEF Log!Images
<1>3. ImagesRead' = ImagesRead \cup {line}
  BY <1>1, <1>2, ReadOn
<1>4. line \in Log!OfPath <=> Log!IsMain(line)
  BY <1>2 DEF Log!OfPath
<1>5. OfPathRead' = IF line \in Log!OfPath THEN OfPathRead \cup {line} ELSE OfPathRead
  BY <1>1, <1>2, ReadOn
<1>6. image' = IF line \in Log!OfPath THEN Log!ImageOf(line) ELSE image
  <2>1. Log!Scanned(line, NONE) = Log!ImageOf(line)
    BY <1>1, ScannedFacts
  <2> QED BY <2>1, <1>4
<1>7. Progress'
  BY <1>1 DEF Progress, Scanning
<1>8. ImageRead'
  <2>1. PICK i \in Log!Images \cup {1} :
            image = Log!ImageOf(i) /\ IF OfPathRead = {} THEN i = 1 ELSE i \in OfPathRead
    BY <1>1 DEF ImageRead, Scanning
  <2>2. CASE line \in Log!OfPath
    <3>1. image' = Log!ImageOf(line) /\ line \in OfPathRead' /\ OfPathRead' # {}
      BY <2>2, <1>5, <1>6
    <3> QED BY <3>1, <1>1, <1>2 DEF ImageRead
  <2>3. CASE line \notin Log!OfPath
    <3>1. image' = Log!ImageOf(i) /\ OfPathRead' = OfPathRead
      BY <2>1, <2>3, <1>5, <1>6
    <3> QED BY <3>1, <2>1, <1>1 DEF ImageRead
  <2> QED BY <2>2, <2>3
<1>9. LinksRead'
  <2>1. links' = Log!Link(line)
    BY <1>1
  <2> QED BY <2>1, <1>1, <1>2, <1>3, WholeLineLinks
<1>10. Log!UUIDWithAddress'
  <2>1. CASE line \in Log!OfPath
    BY <2>1, <1>1, <1>6 DEF Log!UUIDWithAddress
  <2>2. CASE line \notin Log!OfPath
    BY <2>2, <1>1, <1>6 DEF Log!UUIDWithAddress
  <2> QED BY <2>1, <2>2
<1> QED
  BY <1>7, <1>8, <1>9, <1>10 DEF LogInv

(* The steps behind the lines leave the image and the links alone. *)
LEMMA LaterStepsKeep == ASSUME LogInv, Log!LinesEnd \/ Log!ParseType PROVE LogInv'
<1> USE SameReport
<1>1. /\ report \in Reports /\ UNCHANGED <<report, line, image, links>>
      /\ Scanning /\ Scanning' /\ Progress /\ ImageRead /\ LinksRead
      /\ Log!UUIDWithAddress
  BY DEF Log!LinesEnd, Log!ParseType, LogInv, Progress, Scanning
<1>2. ImagesRead' = ImagesRead /\ OfPathRead' = OfPathRead
  BY <1>1 DEF ImagesRead, OfPathRead
<1>3. Progress'
  <2>1. CASE Log!LinesEnd
    BY <2>1, <1>1 DEF Log!LinesEnd, Progress, Scanning
  <2>2. CASE Log!ParseType
    BY <2>2, <1>1 DEF Log!ParseType, Progress, Scanning
  <2> QED BY <2>1, <2>2
<1>4. ImageRead'
  BY <1>1, <1>2 DEF ImageRead
<1>5. LinksRead'
  BY <1>1, <1>2 DEF LinksRead
<1>6. Log!UUIDWithAddress'
  BY <1>1 DEF Log!UUIDWithAddress
<1> QED
  BY <1>3, <1>4, <1>5, <1>6 DEF LogInv

-------------------------------------------------------------------------------
(* With nothing on the token's own line the first image is scanned again. *)
LEMMA FirstAgain ==
    ASSUME Log!Listed, 2 \in Log!Lines, report.images.starts[1] = report.images.starts[2]
    PROVE  2 \in Log!Images /\ Log!LinkOf(2) = Log!LinkOf(1)
<1>1. \A k : Log!At(2, k) = Log!At(1, k)
  BY DEF Log!At
<1>2. Log!Scans(1, 7)
  BY DEF Log!Listed, Log!Whole
<1>3. Log!Scans(2, 7)
  BY <1>1, <1>2 DEF Log!Scans
<1> QED
  BY <1>1, <1>3 DEF Log!Images, Log!Whole, Log!LinkOf

(* The invariant says what LogIsTheReports says when the report is read. *)
LEMMA InvariantImplies == ASSUME LogIInv PROVE LogIsTheReports
<1> SUFFICES ASSUME part = "log"
             PROVE  Log!TypeOK /\ Log!OneImage /\ Log!UUIDWithAddress /\ Log!LinksComplete
  BY DEF LogIsTheReports
<1>1. Progress /\ ImageRead /\ LinksRead /\ Log!UUIDWithAddress /\ report \in Reports
  BY DEF LogIInv, LogInv, Progress
<1>2. Log!TypeOK
  BY <1>1 DEF Log!TypeOK, Progress, LinksRead
<1>3. ASSUME at = "done", Log!Listed
      PROVE  ImagesRead = Log!Images /\ OfPathRead = Log!OfPath
  <2>1. line \in Nat /\ line >= 2 /\ line \notin Log!Lines
    BY <1>1, <1>3 DEF Progress, Scanning
  <2>2. \A i \in Log!Lines : i < line
    BY <2>1, <1>1, LineFacts
  <2> QED BY <2>2 DEF ImagesRead, OfPathRead, Log!Images, Log!OfPath
<1>4. Log!OneImage
  BY <1>1, <1>3 DEF Log!OneImage, ImageRead, Scanning
<1>5. Log!LinksComplete
  <2> SUFFICES ASSUME at = "done", Log!Listed PROVE Log!LinksComplete
    BY DEF Log!LinksComplete
  <2>1. /\ \A i \in Log!Images : \E p \in links : p[1] = Log!LinkOf(i)[1]
        /\ \A p \in links : \E i \in Log!Images :
              p = Log!LinkOf(i) /\ \A j \in Log!Images : j < i => Log!LinkOf(j)[1] # p[1]
    BY <1>1, <1>3 DEF LinksRead, Scanning
  <2>2. PICK i \in Log!Images \cup {1} :
            image = Log!ImageOf(i) /\ (IF Log!OfPath = {} THEN i = 1 ELSE i \in Log!OfPath)
    BY <1>4 DEF Log!OneImage
  <2>3. Log!LinkOf(i)[1] = image.name
    BY <2>2 DEF Log!LinkOf, Log!ImageOf
  <2>4. CASE Log!OfPath # {}
    <3>1. i \in Log!Images
      BY <2>2, <2>4 DEF Log!OfPath
    <3> QED BY <2>1, <2>3, <3>1 DEF Log!LinksComplete
  <2>5. CASE Log!OfPath = {}
    <3>1. 2 \in Log!Lines /\ report.images.starts[1] = report.images.starts[2]
          => 2 \in Log!Images /\ Log!LinkOf(2)[1] = image.name
      BY <2>2, <2>3, <2>5, FirstAgain
    <3> QED BY <2>1, <2>5, <3>1 DEF Log!LinksComplete
  <2> QED BY <2>4, <2>5
<1> QED
  BY <1>1, <1>2, <1>4, <1>5

(* While a report is read, the image is that of the last line read that has
   the path of the report, or of the first scan, and the links are those of
   the lines the loop has read. *)
THEOREM ParserInvariant == Spec => []LogIInv
<1>1. Init => LogIInv
  BY InitHolds DEF Init, LogIInv
<1>2. LogIInv /\ [Next]_all => LogIInv'
  <2> SUFFICES ASSUME LogIInv, [Next]_all, part' = "log" PROVE LogInv'
    BY DEF LogIInv
  <2>1. CASE part = "log" /\ Log!Next
    <3>1. LogInv
      BY <2>1 DEF LogIInv
    <3>2. CASE Log!NextLine
      BY <3>1, <3>2, BrokenLineKeeps, WholeLineKeeps
    <3> QED BY <2>1, <3>1, <3>2, ReadPathKeeps, FirstLineKeeps, LaterStepsKeep DEF Log!Next
  <2>2. CASE UNCHANGED all
    <3>1. LogInv /\ UNCHANGED <<report, at, line, image, links>>
      BY <2>2 DEF LogIInv, all, logOnly
    <3>2. /\ Log!Lines' = Log!Lines /\ Log!Images' = Log!Images
          /\ Log!Listed' = Log!Listed /\ Log!OfPath' = Log!OfPath
          /\ \A i : Log!ImageOf(i)' = Log!ImageOf(i) /\ Log!LinkOf(i)' = Log!LinkOf(i)
      BY <3>1, SameReport
    <3>3. ImagesRead' = ImagesRead /\ OfPathRead' = OfPathRead
      BY <3>1, <3>2 DEF ImagesRead, OfPathRead
    <3>4. Progress'
      BY <3>1, <3>2 DEF LogInv, Progress, Scanning
    <3>5. ImageRead' /\ LinksRead'
      BY <3>1, <3>2, <3>3 DEF LogInv, ImageRead, LinksRead, Scanning
    <3>6. Log!UUIDWithAddress'
      BY <3>1, <3>2 DEF LogInv, Log!UUIDWithAddress
    <3> QED BY <3>4, <3>5, <3>6 DEF LogInv
  <2>3. CASE Next /\ part # "log"
    BY <2>3 DEF Next, NotOfFat, NotOfFind, LogNext, MiniNext
  <2>4. Next /\ part = "log" => Log!Next
    BY DEF Next, LogNext, MiniNext
  <2> QED BY <2>1, <2>2, <2>3, <2>4
<1> QED
  BY <1>1, <1>2, PTL DEF Spec

(* For every report: its crashed image is of one scan, of a line of the path
   it names if there is one; no UUID stands beside an address that was not
   read; the links are the names of all images of the loop, each with the UUID
   of the first line of that name; and the crashed image is among them unless
   it stands on the token's own line.  About CMachOCrashLog::Parse. *)
THEOREM LogAlwaysTheReports == Spec => []LogIsTheReports
BY ParserInvariant, InvariantImplies, PTL

-------------------------------------------------------------------------------
(* Reduced objects. *)
(* An object, and how many words of the reduced one are written before each
   step. *)
Commands == Mini!Header + Mini!commands_size
SymbolWords == object.count * Mini!LoadedEntry
Before(step) ==
    IF step = "header" THEN 0
    ELSE IF step = "uuid" THEN Mini!Header
    ELSE IF step = "symtab" THEN Mini!Header + Mini!uuid_command_size
    ELSE IF step = "segment" THEN Mini!Header + Mini!uuid_command_size + Mini!symtab_command_size
    ELSE IF step = "symbols" THEN Commands
    ELSE IF step = "strings" THEN Commands + SymbolWords
    ELSE Commands + SymbolWords + object.strings

(* The word a reader needs at a place of the reduced object; what the others
   are does not matter. *)
SymtabAt == Mini!Header + Mini!uuid_command_size
IsWord(n, w) ==
    /\ n = SymtabAt + 3 => w = Commands
    /\ n = SymtabAt + 4 => w = object.count
    /\ n = SymtabAt + 5 => w = Commands + SymbolWords
    /\ n = SymtabAt + 6 => w = object.strings
    /\ Commands < n /\ n <= Commands + SymbolWords => w = Mini!symtabmem[n - Commands]
    /\ Commands + SymbolWords < n => w = <<"string", n - Commands - SymbolWords>>

Least(m, n) == IF m < n THEN m ELSE n

Tags == {"header", "uuid", "symtab", "segment", "symbol", "other", "memory", "string"}
Word == Nat \cup (Tags \X Nat) \cup (Tags \X Nat \X Nat)

MiniObject ==
    [x64 : BOOLEAN, count : 0 .. MaxSymbols, strings : 0 .. MaxStrings, gap : 0 .. 1]

MiniInv ==
    /\ object \in MiniObject
    /\ at \in {"header", "uuid", "symtab", "segment", "symbols", "strings", "done"}
    /\ size = Mini!full_size
    /\ out \in Seq(Word) /\ Len(out) = Least(size, Before(at))
    /\ \A n \in DOMAIN out : IsWord(n, out[n])

-------------------------------------------------------------------------------
(* The sizes of an object's parts, in words. *)
LEMMA MiniSizes ==
    ASSUME object \in MiniObject
    PROVE  /\ object.count \in Nat /\ object.strings \in Nat /\ object.gap \in 0 .. 1
           /\ object.x64 => /\ Mini!Header = 8 /\ Mini!commands_size = 30
                            /\ Mini!Entry = 4 /\ Mini!LoadedEntry = 3
           /\ ~object.x64 => /\ Mini!Header = 7 /\ Mini!commands_size = 26
                             /\ Mini!Entry = 3 /\ Mini!LoadedEntry = 4
           /\ Mini!mach_header_size = 7
           /\ Mini!uuid_command_size = 6 /\ Mini!symtab_command_size = 6
           /\ Commands = IF object.x64 THEN 38 ELSE 33
           /\ SymtabAt = IF object.x64 THEN 14 ELSE 13
           /\ SymbolWords = IF object.x64 THEN object.count * 3 ELSE object.count * 4
<1>1. object.count \in Nat /\ object.strings \in Nat /\ object.gap \in 0 .. 1 /\ object.x64 \in BOOLEAN
  BY MiniAssumption DEF Mini!MiniAssumption, MiniObject
<1>2. /\ object.x64 => /\ Mini!Header = 8 /\ Mini!commands_size = 30
                       /\ Mini!Entry = 4 /\ Mini!LoadedEntry = 3
      /\ ~object.x64 => /\ Mini!Header = 7 /\ Mini!commands_size = 26
                        /\ Mini!Entry = 3 /\ Mini!LoadedEntry = 4
      /\ Mini!mach_header_size = 7
      /\ Mini!uuid_command_size = 6 /\ Mini!symtab_command_size = 6
  BY DEF Mini!Header, Mini!commands_size, Mini!Entry, Mini!LoadedEntry, Mini!mach_header_size,
         Mini!mach_header_64_size, Mini!uuid_command_size, Mini!symtab_command_size,
         Mini!segment_command_size, Mini!segment_command_64_size, Mini!nlist_size,
         Mini!nlist_64_size
<1> QED
  BY <1>1, <1>2 DEF Commands, SymtabAt, SymbolWords

(* What is a word. *)
LEMMA WordTyped ==
    ASSUME NEW i \in Nat
    PROVE  /\ i \in Word
           /\ \A t \in Tags : <<t, i>> \in Word
           /\ \A j \in Nat : <<"symbol", i, j>> \in Word
<1>1. \A t \in Tags : <<t, i>> \in Tags \X Nat
  OBVIOUS
<1>2. \A j \in Nat : <<"symbol", i, j>> \in Tags \X Nat \X Nat
  BY DEF Tags
<1> QED
  BY <1>1, <1>2 DEF Word

(* The words copied for the symbols: the file's from its symbol table on. *)
LEMMA SymbolWordsRight ==
    ASSUME object \in MiniObject
    PROVE  /\ Mini!symtabmem \in Seq(Word) /\ Len(Mini!symtabmem) = SymbolWords
           /\ Mini!Strings \in Seq(Word) /\ Len(Mini!Strings) = object.strings
           /\ \A k \in 1 .. object.strings : Mini!Strings[k] = <<"string", k>>
           /\ \A k \in 1 .. SymbolWords : k <= object.count * Mini!Entry =>
                 Mini!symtabmem[k] =
                    <<"symbol", ((k - 1) \div Mini!Entry) + 1, ((k - 1) % Mini!Entry) + 1>>
           /\ SymbolWords \in Nat
<1> DEFINE others == [i \in 1 .. object.gap |-> <<"other", i>>]
           n == object.count * Mini!Entry
<1>1. /\ object.count \in Nat /\ object.strings \in Nat /\ object.gap \in 0 .. 1
      /\ Mini!Entry \in {3, 4} /\ n \in Nat /\ SymbolWords \in Nat
  <2>1. object.x64 \in BOOLEAN
    BY DEF MiniObject
  <2> QED BY <2>1, MiniSizes
<1>0. {"other", "memory", "string"} \subseteq Tags
  BY DEF Tags
<1>2. \A k \in 1 .. n : <<"symbol", ((k - 1) \div Mini!Entry) + 1, ((k - 1) % Mini!Entry) + 1>> \in Word
  <2> SUFFICES ASSUME NEW k \in 1 .. n
               PROVE  ((k - 1) \div Mini!Entry) + 1 \in Nat /\ ((k - 1) % Mini!Entry) + 1 \in Nat
    BY WordTyped
  <2>1. k - 1 \in Nat
    BY <1>1
  <2> QED BY <1>1, <2>1
<1>3. /\ Mini!Symbols \in Seq(Word) /\ Len(Mini!Symbols) = n
      /\ \A k \in 1 .. n : Mini!Symbols[k] =
            <<"symbol", ((k - 1) \div Mini!Entry) + 1, ((k - 1) % Mini!Entry) + 1>>
  <2>1. Mini!Symbols \in [1 .. n -> Word]
    BY <1>2 DEF Mini!Symbols
  <2> HIDE DEF n
  <2>2. Mini!Symbols \in Seq(Word) /\ Len(Mini!Symbols) = n
    BY <1>1, <2>1
  <2> QED BY <2>2 DEF Mini!Symbols, n
<1>4. others \in Seq(Word)
  <2>1. others \in [1 .. object.gap -> Word]
    <3>1. \A i \in 1 .. object.gap : <<"other", i>> \in Word
      BY <1>0, <1>1, WordTyped
    <3> QED BY <3>1
  <2> QED BY <1>1, <2>1
<1>5. /\ Mini!Strings \in Seq(Word) /\ Len(Mini!Strings) = object.strings
      /\ \A k \in 1 .. object.strings : Mini!Strings[k] = <<"string", k>>
  <2>1. Mini!Strings \in [1 .. object.strings -> Word]
    <3>1. \A i \in 1 .. object.strings : <<"string", i>> \in Word
      BY <1>0, <1>1, WordTyped
    <3> QED BY <3>1 DEF Mini!Strings
  <2>2. Mini!Strings \in Seq(Word) /\ Len(Mini!Strings) = object.strings
    BY <1>1, <2>1
  <2> QED BY <2>2 DEF Mini!Strings
<1> HIDE DEF others, n
<1>6. /\ Mini!InFile \in Seq(Word) /\ Len(Mini!InFile) >= n
      /\ \A k \in 1 .. n : Mini!InFile[k] = Mini!Symbols[k]
  <2> DEFINE s == Mini!Symbols
             t == Mini!Strings
  <2>1. Mini!InFile = (s \o others) \o t
    BY DEF Mini!InFile, others
  <2> HIDE DEF s, t
  <2>2. s \in Seq(Word) /\ t \in Seq(Word) /\ Len(s) = n /\ n \in Nat
    BY <1>1, <1>3, <1>5 DEF s, t
  <2>3. /\ s \o others \in Seq(Word) /\ Len(s \o others) = n + Len(others) /\ Len(others) \in Nat
        /\ \A k \in 1 .. n : (s \o others)[k] = s[k]
    BY <1>4, <2>2
  <2>4. /\ (s \o others) \o t \in Seq(Word) /\ Len((s \o others) \o t) = n + Len(others) + Len(t)
        /\ \A k \in 1 .. n : ((s \o others) \o t)[k] = s[k] /\ Len(t) \in Nat
    BY SMTT(30), <2>2, <2>3
  <2> QED BY <2>1, <2>2, <2>3, <2>4 DEF s
<1>7. /\ Mini!symtabmem \in Seq(Word) /\ Len(Mini!symtabmem) = SymbolWords
      /\ \A k \in 1 .. SymbolWords : Mini!symtabmem[k] =
            IF k <= Len(Mini!InFile) THEN Mini!InFile[k] ELSE <<"memory", k>>
  <2>1. \A k \in 1 .. SymbolWords :
            (IF k <= Len(Mini!InFile) THEN Mini!InFile[k] ELSE <<"memory", k>>) \in Word
    <3> SUFFICES ASSUME NEW k \in 1 .. SymbolWords
                 PROVE  (k <= Len(Mini!InFile) => Mini!InFile[k] \in Word) /\ <<"memory", k>> \in Word
      OBVIOUS
    <3>1. k \in Nat /\ k >= 1 /\ <<"memory", k>> \in Word
      BY <1>0, <1>1, WordTyped
    <3> QED BY <1>6, <3>1
  <2>2. Mini!symtabmem \in [1 .. SymbolWords -> Word]
    BY <2>1 DEF Mini!symtabmem, SymbolWords
  <2>3. Mini!symtabmem \in Seq(Word) /\ Len(Mini!symtabmem) = SymbolWords
    BY <1>1, <2>2
  <2> QED BY <2>3 DEF Mini!symtabmem, SymbolWords
<1>8. \A k \in 1 .. SymbolWords : k <= n => Mini!symtabmem[k] = Mini!Symbols[k]
  BY <1>1, <1>6, <1>7
<1>9. ASSUME NEW k \in 1 .. SymbolWords, k <= n
      PROVE  Mini!symtabmem[k] =
                <<"symbol", ((k - 1) \div Mini!Entry) + 1, ((k - 1) % Mini!Entry) + 1>>
  <2>1. k \in 1 .. n /\ Mini!symtabmem[k] = Mini!Symbols[k]
    BY <1>1, <1>8, <1>9
  <2> QED BY <1>3, <2>1, Zenon
<1> QED
  BY <1>1, <1>5, <1>7, <1>9 DEF n

(* A write appends what the buffer has room for. *)
LEMMA PutWords ==
    ASSUME out \in Seq(Word), NEW words \in Seq(Word), size \in Nat, Len(out) <= size,
           Mini!Put(words)
    PROVE  /\ out' \in Seq(Word)
           /\ Len(out') = Least(size, Len(out) + Len(words))
           /\ \A n \in 1 .. Len(out') :
                 out'[n] = IF n <= Len(out) THEN out[n] ELSE words[n - Len(out)]
<1> DEFINE m == IF size - Len(out) < Len(words) THEN size - Len(out) ELSE Len(words)
<1>1. out' = out \o SubSeq(words, 1, m)
  BY DEF Mini!Put
<1>2. m \in 0 .. Len(words) /\ Len(out) \in Nat /\ Len(words) \in Nat
  OBVIOUS
<1>3. Len(out) + m = Least(size, Len(out) + Len(words))
  BY <1>2 DEF Least
<1> HIDE DEF m
<1>4. /\ SubSeq(words, 1, m) \in Seq(Word) /\ Len(SubSeq(words, 1, m)) = m
      /\ \A n \in 1 .. m : SubSeq(words, 1, m)[n] = words[n]
  BY <1>2
<1> QED
  BY <1>1, <1>2, <1>3, <1>4

(* The size computed beforehand is that of a header of 32 bits. *)
LEMMA FullSize ==
    ASSUME object \in MiniObject
    PROVE  /\ Mini!full_size = Commands + SymbolWords + object.strings
                                  - (IF object.x64 THEN 1 ELSE 0)
           /\ Mini!full_size \in Nat
<1>1. Mini!full_size = 7 + Mini!commands_size + SymbolWords + object.strings
  BY MiniSizes, SymbolWordsRight DEF Mini!full_size
<1>2. object.x64 \in BOOLEAN
  BY DEF MiniObject
<1> QED
  BY <1>1, <1>2, MiniSizes

Steps == {"header", "uuid", "symtab", "segment", "symbols", "strings", "done"}

(* What is written before a step fits the numbers. *)
LEMMA BeforeTyped ==
    ASSUME object \in MiniObject
    PROVE  \A step \in Steps : Before(step) \in Nat
<1>1. object.x64 \in BOOLEAN
  BY DEF MiniObject
<1> QED
  BY <1>1, MiniSizes DEF Before, Steps

(* A step that writes what belongs at its place keeps the invariant. *)
LEMMA WriteKeeps ==
    ASSUME MiniInv, object' = object, size' = size, at' \in Steps,
           NEW words \in Seq(Word), Mini!Put(words),
           Len(words) = Before(at') - Before(at),
           \A k \in 1 .. Len(words) : IsWord(Before(at) + k, words[k])
    PROVE  MiniInv'
<1> DEFINE b == Before(at)
           l == Len(words)
<1>1. /\ object \in MiniObject /\ at \in Steps /\ size = Mini!full_size /\ size \in Nat
      /\ out \in Seq(Word) /\ Len(out) = Least(size, b)
      /\ \A n \in DOMAIN out : IsWord(n, out[n])
  BY FullSize DEF MiniInv, Steps
<1>2. b \in Nat /\ l \in Nat /\ Before(at') = b + l
  BY <1>1, BeforeTyped
<1>3. /\ Mini!full_size' = Mini!full_size /\ Mini!Header' = Mini!Header
      /\ Commands' = Commands /\ SymbolWords' = SymbolWords /\ SymtabAt' = SymtabAt
      /\ Mini!symtabmem' = Mini!symtabmem
  BY DEF Mini!full_size, Mini!Header, Mini!commands_size, Mini!LoadedEntry, Mini!symtabmem,
     Mini!InFile, Mini!Symbols, Mini!Strings, Mini!Entry, Commands, SymbolWords, SymtabAt
<1>9. Before(at)' = Before(at')
  BY <1>3 DEF Before
<1> HIDE DEF b, l
<1>4. /\ out' \in Seq(Word) /\ Len(out') = Least(size, Len(out) + l)
      /\ \A n \in 1 .. Len(out') :
            out'[n] = IF n <= Len(out) THEN out[n] ELSE words[n - Len(out)]
  <2>1. Len(out) <= size
    BY <1>1, <1>2 DEF Least
  <2> QED BY <1>1, <2>1, PutWords DEF l
<1>5. Len(out') = Least(size, b + l)
  BY <1>1, <1>2, <1>4 DEF Least
<1>6. ASSUME NEW n \in DOMAIN out'
      PROVE  IsWord(n, out'[n])
  <2>1. n \in 1 .. Len(out')
    BY <1>4
  <2>2. CASE n <= Len(out)
    <3>1. n \in DOMAIN out /\ out'[n] = out[n]
      BY <1>1, <1>4, <2>1, <2>2
    <3> QED BY <1>1, <3>1
  <2>3. CASE n > Len(out)
    <3>1. Len(out) = b /\ n - b \in 1 .. l
      BY <1>1, <1>2, <1>5, <2>1, <2>3 DEF Least
    <3>2. out'[n] = words[n - b]
      BY <1>1, <1>2, <1>4, <2>1, <2>3, <3>1
    <3>3. IsWord(b + (n - b), words[n - b])
      BY <3>1 DEF b, l
    <3>4. b + (n - b) = n
      BY <1>2, <2>1
    <3> QED BY <3>2, <3>3, <3>4
  <2>4. Len(out) \in Nat /\ n \in Nat
    BY <1>1, <2>1
  <2> QED BY <2>2, <2>3, <2>4
<1>7. object' \in MiniObject
  BY <1>1
<1>8. Len(out') = Least(size', Before(at)') /\ size' = Mini!full_size'
  BY <1>1, <1>2, <1>3, <1>5, <1>9
<1>10. (\A n \in DOMAIN out : IsWord(n, out[n]))'
  <2> SUFFICES ASSUME NEW n \in DOMAIN out' PROVE IsWord(n, out[n])'
    OBVIOUS
  <2>1. IsWord(n, out'[n])
    BY <1>6
  <2> QED BY <2>1, <1>3 DEF IsWord
<1> QED
  BY <1>4, <1>7, <1>8, <1>10 DEF MiniInv, Steps

(* The words of a command that only has to be there. *)
LEMMA WordsRight ==
    ASSUME NEW t \in Tags, NEW n \in Nat
    PROVE  Mini!Words(t, n) \in Seq(Word) /\ Len(Mini!Words(t, n)) = n
<1>1. \A i \in 1 .. n : <<t, i>> \in Word
  BY WordTyped
<1>2. Mini!Words(t, n) \in [1 .. n -> Word]
  BY <1>1 DEF Mini!Words
<1> QED
  BY <1>2

(* Each part of the reduced object has the words its reader expects there. *)
LEMMA MiniStepKeeps ==
    ASSUME MiniInv, Mini!Next
    PROVE  MiniInv'
<1>1. object \in MiniObject /\ object.x64 \in BOOLEAN
  BY DEF MiniInv, MiniObject
<1>2. /\ Mini!Header \in Nat /\ object.count \in Nat /\ object.strings \in Nat
      /\ Commands \in Nat /\ SymbolWords \in Nat
      /\ SymtabAt = Mini!Header + 6 /\ Commands > SymtabAt + 6
      /\ Mini!uuid_command_size = 6 /\ Mini!symtab_command_size = 6
      /\ {"header", "uuid", "symtab", "segment"} \subseteq Tags
  BY <1>1, MiniSizes, SymbolWordsRight DEF Tags
<1>3. CASE Mini!WriteHeader
  <2> DEFINE words == Mini!Words("header", Mini!Header)
  <2>1. words \in Seq(Word) /\ Len(words) = Mini!Header
    BY <1>2, WordsRight
  <2>2. /\ at = "header" /\ at' = "uuid" /\ object' = object /\ size' = size /\ Mini!Put(words)
    BY <1>3 DEF Mini!WriteHeader
  <2>3. Before(at) = 0 /\ Before(at') = Mini!Header /\ at' \in Steps
    BY <2>2 DEF Before, Steps
  <2> HIDE DEF words
  <2>4. \A k \in 1 .. Len(words) : IsWord(Before(at) + k, words[k])
    BY <1>2, <2>1, <2>3 DEF IsWord
  <2>5. Len(words) = Before(at') - Before(at)
    BY <1>2, <2>1, <2>3
  <2> QED BY <2>1, <2>2, <2>3, <2>4, <2>5, WriteKeeps
<1>4. CASE Mini!WriteUUID
  <2> DEFINE words == Mini!Words("uuid", Mini!uuid_command_size)
  <2>1. words \in Seq(Word) /\ Len(words) = 6
    BY <1>2, WordsRight
  <2>2. /\ at = "uuid" /\ at' = "symtab" /\ object' = object /\ size' = size /\ Mini!Put(words)
    BY <1>4 DEF Mini!WriteUUID
  <2>3. Before(at) = Mini!Header /\ Before(at') = Mini!Header + 6 /\ at' \in Steps
    BY <1>2, <2>2 DEF Before, Steps
  <2> HIDE DEF words
  <2>4. \A k \in 1 .. Len(words) : IsWord(Before(at) + k, words[k])
    BY <1>2, <2>1, <2>3 DEF IsWord
  <2>5. Len(words) = Before(at') - Before(at)
    BY <1>2, <2>1, <2>3
  <2> QED BY <2>1, <2>2, <2>3, <2>4, <2>5, WriteKeeps
<1>5. CASE Mini!WriteSymtab
  <2> DEFINE words == <<<<"symtab", 1>>, <<"symtab", 2>>, Mini!symtab.symoff, Mini!symtab.nsyms,
                        Mini!symtab.stroff, Mini!symtab.strsize>>
  <2>0. /\ Mini!symtab.symoff = Commands /\ Mini!symtab.nsyms = object.count
        /\ Mini!symtab.stroff = Commands + SymbolWords /\ Mini!symtab.strsize = object.strings
    BY <1>1, SymbolWordsRight DEF Mini!symtab, Commands
  <2>1. words \in Seq(Word) /\ Len(words) = 6
    <3>1. <<"symtab", 1>> \in Word /\ <<"symtab", 2>> \in Word
      BY <1>2, WordTyped
    <3>2. /\ Mini!symtab.symoff \in Word /\ Mini!symtab.nsyms \in Word
          /\ Mini!symtab.stroff \in Word /\ Mini!symtab.strsize \in Word
      <4>1. Commands + SymbolWords \in Nat
        BY <1>2
      <4> QED BY <1>2, <2>0, <4>1, WordTyped
    <3> QED BY <3>1, <3>2
  <2>2. /\ at = "symtab" /\ at' = "segment" /\ object' = object /\ size' = size /\ Mini!Put(words)
    BY <1>5 DEF Mini!WriteSymtab
  <2>3. Before(at) = SymtabAt /\ Before(at') = SymtabAt + 6 /\ at' \in Steps
    BY <1>2, <2>2 DEF Before, Steps
  <2>4. /\ words[3] = Commands /\ words[4] = object.count
        /\ words[5] = Commands + SymbolWords /\ words[6] = object.strings
    BY <2>0
  <2> HIDE DEF words
  <2>5. \A k \in 1 .. Len(words) : IsWord(Before(at) + k, words[k])
    BY <1>2, <2>1, <2>3, <2>4, SMTT(30) DEF IsWord
  <2>6. Len(words) = Before(at') - Before(at)
    BY <1>2, <2>1, <2>3
  <2> QED BY <2>1, <2>2, <2>3, <2>5, <2>6, WriteKeeps
<1>6. CASE Mini!WriteSegment
  <2> DEFINE n == IF object.x64 THEN Mini!segment_command_64_size ELSE Mini!segment_command_size
             words == Mini!Words("segment", n)
  <2>0. n \in Nat /\ n = Commands - (SymtabAt + 6)
    BY <1>1, MiniSizes DEF Mini!segment_command_64_size, Mini!segment_command_size
  <2>2. /\ at = "segment" /\ at' = "symbols" /\ object' = object /\ size' = size /\ Mini!Put(words)
    BY <1>6 DEF Mini!WriteSegment
  <2> HIDE DEF n
  <2>1. words \in Seq(Word) /\ Len(words) = n
    BY <1>2, <2>0, WordsRight
  <2>3. Before(at) = SymtabAt + 6 /\ Before(at') = Commands /\ at' \in Steps
    BY <1>2, <2>2 DEF Before, Steps
  <2> HIDE DEF words
  <2>4. \A k \in 1 .. Len(words) : IsWord(Before(at) + k, words[k])
    BY <1>2, <2>0, <2>1, <2>3 DEF IsWord
  <2>5. Len(words) = Before(at') - Before(at)
    BY <1>2, <2>0, <2>1, <2>3
  <2> QED BY <2>1, <2>2, <2>3, <2>4, <2>5, WriteKeeps
<1>7. CASE Mini!WriteSymbols
  <2> DEFINE words == Mini!symtabmem
  <2>1. words \in Seq(Word) /\ Len(words) = SymbolWords
    BY <1>1, SymbolWordsRight
  <2>2. /\ at = "symbols" /\ at' = "strings" /\ object' = object /\ size' = size /\ Mini!Put(words)
    BY <1>7 DEF Mini!WriteSymbols
  <2>3. Before(at) = Commands /\ Before(at') = Commands + SymbolWords /\ at' \in Steps
    BY <1>2, <2>2 DEF Before, Steps
  <2>4. ASSUME NEW k \in 1 .. Len(words) PROVE IsWord(Before(at) + k, words[k])
    <3>1. k \in Nat /\ k >= 1 /\ k <= SymbolWords /\ (Commands + k) - Commands = k
      BY <1>2, <2>1
    <3> QED BY <1>2, <2>3, <3>1 DEF IsWord
  <2>5. Len(words) = Before(at') - Before(at)
    BY <1>2, <2>1, <2>3
  <2> QED BY <2>1, <2>2, <2>3, <2>4, <2>5, WriteKeeps
<1>8. CASE Mini!WriteStrings
  <2> DEFINE words == Mini!Strings
  <2>1. /\ words \in Seq(Word) /\ Len(words) = object.strings
        /\ \A k \in 1 .. object.strings : words[k] = <<"string", k>>
    BY <1>1, SymbolWordsRight
  <2>2. /\ at = "strings" /\ at' = "done" /\ object' = object /\ size' = size /\ Mini!Put(words)
    BY <1>8 DEF Mini!WriteStrings
  <2>3. /\ Before(at) = Commands + SymbolWords /\ at' \in Steps
        /\ Before(at') = Commands + SymbolWords + object.strings
    BY <1>2, <2>2 DEF Before, Steps
  <2> HIDE DEF words
  <2>4. ASSUME NEW k \in 1 .. Len(words) PROVE IsWord(Before(at) + k, words[k])
    <3>1. k \in Nat /\ k >= 1 /\ (Commands + SymbolWords + k) - Commands - SymbolWords = k
      BY <1>2, <2>1
    <3>2. words[k] = <<"string", k>>
      BY <2>1
    <3> QED BY <1>2, <2>3, <3>1, <3>2 DEF IsWord
  <2>5. Len(words) = Before(at') - Before(at)
    BY <1>2, <2>1, <2>3
  <2> QED BY <2>1, <2>2, <2>3, <2>4, <2>5, WriteKeeps
<1> QED
  BY <1>3, <1>4, <1>5, <1>6, <1>7, <1>8 DEF Mini!Next

(* Nothing is written when the size has been computed. *)
LEMMA MiniInitHolds ==
    ASSUME Mini!Init
    PROVE  MiniInv
<1>1. object \in MiniObject /\ size = Mini!full_size /\ out = <<>> /\ at = "header"
  BY DEF Mini!Init, MiniObject
<1>2. out \in Seq(Word) /\ DOMAIN out = {} /\ Len(out) = 0
  BY <1>1
<1>3. Least(size, Before(at)) = 0
  BY <1>1, FullSize DEF Least, Before
<1> QED
  BY <1>1, <1>2, <1>3 DEF MiniInv

(* What a reader of the finished object finds where. *)
LEMMA ReadFacts ==
    ASSUME MiniInv, at = "done"
    PROVE  /\ Len(out) = Mini!full_size
           /\ Mini!Read[1] = Commands /\ Mini!Read[2] = object.count
           /\ Mini!Read[3] = Commands + SymbolWords /\ Mini!Read[4] = object.strings
           /\ \A k \in 1 .. SymbolWords : Commands + k <= Len(out) =>
                 Mini!WordAt(Commands + k) = Mini!symtabmem[k]
           /\ \A k \in 1 .. object.strings :
                 Mini!WordAt(Commands + SymbolWords + k) =
                    IF Commands + SymbolWords + k <= Len(out) THEN <<"string", k>> ELSE <<"end">>
<1>1. /\ object \in MiniObject /\ object.x64 \in BOOLEAN
      /\ size = Mini!full_size
      /\ out \in Seq(Word) /\ Len(out) = Least(size, Before(at))
      /\ \A n \in DOMAIN out : IsWord(n, out[n])
  BY DEF MiniInv, MiniObject
<1>2. /\ Mini!Header \in Nat /\ object.count \in Nat /\ object.strings \in Nat
      /\ Commands \in Nat /\ SymbolWords \in Nat
      /\ SymtabAt = Mini!Header + 6 /\ Commands > SymtabAt + 7
      /\ Mini!uuid_command_size = 6
  BY <1>1, MiniSizes, SymbolWordsRight, SMTT(30)
<1>3. Before(at) = Commands + SymbolWords + object.strings
  BY DEF Before
<1>4. Len(out) = Mini!full_size /\ Len(out) \in Nat /\ Len(out) >= SymtabAt + 6
      /\ DOMAIN out = 1 .. Len(out)
  <2>1. size <= Before(at) /\ size >= SymtabAt + 6
    BY <1>1, <1>2, <1>3, FullSize
  <2>2. size \in Nat /\ Before(at) \in Nat
    BY <1>1, <1>2, <1>3, FullSize
  <2>3. Len(out) = size
    BY <1>1, <2>1, <2>2 DEF Least
  <2> QED BY <1>1, <2>1, <2>2, <2>3
<1>5. \A k \in 1 .. 4 : Mini!Read[k] = out[SymtabAt + 2 + k] /\ SymtabAt + 2 + k \in DOMAIN out
  BY <1>2, <1>4 DEF Mini!Read
<1>6. /\ Mini!Read[1] = Commands /\ Mini!Read[2] = object.count
      /\ Mini!Read[3] = Commands + SymbolWords /\ Mini!Read[4] = object.strings
  <2>1. /\ IsWord(SymtabAt + 3, out[SymtabAt + 3]) /\ IsWord(SymtabAt + 4, out[SymtabAt + 4])
        /\ IsWord(SymtabAt + 5, out[SymtabAt + 5]) /\ IsWord(SymtabAt + 6, out[SymtabAt + 6])
    BY <1>1, <1>2, <1>4
  <2>2. /\ Mini!Read[1] = out[SymtabAt + 3] /\ Mini!Read[2] = out[SymtabAt + 4]
        /\ Mini!Read[3] = out[SymtabAt + 5] /\ Mini!Read[4] = out[SymtabAt + 6]
    BY <1>2, <1>5
  <2> QED BY <2>1, <2>2 DEF IsWord
<1>7. ASSUME NEW k \in 1 .. SymbolWords, Commands + k <= Len(out)
      PROVE  Mini!WordAt(Commands + k) = Mini!symtabmem[k]
  <2>1. Commands + k \in DOMAIN out /\ (Commands + k) - Commands = k
    BY <1>2, <1>4, <1>7
  <2>2. IsWord(Commands + k, out[Commands + k])
    BY <1>1, <2>1
  <2>3. out[Commands + k] = Mini!symtabmem[k]
    BY <1>2, <2>1, <2>2 DEF IsWord
  <2> QED BY <2>1, <2>3 DEF Mini!WordAt
<1>8. ASSUME NEW k \in 1 .. object.strings
      PROVE  Mini!WordAt(Commands + SymbolWords + k) =
                IF Commands + SymbolWords + k <= Len(out) THEN <<"string", k>> ELSE <<"end">>
  <2> DEFINE n == Commands + SymbolWords + k
  <2>1. n \in Nat /\ n > Commands + SymbolWords /\ n - Commands - SymbolWords = k
        /\ (n \in DOMAIN out <=> n <= Len(out))
    BY <1>2, <1>4
  <2> HIDE DEF n
  <2>2. n \in DOMAIN out => out[n] = <<"string", k>>
    BY <1>1, <2>1 DEF IsWord
  <2>3. Mini!WordAt(n) = IF n <= Len(out) THEN <<"string", k>> ELSE <<"end">>
    BY <2>1, <2>2 DEF Mini!WordAt
  <2> QED BY <2>3 DEF n
<1> QED
  BY <1>4, <1>6, <1>7, <1>8

(* A place of the symbol table is a word of one symbol. *)
LEMMA WordOfSymbol ==
    ASSUME NEW e \in {3, 4}, NEW i \in Nat \ {0}, NEW j \in 1 .. e
    PROVE  /\ (i - 1) * e + j \in Nat \ {0}
           /\ ((((i - 1) * e + j) - 1) \div e) + 1 = i
           /\ ((((i - 1) * e + j) - 1) % e) + 1 = j
<1>1. CASE e = 3
  <2>1. /\ (((i - 1) * 3 + j) - 1) \div 3 = i - 1
        /\ (((i - 1) * 3 + j) - 1) % 3 = j - 1
    BY <1>1
  <2> QED BY <1>1, <2>1
<1>2. CASE e = 4
  <2>1. /\ (((i - 1) * 4 + j) - 1) \div 4 = i - 1
        /\ (((i - 1) * 4 + j) - 1) % 4 = j - 1
    BY <1>2
  <2> QED BY <1>2, <2>1
<1> QED BY <1>1, <1>2

(* Where a symbol ends in the table. *)
LEMMA SymbolEnds ==
    ASSUME NEW n \in Nat, NEW e \in {3, 4}, NEW i \in 1 .. n, NEW j \in 1 .. e
    PROVE  /\ (i - 1) * e + j \in Nat \ {0} /\ (i - 1) * e + j <= i * e
           /\ (i - 1) * e + j <= n * e /\ i * e \in Nat /\ i * e <= n * e
           /\ \A c \in Nat : c + (i - 1) * e + j = c + ((i - 1) * e + j)
<1>1. CASE e = 3
  BY <1>1
<1>2. CASE e = 4
  BY <1>2
<1> QED BY <1>1, <1>2

(* What is read back follows from where the words stand. *)
LEMMA MiniInvImplies ==
    ASSUME MiniInv
    PROVE  Mini!TypeOK /\ Mini!RoundTrip32 /\ Mini!RoundTrip64
<1> DEFINE e == Mini!Entry
           n == object.count
<1>1. /\ object \in MiniObject /\ object.x64 \in BOOLEAN /\ size = Mini!full_size
      /\ out \in Seq(Word) /\ Len(out) = Least(size, Before(at)) /\ Len(out) \in Nat
  BY DEF MiniInv, MiniObject
<1>2. /\ Commands \in Nat /\ SymbolWords \in Nat /\ n \in Nat /\ object.strings \in Nat
      /\ e = IF object.x64 THEN 4 ELSE 3
      /\ SymbolWords = IF object.x64 THEN n * 3 ELSE n * 4
      /\ Mini!full_size = Commands + SymbolWords + object.strings
                             - (IF object.x64 THEN 1 ELSE 0)
      /\ Mini!full_size \in Nat
  <2>1. /\ Mini!full_size = Commands + SymbolWords + object.strings
                               - (IF object.x64 THEN 1 ELSE 0)
        /\ Mini!full_size \in Nat
    BY <1>1, FullSize
  <2>2. SymbolWords \in Nat
    BY <1>1, SymbolWordsRight
  <2> QED BY <1>1, <2>1, <2>2, MiniSizes, SMTT(30)
<1> HIDE DEF e, n
<1>3. Mini!TypeOK
  <2>1. object.count \in 0 .. MaxSymbols
    BY <1>1 DEF MiniObject
  <2>2. at \in Steps /\ Before(at) \in Nat
    BY <1>1, BeforeTyped DEF MiniInv, Steps
  <2>3. Len(out) \in 0 .. size
    BY <1>1, <1>2, <2>2 DEF Least
  <2>4. at = "done" => Len(out) = size
    BY <1>1, ReadFacts
  <2> QED BY <1>1, <2>1, <2>2, <2>3, <2>4 DEF Mini!TypeOK, Steps
<1>4. ASSUME at = "done", NEW i \in 1 .. n, NEW j \in 1 .. e
      PROVE  /\ Mini!SymbolRead(i)[j] = Mini!WordAt(Commands + ((i - 1) * e + j))
             /\ Mini!SymbolOf(i)[j] = <<"symbol", i, j>>
             /\ (i - 1) * e + j \in Nat \ {0} /\ (i - 1) * e + j <= n * e
             /\ (i - 1) * e + j <= SymbolWords /\ Commands + ((i - 1) * e + j) <= Len(out)
                  => Mini!SymbolRead(i)[j] = <<"symbol", i, j>>
  <2> DEFINE k == (i - 1) * e + j
  <2>0. i \in Nat \ {0} /\ e \in {3, 4}
    BY <1>1, <1>2
  <2>1. k \in Nat \ {0} /\ k <= n * e
    BY <1>2, <2>0, SymbolEnds
  <2>2. Mini!SymbolRead(i)[j] = Mini!WordAt(Commands + (i - 1) * e + j)
    BY <1>4, ReadFacts DEF Mini!SymbolRead, e
  <2>3. Commands + (i - 1) * e + j = Commands + k
    BY <1>2, <2>0, SymbolEnds
  <2>4. Mini!SymbolOf(i)[j] = <<"symbol", i, j>>
    BY DEF Mini!SymbolOf, e
  <2>5. ((k - 1) \div e) + 1 = i /\ ((k - 1) % e) + 1 = j
    BY <2>0, WordOfSymbol
  <2> HIDE DEF k
  <2>6. ASSUME k <= SymbolWords, Commands + k <= Len(out)
        PROVE  Mini!WordAt(Commands + k) = <<"symbol", i, j>>
    <3>1. k \in 1 .. SymbolWords
      BY <1>2, <2>1, <2>6
    <3>2. Mini!WordAt(Commands + k) = Mini!symtabmem[k]
      BY <1>4, <2>6, <3>1, ReadFacts
    <3>3. Mini!symtabmem[k] = <<"symbol", ((k - 1) \div e) + 1, ((k - 1) % e) + 1>>
      BY <1>1, <2>1, <3>1, SymbolWordsRight DEF e, n
    <3> QED BY <2>5, <3>2, <3>3
  <2>7. Mini!SymbolRead(i)[j] = Mini!WordAt(Commands + k)
    BY <2>2, <2>3
  <2> QED BY <2>1, <2>4, <2>6, <2>7 DEF k
<1>5. ASSUME at = "done", NEW i \in 1 .. n, i * e <= SymbolWords, Commands + i * e <= Len(out)
      PROVE  Mini!SymbolRead(i) = Mini!SymbolOf(i)
  <2>1. \A j \in 1 .. e : Mini!SymbolRead(i)[j] = Mini!SymbolOf(i)[j]
    <3> SUFFICES ASSUME NEW j \in 1 .. e PROVE Mini!SymbolRead(i)[j] = Mini!SymbolOf(i)[j]
      OBVIOUS
    <3>1. (i - 1) * e + j <= i * e /\ (i - 1) * e + j \in Nat /\ i * e \in Nat
      <4>1. e \in {3, 4}
        BY <1>1, <1>2
      <4> QED BY <1>2, <4>1, SymbolEnds
    <3> DEFINE k == (i - 1) * e + j
               l == i * e
    <3>2. k <= SymbolWords /\ Commands + k <= Len(out)
      <4>1. k <= l /\ k \in Nat /\ l \in Nat /\ l <= SymbolWords /\ Commands + l <= Len(out)
        BY <1>5, <3>1
      <4> HIDE DEF k, l
      <4> QED BY <1>1, <1>2, <4>1
    <3> QED BY <1>4, <1>5, <3>2
  <2>2. /\ Mini!SymbolRead(i) = [j \in 1 .. e |-> Mini!SymbolRead(i)[j]]
        /\ Mini!SymbolOf(i) = [j \in 1 .. e |-> Mini!SymbolOf(i)[j]]
    BY DEF Mini!SymbolRead, Mini!SymbolOf, e
  <2> QED BY <2>1, <2>2
<1>6. ASSUME at = "done", NEW j \in 1 .. object.strings
      PROVE  /\ Mini!StringsRead[j] =
                  IF Commands + SymbolWords + j <= Len(out) THEN <<"string", j>> ELSE <<"end">>
             /\ Mini!Strings[j] = <<"string", j>>
  <2>1. Mini!StringsRead[j] = Mini!WordAt(Commands + SymbolWords + j)
    BY <1>6, ReadFacts DEF Mini!StringsRead
  <2> QED BY <1>1, <1>6, <2>1, ReadFacts, SymbolWordsRight
<1>7. Mini!RoundTrip32
  <2> SUFFICES ASSUME at = "done", ~object.x64
               PROVE  /\ Mini!Read[2] = object.count /\ Mini!Read[4] = object.strings
                      /\ \A i \in 1 .. object.count : Mini!SymbolRead(i) = Mini!SymbolOf(i)
                      /\ Mini!StringsRead = Mini!Strings
    BY DEF Mini!RoundTrip32
  <2>0. at = "done" /\ ~object.x64
    OBVIOUS
  <2>1. Len(out) = Commands + SymbolWords + object.strings
    BY <1>2, <2>0, ReadFacts
  <2>2. ASSUME NEW i \in 1 .. n PROVE Mini!SymbolRead(i) = Mini!SymbolOf(i)
    <3>1. i * 3 <= n * 4 /\ i * 3 \in Nat /\ e = 3 /\ SymbolWords = n * 4
      BY <1>2, <2>0
    <3>2. i * e <= SymbolWords /\ Commands + i * e <= Len(out)
      BY <1>2, <2>1, <3>1
    <3> QED BY <1>5, <2>0, <3>2
  <2>3. Mini!StringsRead = Mini!Strings
    <3>1. \A j \in 1 .. object.strings : Mini!StringsRead[j] = Mini!Strings[j]
      <4> SUFFICES ASSUME NEW j \in 1 .. object.strings
                   PROVE  Mini!StringsRead[j] = Mini!Strings[j]
        OBVIOUS
      <4>1. Commands + SymbolWords + j <= Len(out)
        BY <1>2, <2>1
      <4> QED BY <1>6, <2>0, <4>1
    <3>2. /\ Mini!StringsRead = [j \in 1 .. object.strings |-> Mini!StringsRead[j]]
          /\ Mini!Strings = [j \in 1 .. object.strings |-> Mini!Strings[j]]
      BY ReadFacts DEF Mini!StringsRead, Mini!Strings
    <3> QED BY <3>1, <3>2
  <2> QED BY <2>0, <2>2, <2>3, ReadFacts DEF n
<1>8. Mini!RoundTrip64
  <2> SUFFICES ASSUME at = "done", object.x64, object.strings > 0
               PROVE  /\ Mini!Read[2] = object.count
                      /\ \A i \in 1 .. object.count :
                            Mini!SymbolRead(i) = Mini!SymbolOf(i) <=> 4 * i <= 3 * object.count
                      /\ \A j \in 1 .. object.strings :
                            Mini!StringsRead[j] = Mini!Strings[j] <=> j < object.strings
    BY DEF Mini!RoundTrip64
  <2>0. at = "done" /\ object.x64
    OBVIOUS
  <2>1. /\ Len(out) = Commands + SymbolWords + object.strings - 1
        /\ e = 4 /\ SymbolWords = 3 * n
    BY <1>2, <2>0, ReadFacts
  <2>2. ASSUME NEW i \in 1 .. n, 4 * i <= 3 * n
        PROVE  Mini!SymbolRead(i) = Mini!SymbolOf(i)
    <3>1. i * e = 4 * i /\ 4 * i \in Nat
      BY <2>1
    <3>2. i * e <= SymbolWords /\ Commands + i * e <= Len(out)
      <4> DEFINE l == i * e
      <4>1. l \in Nat /\ l <= SymbolWords
        BY <2>1, <2>2, <3>1
      <4> HIDE DEF l
      <4>2. Commands + l <= Len(out)
        BY <1>2, <2>0, <2>1, <4>1
      <4> QED BY <4>1, <4>2 DEF l
    <3> QED BY <1>5, <2>0, <3>2
  <2>3. ASSUME NEW i \in 1 .. n, ~(4 * i <= 3 * n), Mini!SymbolRead(i) = Mini!SymbolOf(i)
        PROVE  FALSE
    <3> DEFINE k == 4 * i - SymbolWords
    <3>1. /\ Mini!SymbolRead(i)[4] = Mini!WordAt(Commands + ((i - 1) * e + 4))
          /\ Mini!SymbolOf(i)[4] = <<"symbol", i, 4>>
      <4>1. 4 \in 1 .. e
        BY <2>1
      <4> QED BY <1>4, <4>1
    <3>2. Commands + ((i - 1) * e + 4) = Commands + SymbolWords + k /\ k \in Nat /\ k >= 1
      <4>1. (i - 1) * e + 4 = 4 * i /\ 4 * i \in Nat
        BY <2>1
      <4>2. ~(4 * i <= SymbolWords) /\ SymbolWords \in Nat /\ Commands \in Nat
        BY <1>2, <2>1, <2>3
      <4> QED BY <4>1, <4>2
    <3>3. Mini!WordAt(Commands + SymbolWords + k) \in {<<"string", k>>, <<"end">>}
      <4> HIDE DEF k
      <4>1. CASE k <= object.strings
        <5>1. k \in 1 .. object.strings
          BY <1>2, <3>2, <4>1
        <5> QED BY <2>0, <5>1, ReadFacts
      <4>2. CASE k > object.strings
        <5>1. Commands + SymbolWords + k \notin DOMAIN out
          <6>1. DOMAIN out = 1 .. Len(out) /\ k \in Nat
            BY <1>1, <3>2
          <6> QED BY <1>2, <2>1, <4>2, <6>1
        <5> QED BY <5>1 DEF Mini!WordAt
      <4> QED BY <1>2, <3>2, <4>1, <4>2
    <3> HIDE DEF k
    <3>4. <<"symbol", i, 4>> # <<"string", k>> /\ <<"symbol", i, 4>> # <<"end">>
      OBVIOUS
    <3> QED BY <2>3, <3>1, <3>2, <3>3, <3>4
  <2>4. ASSUME NEW j \in 1 .. object.strings
        PROVE  Mini!StringsRead[j] = Mini!Strings[j] <=> j < object.strings
    <3>1. Commands + SymbolWords + j <= Len(out) <=> j < object.strings
      <4>1. j \in Nat
        OBVIOUS
      <4> QED BY <1>2, <2>1, <4>1
    <3>2. <<"string", j>> # <<"end">>
      OBVIOUS
    <3> QED BY <1>6, <3>1, <3>2
  <2> QED BY <2>0, <2>2, <2>3, <2>4, ReadFacts DEF n
<1> QED
  BY <1>3, <1>7, <1>8

(* The invariant of an object that nobody touches. *)
LEMMA MiniSame ==
    ASSUME MiniInv, object' = object, at' = at, size' = size, out' = out
    PROVE  MiniInv'
<1>1. Mini!full_size' = Mini!full_size
  BY DEF Mini!full_size, Mini!mach_header_size, Mini!commands_size, Mini!symtabmem,
         Mini!InFile, Mini!Symbols, Mini!Strings, Mini!Entry, Mini!LoadedEntry
<1>2. Before(at)' = Before(at)
  BY DEF Before, Mini!Header, Commands, SymbolWords, Mini!commands_size, Mini!LoadedEntry
<1>3. /\ object' \in MiniObject
      /\ at' \in {"header", "uuid", "symtab", "segment", "symbols", "strings", "done"}
      /\ size' = Mini!full_size' /\ out' \in Seq(Word) /\ Len(out') = Least(size', Before(at)')
  BY <1>1, <1>2 DEF MiniInv
<1>4. ASSUME NEW n PROVE IsWord(n, out[n])' <=> IsWord(n, out[n])
  <2>1. /\ Commands' = Commands /\ SymbolWords' = SymbolWords /\ SymtabAt' = SymtabAt
        /\ Mini!symtabmem' = Mini!symtabmem
    BY DEF SymtabAt, Commands, SymbolWords, Mini!Header, Mini!commands_size,
           Mini!LoadedEntry, Mini!Entry, Mini!symtabmem, Mini!Strings, Mini!InFile, Mini!Symbols
  <2> QED BY <2>1 DEF IsWord
<1>5. \A n \in DOMAIN out' : IsWord(n, out[n])'
  <2>1. \A n \in DOMAIN out' : IsWord(n, out[n])
    BY DEF MiniInv
  <2> QED BY <1>4, <2>1
<1> QED
  BY <1>3, <1>5, Zenon DEF MiniInv, MiniObject, Word, Tags

MiniIInv == part = "mini" => MiniInv

(* The writer and the reader of reduced objects keep their invariant. *)
THEOREM MiniInvariant == Spec => []MiniIInv
<1>1. Init => MiniIInv
  BY MiniInitHolds DEF Init, MiniIInv
<1>2. MiniIInv /\ [Next]_all => MiniIInv'
  <2> SUFFICES ASSUME MiniIInv, [Next]_all, part' = "mini" PROVE MiniInv'
    BY DEF MiniIInv
  <2>1. CASE part = "mini" /\ Mini!Next
    BY <2>1, MiniStepKeeps DEF MiniIInv
  <2>2. CASE UNCHANGED all
    <3>1. MiniInv /\ object' = object /\ at' = at /\ size' = size /\ out' = out
      BY <2>2 DEF MiniIInv, all, miniOnly
    <3> QED BY <3>1, MiniSame
  <2>3. CASE Next /\ part # "mini"
    BY <2>3 DEF Next, NotOfFat, NotOfFind, LogNext, MiniNext
  <2>4. Next /\ part = "mini" => Mini!Next
    BY DEF Next, LogNext, MiniNext
  <2> QED BY <2>1, <2>2, <2>3, <2>4
<1> QED
  BY <1>1, <1>2, PTL DEF Spec

(* For every object: what the reader makes of the reduced one is the object, of
   32 bits whole, of 64 bits all but what its writer cuts off.  About
   CMiniMachO. *)
THEOREM ReducedAlwaysReadBack == Spec => []ReducedIsReadBack
<1>1. MiniIInv => ReducedIsReadBack
  BY MiniInvImplies DEF MiniIInv, ReducedIsReadBack
<1> QED
  BY <1>1, MiniInvariant, PTL

-------------------------------------------------------------------------------
(* Searches. *)
Nodes == DOMAIN world.node
Path == Seq(Nodes) \ {<<>>}
Once(s) == \A i, j \in DOMAIN s : s[i] = s[j] => i = j

-------------------------------------------------------------------------------
(* The least element of a set of numbers; a property that fails somewhere
   fails at the least place. *)
LEMMA LeastNatural ==
    ASSUME NEW T, T \subseteq Nat, T # {}
    PROVE  \E x \in T : \A y \in T : x <= y
<1> DEFINE R == {p \in Nat \X Nat : p[1] < p[2]}
<1>1. OpToRel(<, Nat) = R
  BY Zenon DEF OpToRel
<1>2. IsWellFoundedOn(R, Nat)
  BY NatLessThanWellFounded, <1>1, Zenon
<1>3. PICK x \in T : \A y \in T : <<y, x>> \notin R
  BY WFMin, <1>2
<1>4. ASSUME NEW y \in T, y < x PROVE FALSE
  <2>1. <<y, x>> \in R
    BY <1>4
  <2> QED BY <1>3, <2>1
<1> QED
  BY <1>4

PickedAt(s, wanted, f, k) ==
    IF k = 0 THEN <<>>
    ELSE IF s[k] \in wanted THEN Append(f[k - 1], s[k]) ELSE f[k - 1]

(* Picked is what its recursive definition says: such a function exists. *)
LEMMA PickedUnfolds ==
    ASSUME NEW s, NEW wanted, Len(s) \in Nat
    PROVE  \E f : /\ f = [k \in 0 .. Len(s) |-> PickedAt(s, wanted, f, k)]
                  /\ Find!Picked(s, wanted) = f[Len(s)]
<1> DEFINE Has(n) == \E f : f = [k \in 0 .. n |-> PickedAt(s, wanted, f, k)]
           Without == {n \in Nat : ~Has(n)}
<1>1. Has(0)
  <2>1. PICK f : f = [k \in 0 .. 0 |-> <<>>]
    OBVIOUS
  <2>2. f = [k \in 0 .. 0 |-> PickedAt(s, wanted, f, k)]
    BY <2>1 DEF PickedAt
  <2> QED BY <2>2
<1>2. ASSUME NEW n \in Nat, Has(n) PROVE Has(n + 1)
  <2>1. PICK f : f = [k \in 0 .. n |-> PickedAt(s, wanted, f, k)]
    BY <1>2
  <2> DEFINE g == [k \in 0 .. n + 1 |->
                      IF k = n + 1 THEN PickedAt(s, wanted, f, k) ELSE f[k]]
  <2>2. \A k \in 0 .. n + 1 : PickedAt(s, wanted, g, k) = PickedAt(s, wanted, f, k)
    BY DEF PickedAt
  <2>3. \A k \in 0 .. n : f[k] = PickedAt(s, wanted, f, k)
    BY <2>1
  <2>4. \A k \in 0 .. n + 1 : g[k] = PickedAt(s, wanted, g, k)
    BY <2>2, <2>3
  <2>5. g = [k \in 0 .. n + 1 |-> g[k]]
    OBVIOUS
  <2>6. g = [k \in 0 .. n + 1 |-> PickedAt(s, wanted, g, k)]
    BY <2>4, <2>5
  <2> QED BY <2>6
<1>3. \A n \in Nat : Has(n)
  <2> SUFFICES ASSUME Without # {} PROVE FALSE
    OBVIOUS
  <2>1. PICK n \in Without : \A m \in Without : n <= m
    BY LeastNatural
  <2> HIDE DEF Has
  <2>2. n # 0
    BY <1>1
  <2>3. n - 1 \in Nat /\ n - 1 \notin Without
    BY <2>1, <2>2
  <2> QED BY <1>2, <2>3
<1> DEFINE h == CHOOSE f : f = [k \in 0 .. Len(s) |-> PickedAt(s, wanted, f, k)]
<1>4. h = [k \in 0 .. Len(s) |-> PickedAt(s, wanted, h, k)]
  BY <1>3
<1>5. Find!Picked(s, wanted) = h[Len(s)]
  BY Zenon DEF Find!Picked, PickedAt
<1> QED
  BY <1>4, <1>5

PickedRight(s, wanted, k, r) ==
    /\ r \in Seq(Find!ToSet(s))
    /\ \A i \in 1 .. Len(r) : r[i] \in wanted /\ \E j \in 1 .. k : r[i] = s[j]
    /\ \A j \in 1 .. k : s[j] \in wanted => \E i \in 1 .. Len(r) : r[i] = s[j]
    /\ Once(s) => Once(r)

(* What is picked are the wanted elements, each as often as it was there. *)
LEMMA PickedIsRight ==
    ASSUME NEW S, NEW s \in Seq(S), NEW wanted
    PROVE  PickedRight(s, wanted, Len(s), Find!Picked(s, wanted))
<1>1. Len(s) \in Nat /\ DOMAIN s = 1 .. Len(s)
  OBVIOUS
<1>2. PICK f : /\ f = [k \in 0 .. Len(s) |-> PickedAt(s, wanted, f, k)]
               /\ Find!Picked(s, wanted) = f[Len(s)]
  BY <1>1, PickedUnfolds
<1>3. \A k \in 0 .. Len(s) : f[k] = PickedAt(s, wanted, f, k)
  BY <1>2
<1>4. f[0] = <<>>
  BY <1>1, <1>3 DEF PickedAt
<1>5. PickedRight(s, wanted, 0, f[0])
  BY <1>4 DEF PickedRight, Once
<1>6. ASSUME NEW k \in 1 .. Len(s), PickedRight(s, wanted, k - 1, f[k - 1])
      PROVE  PickedRight(s, wanted, k, f[k])
  <2> DEFINE c == s[k]
             old == f[k - 1]
  <2>1. f[k] = PickedAt(s, wanted, f, k) /\ k # 0 /\ k \in Nat /\ k - 1 \in Nat
    BY <1>1, <1>3
  <2>2. /\ old \in Seq(Find!ToSet(s)) /\ c \in Find!ToSet(s) /\ Len(old) \in Nat
        /\ \A i \in 1 .. Len(old) : old[i] \in wanted /\ \E j \in 1 .. k - 1 : old[i] = s[j]
        /\ \A j \in 1 .. k - 1 : s[j] \in wanted => \E i \in 1 .. Len(old) : old[i] = s[j]
        /\ Once(s) => Once(old)
    BY <1>1, <1>6 DEF PickedRight, Find!ToSet
  <2>3. CASE c \in wanted
    <3>1. f[k] = Append(old, c)
      BY <2>1, <2>3 DEF PickedAt
    <3>2. /\ f[k] \in Seq(Find!ToSet(s)) /\ Len(f[k]) = Len(old) + 1
          /\ \A i \in 1 .. Len(old) : f[k][i] = old[i]
          /\ f[k][Len(old) + 1] = c
      <4> HIDE DEF old, c
      <4> QED BY <2>2, <3>1
    <3> HIDE DEF old
    <3>3. ASSUME NEW i \in 1 .. Len(f[k])
          PROVE  f[k][i] \in wanted /\ \E j \in 1 .. k : f[k][i] = s[j]
      <4>1. CASE i = Len(old) + 1
        BY <2>1, <2>3, <3>2, <4>1
      <4>2. CASE i \in 1 .. Len(old)
        <5>1. PICK j \in 1 .. k - 1 : old[i] = s[j]
          BY <2>2, <4>2
        <5>2. j \in 1 .. k /\ f[k][i] = s[j] /\ f[k][i] \in wanted
          BY <2>1, <2>2, <3>2, <4>2, <5>1
        <5> QED BY <5>2
      <4> QED BY <2>2, <3>2, <4>1, <4>2
    <3>4. ASSUME NEW j \in 1 .. k, s[j] \in wanted
          PROVE  \E i \in 1 .. Len(f[k]) : f[k][i] = s[j]
      <4>1. CASE j = k
        <5>1. Len(old) + 1 \in 1 .. Len(f[k])
          BY <2>2, <3>2
        <5> QED BY <3>2, <4>1, <5>1
      <4>2. CASE j \in 1 .. k - 1
        <5>1. PICK i \in 1 .. Len(old) : old[i] = s[j]
          BY <2>2, <3>4, <4>2
        <5>2. i \in 1 .. Len(f[k])
          BY <2>2, <3>2
        <5> QED BY <3>2, <5>1, <5>2
      <4> QED BY <2>1, <4>1, <4>2
    <3>5. ASSUME Once(s) PROVE Once(f[k])
      <4>1. \A i \in 1 .. Len(old) : old[i] # c
        <5> SUFFICES ASSUME NEW i \in 1 .. Len(old), old[i] = c PROVE FALSE
          OBVIOUS
        <5>1. PICK j \in 1 .. k - 1 : old[i] = s[j]
          BY <2>2
        <5>2. j \in DOMAIN s /\ k \in DOMAIN s /\ j # k /\ s[j] = s[k]
          BY <1>1, <2>1, <5>1
        <5> QED BY <3>5, <5>2 DEF Once
      <4>2. Once(old) /\ DOMAIN old = 1 .. Len(old) /\ DOMAIN f[k] = 1 .. Len(f[k])
        BY <2>2, <3>2, <3>5
      <4> SUFFICES ASSUME NEW i \in 1 .. Len(f[k]), NEW j \in 1 .. Len(f[k]), f[k][i] = f[k][j]
                   PROVE  i = j
        BY <4>2 DEF Once
      <4>3. /\ i \in 1 .. Len(old) \/ i = Len(old) + 1
            /\ j \in 1 .. Len(old) \/ j = Len(old) + 1
        BY <2>2, <3>2
      <4> HIDE DEF c
      <4> QED BY <3>2, <4>1, <4>2, <4>3 DEF Once
    <3> QED BY <3>2, <3>3, <3>4, <3>5 DEF PickedRight
  <2>4. CASE c \notin wanted
    <3>1. f[k] = old
      BY <2>1, <2>4 DEF PickedAt
    <3>2. \A j \in 1 .. k : s[j] \in wanted => j \in 1 .. k - 1
      BY <2>1, <2>4
    <3>3. \A j \in 1 .. k - 1 : j \in 1 .. k
      BY <2>1
    <3> HIDE DEF old
    <3>4. \A i \in 1 .. Len(old) : old[i] \in wanted /\ \E j \in 1 .. k : old[i] = s[j]
      BY <2>2, <3>3
    <3>5. \A j \in 1 .. k : s[j] \in wanted => \E i \in 1 .. Len(old) : old[i] = s[j]
      BY <2>2, <3>2
    <3> QED BY <2>2, <3>1, <3>4, <3>5 DEF PickedRight
  <2> QED BY <2>3, <2>4
<1> DEFINE Wrong == {k \in 0 .. Len(s) : ~PickedRight(s, wanted, k, f[k])}
<1>7. Wrong = {}
  <2> SUFFICES ASSUME Wrong # {} PROVE FALSE
    OBVIOUS
  <2>0. Wrong \subseteq Nat
    BY <1>1
  <2>1. PICK k \in Wrong : \A m \in Wrong : k <= m
    <3> HIDE DEF Wrong
    <3> QED BY <2>0, LeastNatural
  <2>2. k # 0
    BY <1>5, <2>1
  <2>3. k \in 1 .. Len(s) /\ k - 1 \in 0 .. Len(s) /\ k - 1 \notin Wrong
    BY <1>1, <2>1, <2>2
  <2>4. PickedRight(s, wanted, k - 1, f[k - 1])
    BY <2>3
  <2> QED BY <1>6, <2>1, <2>3, <2>4
<1>8. PickedRight(s, wanted, Len(s), f[Len(s)])
  <2>1. Len(s) \in 0 .. Len(s)
    BY <1>1
  <2> QED BY <1>7, <2>1
<1> QED
  BY <1>2, <1>8

-------------------------------------------------------------------------------
(* What the constants say of a file system. *)
LEMMA WorldFacts ==
    ASSUME world \in Worlds
    PROVE  /\ MaxPath \in Nat
           /\ world.root \in Path
           /\ \A n \in Nodes :
                 /\ Find!IsFolder(n) \in BOOLEAN
                 /\ Find!IsFolder(n) => ~Find!Node(n).macho /\ ~Find!Node(n).log
                 /\ Find!Node(n).name # NONE
                 /\ Find!Node(n).in \in Seq(Nodes)
                 /\ \A i, j \in DOMAIN Find!Node(n).in :
                       Find!Node(Find!Node(n).in[i]).name = Find!Node(Find!Node(n).in[j]).name
                          => i = j
                 /\ Find!Node(n).uuids \in Seq(Find!ToSet(Find!Node(n).uuids))
                 /\ Find!Cardinality(Find!ToSet(Find!Node(n).uuids)) = Len(Find!Node(n).uuids)
<1>1. MaxPath \in Nat /\ world.root \in Seq(Nodes) /\ world.root # <<>>
  BY WorldAssumption DEF Find!WorldAssumption, Nodes
<1>2. ASSUME NEW n \in Nodes
      PROVE  /\ world.node[n].folder \in BOOLEAN
             /\ world.node[n].folder => ~world.node[n].macho /\ ~world.node[n].log
             /\ world.node[n].name # NONE
             /\ world.node[n].in \in Seq(Nodes)
             /\ \A i, j \in DOMAIN world.node[n].in :
                   world.node[world.node[n].in[i]].name = world.node[world.node[n].in[j]].name
                      => i = j
             /\ world.node[n].uuids \in Seq(Find!ToSet(world.node[n].uuids))
             /\ Find!Cardinality(Find!ToSet(world.node[n].uuids)) = Len(world.node[n].uuids)
  <2>1. world.node[n] \in {world.node[m] : m \in DOMAIN world.node}
    BY DEF Nodes
  <2> QED BY <2>1, WorldAssumption DEF Find!WorldAssumption, Nodes
<1> QED
  BY <1>1, <1>2 DEF Find!Node, Find!IsFolder, Path

(* An entry of a folder is a node. *)
LEMMA EntryFacts ==
    ASSUME world \in Worlds, NEW n \in Nodes, NEW l \in Find!ToSet(Find!Node(n).in)
    PROVE  l \in Nodes
<1>1. Find!Node(n).in \in Seq(Nodes)
  BY WorldFacts
<1>2. PICK i \in DOMAIN Find!Node(n).in : l = Find!Node(n).in[i]
  BY DEF Find!ToSet
<1> QED
  BY <1>1, <1>2

(* A path has a last node. *)
LEMMA LastOfPath ==
    ASSUME NEW p \in Path
    PROVE  /\ Len(p) \in Nat /\ Len(p) >= 1 /\ DOMAIN p = 1 .. Len(p)
           /\ Find!Last(p) = p[Len(p)] /\ Find!Last(p) \in Nodes
           /\ \A i \in 1 .. Len(p) : p[i] \in Nodes
<1>1. p \in Seq(Nodes) /\ p # <<>>
  BY DEF Path
<1>2. Len(p) \in Nat /\ Len(p) >= 1 /\ DOMAIN p = 1 .. Len(p) /\ \A i \in 1 .. Len(p) : p[i] \in Nodes
  BY <1>1
<1> QED
  BY <1>2 DEF Find!Last

(* A path one longer. *)
LEMMA AppendFacts ==
    ASSUME NEW p \in Path, NEW n \in Nodes
    PROVE  /\ Append(p, n) \in Path /\ Len(Append(p, n)) = Len(p) + 1
           /\ Find!Last(Append(p, n)) = n
           /\ Append(p, n)[Len(p) + 1] = n
           /\ \A i \in 1 .. Len(p) : Append(p, n)[i] = p[i]
<1>1. p \in Seq(Nodes) /\ Len(p) \in Nat
  BY DEF Path
<1>2. /\ Append(p, n) \in Seq(Nodes) /\ Len(Append(p, n)) = Len(p) + 1
      /\ Append(p, n)[Len(p) + 1] = n
      /\ \A i \in 1 .. Len(p) : Append(p, n)[i] = p[i]
  BY <1>1
<1>3. Append(p, n) # <<>>
  BY <1>1, <1>2
<1> QED
  BY <1>2, <1>3 DEF Path, Find!Last

(* It is made of one path and one node only. *)
LEMMA AppendOnce ==
    ASSUME NEW p \in Path, NEW q \in Path, NEW m \in Nodes, NEW n \in Nodes,
           Append(p, m) = Append(q, n)
    PROVE  p = q /\ m = n
<1>1. p \in Seq(Nodes) /\ q \in Seq(Nodes) /\ Len(p) \in Nat /\ Len(q) \in Nat
  BY DEF Path
<1>2. Len(Append(p, m)) = Len(p) + 1 /\ Len(Append(q, n)) = Len(q) + 1
  BY AppendFacts
<1>3. Len(p) = Len(q)
  BY <1>1, <1>2
<1>4. \A i \in 1 .. Len(p) : p[i] = q[i]
  BY SMTT(30), <1>3, AppendFacts
<1>5. m = n
  BY <1>3, AppendFacts
<1>6. p = [i \in 1 .. Len(p) |-> p[i]] /\ q = [i \in 1 .. Len(q) |-> q[i]]
  BY <1>1
<1> QED
  BY <1>3, <1>4, <1>5, <1>6

(* GetFileList and GetDirList: entries of the folder, each once, all of them if
   it can be opened. *)
LEMMA ListedFacts ==
    ASSUME world \in Worlds, NEW p \in Path, NEW folder \in BOOLEAN
    PROVE  /\ Find!Listed(p, folder) \in Seq(Nodes)
           /\ Once(Find!Listed(p, folder))
           /\ \A n \in Find!ToSet(Find!Listed(p, folder)) :
                 /\ n \in Nodes /\ Find!IsFolder(n) = folder /\ Find!Exists(n)
                 /\ n \in Find!ToSet(Find!Node(Find!Last(p)).in) /\ Len(p) <= MaxPath
           /\ Find!Exists(Find!Last(p)) /\ Len(p) <= MaxPath =>
                 \A n \in Find!ToSet(Find!Node(Find!Last(p)).in) :
                    Find!Exists(n) /\ Find!IsFolder(n) = folder =>
                       n \in Find!ToSet(Find!Listed(p, folder))
<1> DEFINE s == Find!Node(Find!Last(p)).in
           W == {n \in DOMAIN world.node : Find!Exists(n) /\ Find!IsFolder(n) = folder}
           r == Find!Listed(p, folder)
<1>1. /\ Find!Last(p) \in Nodes /\ s \in Seq(Nodes)
      /\ \A i, j \in DOMAIN s : Find!Node(s[i]).name = Find!Node(s[j]).name => i = j
  BY LastOfPath, WorldFacts
<1>2. /\ Once(s) /\ Len(s) \in Nat /\ DOMAIN s = 1 .. Len(s) /\ \A i \in 1 .. Len(s) : s[i] \in Nodes
      /\ Find!ToSet(s) \subseteq Nodes
  BY <1>1 DEF Once, Find!ToSet
<1>3. CASE Find!Exists(Find!Last(p)) /\ Len(p) <= MaxPath
  <2>1. r = Find!Picked(s, W)
    BY <1>3 DEF Find!Listed
  <2>2. PickedRight(s, W, Len(s), r)
    BY <1>1, <2>1, PickedIsRight
  <2> HIDE DEF s, r
  <2>3. r \in Seq(Find!ToSet(s)) /\ Once(r)
    BY <1>2, <2>2 DEF PickedRight
  <2>4. r \in Seq(Nodes) /\ DOMAIN r = 1 .. Len(r)
    BY <1>2, <2>3
  <2>5. ASSUME NEW n \in Find!ToSet(r)
        PROVE  n \in W /\ n \in Find!ToSet(s)
    <3>1. PICK i \in 1 .. Len(r) : n = r[i]
      BY <2>4 DEF Find!ToSet
    <3>2. r[i] \in W /\ \E j \in 1 .. Len(s) : r[i] = s[j]
      BY <2>2 DEF PickedRight
    <3> QED BY <1>2, <3>1, <3>2 DEF Find!ToSet
  <2>6. ASSUME NEW n \in Find!ToSet(s), n \in W
        PROVE  n \in Find!ToSet(r)
    <3>1. PICK j \in 1 .. Len(s) : n = s[j]
      BY <1>2 DEF Find!ToSet
    <3>2. \E i \in 1 .. Len(r) : r[i] = s[j]
      BY <2>2, <2>6, <3>1 DEF PickedRight
    <3> QED BY <2>4, <3>1, <3>2 DEF Find!ToSet
  <2> QED BY <1>2, <1>3, <2>3, <2>4, <2>5, <2>6 DEF Nodes, s, r
<1>4. CASE ~(Find!Exists(Find!Last(p)) /\ Len(p) <= MaxPath)
  <2>1. r = <<>>
    BY <1>4 DEF Find!Listed
  <2> QED BY <1>4, <2>1 DEF Once, Find!ToSet
<1> QED
  BY <1>3, <1>4

-------------------------------------------------------------------------------
Plain == {n \in Nodes : Find!IsFolder(n) /\ Find!IsPlain(n)}

(* A path of plain folders below the one that is searched. *)
Below(p) ==
    /\ p \in Path /\ Len(world.root) <= Len(p)
    /\ \A i \in 1 .. Len(world.root) : p[i] = world.root[i]
    /\ \A i \in Len(world.root) + 1 .. Len(p) : p[i] \in Plain

DepthAt(f, d) ==
    IF d = 0 THEN {world.root}
    ELSE f[d - 1] \cup
         UNION {{Append(p, n) : n \in {m \in DOMAIN world.node :
                                         Find!IsFolder(m) /\ Find!IsPlain(m)}}
                   : p \in {q \in f[d - 1] : Len(q) <= MaxPath}}

(* The folders to a depth are what their recursive definition says. *)
LEMMA DepthUnfolds ==
    ASSUME MaxPath \in Nat
    PROVE  \E f : /\ f = [d \in 0 .. MaxPath |-> DepthAt(f, d)]
                  /\ \A p \in Find!Opened : p \in f[MaxPath]
                  /\ \A p \in Find!Opened : Len(p) <= MaxPath
                  /\ \A p \in Find!Opened : \A i \in (Len(world.root) + 1) .. Len(p) :
                        p[i] \in Find!ToSet(Find!Node(p[i - 1]).in)
<1> DEFINE Has(n) == \E f : f = [d \in 0 .. n |-> DepthAt(f, d)]
           Without == {n \in Nat : ~Has(n)}
<1>1. Has(0)
  <2>1. PICK f : f = [d \in 0 .. 0 |-> {world.root}]
    OBVIOUS
  <2>2. f = [d \in 0 .. 0 |-> DepthAt(f, d)]
    BY <2>1 DEF DepthAt
  <2> QED BY <2>2
<1>2. ASSUME NEW n \in Nat, Has(n) PROVE Has(n + 1)
  <2>1. PICK f : f = [d \in 0 .. n |-> DepthAt(f, d)]
    BY <1>2
  <2> DEFINE g == [d \in 0 .. n + 1 |-> IF d = n + 1 THEN DepthAt(f, d) ELSE f[d]]
  <2>0. \A d \in 0 .. n + 1 : d # 0 => g[d - 1] = f[d - 1]
    OBVIOUS
  <2>2. \A d \in 0 .. n + 1 : DepthAt(g, d) = DepthAt(f, d)
    BY <2>0 DEF DepthAt
  <2>3. \A d \in 0 .. n : f[d] = DepthAt(f, d)
    BY <2>1
  <2>4. \A d \in 0 .. n + 1 : g[d] = DepthAt(g, d)
    BY <2>2, <2>3
  <2>5. g = [d \in 0 .. n + 1 |-> g[d]]
    OBVIOUS
  <2>6. g = [d \in 0 .. n + 1 |-> DepthAt(g, d)]
    BY <2>4, <2>5
  <2> QED BY <2>6
<1>3. \A n \in Nat : Has(n)
  <2> SUFFICES ASSUME Without # {} PROVE FALSE
    OBVIOUS
  <2>1. PICK n \in Without : \A m \in Without : n <= m
    BY LeastNatural
  <2> HIDE DEF Has
  <2>2. n # 0
    BY <1>1
  <2>3. n - 1 \in Nat /\ n - 1 \notin Without
    BY <2>1, <2>2
  <2> QED BY <1>2, <2>3
<1> DEFINE h == CHOOSE f : f = [d \in 0 .. MaxPath |-> DepthAt(f, d)]
<1>4. h = [d \in 0 .. MaxPath |-> DepthAt(h, d)]
  BY <1>3
<1>5. Find!Opened = {p \in h[MaxPath] :
                       /\ Len(p) <= MaxPath
                       /\ \A i \in (Len(world.root) + 1) .. Len(p) :
                             p[i] \in Find!ToSet(Find!Node(p[i - 1]).in)}
  BY Zenon DEF Find!Opened, DepthAt
<1> QED
  BY <1>4, <1>5

(* Each folder that is opened is reached from the searched one. *)
LEMMA OpenedBelow ==
    ASSUME world \in Worlds, NEW p \in Find!Opened
    PROVE  Below(p)
<1>1. PICK f : /\ f = [d \in 0 .. MaxPath |-> DepthAt(f, d)]
               /\ \A q \in Find!Opened : q \in f[MaxPath]
  BY DepthUnfolds, WorldFacts
<1>2. MaxPath \in Nat /\ world.root \in Path
  BY WorldFacts
<1>3. \A d \in 0 .. MaxPath : f[d] = DepthAt(f, d)
  BY <1>1
<1> DEFINE Wrong == {d \in 0 .. MaxPath : \E q \in f[d] : ~Below(q)}
<1>4. ASSUME NEW q, q \in f[0] PROVE Below(q)
  <2>1. f[0] = DepthAt(f, 0)
    BY <1>2, <1>3
  <2>3. q = world.root
    BY <1>4, <2>1 DEF DepthAt
  <2> QED BY <1>2, <2>3, LastOfPath DEF Below
<1>5. ASSUME NEW d \in 1 .. MaxPath, \A q \in f[d - 1] : Below(q)
      PROVE  \A q \in f[d] : Below(q)
  <2> SUFFICES ASSUME NEW q \in f[d] PROVE Below(q)
    OBVIOUS
  <2>1. f[d] = DepthAt(f, d) /\ d # 0
    BY <1>2, <1>3
  <2>2. CASE q \in f[d - 1]
    BY <1>5, <2>2
  <2>3. CASE q \notin f[d - 1]
    <3>1. PICK r \in f[d - 1], n \in Plain : q = Append(r, n)
      BY <2>1, <2>3 DEF DepthAt, Plain, Nodes
    <3>2. Below(r) /\ n \in Nodes
      BY <1>5, <3>1 DEF Plain
    <3>3. /\ q \in Path /\ Len(q) = Len(r) + 1 /\ q[Len(r) + 1] = n
          /\ \A i \in 1 .. Len(r) : q[i] = r[i]
      BY <3>1, <3>2, AppendFacts DEF Below
    <3>4. Len(r) \in Nat /\ Len(world.root) \in Nat /\ Len(world.root) <= Len(r)
      BY <1>2, <3>2, LastOfPath DEF Below
    <3>5. \A i \in 1 .. Len(world.root) : q[i] = world.root[i]
      BY <3>2, <3>3, <3>4 DEF Below
    <3>6. ASSUME NEW i \in Len(world.root) + 1 .. Len(q) PROVE q[i] \in Plain
      <4>1. i = Len(r) + 1 \/ i \in Len(world.root) + 1 .. Len(r)
        BY <3>3, <3>4
      <4>2. CASE i \in Len(world.root) + 1 .. Len(r)
        <5>1. i \in 1 .. Len(r) /\ r[i] \in Plain
          BY <3>2, <3>4, <4>2 DEF Below
        <5> QED BY <3>3, <5>1
      <4> QED BY <3>1, <3>3, <4>1, <4>2
    <3> QED BY <3>3, <3>4, <3>5, <3>6 DEF Below
  <2> QED BY <2>2, <2>3
<1>6. Wrong = {}
  <2> SUFFICES ASSUME Wrong # {} PROVE FALSE
    OBVIOUS
  <2>0. Wrong \subseteq Nat
    BY <1>2
  <2>1. PICK d \in Wrong : \A m \in Wrong : d <= m
    <3> HIDE DEF Wrong
    <3> QED BY <2>0, LeastNatural
  <2>2. d # 0
    BY <1>4, <2>1
  <2>3. d \in 1 .. MaxPath /\ d - 1 \in 0 .. MaxPath /\ d - 1 \notin Wrong
    BY <1>2, <2>1, <2>2
  <2>4. \A q \in f[d - 1] : Below(q)
    BY <2>3
  <2> QED BY <1>5, <2>1, <2>3, <2>4
<1>7. p \in f[MaxPath]
  BY <1>1
<1> QED
  BY <1>2, <1>6, <1>7

(* What is expected is reached through plain folders and worth a report. *)
LEMMA ExpectedFacts ==
    ASSUME world \in Worlds, NEW e \in Find!Expected
    PROVE  /\ e \in Path /\ Len(world.root) < Len(e) /\ Len(e) - 1 <= MaxPath
           /\ \A i \in 1 .. Len(world.root) : e[i] = world.root[i]
           /\ \A i \in Len(world.root) + 1 .. Len(e) - 1 : e[i] \in Plain
           /\ \A i \in Len(world.root) + 1 .. Len(e) : e[i] \in Find!ToSet(Find!Node(e[i - 1]).in)
           /\ Find!Worthy(e)
<1>1. PICK q \in Find!Opened, n \in Nodes : e = Append(q, n)
  BY DEF Find!Expected, Nodes
<1>2. Find!Last(e) \in Find!ToSet(Find!Node(e[Len(e) - 1]).in) /\ Find!Worthy(e)
  BY DEF Find!Expected
<1>3. /\ Below(q) /\ MaxPath \in Nat /\ world.root \in Path
      /\ Len(q) <= MaxPath
      /\ \A i \in (Len(world.root) + 1) .. Len(q) : q[i] \in Find!ToSet(Find!Node(q[i - 1]).in)
  <2>1. MaxPath \in Nat /\ world.root \in Path
    BY WorldFacts
  <2>2. Below(q)
    BY OpenedBelow
  <2>3. /\ Len(q) <= MaxPath
        /\ \A i \in (Len(world.root) + 1) .. Len(q) : q[i] \in Find!ToSet(Find!Node(q[i - 1]).in)
    BY <2>1, DepthUnfolds
  <2> QED BY <2>1, <2>2, <2>3
<1>4. /\ q \in Path /\ Len(q) \in Nat /\ Len(world.root) \in Nat /\ Len(world.root) >= 1
      /\ Len(world.root) <= Len(q)
      /\ \A i \in 1 .. Len(world.root) : q[i] = world.root[i]
      /\ \A i \in Len(world.root) + 1 .. Len(q) : q[i] \in Plain
  BY <1>3, LastOfPath DEF Below
<1>5. /\ e \in Path /\ Len(e) = Len(q) + 1 /\ e[Len(q) + 1] = n /\ Find!Last(e) = n
      /\ \A i \in 1 .. Len(q) : e[i] = q[i]
  BY <1>1, <1>4, AppendFacts
<1>6. \A i \in 1 .. Len(world.root) : e[i] = world.root[i]
  BY <1>4, <1>5
<1>7. \A i \in Len(world.root) + 1 .. Len(e) - 1 : e[i] \in Plain
  BY <1>4, <1>5
<1>8. ASSUME NEW i \in Len(world.root) + 1 .. Len(e)
      PROVE  e[i] \in Find!ToSet(Find!Node(e[i - 1]).in)
  <2>1. CASE i \in Len(world.root) + 1 .. Len(q)
    <3>1. i \in 1 .. Len(q) /\ i - 1 \in 1 .. Len(q)
      BY <1>4, <2>1
    <3>2. e[i] = q[i] /\ e[i - 1] = q[i - 1]
      BY <1>5, <3>1
    <3> QED BY <1>3, <2>1, <3>2
  <2>2. CASE i = Len(q) + 1
    BY <1>2, <1>5, <2>2
  <2> QED BY <1>4, <1>5, <2>1, <2>2
<1> QED
  BY <1>2, <1>3, <1>4, <1>5, <1>6, <1>7, <1>8

-------------------------------------------------------------------------------
Handle(p, s, u) == [path |-> p, name |-> s, uuids |-> u]
Loaded(kind, p, s) == Find!LoadFat(kind, Handle(p, s, <<>>))

(* Whichever setter comes first, the second one reads the image, once. *)
LEMMA SettersLoadOnce ==
    ASSUME NEW p \in Path, NEW s, s # NONE
    PROVE  /\ \A kind \in {"dsym", "app"} :
                 /\ Find!setName(kind, Find!setPath(kind, Find!Empty, p), s) = Loaded(kind, p, s)
                 /\ Find!HandleOf(kind, p, s) = Loaded(kind, p, s)
           /\ Find!setPath("dylib", Find!setName("dylib", Find!Empty, s), p) = Loaded("dylib", p, s)
<1>1. p # <<>>
  BY DEF Path
<1>2. Find!Empty = Handle(<<>>, NONE, <<>>)
  BY DEF Find!Empty, Handle
<1>3. ASSUME NEW kind \in {"dsym", "app", "dylib"}
      PROVE  /\ Find!setName(kind, Find!Empty, s) = Handle(<<>>, s, <<>>)
             /\ kind # "dylib" => Find!setPath(kind, Find!Empty, p) = Handle(p, NONE, <<>>)
  BY <1>1, <1>2 DEF Find!setName, Find!setPath, Find!Reloaded, Find!Known, Handle
<1>4. ASSUME NEW kind \in {"dsym", "app", "dylib"}
      PROVE  Find!setPath(kind, Handle(<<>>, s, <<>>), p) = Loaded(kind, p, s)
  <2>1. [Handle(<<>>, s, <<>>) EXCEPT !.path = p] = Handle(p, s, <<>>)
    BY DEF Handle
  <2>2. Find!Known(kind, Handle(p, s, <<>>))
    BY <1>1 DEF Find!Known, Handle
  <2> QED BY <2>1, <2>2 DEF Find!setPath, Find!Reloaded, Loaded
<1>5. ASSUME NEW kind \in {"dsym", "app"}
      PROVE  Find!setName(kind, Handle(p, NONE, <<>>), s) = Loaded(kind, p, s)
  <2>1. [Handle(p, NONE, <<>>) EXCEPT !.name = s] = Handle(p, s, <<>>)
    BY DEF Handle
  <2>2. Find!Known(kind, Handle(p, s, <<>>))
    BY <1>1 DEF Find!Known, Handle
  <2> QED BY <2>1, <2>2 DEF Find!setName, Find!Reloaded, Loaded
<1> QED
  BY <1>3, <1>4, <1>5 DEF Find!HandleOf

(* What a loaded handle has. *)
LEMMA LoadedFacts ==
    ASSUME NEW kind, NEW p, NEW s
    PROVE  /\ Loaded(kind, p, s).path = p /\ Loaded(kind, p, s).name = s
           /\ Loaded(kind, p, s).uuids =
                 IF \E n \in Find!Image(kind, Handle(p, s, <<>>)) : Find!Validates(n)
                 THEN <<>> \o Find!Node(CHOOSE n \in Find!Image(kind, Handle(p, s, <<>>)) : TRUE).uuids
                 ELSE <<>>
           /\ Find!Image(kind, Loaded(kind, p, s)) = Find!Image(kind, Handle(p, s, <<>>))
<1> DEFINE u == IF \E n \in Find!Image(kind, Handle(p, s, <<>>)) : Find!Validates(n)
                THEN <<>> \o Find!Node(CHOOSE n \in Find!Image(kind, Handle(p, s, <<>>)) : TRUE).uuids
                ELSE <<>>
<1>1. Loaded(kind, p, s) = [Handle(p, s, <<>>) EXCEPT !.uuids = u]
  BY DEF Loaded, Find!LoadFat, Handle
<1> HIDE DEF u
<1>2. Loaded(kind, p, s) = Handle(p, s, u)
  BY <1>1 DEF Handle
<1>3. Find!Image(kind, Handle(p, s, u)) = Find!Image(kind, Handle(p, s, <<>>))
  BY DEF Find!Image, Handle
<1> QED
  BY <1>2, <1>3 DEF Handle, u

(* A handle is that of its image: of one file, with its UUIDs once, and a
   bundle's own if there is one. *)
HandleOK(r) ==
    LET n == Find!Last(r.handle.path)
        own == Find!OwnName(Find!Node(n).name.stem)
    IN  r.kind # "log" =>
        /\ Find!Cardinality(Find!ToSet(r.handle.uuids)) = Len(r.handle.uuids)
        /\ \E m \in Find!Image(r.kind, r.handle) :
              Find!Node(m).macho => r.handle.uuids = Find!Node(m).uuids
        /\ Find!IsFolder(n) /\ ~Find!InBundle
           /\ (\E m \in Find!ToSet(Find!Node(n).in) : ~Find!IsFolder(m) /\ Find!Node(m).name = own)
           => r.handle.name = own

(* A file of a folder is the only one of its name. *)
LEMMA ImageOfFile ==
    ASSUME world \in Worlds, NEW p \in Path, NEW m \in Find!ToSet(Find!Listed(p, FALSE)),
           NEW kind \in {"dsym", "app"}
    PROVE  Find!Image(kind, Handle(p, Find!Node(m).name, <<>>)) = {m}
<1> DEFINE s == Find!Node(Find!Last(p)).in
<1>1. /\ Find!Last(p) \in Nodes /\ s \in Seq(Nodes)
      /\ \A i, j \in DOMAIN s : Find!Node(s[i]).name = Find!Node(s[j]).name => i = j
  BY LastOfPath, WorldFacts
<1>2. \A n \in Find!ToSet(Find!Listed(p, FALSE)) : n \in Find!ToSet(s)
  BY ListedFacts
<1> HIDE DEF s
<1>3. ASSUME NEW n \in Find!ToSet(s), Find!Node(n).name = Find!Node(m).name
      PROVE  n = m
  <2>1. PICK i \in DOMAIN s : n = s[i]
    BY DEF Find!ToSet
  <2>2. PICK j \in DOMAIN s : m = s[j]
    BY <1>2 DEF Find!ToSet
  <2> QED BY <1>1, <1>3, <2>1, <2>2
<1>4. Find!Image(kind, Handle(p, Find!Node(m).name, <<>>)) =
         {n \in Find!ToSet(Find!Listed(p, FALSE)) : Find!Node(n).name = Find!Node(m).name}
  BY DEF Find!Image, Handle
<1> QED
  BY <1>2, <1>3, <1>4

(* The UUIDs of one image. *)
LEMMA LoadedUUIDs ==
    ASSUME world \in Worlds, gone = {}, NEW p \in Path, NEW s, NEW kind, NEW m \in Nodes,
           Find!Image(kind, Handle(p, s, <<>>)) = {m}
    PROVE  /\ Find!Cardinality(Find!ToSet(Loaded(kind, p, s).uuids)) = Len(Loaded(kind, p, s).uuids)
           /\ m \in Find!Image(kind, Loaded(kind, p, s))
           /\ Find!Node(m).macho => Loaded(kind, p, s).uuids = Find!Node(m).uuids
<1>1. (CHOOSE n \in {m} : TRUE) = m
  OBVIOUS
<1>2. /\ Find!Node(m).uuids \in Seq(Find!ToSet(Find!Node(m).uuids))
      /\ Find!Cardinality(Find!ToSet(Find!Node(m).uuids)) = Len(Find!Node(m).uuids)
  BY WorldFacts
<1>3. <<>> \o Find!Node(m).uuids = Find!Node(m).uuids
  BY <1>2
<1>4. Find!Validates(m) <=> Find!Node(m).macho
  BY DEF Find!Validates, Find!Exists
<1>5. Loaded(kind, p, s).uuids = IF Find!Node(m).macho THEN Find!Node(m).uuids ELSE <<>>
  BY <1>1, <1>3, <1>4, LoadedFacts
<1>6. Find!Cardinality(Find!ToSet(<<>>)) = Len(<<>>)
  <2>1. Find!ToSet(<<>>) = {}
    BY DEF Find!ToSet
  <2>2. Find!Cardinality({}) = 0
    <3>1. Find!Cardinality({}) = Cardinality({})
      BY DEF Find!Cardinality, Cardinality
    <3> QED BY <3>1, FS_EmptySet
  <2> QED BY <2>1, <2>2
<1> QED
  BY <1>2, <1>5, <1>6, LoadedFacts

AncestorsPlain(p) == \A i \in 1 .. Len(p) - 1 : Find!IsPlain(p[i])

(* What is reported of a path. *)
ReportOf(r, p) == r.found /\ r.handle.path = p

(* What is found is of its kind and has its handle. *)
LEMMA FoundFields ==
    ASSUME NEW kind, NEW h
    PROVE  Find!Found(kind, h).found /\ Find!Found(kind, h).kind = kind
           /\ Find!Found(kind, h).handle = h
  BY DEF Find!Found

(* Nothing is not found. *)
LEMMA NothingFound == ~Find!Nothing.found
  BY DEF Find!Nothing

(* The first valid file of a folder, if there is one. *)
LEMMA FirstValidFacts ==
    ASSUME world \in Worlds, NEW p \in Path, NEW kind \in {"dsym", "app"}
    PROVE  \/ /\ Find!FirstValid(kind, p) = Find!Nothing
              /\ \A n \in Find!ToSet(Find!Listed(p, FALSE)) : ~Find!Validates(n)
           \/ \E m \in Find!ToSet(Find!Listed(p, FALSE)) :
                 Find!FirstValid(kind, p) =
                    Find!Found(kind, Loaded(kind, p, Find!Node(m).name))
<1> DEFINE s == Find!Listed(p, FALSE)
           W == {n \in DOMAIN world.node : Find!Validates(n)}
           l == Find!Picked(s, W)
<1>1. s \in Seq(Nodes) /\ \A n \in Find!ToSet(s) : n \in Nodes
  BY ListedFacts
<1>2. PickedRight(s, W, Len(s), l)
  BY <1>1, PickedIsRight
<1>3. Find!FirstValid(kind, p) =
         IF l = <<>> THEN Find!Nothing
         ELSE Find!Found(kind, Find!setName(kind, Find!setPath(kind, Find!Empty, p),
                                             Find!Node(Head(l)).name))
  BY DEF Find!FirstValid
<1> HIDE DEF s, l
<1>4. /\ l \in Seq(Find!ToSet(s))
      /\ \A j \in 1 .. Len(s) : s[j] \in W => \E i \in 1 .. Len(l) : l[i] = s[j]
  BY <1>2 DEF PickedRight
<1>5. CASE l = <<>>
  <2>1. ASSUME NEW n \in Find!ToSet(s), Find!Validates(n) PROVE FALSE
    <3>1. PICK j \in 1 .. Len(s) : n = s[j]
      BY <1>1 DEF Find!ToSet
    <3>2. n \in W
      BY <1>1, <2>1 DEF Nodes
    <3> QED BY <1>4, <1>5, <3>1, <3>2
  <2> QED BY <1>3, <1>5, <2>1 DEF s
<1>6. CASE l # <<>>
  <2>1. Head(l) \in Find!ToSet(s)
    BY <1>4, <1>6
  <2>2. Find!Node(Head(l)).name # NONE
    BY <1>1, <2>1, WorldFacts
  <2>3. Find!FirstValid(kind, p) = Find!Found(kind, Loaded(kind, p, Find!Node(Head(l)).name))
    BY <1>3, <1>6, <2>2, SettersLoadOnce
  <2> QED BY <2>1, <2>3 DEF s
<1> QED
  BY <1>5, <1>6

(* The image of a bundle: one of its files, that of its own name if the name
   is not taken from a folder further up. *)
LEMMA BundleFacts ==
    ASSUME world \in Worlds, NEW p \in Path, NEW kind \in {"dsym", "app"}, NEW exts
    PROVE  LET own == Find!OwnName(Find!StemBefore(p, exts))
               r == Find!FindMachOIn(kind, exts, p)
           IN  \/ /\ r = Find!Nothing
                  /\ \A n \in Find!ToSet(Find!Listed(p, FALSE)) : ~Find!Validates(n)
               \/ \E m \in Find!ToSet(Find!Listed(p, FALSE)) :
                     /\ r = Find!Found(kind, Loaded(kind, p, Find!Node(m).name))
                     /\ (\E n \in Find!ToSet(Find!Listed(p, FALSE)) : Find!Node(n).name = own)
                           => Find!Node(m).name = own
<1> DEFINE own == Find!OwnName(Find!StemBefore(p, exts))
           r == Find!FindMachOIn(kind, exts, p)
           T == Find!ToSet(Find!Listed(p, FALSE))
<1>1. r = IF \E n \in T : Find!Node(n).name = own
          THEN Find!Found(kind, Find!HandleOf(kind, p, own)) ELSE Find!FirstValid(kind, p)
  BY DEF Find!FindMachOIn
<1>2. T \subseteq Nodes
  BY ListedFacts
<1>3. \/ /\ Find!FirstValid(kind, p) = Find!Nothing
         /\ \A n \in T : ~Find!Validates(n)
      \/ \E m \in T : Find!FirstValid(kind, p) =
                         Find!Found(kind, Loaded(kind, p, Find!Node(m).name))
  BY FirstValidFacts
<1> HIDE DEF own, r, T
<1>4. CASE \E n \in T : Find!Node(n).name = own
  <2>1. PICK m \in T : Find!Node(m).name = own
    BY <1>4
  <2>2. own # NONE
    BY <1>2, <2>1, WorldFacts
  <2>3. r = Find!Found(kind, Loaded(kind, p, own))
    BY <1>1, <1>4, <2>2, SettersLoadOnce
  <2> QED BY <2>1, <2>3 DEF own, r, T
<1>5. CASE ~\E n \in T : Find!Node(n).name = own
  <2>1. r = Find!FirstValid(kind, p)
    BY <1>1, <1>5
  <2> QED BY <1>3, <1>5, <2>1 DEF own, r, T
<1> QED
  BY <1>4, <1>5

(* LookAtFolder as the kind and the postfixes of a bundle. *)
LEMMA FolderCases ==
    ASSUME NEW p
    PROVE  \/ /\ Find!IsPlain(Find!Last(p)) /\ Find!LookAtFolder(p) = Find!Nothing
           \/ \E kind \in {"dsym", "app"} : \E exts \in SUBSET {"app", "app.dSYM"} :
                 /\ Find!Ext(Find!Last(p)) \in exts
                 /\ Find!LookAtFolder(p) = Find!FindMachOIn(kind, exts, p)
<1>1. CASE Find!Ext(Find!Last(p)) = "app.dSYM"
  BY <1>1 DEF Find!LookAtFolder, Find!FindMachOInDSYM
<1>2. CASE Find!Ext(Find!Last(p)) = "app"
  BY <1>2 DEF Find!LookAtFolder, Find!FindMachOInApplication
<1>3. CASE Find!Ext(Find!Last(p)) \notin {"app", "app.dSYM"}
  BY <1>3 DEF Find!LookAtFolder, Find!IsPlain
<1> QED
  BY <1>1, <1>2, <1>3

(* A bundle that is reported is reported with its path and its image. *)
LEMMA FolderReport ==
    ASSUME world \in Worlds, NEW p \in Path, Find!LookAtFolder(p).found
    PROVE  /\ ReportOf(Find!LookAtFolder(p), p)
           /\ gone = {} /\ (~Find!InBundle => AncestorsPlain(p)) => HandleOK(Find!LookAtFolder(p))
<1> DEFINE r == Find!LookAtFolder(p)
           T == Find!ToSet(Find!Listed(p, FALSE))
<1>1. PICK kind \in {"dsym", "app"}, exts \in SUBSET {"app", "app.dSYM"} :
         /\ Find!Ext(Find!Last(p)) \in exts
         /\ r = Find!FindMachOIn(kind, exts, p)
  BY FolderCases, NothingFound
<1> DEFINE first == Find!OwnName(Find!StemBefore(p, exts))
<1>2. PICK m \in T :
         /\ r = Find!Found(kind, Loaded(kind, p, Find!Node(m).name))
         /\ (\E n \in T : Find!Node(n).name = first) => Find!Node(m).name = first
  <2>1. \/ Find!FindMachOIn(kind, exts, p) = Find!Nothing
        \/ \E m \in T :
              /\ Find!FindMachOIn(kind, exts, p) =
                    Find!Found(kind, Loaded(kind, p, Find!Node(m).name))
              /\ (\E n \in T : Find!Node(n).name = first) => Find!Node(m).name = first
    BY BundleFacts
  <2> HIDE DEF T, first
  <2>2. r = Find!FindMachOIn(kind, exts, p) /\ r # Find!Nothing
    BY <1>1, NothingFound
  <2> HIDE DEF r
  <2> QED BY <2>1, <2>2
<1>3. /\ r.found /\ r.kind = kind /\ r.handle = Loaded(kind, p, Find!Node(m).name)
      /\ r.handle.path = p /\ r.handle.name = Find!Node(m).name
  <2> DEFINE h == Loaded(kind, p, Find!Node(m).name)
  <2>1. h.path = p /\ h.name = Find!Node(m).name
    BY LoadedFacts
  <2>2. r = Find!Found(kind, h)
    BY <1>2
  <2> HIDE DEF h, r
  <2>3. r.found /\ r.kind = kind /\ r.handle = h
    BY <2>2, FoundFields
  <2> QED BY <2>1, <2>3 DEF h
<1>4. ReportOf(r, p)
  BY <1>3 DEF ReportOf
<1>5. ASSUME gone = {}, ~Find!InBundle => AncestorsPlain(p)
      PROVE  HandleOK(r)
  <2> DEFINE n == Find!Last(p)
             own == Find!OwnName(Find!Node(n).name.stem)
  <2>1. m \in Nodes /\ Find!Image(kind, Handle(p, Find!Node(m).name, <<>>)) = {m}
    BY ListedFacts, ImageOfFile
  <2>2. /\ Find!Cardinality(Find!ToSet(r.handle.uuids)) = Len(r.handle.uuids)
        /\ \E l \in Find!Image(r.kind, r.handle) :
              Find!Node(l).macho => r.handle.uuids = Find!Node(l).uuids
    BY <1>3, <1>5, <2>1, LoadedUUIDs
  <2>3. ASSUME ~Find!InBundle,
               \E l \in Find!ToSet(Find!Node(n).in) : ~Find!IsFolder(l) /\ Find!Node(l).name = own
        PROVE  r.handle.name = own
    <3>1. /\ Len(p) \in Nat /\ Len(p) >= 1 /\ n = p[Len(p)] /\ DOMAIN p = 1 .. Len(p) /\ n \in Nodes
      BY LastOfPath
    <3>2. \A i \in 1 .. Len(p) - 1 : Find!Ext(p[i]) \notin exts
      BY <1>1, <1>5, <2>3 DEF AncestorsPlain, Find!IsPlain
    <3>3. (CHOOSE i \in DOMAIN p : /\ Find!Ext(p[i]) \in exts
                                   /\ \A j \in 1 .. (i - 1) : Find!Ext(p[j]) \notin exts) = Len(p)
      <4> DEFINE Q(i) == Find!Ext(p[i]) \in exts /\ \A j \in 1 .. (i - 1) : Find!Ext(p[j]) \notin exts
      <4>1. Q(Len(p)) /\ Len(p) \in DOMAIN p
        BY <1>1, <3>1, <3>2
      <4>2. \A i \in DOMAIN p : Q(i) => i = Len(p)
        BY <3>1, <3>2
      <4> HIDE DEF Q
      <4>3. (CHOOSE i \in DOMAIN p : Q(i)) = Len(p)
        BY <4>1, <4>2
      <4> QED BY <4>3 DEF Q
    <3>4. first = own
      BY <3>1, <3>3 DEF Find!StemBefore
    <3>5. PICK l \in Find!ToSet(Find!Node(n).in) : ~Find!IsFolder(l) /\ Find!Node(l).name = own
      BY <2>3
    <3>6. Len(p) <= MaxPath /\ Find!Exists(n) /\ Find!Exists(l)
      BY <1>2, <1>5, ListedFacts DEF Find!Exists
    <3>7. l \in T
      <4>1. l \in Nodes /\ Find!IsFolder(l) = FALSE
        <5>1. l \in Nodes
          BY <3>1, <3>5, EntryFacts
        <5> QED BY <3>5, <5>1, WorldFacts
      <4> QED BY <3>5, <3>6, <4>1, ListedFacts
    <3> QED BY <1>2, <1>3, <3>4, <3>5, <3>7
  <2> QED BY <1>3, <2>2, <2>3 DEF HandleOK
<1> QED
  BY <1>4, <1>5

(* A log that is reported. *)
LEMMA LogReport ==
    ASSUME NEW p, Find!ReadCrashLog(p).found
    PROVE  ReportOf(Find!ReadCrashLog(p), p) /\ HandleOK(Find!ReadCrashLog(p))
<1> DEFINE h == [Find!Empty EXCEPT !.path = p, !.name = Find!Node(Find!Last(p)).name]
           r == Find!ReadCrashLog(p)
<1>1. r = Find!Found("log", h)
  BY NothingFound DEF Find!ReadCrashLog
<1>2. h.path = p
  BY DEF Find!Empty
<1> HIDE DEF h, r
<1>3. r.found /\ r.kind = "log" /\ r.handle = h
  BY <1>1, FoundFields
<1>4. ReportOf(r, p) /\ HandleOK(r)
  BY <1>2, <1>3 DEF ReportOf, HandleOK
<1> QED BY <1>4 DEF r

(* A library that is reported is its own image. *)
LEMMA LibraryReport ==
    ASSUME world \in Worlds, NEW p \in Path, Find!ReadDyLib(p).found
    PROVE  ReportOf(Find!ReadDyLib(p), p) /\ (gone = {} => HandleOK(Find!ReadDyLib(p)))
<1> DEFINE m == Find!Last(p)
           s == Find!Node(m).name
           h == Loaded("dylib", p, s)
           r == Find!ReadDyLib(p)
<1>1. m \in Nodes /\ s # NONE /\ p # <<>>
  BY LastOfPath, WorldFacts DEF Path
<1>2. r = Find!Found("dylib", h) /\ Find!Validates(m)
  BY <1>1, NothingFound, SettersLoadOnce DEF Find!ReadDyLib
<1>3. h.path = p
  BY LoadedFacts
<1>4. Find!Image("dylib", Handle(p, s, <<>>)) = {m}
  BY <1>1 DEF Find!Image, Handle
<1>5. ASSUME gone = {}
      PROVE  /\ Find!Cardinality(Find!ToSet(h.uuids)) = Len(h.uuids)
             /\ m \in Find!Image("dylib", h)
             /\ Find!Node(m).macho => h.uuids = Find!Node(m).uuids
  BY <1>1, <1>4, <1>5, LoadedUUIDs
<1>6. ~Find!IsFolder(m)
  BY <1>1, <1>2, WorldFacts DEF Find!Validates
<1> HIDE DEF h, r
<1>7. r.found /\ r.kind = "dylib" /\ r.handle = h
  BY <1>2, FoundFields
<1>8. ReportOf(r, p)
  BY <1>3, <1>7 DEF ReportOf
<1>9. ASSUME gone = {} PROVE HandleOK(r)
  BY <1>3, <1>5, <1>6, <1>7, <1>9 DEF HandleOK
<1> QED
  BY <1>8, <1>9 DEF r

(* A file is reported as a log or as a library. *)
LEMMA FileReport ==
    ASSUME world \in Worlds, NEW p \in Path, Find!LookAtFile(p).found
    PROVE  ReportOf(Find!LookAtFile(p), p) /\ (gone = {} => HandleOK(Find!LookAtFile(p)))
<1>1. CASE Find!ReadCrashLog(p).found
  <2>1. Find!LookAtFile(p) = Find!ReadCrashLog(p)
    BY <1>1 DEF Find!LookAtFile
  <2> QED BY <1>1, <2>1, LogReport
<1>2. CASE ~Find!ReadCrashLog(p).found
  <2>1. Find!LookAtFile(p) = Find!ReadDyLib(p)
    BY <1>2 DEF Find!LookAtFile
  <2> QED BY <2>1, LibraryReport
<1> QED
  BY <1>1, <1>2

(* While nothing has vanished, what is worth a report is found. *)
LEMMA WorthyFound ==
    ASSUME world \in Worlds, gone = {}, NEW p \in Path, Find!Worthy(p)
    PROVE  IF Find!IsFolder(Find!Last(p))
           THEN ~Find!IsPlain(Find!Last(p)) /\ Find!LookAtFolder(p).found
           ELSE Find!LookAtFile(p).found
<1> DEFINE n == Find!Last(p)
<1>1. n \in Nodes /\ Len(p) \in Nat /\ Len(p) >= 1 /\ DOMAIN p = 1 .. Len(p) /\ n = p[Len(p)]
  BY LastOfPath
<1>2. CASE Find!IsFolder(n)
  <2>1. /\ ~Find!IsPlain(n) /\ Len(p) <= MaxPath
        /\ \E m \in Find!ToSet(Find!Node(n).in) : Find!IsImage(m)
    BY <1>2 DEF Find!Worthy
  <2>2. PICK m \in Find!ToSet(Find!Node(n).in) : Find!IsImage(m)
    BY <2>1
  <2>3. m \in Nodes /\ Find!IsFolder(m) = FALSE /\ Find!Node(m).macho
    <3>1. m \in Nodes
      BY <1>1, EntryFacts
    <3> QED BY <2>2, <3>1, WorldFacts DEF Find!IsImage
  <2>4. m \in Find!ToSet(Find!Listed(p, FALSE)) /\ Find!Validates(m)
    <3>1. Find!Exists(n) /\ Find!Exists(m)
      BY DEF Find!Exists
    <3>2. m \in Find!ToSet(Find!Listed(p, FALSE))
      BY <2>1, <2>3, <3>1, ListedFacts
    <3> QED BY <2>3, <3>1, <3>2 DEF Find!Validates
  <2>5. PICK kind \in {"dsym", "app"}, exts \in SUBSET {"app", "app.dSYM"} :
           Find!LookAtFolder(p) = Find!FindMachOIn(kind, exts, p)
    BY <2>1, FolderCases
  <2>6. PICK l \in Find!ToSet(Find!Listed(p, FALSE)) :
           Find!LookAtFolder(p) = Find!Found(kind, Loaded(kind, p, Find!Node(l).name))
    <3>1. \/ \A l \in Find!ToSet(Find!Listed(p, FALSE)) : ~Find!Validates(l)
          \/ \E l \in Find!ToSet(Find!Listed(p, FALSE)) :
                Find!FindMachOIn(kind, exts, p) =
                   Find!Found(kind, Loaded(kind, p, Find!Node(l).name))
      BY BundleFacts
    <3> QED BY <2>4, <2>5, <3>1
  <2>7. Find!LookAtFolder(p).found
    BY <2>6, FoundFields
  <2> QED BY <1>2, <2>1, <2>7
<1>3. CASE ~Find!IsFolder(n)
  <2>1. \/ Find!IsCrashLog(n) /\ Find!Node(n).log
        \/ Find!IsImage(n) /\ Find!Ext(n) \in {"", "dylib"}
    BY <1>3 DEF Find!Worthy
  <2>2. CASE Find!IsCrashLog(n) /\ Find!Node(n).log
    <3>1. Find!ReadCrashLog(p).found
      BY <2>2, FoundFields DEF Find!ReadCrashLog, Find!Exists
    <3> QED BY <1>3, <3>1 DEF Find!LookAtFile
  <2>3. CASE Find!IsImage(n) /\ Find!Ext(n) \in {"", "dylib"}
    <3>1. Find!Validates(n)
      BY <2>3 DEF Find!Validates, Find!Exists, Find!IsImage
    <3>2. Find!Ext(n) = "" \/ \E i \in DOMAIN p : Find!Ext(p[i]) = "dylib"
      <4>1. Find!Ext(n) = "dylib" => Find!Ext(p[Len(p)]) = "dylib"
        BY <1>1, Zenon
      <4>2. Len(p) \in DOMAIN p
        BY <1>1
      <4> QED BY <2>3, <4>1, <4>2, Zenon
    <3>3. Find!ReadDyLib(p).found
      BY <3>1, <3>2, FoundFields DEF Find!ReadDyLib
    <3> QED BY <1>3, <3>3 DEF Find!LookAtFile
  <2> QED BY <2>1, <2>2, <2>3
<1> QED
  BY <1>2, <1>3

-------------------------------------------------------------------------------
(* The first element of a sequence and the others. *)
LEMMA TailFacts ==
    ASSUME NEW S, NEW s \in Seq(S), s # <<>>
    PROVE  /\ Head(s) \in S /\ Tail(s) \in Seq(S) /\ Len(s) \in Nat /\ Len(s) >= 1
           /\ Head(s) = s[1] /\ Len(Tail(s)) = Len(s) - 1
           /\ \A i \in 1 .. Len(s) - 1 : Tail(s)[i] = s[i + 1]
           /\ Head(s) \in Find!ToSet(s)
           /\ \A x \in Find!ToSet(Tail(s)) : x \in Find!ToSet(s)
           /\ \A x \in Find!ToSet(s) : x = Head(s) \/ x \in Find!ToSet(Tail(s))
           /\ Once(s) => Once(Tail(s)) /\ Head(s) \notin Find!ToSet(Tail(s))
<1>1. /\ Head(s) \in S /\ Tail(s) \in Seq(S) /\ Len(s) \in Nat /\ Len(s) >= 1
      /\ Head(s) = s[1] /\ Len(Tail(s)) = Len(s) - 1
      /\ \A i \in 1 .. Len(s) - 1 : Tail(s)[i] = s[i + 1]
      /\ DOMAIN s = 1 .. Len(s) /\ DOMAIN Tail(s) = 1 .. Len(s) - 1
  OBVIOUS
<1> DEFINE t == Tail(s)
           h == Head(s)
<1> HIDE DEF t, h
<1>2. \A x \in Find!ToSet(t) : \E i \in 1 .. Len(s) - 1 : x = t[i] /\ x = s[i + 1]
  BY <1>1 DEF Find!ToSet, t
<1>3. h \in Find!ToSet(s)
  BY <1>1 DEF Find!ToSet, h
<1>4. \A x \in Find!ToSet(t) : x \in Find!ToSet(s)
  <2> SUFFICES ASSUME NEW x \in Find!ToSet(t) PROVE x \in Find!ToSet(s)
    OBVIOUS
  <2>1. PICK i \in 1 .. Len(s) - 1 : x = s[i + 1]
    BY <1>2
  <2>2. i + 1 \in DOMAIN s
    BY <1>1
  <2> QED BY <2>1, <2>2 DEF Find!ToSet
<1>5. \A x \in Find!ToSet(s) : x = h \/ x \in Find!ToSet(t)
  <2> SUFFICES ASSUME NEW x \in Find!ToSet(s), x # h PROVE x \in Find!ToSet(t)
    OBVIOUS
  <2>1. PICK i \in 1 .. Len(s) : x = s[i]
    BY <1>1 DEF Find!ToSet
  <2>2. i # 1
    BY <1>1, <2>1 DEF h
  <2>3. i - 1 \in 1 .. Len(s) - 1 /\ (i - 1) + 1 = i
    BY <1>1, <2>2
  <2>4. t[i - 1] = x
    BY <1>1, <2>1, <2>3 DEF t
  <2> QED BY <1>1, <2>3, <2>4 DEF Find!ToSet, t
<1>6. ASSUME Once(s) PROVE Once(t) /\ h \notin Find!ToSet(t)
  <2>1. ASSUME NEW i \in 1 .. Len(s) - 1, NEW j \in 1 .. Len(s) - 1, t[i] = t[j] PROVE i = j
    <3>1. i + 1 \in DOMAIN s /\ j + 1 \in DOMAIN s /\ s[i + 1] = s[j + 1]
      BY <1>1, <2>1 DEF t
    <3>2. i + 1 = j + 1
      BY <1>6, <3>1 DEF Once
    <3> QED BY <1>1, <3>2
  <2>2. ASSUME h \in Find!ToSet(t) PROVE FALSE
    <3>1. PICK i \in 1 .. Len(s) - 1 : h = s[i + 1]
      BY <1>2, <2>2
    <3>2. 1 \in DOMAIN s /\ i + 1 \in DOMAIN s /\ s[1] = s[i + 1]
      BY <1>1, <3>1 DEF h
    <3>3. i + 1 = 1
      BY <1>6, <3>2 DEF Once
    <3> QED BY <1>1, <3>3
  <2> QED BY <1>1, <2>1, <2>2 DEF Once, t
<1> QED
  BY <1>1, <1>3, <1>4, <1>5, <1>6 DEF t, h

IsASeq(s) == \E S : s \in Seq(S)

(* A sequence one longer. *)
LEMMA LongerFacts ==
    ASSUME NEW s, IsASeq(s), NEW x
    PROVE  /\ IsASeq(Append(s, x)) /\ Len(s) \in Nat /\ Len(Append(s, x)) = Len(s) + 1
           /\ DOMAIN s = 1 .. Len(s) /\ DOMAIN Append(s, x) = 1 .. Len(s) + 1
           /\ \A i \in 1 .. Len(s) : Append(s, x)[i] = s[i]
           /\ Append(s, x)[Len(s) + 1] = x
<1>1. PICK S : s \in Seq(S)
  BY DEF IsASeq
<1>2. s \in Seq(S \cup {x})
  BY <1>1
<1>3. Append(s, x) \in Seq(S \cup {x})
  BY <1>2
<1> QED
  BY <1>2, <1>3 DEF IsASeq

(* Its elements. *)
LEMMA LongerSet ==
    ASSUME NEW s, IsASeq(s), NEW x
    PROVE  /\ \A y : y \in Find!ToSet(Append(s, x)) <=> y \in Find!ToSet(s) \/ y = x
           /\ Once(s) /\ x \notin Find!ToSet(s) => Once(Append(s, x))
<1> DEFINE a == Append(s, x)
<1>1. /\ Len(s) \in Nat
      /\ DOMAIN s = 1 .. Len(s) /\ DOMAIN a = 1 .. Len(s) + 1
      /\ \A i \in 1 .. Len(s) : a[i] = s[i]
      /\ a[Len(s) + 1] = x
  BY LongerFacts
<1> HIDE DEF a
<1>2. ASSUME NEW y, y \in Find!ToSet(a) PROVE y \in Find!ToSet(s) \/ y = x
  <2>1. PICK i \in 1 .. Len(s) + 1 : y = a[i]
    BY <1>1, <1>2 DEF Find!ToSet
  <2>2. i = Len(s) + 1 \/ i \in 1 .. Len(s)
    BY <1>1
  <2> QED BY <1>1, <2>1, <2>2 DEF Find!ToSet
<1>3. ASSUME NEW y, y \in Find!ToSet(s) \/ y = x PROVE y \in Find!ToSet(a)
  <2>1. CASE y \in Find!ToSet(s)
    <3>1. PICK i \in 1 .. Len(s) : y = s[i]
      BY <1>1, <2>1 DEF Find!ToSet
    <3>2. i \in DOMAIN a /\ a[i] = y
      BY <1>1, <3>1
    <3> QED BY <3>2 DEF Find!ToSet
  <2>2. CASE y = x
    <3>1. Len(s) + 1 \in DOMAIN a
      BY <1>1
    <3> QED BY <1>1, <2>2, <3>1 DEF Find!ToSet
  <2> QED BY <1>3, <2>1, <2>2
<1>4. ASSUME Once(s), x \notin Find!ToSet(s),
             NEW i \in DOMAIN a, NEW j \in DOMAIN a, a[i] = a[j]
      PROVE  i = j
  <2>1. (i = Len(s) + 1 \/ i \in 1 .. Len(s)) /\ (j = Len(s) + 1 \/ j \in 1 .. Len(s))
    BY <1>1
  <2>2. \A k \in 1 .. Len(s) : s[k] # x
    BY <1>1, <1>4 DEF Find!ToSet
  <2> QED BY <1>1, <1>4, <2>1, <2>2 DEF Once
<1> QED
  BY <1>2, <1>3, <1>4 DEF Once, a

-------------------------------------------------------------------------------
(* The inductive invariant of a search, of the states its variables may have in
   a world of which gone is gone. *)
RightLists(c, fi, fo) ==
    /\ c = <<>> \/ c \in Path
    /\ fi \in Seq(Nodes) /\ fo \in Seq(Nodes) /\ Once(fi) /\ Once(fo)
    /\ \A n \in Find!ToSet(fi) : ~Find!IsFolder(n)
    /\ \A n \in Find!ToSet(fo) : Find!IsFolder(n)

(* What is walked is a plain folder, but for the path searched itself if it has
   a single level. *)
RootPlain == Find!Levels = 1 \/ Find!IsPlain(Find!Last(world.root))

(* The queue holds plain folders, by depth. *)
ByDepth(q, c) ==
    /\ q \in Seq(Path) /\ Once(q)
    /\ \A i, j \in 1 .. Len(q) : i < j => Len(q[i]) <= Len(q[j])
    /\ \A p \in Find!ToSet(q) : Below(p)
    /\ c # <<>> => Below(c) /\ \A p \in Find!ToSet(q) :
                      p # c /\ Len(c) <= Len(p) /\ Len(p) <= Len(c) + 1
    /\ q # <<>> \/ c # <<>> => RootPlain

(* Where the call stands. *)
Stands(a, b, q, c, fi, fo, s) ==
    /\ a \in {"begin", "walk", "returned"} /\ b \in BOOLEAN
    /\ c = <<>> => fi = <<>> /\ fo = <<>>
    /\ a = "begin" => q = <<>> /\ c = <<>> /\ s = <<>>
    /\ a = "walk" /\ c = <<>> => q = <<world.root>> /\ s = <<>>
    /\ a = "returned" /\ c # <<>> /\ ~b => q = <<>> /\ fi = <<>> /\ fo = <<>>

PathsOf(s) == {s[i].handle.path : i \in DOMAIN s}

(* The nearest first, each path once, none deeper than the current folder. *)
RightReports(s, c) ==
    /\ IsASeq(s)
    /\ \A i \in 1 .. Len(s) :
          /\ s[i].found /\ s[i].handle.path \in Path
          /\ c # <<>> => Len(s[i].handle.path) <= Len(c) + 1
    /\ \A i, j \in 1 .. Len(s) :
          /\ i < j => Len(s[i].handle.path) <= Len(s[j].handle.path)
          /\ s[i].handle.path = s[j].handle.path => i = j

(* What is still to be listed has met nobody. *)
Fresh(q, c, fi, fo, s) ==
    /\ \A p \in Find!ToSet(q), n \in Nodes :
          Append(p, n) \notin Find!ToSet(q) \cup PathsOf(s)
    /\ c # <<>> => \A n \in Find!ToSet(fi) \cup Find!ToSet(fo) :
          Append(c, n) \notin Find!ToSet(q) \cup PathsOf(s)

Prefix(p, e) == Len(p) < Len(e) /\ \A i \in 1 .. Len(p) : p[i] = e[i]

(* What is expected has been reported or is below what is still to be done. *)
Covers(q, c, fi, fo, s) ==
    \A e \in Find!Expected :
        \/ e \in PathsOf(s)
        \/ \E p \in Find!ToSet(q) : Prefix(p, e)
        \/ /\ c # <<>> /\ Prefix(c, e)
           /\ e[Len(c) + 1] \in Find!ToSet(fi) \cup Find!ToSet(fo)

SearchRight(a, b, q, c, fi, fo, s) ==
    /\ RightLists(c, fi, fo) /\ ByDepth(q, c) /\ Stands(a, b, q, c, fi, fo, s)
    /\ RightReports(s, c) /\ Fresh(q, c, fi, fo, s)
    /\ gone = {} => \A i \in 1 .. Len(s) : HandleOK(s[i])
    /\ gone = {} /\ (a = "walk" \/ c # <<>>) => Covers(q, c, fi, fo, s)

FindInv ==
    /\ world \in Worlds /\ gone \in SUBSET Nodes
    /\ SearchRight(at, broken, queue, current, files, folders, reported)

(* A tree that stays has the same images and the same it is worth reporting. *)
LEMMA SameListed ==
    ASSUME world' = world, gone' = gone, NEW p, NEW folder
    PROVE  Find!Listed(p, folder)' = Find!Listed(p, folder)
  BY DEF Find!Listed, Find!Node, Find!Exists, Find!IsFolder, Find!Last

(* And with it what a handle is right about. *)
LEMMA SameHandleOK ==
    ASSUME world' = world, gone' = gone, NEW r
    PROVE  HandleOK(r)' <=> HandleOK(r)
  BY DEF HandleOK, Find!Node, Find!Last, Find!IsFolder, Find!InBundle, Find!Levels,
         Find!IsPlain, Find!Ext, Find!Image, Find!Listed, Find!Exists

(* What is expected is so of the tree as it was. *)
LEMMA SameExpected ==
    ASSUME world' = world
    PROVE  Find!Expected' = Find!Expected
  BY DEF Find!Expected, Find!Node, Find!Last, Find!IsFolder, Find!IsPlain, Find!Ext,
         Find!Worthy, Find!Opened, Find!IsImage, Find!IsCrashLog

(* The parts of the invariant say the same of the next values. *)
LEMMA SameLists ==
    ASSUME world' = world, RightLists(current', files', folders')
    PROVE  RightLists(current, files, folders)'
  BY DEF RightLists, Path, Nodes, Once, Find!IsFolder, Find!Node, Find!ToSet

(* So does the order of the queue. *)
LEMMA SameDepth ==
    ASSUME world' = world, ByDepth(queue', current')
    PROVE  ByDepth(queue, current)'
  BY DEF ByDepth, Path, Nodes, Once, Below, Plain, Find!IsFolder, Find!Node, Find!ToSet,
         RootPlain, Find!Levels, Find!IsPlain, Find!Ext, Find!Last

(* So does that of the reports. *)
LEMMA SameReports ==
    ASSUME world' = world, RightReports(reported', current')
    PROVE  RightReports(reported, current)'
  BY DEF RightReports, Path, Nodes, IsASeq

(* So does what is still to be met. *)
LEMMA SameFresh ==
    ASSUME world' = world, Fresh(queue', current', files', folders', reported')
    PROVE  Fresh(queue, current, files, folders, reported)'
  BY DEF Fresh, Nodes, PathsOf, Find!ToSet

(* So does what is covered. *)
LEMMA SameCovers ==
    ASSUME world' = world, Covers(queue', current', files', folders', reported')
    PROVE  Covers(queue, current, files, folders, reported)'
  BY SameExpected DEF Covers, Prefix, PathsOf, Find!ToSet

(* So does where the call stands. *)
LEMMA SameStands ==
    ASSUME world' = world, Stands(at', broken', queue', current', files', folders', reported')
    PROVE  Stands(at, broken, queue, current, files, folders, reported)'
  BY DEF Stands

(* It is enough to know the next values in the world as it is. *)
LEMMA Carried ==
    ASSUME FindInv, world' = world, gone' = gone,
           SearchRight(at', broken', queue', current', files', folders', reported')
    PROVE  FindInv'
<1>1. world' \in Worlds /\ gone' \in SUBSET Nodes'
  BY DEF FindInv, Nodes
<1>2. /\ RightLists(current, files, folders)' /\ ByDepth(queue, current)'
      /\ Stands(at, broken, queue, current, files, folders, reported)'
      /\ RightReports(reported, current)' /\ Fresh(queue, current, files, folders, reported)'
  BY SameLists, SameDepth, SameStands, SameReports, SameFresh DEF SearchRight
<1>3. ASSUME gone' = {} PROVE \A i \in 1 .. Len(reported') : HandleOK(reported[i])'
  <2> SUFFICES ASSUME NEW i \in 1 .. Len(reported') PROVE HandleOK(reported[i])'
    OBVIOUS
  <2>1. HandleOK(reported'[i])
    BY <1>3 DEF SearchRight
  <2> QED BY <2>1 DEF HandleOK, Find!Node, Find!Last, Find!IsFolder, Find!InBundle, Find!Levels,
         Find!IsPlain, Find!Ext, Find!Image, Find!Listed, Find!Exists
<1>4. ASSUME gone' = {}, at' = "walk" \/ current' # <<>>
      PROVE  Covers(queue, current, files, folders, reported)'
  <2>1. Covers(queue', current', files', folders', reported')
    BY <1>4 DEF SearchRight
  <2> QED BY <2>1, SameCovers
<1>5. SearchRight(at, broken, queue, current, files, folders, reported)'
  BY <1>2, <1>3, <1>4 DEF SearchRight
<1> QED
  BY <1>1, <1>5 DEF FindInv

(* One report more, of an entry of the current folder. *)
LEMMA OneReport ==
    ASSUME world \in Worlds, NEW s, NEW c \in Path, NEW n \in Nodes, NEW r,
           RightReports(s, c), Append(c, n) \notin PathsOf(s), ReportOf(r, Append(c, n))
    PROVE  /\ RightReports(Append(s, r), c)
           /\ \A p : p \in PathsOf(Append(s, r)) <=> p \in PathsOf(s) \/ p = Append(c, n)
           /\ (\A i \in 1 .. Len(s) : HandleOK(s[i])) /\ HandleOK(r) =>
                 \A i \in 1 .. Len(Append(s, r)) : HandleOK(Append(s, r)[i])
<1> DEFINE t == Append(s, r)
           p == Append(c, n)
<1>1. /\ IsASeq(t) /\ Len(s) \in Nat /\ Len(t) = Len(s) + 1
      /\ DOMAIN s = 1 .. Len(s) /\ DOMAIN t = 1 .. Len(s) + 1
      /\ \A i \in 1 .. Len(s) : t[i] = s[i]
      /\ t[Len(s) + 1] = r
  BY LongerFacts DEF RightReports
<1>2. /\ p \in Path /\ Len(p) = Len(c) + 1 /\ Len(c) \in Nat
  BY AppendFacts, LastOfPath
<1>3. r.found /\ r.handle.path = p /\ \A i \in 1 .. Len(s) : s[i].handle.path # p
  BY <1>1 DEF ReportOf, PathsOf
<1>4. c # <<>>
  BY DEF Path
<1>5. /\ \A i \in 1 .. Len(s) :
            /\ s[i].found /\ s[i].handle.path \in Path
            /\ Len(s[i].handle.path) <= Len(c) + 1
      /\ \A i, j \in 1 .. Len(s) :
            /\ i < j => Len(s[i].handle.path) <= Len(s[j].handle.path)
            /\ s[i].handle.path = s[j].handle.path => i = j
  BY <1>4 DEF RightReports
<1> HIDE DEF t, p
<1>6. \A i \in 1 .. Len(s) + 1 : i = Len(s) + 1 \/ i \in 1 .. Len(s)
  BY <1>1
<1>7. \A i \in 1 .. Len(t) :
         /\ t[i].found /\ t[i].handle.path \in Path
         /\ Len(t[i].handle.path) <= Len(c) + 1
  BY <1>1, <1>2, <1>3, <1>5, <1>6
<1>8. ASSUME NEW i \in 1 .. Len(t), NEW j \in 1 .. Len(t)
      PROVE  /\ i < j => Len(t[i].handle.path) <= Len(t[j].handle.path)
             /\ t[i].handle.path = t[j].handle.path => i = j
  <2>1. CASE i \in 1 .. Len(s) /\ j \in 1 .. Len(s)
    BY <1>1, <1>5, <2>1
  <2>2. CASE i \in 1 .. Len(s) /\ j = Len(s) + 1
    BY <1>1, <1>2, <1>3, <1>5, <2>2
  <2>3. CASE i = Len(s) + 1 /\ j \in 1 .. Len(s)
    BY <1>1, <1>3, <2>3
  <2>4. CASE i = Len(s) + 1 /\ j = Len(s) + 1
    BY <1>1, <2>4
  <2> QED BY <1>1, <1>6, <2>1, <2>2, <2>3, <2>4
<1>9. RightReports(t, c)
  BY <1>1, <1>7, <1>8 DEF RightReports
<1>10. ASSUME NEW x PROVE x \in PathsOf(t) <=> x \in PathsOf(s) \/ x = p
  <2>1. ASSUME x \in PathsOf(t) PROVE x \in PathsOf(s) \/ x = p
    <3>1. PICK i \in 1 .. Len(s) + 1 : x = t[i].handle.path
      BY <1>1, <2>1 DEF PathsOf
    <3> QED BY <1>1, <1>3, <1>6, <3>1 DEF PathsOf
  <2>2. ASSUME x \in PathsOf(s) PROVE x \in PathsOf(t)
    <3>1. PICK i \in 1 .. Len(s) : x = s[i].handle.path
      BY <1>1, <2>2 DEF PathsOf
    <3>2. i \in DOMAIN t /\ x = t[i].handle.path
      BY <1>1, <3>1
    <3> QED BY <3>2 DEF PathsOf
  <2>3. p \in PathsOf(t)
    <3>1. Len(s) + 1 \in DOMAIN t
      BY <1>1
    <3> QED BY <1>1, <1>3, <3>1 DEF PathsOf
  <2> QED BY <2>1, <2>2, <2>3
<1>11. ASSUME \A i \in 1 .. Len(s) : HandleOK(s[i]), HandleOK(r),
              NEW i \in 1 .. Len(t)
       PROVE  HandleOK(t[i])
  BY <1>1, <1>6, <1>11
<1> QED
  BY <1>9, <1>10, <1>11 DEF t, p

(* A path that goes on from another by one node. *)
LEMMA OneLonger ==
    ASSUME NEW c \in Path, NEW e \in Path, Prefix(c, e), Len(e) = Len(c) + 1
    PROVE  e = Append(c, e[Len(c) + 1])
<1>1. c \in Seq(Nodes) /\ e \in Seq(Nodes) /\ Len(c) \in Nat /\ Len(e) \in Nat
  BY DEF Path
<1> DEFINE n == e[Len(c) + 1]
           a == Append(c, n)
<1>2. n \in Nodes
  BY <1>1
<1>3. a \in Seq(Nodes) /\ Len(a) = Len(c) + 1 /\ a[Len(c) + 1] = n
      /\ \A i \in 1 .. Len(c) : a[i] = c[i]
  BY <1>1, <1>2
<1>4. \A i \in 1 .. Len(c) : e[i] = c[i]
  BY DEF Prefix
<1> HIDE DEF a
<1>5. \A i \in 1 .. Len(e) : a[i] = e[i]
  <2> SUFFICES ASSUME NEW i \in 1 .. Len(e) PROVE a[i] = e[i]
    OBVIOUS
  <2>1. i = Len(c) + 1 \/ i \in 1 .. Len(c)
    BY <1>1
  <2> QED BY <1>3, <1>4, <2>1
<1>6. a = [i \in 1 .. Len(a) |-> a[i]] /\ e = [i \in 1 .. Len(e) |-> e[i]]
  BY <1>1, <1>3
<1>7. a = e
  BY <1>3, <1>5, <1>6
<1> QED BY <1>7 DEF a

(* The entries of the current folder are reported or left alone one by one. *)
LEMMA EntryTaken ==
    ASSUME FindInv, at = "walk", current # <<>>, NEW n, NEW fi, NEW fo, NEW r,
           RightLists(current, fi, fo),
           n \in Find!ToSet(files) \cup Find!ToSet(folders), n \notin Plain,
           \A m \in Find!ToSet(fi) \cup Find!ToSet(fo) :
              m # n /\ m \in Find!ToSet(files) \cup Find!ToSet(folders),
           \A m \in Find!ToSet(files) \cup Find!ToSet(folders) :
              m = n \/ m \in Find!ToSet(fi) \cup Find!ToSet(fo),
           r.found => /\ ReportOf(r, Append(current, n))
                      /\ gone = {} => HandleOK(r),
           gone = {} /\ Append(current, n) \in Find!Expected => r.found
    PROVE  SearchRight(at, broken, queue, current, fi, fo,
                       IF r.found THEN Append(reported, r) ELSE reported)
<1> DEFINE p == Append(current, n)
           s == IF r.found THEN Append(reported, r) ELSE reported
           Rest == Find!ToSet(fi) \cup Find!ToSet(fo)
           All == Find!ToSet(files) \cup Find!ToSet(folders)
           K == Find!ToSet(queue)
<1>1. /\ world \in Worlds /\ RightLists(current, files, folders) /\ ByDepth(queue, current)
      /\ Stands(at, broken, queue, current, files, folders, reported)
      /\ RightReports(reported, current) /\ Fresh(queue, current, files, folders, reported)
      /\ gone = {} => \A i \in 1 .. Len(reported) : HandleOK(reported[i])
      /\ gone = {} => Covers(queue, current, files, folders, reported)
  BY DEF FindInv, SearchRight
<1>2. /\ current \in Path /\ Below(current) /\ Len(current) \in Nat
      /\ Len(world.root) \in Nat /\ Len(world.root) <= Len(current)
      /\ \A q \in K : q \in Path /\ q # current
  BY <1>1, LastOfPath, WorldFacts DEF ByDepth, Below
<1>3. \A m \in All : m \in Nodes
  <2>1. files \in Seq(Nodes) /\ folders \in Seq(Nodes)
    BY <1>1 DEF RightLists
  <2> QED BY <2>1 DEF Find!ToSet
<1>4. n \in Nodes /\ p \in Path /\ Len(p) = Len(current) + 1
  BY <1>2, <1>3, AppendFacts
<1>5. /\ \A q \in K, m \in Nodes : Append(q, m) \notin K /\ Append(q, m) \notin PathsOf(reported)
      /\ \A m \in All : Append(current, m) \notin K /\ Append(current, m) \notin PathsOf(reported)
  BY <1>1 DEF Fresh
<1>6. ASSUME r.found
      PROVE  /\ RightReports(Append(reported, r), current)
             /\ \A x : x \in PathsOf(Append(reported, r)) <=> x \in PathsOf(reported) \/ x = p
             /\ (\A i \in 1 .. Len(reported) : HandleOK(reported[i])) /\ HandleOK(r) =>
                   \A i \in 1 .. Len(Append(reported, r)) : HandleOK(Append(reported, r)[i])
  <2>1. ReportOf(r, p) /\ p \notin PathsOf(reported)
    BY <1>5, <1>6
  <2> QED BY <1>1, <1>2, <1>4, <2>1, OneReport
<1>7. /\ RightReports(s, current)
      /\ \A x \in PathsOf(s) : x \in PathsOf(reported) \/ x = p
      /\ \A x \in PathsOf(reported) : x \in PathsOf(s)
      /\ r.found => p \in PathsOf(s)
      /\ gone = {} => \A i \in 1 .. Len(s) : HandleOK(s[i])
  <2>1. CASE r.found
    BY <1>1, <1>6, <2>1
  <2>2. CASE ~r.found
    BY <1>1, <2>2
  <2> QED BY <2>1, <2>2
<1> HIDE DEF s, p, Rest, All, K
<1>8. Fresh(queue, current, fi, fo, s)
  <2>1. ASSUME NEW q \in K, NEW m \in Nodes PROVE Append(q, m) \notin K \cup PathsOf(s)
    <3>1. Append(q, m) # p
      BY <1>2, <1>4, AppendOnce DEF p
    <3> QED BY <1>5, <1>7, <3>1
  <2>2. ASSUME NEW m \in Rest PROVE Append(current, m) \notin K \cup PathsOf(s)
    <3>1. m \in All /\ m # n
      BY DEF Rest, All
    <3>2. Append(current, m) # p
      BY <1>2, <1>3, <1>4, <3>1, AppendOnce DEF p
    <3> QED BY <1>5, <1>7, <3>1, <3>2
  <2> QED BY <2>1, <2>2 DEF Fresh, Rest, K
<1>9. ASSUME gone = {} PROVE Covers(queue, current, fi, fo, s)
  <2> SUFFICES ASSUME NEW e \in Find!Expected
               PROVE  \/ e \in PathsOf(s)
                      \/ \E q \in K : Prefix(q, e)
                      \/ Prefix(current, e) /\ e[Len(current) + 1] \in Rest
    BY DEF Covers, K, Rest
  <2>1. \/ e \in PathsOf(reported)
        \/ \E q \in K : Prefix(q, e)
        \/ Prefix(current, e) /\ e[Len(current) + 1] \in All
    BY <1>1, <1>9 DEF Covers, K, All
  <2>2. CASE e \in PathsOf(reported)
    BY <1>7, <2>2
  <2>3. CASE Prefix(current, e) /\ e[Len(current) + 1] \in All
    <3>1. CASE e[Len(current) + 1] \in Rest
      BY <2>3, <3>1
    <3>2. CASE e[Len(current) + 1] = n
      <4>1. /\ e \in Path /\ Len(e) \in Nat
            /\ \A i \in Len(world.root) + 1 .. Len(e) - 1 : e[i] \in Plain
        BY <1>1, ExpectedFacts, LastOfPath
      <4>2. Len(current) < Len(e)
        BY <2>3 DEF Prefix
      <4>3. Len(e) = Len(current) + 1
        <5> SUFFICES ASSUME Len(e) # Len(current) + 1 PROVE FALSE
          OBVIOUS
        <5>1. Len(current) + 1 \in Len(world.root) + 1 .. Len(e) - 1
          BY <1>2, <4>1, <4>2
        <5> QED BY <3>2, <4>1, <5>1
      <4>4. e = p
        BY <1>2, <2>3, <3>2, <4>1, <4>3, OneLonger DEF p
      <4>5. p \in PathsOf(s)
        BY <1>7, <1>9, <4>4 DEF p
      <4> QED BY <4>4, <4>5
    <3> QED BY <2>3, <3>1, <3>2 DEF All, Rest
  <2> QED BY <2>1, <2>2, <2>3
<1>10. Stands(at, broken, queue, current, fi, fo, s)
  BY <1>1 DEF Stands
<1> QED
  BY <1>1, <1>7, <1>8, <1>9, <1>10 DEF SearchRight, s

(* Each file is looked at once. *)
LEMMA TakeFileKeeps ==
    ASSUME FindInv, Find!TakeFile
    PROVE  FindInv'
<1>1. /\ at = "walk" /\ files # <<>> /\ files' = Tail(files)
      /\ Find!Report(Find!LookAtFile(Append(current, Head(files))))
      /\ world' = world /\ gone' = gone /\ at' = at /\ queue' = queue /\ current' = current
      /\ folders' = folders /\ broken' = broken
  BY DEF Find!TakeFile
<1> DEFINE n == Head(files)
           p == Append(current, n)
           r == Find!LookAtFile(p)
<1>2. /\ world \in Worlds /\ RightLists(current, files, folders)
      /\ Stands(at, broken, queue, current, files, folders, reported)
  BY DEF FindInv, SearchRight
<1>3. current # <<>> /\ current \in Path
  BY <1>1, <1>2 DEF Stands, RightLists
<1>4. /\ n \in Nodes /\ Tail(files) \in Seq(Nodes) /\ Once(Tail(files))
      /\ n \in Find!ToSet(files) /\ n \notin Find!ToSet(Tail(files))
      /\ \A x \in Find!ToSet(Tail(files)) : x \in Find!ToSet(files)
      /\ \A x \in Find!ToSet(files) : x = n \/ x \in Find!ToSet(Tail(files))
  BY <1>1, <1>2, TailFacts DEF RightLists
<1>5. /\ ~Find!IsFolder(n) /\ n \notin Plain /\ n \notin Find!ToSet(folders)
  BY <1>2, <1>4 DEF RightLists, Plain
<1>6. p \in Path /\ Find!Last(p) = n
  BY <1>3, <1>4, AppendFacts
<1>7. RightLists(current, Tail(files), folders)
  BY <1>2, <1>4 DEF RightLists
<1>8. r.found => ReportOf(r, p) /\ (gone = {} => HandleOK(r))
  BY <1>2, <1>6, FileReport
<1>9. gone = {} /\ p \in Find!Expected => r.found
  <2> SUFFICES ASSUME gone = {}, p \in Find!Expected PROVE r.found
    OBVIOUS
  <2>1. Find!Worthy(p)
    BY <1>2, ExpectedFacts
  <2> QED BY <1>2, <1>5, <1>6, <2>1, WorthyFound
<1>10. reported' = IF r.found THEN Append(reported, r) ELSE reported
  BY <1>1 DEF Find!Report
<1> HIDE DEF n, p, r
<1>11. SearchRight(at, broken, queue, current, Tail(files), folders,
                   IF r.found THEN Append(reported, r) ELSE reported)
  BY <1>1, <1>3, <1>4, <1>5, <1>7, <1>8, <1>9, EntryTaken DEF p
<1> QED
  BY <1>1, <1>10, <1>11, Carried

(* A place in a list that is one longer. *)
LEMMA LastOrBefore ==
    ASSUME NEW a \in Nat, NEW b \in Nat, NEW i \in a + 1 .. b + 1
    PROVE  i = b + 1 \/ (i \in 1 .. b /\ i \in a + 1 .. b)
  OBVIOUS

(* A plain folder joins the queue at its end. *)
LEMMA FolderQueued ==
    ASSUME FindInv, at = "walk", current # <<>>, NEW n, NEW fo,
           RightLists(current, <<>>, fo), files = <<>>, n \in Find!ToSet(folders), n \in Plain,
           \A m \in Find!ToSet(fo) : m # n /\ m \in Find!ToSet(folders),
           \A m \in Find!ToSet(folders) : m = n \/ m \in Find!ToSet(fo)
    PROVE  SearchRight(at, broken, Append(queue, Append(current, n)), current, <<>>, fo, reported)
<1> DEFINE p == Append(current, n)
           q == Append(queue, p)
           K == Find!ToSet(queue)
<1>0. Find!ToSet(<<>>) = {}
  BY DEF Find!ToSet
<1>1. /\ world \in Worlds /\ RightLists(current, <<>>, folders) /\ ByDepth(queue, current)
      /\ Stands(at, broken, queue, current, files, folders, reported)
      /\ RightReports(reported, current) /\ Fresh(queue, current, <<>>, folders, reported)
      /\ gone = {} => \A i \in 1 .. Len(reported) : HandleOK(reported[i])
      /\ gone = {} => Covers(queue, current, <<>>, folders, reported)
  BY DEF FindInv, SearchRight
<1>2. /\ current \in Path /\ Below(current) /\ Len(current) \in Nat
      /\ Len(world.root) \in Nat /\ Len(world.root) <= Len(current)
      /\ queue \in Seq(Path) /\ Once(queue)
      /\ RootPlain
      /\ \A i, j \in 1 .. Len(queue) : i < j => Len(queue[i]) <= Len(queue[j])
      /\ \A x \in K : x \in Path /\ x # current /\ Below(x)
                      /\ Len(current) <= Len(x) /\ Len(x) <= Len(current) + 1
  BY <1>1, LastOfPath, WorldFacts DEF ByDepth, Below
<1>3. /\ n \in Nodes /\ p \in Path /\ Len(p) = Len(current) + 1 /\ p # current
      /\ p[Len(current) + 1] = n /\ \A i \in 1 .. Len(current) : p[i] = current[i]
  <2>1. n \in Nodes
    BY DEF Plain
  <2> QED BY <1>2, <2>1, AppendFacts
<1>4. /\ \A x \in K, m \in Nodes : Append(x, m) \notin K /\ Append(x, m) \notin PathsOf(reported)
      /\ \A m \in Find!ToSet(folders) : Append(current, m) \notin K /\ Append(current, m) \notin PathsOf(reported)
  BY <1>1 DEF Fresh
<1>5. p \notin K
  BY <1>4
<1> HIDE DEF p, K
<1>6. /\ IsASeq(queue) /\ q \in Seq(Path) /\ Len(queue) \in Nat /\ Len(q) = Len(queue) + 1
      /\ \A i \in 1 .. Len(queue) : q[i] = queue[i] /\ queue[i] \in K
      /\ q[Len(queue) + 1] = p
  <2>1. IsASeq(queue) /\ q \in Seq(Path)
    BY <1>2, <1>3 DEF IsASeq
  <2>2. \A i \in 1 .. Len(queue) : queue[i] \in K
    BY <1>2 DEF K, Find!ToSet
  <2> QED BY <2>1, <2>2, LongerFacts
<1>7. /\ \A y : y \in Find!ToSet(q) <=> y \in K \/ y = p
      /\ Once(q)
  BY <1>2, <1>5, <1>6, LongerSet DEF K
<1> HIDE DEF q
<1>8. Below(p)
  <2>1. /\ \A i \in 1 .. Len(world.root) : current[i] = world.root[i]
        /\ \A i \in Len(world.root) + 1 .. Len(current) : current[i] \in Plain
    BY <1>2 DEF Below
  <2>2. \A i \in 1 .. Len(world.root) : p[i] = world.root[i]
    BY <1>2, <1>3, <2>1
  <2>3. ASSUME NEW i \in Len(world.root) + 1 .. Len(p) PROVE p[i] \in Plain
    <3>0. Len(current) \in Nat /\ Len(world.root) \in Nat /\ Len(p) = Len(current) + 1
      BY <1>2, <1>3
    <3>1. \/ i = Len(current) + 1
          \/ i \in 1 .. Len(current) /\ i \in Len(world.root) + 1 .. Len(current)
      <4>1. i \in Len(world.root) + 1 .. Len(current) + 1
        BY <3>0
      <4> QED BY <3>0, <4>1, LastOrBefore
    <3>2. CASE i = Len(current) + 1
      <4>1. p[i] = n
        BY <1>3, <3>2
      <4> QED BY <4>1
    <3>3. CASE i \in 1 .. Len(current) /\ i \in Len(world.root) + 1 .. Len(current)
      <4>1. p[i] = current[i] /\ current[i] \in Plain
        BY <1>3, <2>1, <3>3
      <4> QED BY <4>1
    <3> QED BY <3>1, <3>2, <3>3
  <2> QED BY <1>2, <1>3, <2>2, <2>3 DEF Below
<1>9. ByDepth(q, current)
  <2>1. ASSUME NEW i \in 1 .. Len(q), NEW j \in 1 .. Len(q), i < j PROVE Len(q[i]) <= Len(q[j])
    <3>1. i \in 1 .. Len(queue) /\ (j = Len(queue) + 1 \/ j \in 1 .. Len(queue))
      BY <1>6, <2>1
    <3>2. CASE j = Len(queue) + 1
      <4>1. q[i] \in K /\ q[j] = p
        BY <1>6, <3>1, <3>2
      <4> QED BY <1>2, <1>3, <4>1
    <3>3. CASE j \in 1 .. Len(queue)
      BY <1>2, <1>6, <2>1, <3>1, <3>3
    <3> QED BY <3>1, <3>2, <3>3
  <2>2. \A x \in Find!ToSet(q) : Below(x) /\ x # current
                                 /\ Len(current) <= Len(x) /\ Len(x) <= Len(current) + 1
    <3>1. Len(current) <= Len(p) /\ Len(p) <= Len(current) + 1
      BY <1>2, <1>3
    <3> QED BY <1>2, <1>3, <1>7, <1>8, <3>1
  <2> QED BY <1>2, <1>6, <1>7, <2>1, <2>2 DEF ByDepth
<1>10. ASSUME NEW x \in PathsOf(reported) PROVE x \in Path /\ Len(x) <= Len(current) + 1
  <2>1. Len(reported) \in Nat /\ DOMAIN reported = 1 .. Len(reported)
    BY <1>1, LongerFacts DEF RightReports
  <2>2. PICK i \in 1 .. Len(reported) : x = reported[i].handle.path
    BY <2>1 DEF PathsOf
  <2> QED BY <1>1, <2>2 DEF RightReports
<1>11. Fresh(q, current, <<>>, fo, reported)
  <2>1. ASSUME NEW x \in K, NEW m \in Nodes PROVE Append(x, m) # p
    BY <1>2, <1>3, AppendOnce DEF p
  <2>2. ASSUME NEW m \in Nodes
        PROVE  Append(p, m) \notin K /\ Append(p, m) # p /\ Append(p, m) \notin PathsOf(reported)
    <3>1. Len(Append(p, m)) = Len(current) + 2
      BY <1>2, <1>3, AppendFacts
    <3>2. Append(p, m) \notin PathsOf(reported)
      <4> SUFFICES ASSUME Append(p, m) \in PathsOf(reported) PROVE FALSE
        OBVIOUS
      <4>1. Len(Append(p, m)) <= Len(current) + 1
        BY <1>10
      <4> QED BY <1>2, <3>1, <4>1
    <3>3. Append(p, m) \notin K
      <4> SUFFICES ASSUME Append(p, m) \in K PROVE FALSE
        OBVIOUS
      <4>1. Len(Append(p, m)) <= Len(current) + 1
        BY <1>2
      <4> QED BY <1>2, <3>1, <4>1
    <3>4. Append(p, m) # p
      <4> SUFFICES ASSUME Append(p, m) = p PROVE FALSE
        OBVIOUS
      <4> QED BY <1>2, <1>3, <3>1
    <3> QED BY <3>2, <3>3, <3>4
  <2>3. ASSUME NEW x \in Find!ToSet(q), NEW m \in Nodes
        PROVE  Append(x, m) \notin Find!ToSet(q) \cup PathsOf(reported)
    BY <1>4, <1>7, <2>1, <2>2
  <2>4. ASSUME NEW m \in Find!ToSet(fo)
        PROVE  Append(current, m) \notin Find!ToSet(q) \cup PathsOf(reported)
    <3>1. m \in Find!ToSet(folders) /\ m # n
      OBVIOUS
    <3>2. m \in Nodes
      <4>1. folders \in Seq(Nodes)
        BY <1>1 DEF RightLists
      <4> QED BY <3>1, <4>1 DEF Find!ToSet
    <3>3. Append(current, m) # p
      BY <1>2, <1>3, <3>1, <3>2, AppendOnce DEF p
    <3> QED BY <1>4, <1>7, <3>1, <3>3
  <2> QED BY <1>0, <2>3, <2>4 DEF Fresh
<1>12. ASSUME gone = {} PROVE Covers(q, current, <<>>, fo, reported)
  <2> SUFFICES ASSUME NEW e \in Find!Expected
               PROVE  \/ e \in PathsOf(reported)
                      \/ \E x \in Find!ToSet(q) : Prefix(x, e)
                      \/ Prefix(current, e) /\ e[Len(current) + 1] \in Find!ToSet(fo)
    BY <1>0 DEF Covers
  <2>1. \/ e \in PathsOf(reported)
        \/ \E x \in K : Prefix(x, e)
        \/ Prefix(current, e) /\ e[Len(current) + 1] \in Find!ToSet(folders)
    BY <1>0, <1>1, <1>12 DEF Covers, K
  <2>2. CASE \E x \in K : Prefix(x, e)
    BY <1>7, <2>2
  <2>3. CASE Prefix(current, e) /\ e[Len(current) + 1] = n
    <3>1. e \in Path /\ Len(e) \in Nat /\ Find!Worthy(e) /\ Find!Last(e) = e[Len(e)]
      BY <1>1, ExpectedFacts, LastOfPath
    <3>2. Len(current) < Len(e) /\ \A i \in 1 .. Len(current) : current[i] = e[i]
      BY <2>3 DEF Prefix
    <3>3. Len(e) # Len(current) + 1
      <4> SUFFICES ASSUME Len(e) = Len(current) + 1 PROVE FALSE
        OBVIOUS
      <4>1. Find!Last(e) = n
        BY <2>3, <3>1
      <4> QED BY <3>1, <4>1 DEF Find!Worthy, Plain
    <3>4. \A i \in 1 .. Len(p) : p[i] = e[i]
      <4> SUFFICES ASSUME NEW i \in 1 .. Len(p) PROVE p[i] = e[i]
        OBVIOUS
      <4>1. i = Len(current) + 1 \/ i \in 1 .. Len(current)
        BY <1>2, <1>3
      <4> QED BY <1>3, <2>3, <3>2, <4>1
    <3>5. Len(p) < Len(e)
      BY <1>2, <1>3, <3>1, <3>2, <3>3
    <3>6. Prefix(p, e)
      BY <3>4, <3>5 DEF Prefix
    <3> QED BY <1>7, <3>6
  <2> QED BY <2>1, <2>2, <2>3
<1>13. Stands(at, broken, q, current, <<>>, fo, reported)
  BY <1>1 DEF Stands
<1> QED
  BY <1>1, <1>9, <1>11, <1>12, <1>13 DEF SearchRight, q, p

(* A plain folder is queued, a bundle reported. *)
LEMMA VisitFolderKeeps ==
    ASSUME FindInv, Find!VisitFolder
    PROVE  FindInv'
<1> DEFINE n == Head(folders)
           p == Append(current, n)
           r == Find!LookAtFolder(p)
<1>1. /\ at = "walk" /\ files = <<>> /\ folders # <<>> /\ folders' = Tail(folders)
      /\ IF Find!IsPlain(Find!Last(p)) THEN queue' = Append(queue, p) /\ reported' = reported
         ELSE Find!Report(r) /\ queue' = queue
      /\ world' = world /\ gone' = gone /\ at' = at /\ current' = current
      /\ files' = files /\ broken' = broken
  BY DEF Find!VisitFolder, Find!Push
<1>0. Find!ToSet(<<>>) = {}
  BY DEF Find!ToSet
<1>2. /\ world \in Worlds /\ RightLists(current, files, folders) /\ ByDepth(queue, current)
      /\ Stands(at, broken, queue, current, files, folders, reported)
  BY DEF FindInv, SearchRight
<1>3. current # <<>> /\ current \in Path
  BY <1>1, <1>2 DEF Stands, RightLists
<1>4. /\ n \in Nodes /\ Tail(folders) \in Seq(Nodes) /\ Once(Tail(folders))
      /\ n \in Find!ToSet(folders) /\ n \notin Find!ToSet(Tail(folders))
      /\ \A x \in Find!ToSet(Tail(folders)) : x \in Find!ToSet(folders)
      /\ \A x \in Find!ToSet(folders) : x = n \/ x \in Find!ToSet(Tail(folders))
  BY <1>1, <1>2, TailFacts DEF RightLists
<1>5. Find!IsFolder(n)
  BY <1>2, <1>4 DEF RightLists
<1>6. p \in Path /\ Find!Last(p) = n
  BY <1>3, <1>4, AppendFacts
<1>7. RightLists(current, <<>>, Tail(folders)) /\ RightLists(current, files, Tail(folders))
  BY <1>1, <1>2, <1>4 DEF RightLists
<1>8. CASE Find!IsPlain(n)
  <2>1. n \in Plain /\ queue' = Append(queue, p) /\ reported' = reported
    BY <1>1, <1>4, <1>5, <1>6, <1>8 DEF Plain
  <2> HIDE DEF n
  <2>2. SearchRight(at, broken, Append(queue, p), current, <<>>, Tail(folders), reported)
    BY <1>1, <1>3, <1>4, <1>7, <2>1, FolderQueued
  <2> QED BY <1>1, <2>1, <2>2, Carried
<1>9. CASE ~Find!IsPlain(n)
  <2>1. n \notin Plain
    BY <1>9 DEF Plain
  <2>2. ~Find!InBundle => AncestorsPlain(p)
    <3> SUFFICES ASSUME ~Find!InBundle, NEW i \in 1 .. Len(p) - 1 PROVE Find!IsPlain(p[i])
      BY DEF AncestorsPlain
    <3>1. /\ Below(current) /\ RootPlain /\ world.root \in Path
          /\ \A j \in 1 .. Len(world.root) : current[j] = world.root[j]
          /\ \A j \in Len(world.root) + 1 .. Len(current) : current[j] \in Plain
          /\ Len(world.root) \in Nat /\ Len(current) \in Nat /\ Len(world.root) <= Len(current)
          /\ Find!Last(world.root) = world.root[Len(world.root)]
      BY <1>2, <1>3, LastOfPath, WorldFacts DEF ByDepth, Below
    <3>2. i \in 1 .. Len(current) /\ p[i] = current[i]
      BY <1>3, <1>4, <3>1, AppendFacts
    <3>6. DOMAIN world.root = 1 .. Len(world.root)
      BY <3>1, LastOfPath
    <3>7. \A j \in 1 .. Len(world.root) :
             j < Len(world.root) \/ Len(world.root) = 1 => Find!IsPlain(world.root[j])
      BY <3>6 DEF Find!InBundle, Find!Levels
    <3>8. ASSUME Len(world.root) # 1 PROVE Find!IsPlain(world.root[Len(world.root)])
      BY <3>1, <3>8 DEF RootPlain, Find!Levels
    <3>0. \A j \in 1 .. Len(world.root) : Find!IsPlain(world.root[j])
      <4> SUFFICES ASSUME NEW j \in 1 .. Len(world.root) PROVE Find!IsPlain(world.root[j])
        OBVIOUS
      <4>1. CASE j < Len(world.root) \/ Len(world.root) = 1
        BY <3>7, <4>1
      <4>2. CASE ~(j < Len(world.root) \/ Len(world.root) = 1)
        <5>1. j = Len(world.root)
          BY <3>1, <4>2
        <5> QED BY <3>8, <4>2, <5>1
      <4> QED BY <4>1, <4>2
    <3>3. CASE i \in 1 .. Len(world.root) - 1
      BY <3>0, <3>1, <3>2, <3>3
    <3>4. CASE i = Len(world.root)
      BY <3>0, <3>1, <3>2, <3>4
    <3>5. CASE i \in Len(world.root) + 1 .. Len(current)
      BY <3>1, <3>2, <3>5 DEF Plain
    <3> QED BY <3>1, <3>2, <3>3, <3>4, <3>5
  <2>3. r.found => ReportOf(r, p) /\ (gone = {} => HandleOK(r))
    BY <1>2, <1>6, <2>2, FolderReport
  <2>4. gone = {} /\ p \in Find!Expected => r.found
    <3> SUFFICES ASSUME gone = {}, p \in Find!Expected PROVE r.found
      OBVIOUS
    <3>1. Find!Worthy(p)
      BY <1>2, ExpectedFacts
    <3> QED BY <1>2, <1>5, <1>6, <3>1, WorthyFound
  <2>5. /\ reported' = IF r.found THEN Append(reported, r) ELSE reported
        /\ queue' = queue
    BY <1>1, <1>6, <1>9 DEF Find!Report
  <2> HIDE DEF n, p, r
  <2>6. SearchRight(at, broken, queue, current, <<>>, Tail(folders),
                    IF r.found THEN Append(reported, r) ELSE reported)
    BY <1>0, <1>1, <1>3, <1>4, <1>7, <2>1, <2>3, <2>4, EntryTaken DEF p
  <2> QED BY <1>1, <2>5, <2>6, Carried
<1> QED
  BY <1>8, <1>9

(* The next folder of the queue, the nearest of them. *)
LEMMA TakeFolderKeeps ==
    ASSUME FindInv, Find!TakeFolder
    PROVE  FindInv'
<1> DEFINE c == Head(queue)
           q == Tail(queue)
           fo == Find!Listed(c, TRUE)
           fi == Find!Listed(c, FALSE)
<1>1. /\ at = "walk" /\ files = <<>> /\ folders = <<>> /\ queue # <<>>
      /\ current' = c /\ queue' = q /\ folders' = fo /\ files' = fi
      /\ world' = world /\ gone' = gone /\ at' = at /\ broken' = broken /\ reported' = reported
  BY DEF Find!TakeFolder
<1>2. /\ world \in Worlds /\ ByDepth(queue, current)
      /\ Stands(at, broken, queue, current, files, folders, reported)
      /\ RightReports(reported, current) /\ Fresh(queue, current, <<>>, <<>>, reported)
      /\ gone = {} => \A i \in 1 .. Len(reported) : HandleOK(reported[i])
      /\ gone = {} => Covers(queue, current, <<>>, <<>>, reported)
  BY <1>1 DEF FindInv, SearchRight
<1>3. /\ queue \in Seq(Path) /\ Once(queue) /\ DOMAIN queue = 1 .. Len(queue)
      /\ \A i, j \in 1 .. Len(queue) : i < j => Len(queue[i]) <= Len(queue[j])
      /\ \A p \in Find!ToSet(queue) : Below(p)
      /\ current # <<>> => \A p \in Find!ToSet(queue) :
            Len(current) <= Len(p) /\ Len(p) <= Len(current) + 1
      /\ RootPlain
  BY <1>1, <1>2 DEF ByDepth
<1>4. /\ c \in Path /\ q \in Seq(Path) /\ Len(queue) \in Nat /\ Len(queue) >= 1
      /\ c = queue[1] /\ Len(q) = Len(queue) - 1
      /\ \A i \in 1 .. Len(queue) - 1 : q[i] = queue[i + 1]
      /\ c \in Find!ToSet(queue)
      /\ \A x \in Find!ToSet(q) : x \in Find!ToSet(queue)
      /\ \A x \in Find!ToSet(queue) : x = c \/ x \in Find!ToSet(q)
      /\ Once(q) /\ c \notin Find!ToSet(q)
  BY <1>1, <1>3, TailFacts
<1>5. c # <<>>
  BY <1>4 DEF Path
<1>6. /\ fi \in Seq(Nodes) /\ fo \in Seq(Nodes) /\ Once(fi) /\ Once(fo)
      /\ \A n \in Find!ToSet(fi) : n \in Nodes /\ ~Find!IsFolder(n)
      /\ \A n \in Find!ToSet(fo) : n \in Nodes /\ Find!IsFolder(n)
  BY <1>2, <1>4, ListedFacts
<1> HIDE DEF c, q, fo, fi
<1>7. RightLists(c, fi, fo)
  BY <1>4, <1>6 DEF RightLists
<1>8. /\ current # <<>> => Len(c) <= Len(current) + 1 /\ Len(current) <= Len(c) /\ Len(current) \in Nat
      /\ Len(c) \in Nat
      /\ current = <<>> => queue = <<world.root>> /\ reported = <<>>
  <2>1. Len(c) \in Nat
    BY <1>4, LastOfPath
  <2>2. current # <<>> => Len(current) \in Nat
    BY <1>2, LastOfPath DEF ByDepth, Below
  <2>3. current = <<>> => queue = <<world.root>> /\ reported = <<>>
    BY <1>1, <1>2 DEF Stands
  <2>4. current # <<>> => Len(c) <= Len(current) + 1 /\ Len(current) <= Len(c)
    BY <1>3, <1>4
  <2> QED BY <2>1, <2>2, <2>3, <2>4
<1>9. ASSUME NEW x \in Find!ToSet(q)
      PROVE  Below(x) /\ x # c /\ Len(c) <= Len(x) /\ Len(x) <= Len(c) + 1
  <2>1. x \in Find!ToSet(queue) /\ x # c /\ Below(x) /\ Len(x) \in Nat
    BY <1>3, <1>4, LastOfPath DEF Below
  <2>2. PICK i \in 1 .. Len(queue) : x = queue[i]
    BY <1>3, <2>1 DEF Find!ToSet
  <2>3. i # 1 /\ 1 \in 1 .. Len(queue)
    BY <1>4, <2>1, <2>2
  <2>4. 1 < i
    BY <1>4, <2>3
  <2>5. Len(c) <= Len(x)
    BY <1>3, <1>4, <2>2, <2>3, <2>4
  <2>6. current # <<>>
    <3> SUFFICES ASSUME current = <<>> PROVE FALSE
      OBVIOUS
    <3>1. Len(queue) = 1
      BY <1>8
    <3> QED BY <1>4, <2>4, <3>1
  <2>7. Len(x) <= Len(current) + 1 /\ Len(current) <= Len(c) /\ Len(current) \in Nat
    BY <1>3, <1>8, <2>1, <2>6
  <2>8. Len(x) <= Len(c) + 1
    BY <1>8, <2>1, <2>7
  <2> QED BY <2>1, <2>5, <2>8
<1>10. ByDepth(q, c)
  <2>1. ASSUME NEW i \in 1 .. Len(q), NEW j \in 1 .. Len(q), i < j PROVE Len(q[i]) <= Len(q[j])
    <3>1. i + 1 \in 1 .. Len(queue) /\ j + 1 \in 1 .. Len(queue) /\ i + 1 < j + 1
      BY <1>4, <2>1
    <3>2. q[i] = queue[i + 1] /\ q[j] = queue[j + 1]
      BY <1>4
    <3> QED BY <1>3, <3>1, <3>2
  <2>2. Below(c)
    BY <1>3, <1>4
  <2> QED BY <1>3, <1>4, <1>9, <2>1, <2>2 DEF ByDepth
<1>11. Stands(at, broken, q, c, fi, fo, reported)
  BY <1>1, <1>2, <1>5 DEF Stands
<1>12. RightReports(reported, c)
  <2>1. ASSUME NEW i \in 1 .. Len(reported) PROVE Len(reported[i].handle.path) <= Len(c) + 1
    <3>1. current # <<>>
      <4> SUFFICES ASSUME current = <<>> PROVE FALSE
        OBVIOUS
      <4>1. Len(reported) = 0
        BY <1>8
      <4> QED BY <4>1
    <3>2. /\ Len(reported[i].handle.path) <= Len(current) + 1
          /\ Len(reported[i].handle.path) \in Nat
      BY <1>2, <3>1, LastOfPath DEF RightReports
    <3> QED BY <1>8, <3>1, <3>2
  <2> QED BY <1>2, <2>1 DEF RightReports
<1>13. Fresh(q, c, fi, fo, reported)
  <2>1. \A p \in Find!ToSet(queue), n \in Nodes :
           Append(p, n) \notin Find!ToSet(queue) /\ Append(p, n) \notin PathsOf(reported)
    BY <1>2 DEF Fresh
  <2> QED BY <1>4, <1>6, <2>1 DEF Fresh
<1>14. ASSUME gone = {} PROVE Covers(q, c, fi, fo, reported)
  <2> SUFFICES ASSUME NEW e \in Find!Expected
               PROVE  \/ e \in PathsOf(reported)
                      \/ \E p \in Find!ToSet(q) : Prefix(p, e)
                      \/ /\ c # <<>> /\ Prefix(c, e)
                         /\ e[Len(c) + 1] \in Find!ToSet(fi) \cup Find!ToSet(fo)
    BY DEF Covers
  <2>0. Find!ToSet(<<>>) = {}
    BY DEF Find!ToSet
  <2>1. e \in PathsOf(reported) \/ \E p \in Find!ToSet(queue) : Prefix(p, e)
    BY <1>2, <1>14, <2>0 DEF Covers
  <2>2. CASE Prefix(c, e)
    <3>1. /\ e \in Path /\ Len(e) \in Nat /\ MaxPath \in Nat /\ Len(e) - 1 <= MaxPath
          /\ \A i \in Len(world.root) + 1 .. Len(e) : e[i] \in Find!ToSet(Find!Node(e[i - 1]).in)
          /\ \A i \in 1 .. Len(e) : e[i] \in Nodes
      BY <1>2, ExpectedFacts, LastOfPath, WorldFacts
    <3>2. /\ Len(c) < Len(e) /\ Len(world.root) <= Len(c) /\ Len(world.root) \in Nat /\ Len(c) >= 1
          /\ c[Len(c)] = e[Len(c)] /\ Find!Last(c) = c[Len(c)] /\ Find!Last(c) \in Nodes
      <4>1. Len(world.root) <= Len(c) /\ Len(world.root) \in Nat
        BY <1>2, <1>3, <1>4, LastOfPath, WorldFacts DEF Below
      <4>2. Find!Last(c) = c[Len(c)] /\ Find!Last(c) \in Nodes /\ Len(c) >= 1 /\ Len(c) \in 1 .. Len(c)
        BY <1>4, <1>8, LastOfPath
      <4> QED BY <2>2, <4>1, <4>2 DEF Prefix
    <3> DEFINE n == e[Len(c) + 1]
    <3>3. n \in Find!ToSet(Find!Node(Find!Last(c)).in) /\ n \in Nodes
      <4>1. Len(c) + 1 \in Len(world.root) + 1 .. Len(e) /\ Len(c) + 1 \in 1 .. Len(e)
            /\ (Len(c) + 1) - 1 = Len(c)
        BY <1>8, <3>1, <3>2
      <4> QED BY <3>1, <3>2, <4>1
    <3>4. Len(c) <= MaxPath
      BY <1>8, <3>1, <3>2
    <3>5. Find!Exists(n) /\ Find!Exists(Find!Last(c))
      BY <1>14 DEF Find!Exists
    <3>6. Find!IsFolder(n) \in BOOLEAN
      BY <1>2, <3>3, WorldFacts
    <3> HIDE DEF n
    <3>7. n \in Find!ToSet(fi) \/ n \in Find!ToSet(fo)
      <4>1. CASE Find!IsFolder(n) = TRUE
        BY <1>2, <1>4, <3>3, <3>4, <3>5, <4>1, ListedFacts DEF fo
      <4>2. CASE Find!IsFolder(n) = FALSE
        BY <1>2, <1>4, <3>3, <3>4, <3>5, <4>2, ListedFacts DEF fi
      <4> QED BY <3>6, <4>1, <4>2
    <3> QED BY <1>5, <2>2, <3>7 DEF n
  <2> QED BY <1>4, <2>1, <2>2
<1>15. SearchRight(at, broken, q, c, fi, fo, reported)
  BY <1>2, <1>7, <1>10, <1>11, <1>12, <1>13, <1>14 DEF SearchRight
<1> QED
  BY <1>1, <1>15, Carried

(* A search that ends with at most its own path reported. *)
LEMMA RootReported ==
    ASSUME FindInv, at = "begin", at' = "returned", NEW r, Find!Report(r),
           r.found => ReportOf(r, world.root) /\ (gone = {} => HandleOK(r)),
           UNCHANGED <<world, gone, queue, current, files, folders, broken>>
    PROVE  FindInv'
<1> DEFINE p == world.root
           s == IF r.found THEN Append(reported, r) ELSE reported
<1>2. /\ world \in Worlds /\ RightLists(current, files, folders) /\ ByDepth(queue, current)
      /\ Stands(at, broken, queue, current, files, folders, reported)
      /\ current = <<>> /\ queue = <<>> /\ reported = <<>> /\ files = <<>> /\ folders = <<>>
  BY DEF FindInv, SearchRight, Stands
<1>3. p \in Path
  BY <1>2, WorldFacts
<1>5. reported' = s
  BY DEF Find!Report
<1> HIDE DEF p
<1>6. /\ RightReports(s, <<>>)
      /\ gone = {} => \A i \in 1 .. Len(s) : HandleOK(s[i])
  <2>1. CASE r.found
    <3>0. s = Append(<<>>, r) /\ Len(<<>>) = 0 /\ IsASeq(<<>>)
      <4>1. <<>> \in Seq({}) /\ Len(<<>>) = 0
        OBVIOUS
      <4> QED BY <1>2, <2>1, <4>1 DEF IsASeq
    <3> HIDE DEF s
    <3>1. Len(s) = 1 /\ s[1] = r /\ IsASeq(s)
      <4> DEFINE z == <<>>
      <4>1. s = Append(z, r) /\ Len(z) = 0 /\ IsASeq(z)
        BY <3>0
      <4> HIDE DEF z
      <4>2. Len(Append(z, r)) = Len(z) + 1 /\ Append(z, r)[Len(z) + 1] = r /\ IsASeq(Append(z, r))
        BY <4>1, LongerFacts, Zenon
      <4>3. Len(z) + 1 = 1
        BY <4>1
      <4> QED BY <4>1, <4>2, <4>3, Zenon
    <3>3. r.found /\ r.handle.path \in Path /\ (gone = {} => HandleOK(r))
      BY <1>3, <2>1 DEF ReportOf, p
    <3>4. \A i \in 1 .. Len(s) : i = 1 /\ s[i] = r
      BY <3>1
    <3> QED BY <3>1, <3>3, <3>4 DEF RightReports
  <2>2. CASE ~r.found
    <3>1. s = <<>> /\ Len(s) = 0 /\ s \in Seq({r})
      BY <1>2, <2>2
    <3> QED BY <3>1 DEF RightReports, IsASeq
  <2> QED BY <2>1, <2>2
<1> HIDE DEF s
<1>7. Fresh(queue, current, files, folders, s)
  BY <1>2 DEF Fresh, Find!ToSet
<1>8. Stands("returned", broken, queue, current, files, folders, s)
  BY <1>2 DEF Stands
<1>9. SearchRight("returned", broken, queue, current, files, folders, s)
  BY <1>2, <1>6, <1>7, <1>8 DEF SearchRight
<1> QED
  BY <1>5, <1>9, Carried

(* A search for one image, by the name of its path alone. *)
LEMMA SearchOneKeeps ==
    ASSUME FindInv, Find!SearchOne
    PROVE  FindInv'
<1> DEFINE p == world.root
           r == IF Find!Ext(Find!Last(p)) = "dylib" THEN Find!ReadDyLib(p)
                ELSE Find!LookAtFolder(p)
<1>1. /\ at = "begin" /\ at' = "returned" /\ Find!Report(r)
      /\ UNCHANGED <<world, gone, queue, current, files, folders, broken>>
  BY DEF Find!SearchOne
<1>2. world \in Worlds /\ p \in Path
  BY WorldFacts DEF FindInv
<1>3. r.found => ReportOf(r, p) /\ (gone = {} => HandleOK(r))
  <2>1. ~Find!InBundle => AncestorsPlain(p)
    <3>1. DOMAIN p = 1 .. Len(p) /\ Len(p) \in Nat
      BY <1>2 DEF Path
    <3> QED BY <3>1 DEF Find!InBundle, Find!Levels, AncestorsPlain
  <2>2. Find!ReadDyLib(p).found =>
           ReportOf(Find!ReadDyLib(p), p) /\ (gone = {} => HandleOK(Find!ReadDyLib(p)))
    BY <1>2, LibraryReport
  <2>3. Find!LookAtFolder(p).found =>
           ReportOf(Find!LookAtFolder(p), p) /\ (gone = {} => HandleOK(Find!LookAtFolder(p)))
    BY <1>2, <2>1, FolderReport
  <2> QED BY <2>2, <2>3
<1> HIDE DEF r
<1> QED
  BY <1>1, <1>3, RootReported

(* A search for a crash log or for none, or one that starts with its folder. *)
LEMMA SearchNotKeeps ==
    ASSUME FindInv, Find!SearchNot
    PROVE  FindInv'
<1> DEFINE r == IF Find!Levels > 1 THEN Find!ReadCrashLog(world.root) ELSE Find!Nothing
<1>0. r.found => ReportOf(r, world.root) /\ HandleOK(r)
  <2>1. ~Find!Nothing.found
    BY DEF Find!Nothing
  <2> QED BY <2>1, LogReport
<1>1. /\ at = "begin" /\ ~Find!Named /\ Find!Report(r)
      /\ \/ /\ at' = "walk" /\ queue' = <<world.root>>
            /\ Find!IsFolder(Find!Last(world.root))
         \/ at' = "returned" /\ queue' = queue
      /\ world' = world /\ gone' = gone /\ current' = current
      /\ files' = files /\ folders' = folders /\ broken' = broken
  BY DEF Find!SearchNot
<1> HIDE DEF r
<1>2. /\ world \in Worlds /\ RightLists(current, files, folders) /\ ByDepth(queue, current)
      /\ Stands(at, broken, queue, current, files, folders, reported)
      /\ RightReports(reported, current) /\ Fresh(queue, current, files, folders, reported)
      /\ gone = {} => \A i \in 1 .. Len(reported) : HandleOK(reported[i])
      /\ current = <<>> /\ queue = <<>> /\ reported = <<>> /\ files = <<>> /\ folders = <<>>
  BY <1>1 DEF FindInv, SearchRight, Stands
<1>3. CASE at' = "returned" /\ queue' = queue
  BY <1>0, <1>1, <1>3, RootReported
<1>5. ASSUME at' = "walk" PROVE reported' = reported
  <2>1. Find!IsFolder(Find!Last(world.root))
    BY <1>1, <1>5
  <2>2. ~Find!Node(Find!Last(world.root)).log
    BY <1>2, <2>1, WorldFacts, LastOfPath
  <2>3. ~Find!Nothing.found
    BY DEF Find!Nothing
  <2>4. Find!ReadCrashLog(world.root) = Find!Nothing
    BY <2>2 DEF Find!ReadCrashLog
  <2>5. ~r.found
    BY <2>3, <2>4 DEF r
  <2> QED BY <1>1, <2>5 DEF Find!Report
<1>4. CASE at' = "walk" /\ queue' = <<world.root>>
  <2> DEFINE p == world.root
             q == <<p>>
  <2>12. p \in Path /\ Len(p) \in Nat /\ Len(p) >= 1
    BY <1>2, WorldFacts, LastOfPath
  <2>13. ASSUME Len(p) > 1 PROVE RootPlain
    <3>1. ~(Find!Ext(Find!Last(p)) \in {"dylib", "app", "app.dSYM"})
      BY <1>1, <2>13 DEF Find!Named, Find!Levels
    <3> QED BY <3>1 DEF RootPlain, Find!IsPlain
  <2>14. ASSUME ~(Len(p) > 1) PROVE RootPlain
    <3>0. \A k \in Nat : k >= 1 /\ ~(k > 1) => k = 1
      OBVIOUS
    <3>1. Len(p) = 1
      BY ONLY <2>12, <2>14, <3>0, Zenon
    <3> QED BY <3>1 DEF RootPlain, Find!Levels
  <2>1. p \in Path /\ Len(p) \in Nat /\ Len(p) >= 1 /\ RootPlain
    BY <2>12, <2>13, <2>14
  <2>2. Below(p)
    BY <2>1 DEF Below
  <2> HIDE DEF p
  <2>3. q \in Seq(Path) /\ Len(q) = 1 /\ DOMAIN q = 1 .. 1 /\ q[1] = p
    BY <2>1
  <2> HIDE DEF q
  <2>4. \A x : x \in Find!ToSet(q) <=> x = p
    BY <2>3 DEF Find!ToSet
  <2>5. \A i, j \in 1 .. Len(q) : i = j
    BY <2>3
  <2>6. Once(q) /\ \A i, j \in 1 .. Len(q) : i < j => Len(q[i]) <= Len(q[j])
    BY <2>3, <2>5 DEF Once
  <2>7. ByDepth(q, current)
    BY <1>2, <2>1, <2>2, <2>3, <2>4, <2>6 DEF ByDepth, p
  <2>8. Stands("walk", broken, q, current, files, folders, reported)
    BY <1>2 DEF Stands, q, p
  <2>9. Fresh(q, current, files, folders, reported)
    <3>1. PathsOf(reported) = {}
      BY <1>2 DEF PathsOf
    <3>2. ASSUME NEW n \in Nodes PROVE Append(p, n) # p
      <4>1. Len(Append(p, n)) = Len(p) + 1
        BY <2>1, AppendFacts
      <4> QED BY <2>1, <4>1
    <3>3. \A x \in Find!ToSet(q), n \in Nodes :
             Append(x, n) \notin Find!ToSet(q) \cup PathsOf(reported)
      <4> SUFFICES ASSUME NEW x \in Find!ToSet(q), NEW n \in Nodes
                   PROVE  Append(x, n) \notin Find!ToSet(q) \cup PathsOf(reported)
        OBVIOUS
      <4>1. x = p
        BY <2>4
      <4>2. Append(p, n) # p
        BY <3>2
      <4>3. Append(x, n) \notin Find!ToSet(q)
        BY <2>4, <4>1, <4>2, Zenon
      <4> QED BY <3>1, <4>3
    <3> QED BY <1>2, <3>3 DEF Fresh
  <2>10. Covers(q, current, files, folders, reported)
    <3> SUFFICES ASSUME NEW e \in Find!Expected PROVE \E x \in Find!ToSet(q) : Prefix(x, e)
      BY DEF Covers
    <3>1. Len(p) < Len(e) /\ \A i \in 1 .. Len(p) : e[i] = p[i]
      BY <1>2, ExpectedFacts DEF p
    <3>2. Prefix(p, e)
      BY <3>1 DEF Prefix
    <3> QED BY <2>4, <3>2
  <2>11. SearchRight("walk", broken, q, current, files, folders, reported)
    BY <1>2, <2>7, <2>8, <2>9, <2>10 DEF SearchRight
  <2> QED BY <1>1, <1>4, <1>5, <2>11, Carried DEF q, p
<1> QED
  BY <1>1, <1>3, <1>4

(* The walk ends when it is done or broken off. *)
LEMMA EndKeeps ==
    ASSUME FindInv, Find!EndWalk
    PROVE  FindInv'
<1>1. /\ at = "walk" /\ at' = "returned"
      /\ broken \/ (files = <<>> /\ folders = <<>> /\ queue = <<>>)
      /\ world' = world /\ gone' = gone /\ queue' = queue /\ current' = current
      /\ files' = files /\ folders' = folders /\ broken' = broken /\ reported' = reported
  BY DEF Find!EndWalk
<1>2. /\ SearchRight(at, broken, queue, current, files, folders, reported)
      /\ Stands(at, broken, queue, current, files, folders, reported)
  BY DEF FindInv, SearchRight
<1>3. Stands("returned", broken, queue, current, files, folders, reported)
  BY <1>1, <1>2 DEF Stands
<1>4. SearchRight("returned", broken, queue, current, files, folders, reported)
  BY <1>1, <1>2, <1>3 DEF SearchRight
<1> QED
  BY <1>1, <1>4, Carried

(* The observer may break the walk off at any time. *)
LEMMA BreakKeeps ==
    ASSUME FindInv, Find!ObserverBreaks
    PROVE  FindInv'
<1>1. /\ at = "walk" /\ at' = at /\ broken' = TRUE
      /\ world' = world /\ gone' = gone /\ queue' = queue /\ current' = current
      /\ files' = files /\ folders' = folders /\ reported' = reported
  BY DEF Find!ObserverBreaks
<1>2. /\ SearchRight(at, broken, queue, current, files, folders, reported)
      /\ Stands(at, broken, queue, current, files, folders, reported)
  BY DEF FindInv, SearchRight
<1>3. Stands(at, TRUE, queue, current, files, folders, reported)
  BY <1>1, <1>2 DEF Stands
<1>4. SearchRight(at, TRUE, queue, current, files, folders, reported)
  BY <1>2, <1>3 DEF SearchRight
<1> QED
  BY <1>1, <1>4, Carried

(* What vanishes does not disturb what the search has of it. *)
LEMMA VanishKeeps ==
    ASSUME FindInv, Find!Vanish
    PROVE  FindInv'
<1>1. /\ at' = at /\ world' = world /\ queue' = queue /\ current' = current /\ broken' = broken
      /\ files' = files /\ folders' = folders /\ reported' = reported
      /\ \E n \in Nodes : gone' = {n}
  BY DEF Find!Vanish, Nodes
<1>2. gone' # {} /\ gone' \in SUBSET Nodes'
  <2>1. Nodes' = Nodes
    BY <1>1 DEF Nodes
  <2> QED BY <1>1, <2>1
<1>3. /\ world \in Worlds /\ RightLists(current, files, folders) /\ ByDepth(queue, current)
      /\ Stands(at, broken, queue, current, files, folders, reported)
      /\ RightReports(reported, current) /\ Fresh(queue, current, files, folders, reported)
  BY DEF FindInv, SearchRight
<1>4. /\ RightLists(current, files, folders)' /\ ByDepth(queue, current)'
      /\ Stands(at, broken, queue, current, files, folders, reported)'
      /\ RightReports(reported, current)' /\ Fresh(queue, current, files, folders, reported)'
  <2>1. RightLists(current', files', folders') /\ ByDepth(queue', current')
    BY <1>1, <1>3
  <2>2. /\ Stands(at', broken', queue', current', files', folders', reported')
        /\ RightReports(reported', current')
        /\ Fresh(queue', current', files', folders', reported')
    BY <1>1, <1>3
  <2> QED BY <1>1, <2>1, <2>2, SameLists, SameDepth, SameStands, SameReports, SameFresh
<1>5. SearchRight(at, broken, queue, current, files, folders, reported)'
  BY <1>2, <1>4 DEF SearchRight
<1> QED
  BY <1>1, <1>2, <1>3, <1>5 DEF FindInv

(* Every step keeps the invariant. *)
LEMMA FindStepKeeps ==
    ASSUME FindInv, Find!Next
    PROVE  FindInv'
  BY SearchOneKeeps, SearchNotKeeps, TakeFolderKeeps, TakeFileKeeps, VisitFolderKeeps,
     EndKeeps, BreakKeeps, VanishKeeps DEF Find!Next, Find!Search

(* Nothing has been searched yet. *)
LEMMA FindInitHolds ==
    ASSUME Find!Init
    PROVE  FindInv
<1>1. /\ world \in Worlds /\ gone = {} /\ at = "begin" /\ broken = FALSE
      /\ queue = <<>> /\ current = <<>> /\ reported = <<>> /\ files = <<>> /\ folders = <<>>
  BY DEF Find!Init
<1>2. Find!ToSet(<<>>) = {} /\ PathsOf(<<>>) = {} /\ Once(<<>>)
  BY DEF Find!ToSet, PathsOf, Once
<1>3. RightLists(current, files, folders)
  BY <1>1, <1>2 DEF RightLists
<1>4. ByDepth(queue, current)
  BY <1>1, <1>2 DEF ByDepth
<1>5. Stands(at, broken, queue, current, files, folders, reported)
  BY <1>1 DEF Stands
<1>6. RightReports(reported, current)
  <2>1. <<>> \in Seq({})
    OBVIOUS
  <2> QED BY <1>1, <2>1 DEF RightReports, IsASeq
<1>7. Fresh(queue, current, files, folders, reported)
  BY <1>1, <1>2 DEF Fresh
<1>8. \A i \in 1 .. Len(reported) : HandleOK(reported[i])
  BY <1>1
<1>9. SearchRight(at, broken, queue, current, files, folders, reported)
  BY <1>1, <1>3, <1>4, <1>5, <1>6, <1>7, <1>8 DEF SearchRight
<1> QED
  BY <1>1, <1>9 DEF FindInv

(* A search that keeps to the invariant finds what there is. *)
LEMMA FindInvImplies ==
    ASSUME FindInv
    PROVE  /\ Find!TypeOK /\ Find!EachPathOnce /\ Find!NothingMissed
           /\ Find!NearestFirst /\ Find!HandlesAreTheImages
<1>1. /\ world \in Worlds /\ gone \in SUBSET Nodes
      /\ RightLists(current, files, folders) /\ ByDepth(queue, current)
      /\ Stands(at, broken, queue, current, files, folders, reported)
      /\ RightReports(reported, current)
      /\ gone = {} => \A i \in 1 .. Len(reported) : HandleOK(reported[i])
      /\ gone = {} /\ (at = "walk" \/ current # <<>>) =>
            Covers(queue, current, files, folders, reported)
  BY DEF FindInv, SearchRight
<1>2. Len(reported) \in Nat /\ DOMAIN reported = 1 .. Len(reported)
  BY <1>1, LongerFacts DEF RightReports
<1>3. ASSUME NEW p \in Find!ToSet(queue), p # world.root
      PROVE  Find!IsFolder(Find!Last(p)) /\ Find!IsPlain(Find!Last(p))
  <2>1. /\ p \in Path /\ Len(world.root) <= Len(p) /\ world.root \in Path
        /\ \A i \in 1 .. Len(world.root) : p[i] = world.root[i]
        /\ \A i \in Len(world.root) + 1 .. Len(p) : p[i] \in Plain
    BY <1>1, WorldFacts DEF ByDepth, Below
  <2>2. Len(p) \in Nat /\ Len(world.root) \in Nat /\ Find!Last(p) = p[Len(p)]
    BY <2>1, LastOfPath
  <2>3. CASE Len(p) = Len(world.root)
    <3>1. p = [i \in 1 .. Len(p) |-> p[i]] /\ world.root = [i \in 1 .. Len(world.root) |-> world.root[i]]
      BY <2>1, SMTT(30) DEF Path
    <3>2. p = world.root
      BY <2>1, <2>3, <3>1
    <3> QED BY <1>3, <3>2
  <2>4. CASE Len(p) # Len(world.root)
    <3>1. Len(p) \in Len(world.root) + 1 .. Len(p)
      BY <2>1, <2>2, <2>4
    <3> QED BY <2>1, <2>2, <3>1 DEF Plain
  <2> QED BY <2>3, <2>4
<1>4. Find!TypeOK
  <2>1. at \in {"begin", "walk", "returned"} /\ broken \in BOOLEAN /\ gone \subseteq DOMAIN world.node
    BY <1>1 DEF Stands, Nodes
  <2>2. /\ \A n \in Find!ToSet(files) : ~Find!IsFolder(n)
        /\ \A n \in Find!ToSet(folders) : Find!IsFolder(n)
    BY <1>1 DEF RightLists
  <2>3. \A i \in DOMAIN reported : reported[i].found
    BY <1>1, <1>2 DEF RightReports
  <2> QED BY <1>3, <2>1, <2>2, <2>3 DEF Find!TypeOK
<1>5. Find!EachPathOnce /\ Find!NearestFirst
  BY <1>1, <1>2 DEF RightReports, Find!EachPathOnce, Find!NearestFirst
<1>6. Find!NothingMissed
  <2> SUFFICES ASSUME at = "returned", ~broken, gone = {}, current # <<>>, NEW e \in Find!Expected
               PROVE  e \in Find!Paths
    BY DEF Find!NothingMissed
  <2>1. queue = <<>> /\ files = <<>> /\ folders = <<>>
    BY <1>1 DEF Stands
  <2>2. Find!ToSet(<<>>) = {}
    BY DEF Find!ToSet
  <2>3. e \in PathsOf(reported)
    BY <1>1, <2>1, <2>2 DEF Covers
  <2> QED BY <2>3 DEF PathsOf, Find!Paths
<1>7. Find!HandlesAreTheImages
  <2> SUFFICES ASSUME gone = {}, NEW i \in DOMAIN reported, reported[i].kind # "log"
               PROVE  LET r == reported[i]
                          n == Find!Last(r.handle.path)
                          own == Find!OwnName(Find!Node(n).name.stem)
                      IN  /\ Find!Cardinality(Find!ToSet(r.handle.uuids)) = Len(r.handle.uuids)
                          /\ \E m \in Find!Image(r.kind, r.handle) :
                                Find!Node(m).macho => r.handle.uuids = Find!Node(m).uuids
                          /\ Find!IsFolder(n) /\ ~Find!InBundle
                             /\ (\E m \in Find!ToSet(Find!Node(n).in) :
                                    ~Find!IsFolder(m) /\ Find!Node(m).name = own)
                             => r.handle.name = own
    BY DEF Find!HandlesAreTheImages
  <2>1. HandleOK(reported[i])
    BY <1>1, <1>2
  <2> QED BY <2>1 DEF HandleOK
<1> QED
  BY <1>4, <1>5, <1>6, <1>7

FindIInv == part = "find" => FindInv

(* The search keeps its invariant. *)
THEOREM SearchInvariant == Spec => []FindIInv
<1>1. Init => FindIInv
  BY FindInitHolds DEF Init, FindIInv
<1>2. FindIInv /\ [Next]_all => FindIInv'
  <2> SUFFICES ASSUME FindIInv, [Next]_all, part' = "find" PROVE FindInv'
    BY DEF FindIInv
  <2>1. CASE part = "find" /\ Find!Next
    BY <2>1, FindStepKeeps DEF FindIInv
  <2>2. CASE UNCHANGED all
    <3>1. /\ FindInv /\ world' = world /\ gone' = gone /\ at' = at /\ broken' = broken
          /\ queue' = queue /\ current' = current /\ files' = files /\ folders' = folders
          /\ reported' = reported
      BY <2>2 DEF FindIInv, all, findOnly
    <3>2. SearchRight(at, broken, queue, current, files, folders, reported)
      BY <3>1 DEF FindInv
    <3>3. SearchRight(at', broken', queue', current', files', folders', reported')
      BY <3>1, <3>2
    <3> QED BY <3>1, <3>3, Carried
  <2>3. CASE Next /\ part # "find"
    BY <2>3 DEF Next, NotOfFat, NotOfFind, LogNext, MiniNext
  <2>4. Next /\ part = "find" => Find!Next
    BY DEF Next, LogNext, MiniNext
  <2> QED BY <2>1, <2>2, <2>3, <2>4
<1> QED
  BY <1>1, <1>2, PTL DEF Spec

(* For every file system, whatever the order of its entries, also one that
   holds itself, and for every path, also one of a single level or of a folder
   named like a crash log: what is reported is reported once, the nearest first, with the
   UUIDs of its own image; a search that runs to its end while nothing vanishes
   misses no image, bundle or log.  About CSearchMachO::Search. *)
THEOREM SearchFindsTheTree == Spec => []ImagesAreTheTrees
<1>1. FindIInv => ImagesAreTheTrees
  BY FindInvImplies DEF FindIInv, ImagesAreTheTrees
<1> QED
  BY <1>1, SearchInvariant, PTL

-------------------------------------------------------------------------------
(* Universal binaries. *)
(* The file as functions of a position: the kind of the unit there, the UUID
   an object there has, and the offset that an entry there gives. *)
Kinds == [p \in Nat |-> Fat!KindAt(p)]
Ids == [p \in Nat |-> Fat!UUIDAt(p)]
Offsets == [p \in Nat |-> Fat!EntryOffset(p)]

(* How many objects a load that succeeds finds, and where. *)
Count == IF Fat!IsFat THEN Fat!Claimed ELSE IF Ids[0] # NONE THEN 1 ELSE 0
StartOf == [i \in 1 .. Count |-> IF Fat!IsFat THEN Offsets[i] ELSE 0]

Calls == [at : {"idle", "validate", "validating", "load", "loading", "ask"},
          for : {"none", "validate", "load", "getMachO", "getAllUUIDs"},
          uuid : UUIDs \cup {NONE}, left : 0 .. Fat!Claimed]
Object == [start : Nat, uuid : UUIDs \cup {NONE}]
Objects == Seq(Object)
Answers == [to : {"none", "validate", "load", "getMachO", "getAllUUIDs"},
            ok : BOOLEAN, uuid : UUIDs \cup {NONE}, object : Nat,
            list : Seq(UUIDs \cup {NONE})]

LoaderTyped ==
    /\ content \in Contents /\ inMemory \in BOOLEAN /\ there \in BOOLEAN
    /\ inMemory => there
    /\ pos \in 0 .. Len(content)
    /\ call \in Calls
    /\ machos \in Objects
    /\ loaded \in BOOLEAN
    /\ answer \in Answers

(* Which step of which call there is; a file is only read while it is there. *)
CallIs ==
    /\ call.at = "idle" => call = Fat!NoCall
    /\ call.at \in {"validate", "validating"} => call.for = "validate"
    /\ call.at \in {"load", "loading"} => call.for \in {"load", "getMachO", "getAllUUIDs"}
    /\ call.at = "ask" => call.for \in {"getMachO", "getAllUUIDs"}
    /\ call.for = "getMachO" => call.uuid \in UUIDs
    /\ call.at \in {"validating", "loading"} => there /\ Fat!IsFat

Entry == Fat!Claimed - call.left

(* Every entry read so far points to an object.  The stream stands behind
   them, or a shared one where no entry is. *)
Validated ==
    call.at = "validating" =>
        /\ \A i \in 1 .. Entry : Kinds[Offsets[i]] = "macho"
        /\ pos = Entry + 1 \/ (inMemory /\ Kinds[pos] # "arch")

(* One object per entry read so far.  The stream stands behind the entries,
   or at the end when there are no more. *)
Made ==
    call.at = "loading" =>
        /\ Len(machos) = Entry
        /\ \A i \in 1 .. Len(machos) : machos[i].start = Offsets[i] /\ machos[i].uuid = NONE
        /\ \/ pos = Entry + 1
           \/ pos = Len(content) /\ Kinds[Entry + 1] # "arch"

(* Objects of the file: all of them, whose UUIDs were read in order, or none. *)
OfFile(objects) ==
    /\ objects # <<>> => Len(objects) = Count
    /\ \A i \in 1 .. Len(objects) :
          /\ objects[i].start = StartOf[i]
          /\ objects[i].uuid \in {NONE, Ids[StartOf[i]]}
          /\ \A j \in 1 .. Len(objects) :
                j < i /\ objects[i].uuid # NONE => objects[j].uuid = Ids[StartOf[j]]

(* The objects kept are the file's, of a load that found all of them. *)
Kept ==
    call.at # "loading" =>
        /\ OfFile(machos)
        /\ loaded => machos # <<>>
        /\ call.at = "ask" /\ Fat!Undisturbed => machos # <<>> \/ Count = 0

ValidateHolds ==
    answer.to = "validate" /\ call = Fat!NoCall =>
        /\ answer.ok => Fat!Sound
        /\ Fat!Undisturbed /\ Fat!Sound => answer.ok

Having(u) == {i \in 1 .. Count : Ids[StartOf[i]] = u}
LookupHolds ==
    answer.to = "getMachO" /\ call = Fat!NoCall =>
        /\ answer.ok => /\ answer.object \in Having(answer.uuid)
                        /\ \A i \in Having(answer.uuid) : answer.object <= i
        /\ Fat!Undisturbed /\ Having(answer.uuid) # {} => answer.ok

ListHolds ==
    answer.to = "getAllUUIDs" /\ call = Fat!NoCall /\ answer.ok =>
        /\ answer.list = [i \in 1 .. Count |-> Ids[StartOf[i]]]
        /\ \A i \in 1 .. Count : Ids[StartOf[i]] # NONE

FatInv ==
    /\ LoaderTyped /\ CallIs /\ Validated /\ Made /\ Kept
    /\ ValidateHolds /\ LookupHolds /\ ListHolds
LoaderIInv == part = "fat" => FatInv

-------------------------------------------------------------------------------
-------------------------------------------------------------------------------
(* What a file may be: units, of which a magic is the first, and the entries
   follow it without a gap. *)
LEMMA ContentFacts ==
    ASSUME content \in Contents
    PROVE  /\ content \in Seq(Fat!Unit)
           /\ Fat!LaidOut(content)
           /\ Len(content) \in Nat /\ DOMAIN content = 1 .. Len(content)
           /\ NONE \notin UUIDs /\ NONE \notin Nat
<1>1. content \in Seq(Fat!Unit) /\ Fat!LaidOut(content)
  BY FatAssumption DEF Fat!FatAssumption
<1>2. NONE \notin UUIDs /\ NONE \notin Nat
  BY FatAssumption DEF Fat!FatAssumption
<1> QED
  BY <1>1, <1>2

(* The functions of a position are the operators of the model, and have the
   types that their names say. *)
LEMMA FileFacts ==
    ASSUME content \in Contents
    PROVE  /\ \A p \in Nat : Kinds[p] = Fat!KindAt(p) /\ Ids[p] = Fat!UUIDAt(p)
           /\ \A p \in Nat : Kinds[p] \in {"fat", "arch", "macho", "other"}
           /\ \A p \in Nat : Kinds[p] # "other" => p < Len(content)
           /\ \A p \in Nat : Kinds[p] = "fat" => p = 0
           /\ \A p \in Nat : Kinds[p + 1] = "arch" => Kinds[p] \in {"fat", "arch"}
           /\ Kinds[0] # "arch"
           /\ \A p \in Nat : Ids[p] \in UUIDs \cup {NONE}
           /\ \A p \in Nat : Ids[p] # NONE => Kinds[p] = "macho"
           /\ \A p \in Nat : Offsets[p] \in Nat
           /\ \A p \in Nat :
                Offsets[p] = IF Kinds[p] = "arch" THEN content[p + 1].value ELSE Len(content)
           /\ \A p \in Nat : Kinds[p] # "other" => content[p + 1].value \in Nat
<1> USE ContentFacts
<1>1. \A p \in Nat : /\ Kinds[p] = Fat!KindAt(p) /\ Ids[p] = Fat!UUIDAt(p)
                     /\ Offsets[p] = Fat!EntryOffset(p)
  BY DEF Kinds, Ids, Offsets
<1>2. ASSUME NEW p \in Nat, p < Len(content)
      PROVE  /\ p + 1 \in 1 .. Len(content)
             /\ content[p + 1] \in Fat!Unit
             /\ content[p + 1].kind \in {"fat", "arch", "macho", "other"}
             /\ content[p + 1].value \in Nat
             /\ content[p + 1].uuid \in UUIDs \cup {NONE}
  <2>1. p + 1 \in 1 .. Len(content)
    BY <1>2
  <2>2. content[p + 1] \in Fat!Unit
    BY <2>1
  <2> QED BY <2>1, <2>2 DEF Fat!Unit
<1>3. ASSUME NEW p \in Nat
      PROVE  /\ Kinds[p] \in {"fat", "arch", "macho", "other"}
             /\ Kinds[p] # "other" => p < Len(content)
             /\ p < Len(content) => Kinds[p] = content[p + 1].kind
  BY <1>1, <1>2 DEF Fat!KindAt
<1>4. ASSUME NEW p \in Nat PROVE Kinds[p] = "fat" => p = 0
  <2>1. SUFFICES ASSUME Kinds[p] = "fat" PROVE p = 0
    OBVIOUS
  <2>2. p < Len(content) /\ content[p + 1].kind = "fat"
    BY <2>1, <1>3
  <2>3. p + 1 \in DOMAIN content
    BY <2>2
  <2>4. p + 1 = 1
    BY <2>2, <2>3 DEF Fat!LaidOut
  <2> QED BY <2>4
<1>5. ASSUME NEW p \in Nat, Kinds[p + 1] = "arch" PROVE Kinds[p] \in {"fat", "arch"}
  <2>1. p + 1 \in Nat /\ p + 1 < Len(content) /\ content[p + 2].kind = "arch"
    BY <1>3, <1>5
  <2>2. p + 2 \in DOMAIN content
    BY <2>1
  <2>3. content[(p + 2) - 1].kind \in {"fat", "arch"}
    BY <2>1, <2>2 DEF Fat!LaidOut
  <2>4. (p + 2) - 1 = p + 1 /\ p < Len(content)
    BY <2>1
  <2> QED BY <2>3, <2>4, <1>3
<1>6. Kinds[0] # "arch"
  <2>1. SUFFICES ASSUME Kinds[0] = "arch" PROVE FALSE
    OBVIOUS
  <2>2. 1 \in DOMAIN content /\ content[1].kind = "arch"
    BY <1>3, <2>1
  <2>3. 1 > 1
    BY <2>2 DEF Fat!LaidOut
  <2> QED BY <2>3
<1>7. ASSUME NEW p \in Nat
      PROVE  /\ Ids[p] \in UUIDs \cup {NONE}
             /\ Ids[p] # NONE => Kinds[p] = "macho"
  BY <1>1, <1>2, <1>3 DEF Fat!UUIDAt
<1>8. ASSUME NEW p \in Nat
      PROVE  Offsets[p] = IF Kinds[p] = "arch" THEN content[p + 1].value ELSE Len(content)
  BY <1>1 DEF Fat!EntryOffset
<1>9. ASSUME NEW p \in Nat
      PROVE  /\ Offsets[p] \in Nat
             /\ Kinds[p] # "other" => content[p + 1].value \in Nat
  BY <1>2, <1>3, <1>8
<1> QED
  BY <1>1, <1>3, <1>4, <1>5, <1>6, <1>7, <1>8, <1>9

(* What the file claims: the count behind its magic and the places of the
   objects, as the properties name them. *)
LEMMA ClaimFacts ==
    ASSUME content \in Contents
    PROVE  /\ Fat!IsFat <=> Kinds[0] = "fat"
           /\ Fat!IsFat => Fat!Claimed = content[1].value /\ content # <<>>
           /\ ~Fat!IsFat => Fat!Claimed = 0
           /\ Fat!Claimed \in Nat /\ Count \in Nat
           /\ Fat!IsFat => Count = Fat!Claimed /\ Ids[0] = NONE
           /\ ~Fat!IsFat => Count \in {0, 1}
           /\ \A i \in 1 .. Count : StartOf[i] \in Nat
           /\ \A i \in 1 .. Count : Fat!IsFat => StartOf[i] = Offsets[i]
           /\ \A i \in 1 .. Count : ~Fat!IsFat => StartOf[i] = 0
           /\ Fat!Starts = StartOf
<1> USE ContentFacts, FileFacts
<1>1. Fat!IsFat <=> Kinds[0] = "fat"
  BY DEF Fat!IsFat
<1>2. /\ Fat!IsFat => Fat!Claimed = content[1].value /\ content # <<>>
      /\ ~Fat!IsFat => Fat!Claimed = 0
      /\ Fat!Claimed \in Nat
  BY <1>1 DEF Fat!Claimed
<1>3. /\ Fat!IsFat => Count = Fat!Claimed /\ Ids[0] = NONE
      /\ ~Fat!IsFat => Count \in {0, 1}
      /\ Count \in Nat
  BY <1>1, <1>2 DEF Count
<1>4. \A i \in 1 .. Count : /\ StartOf[i] \in Nat
                            /\ Fat!IsFat => StartOf[i] = Offsets[i]
                            /\ ~Fat!IsFat => StartOf[i] = 0
  BY <1>3 DEF StartOf
<1>5. Fat!Starts = StartOf
  <2>1. CASE Fat!IsFat
    <3>1. \A i \in 1 .. Fat!Claimed : Offsets[i] = Fat!EntryOffset(i)
      BY <1>2 DEF Offsets
    <3> QED BY <2>1, <3>1, <1>3 DEF Fat!Starts, StartOf
  <2>2. CASE ~Fat!IsFat
    <3>1. Fat!UUIDAt(0) = Ids[0]
      OBVIOUS
    <3>2. CASE Ids[0] = NONE
      BY <3>1, <3>2, <2>2 DEF Fat!Starts, StartOf, Count
    <3>3. CASE Ids[0] # NONE
      <4>1. StartOf = [i \in 1 .. 1 |-> 0]
        BY <3>3, <2>2 DEF StartOf, Count
      <4>2. <<0>> = [i \in 1 .. 1 |-> 0]
        OBVIOUS
      <4> QED BY <4>1, <4>2, <3>1, <3>3, <2>2 DEF Fat!Starts
    <3> QED BY <3>2, <3>3
  <2> QED BY <2>1, <2>2
<1> QED
  BY <1>1, <1>2, <1>3, <1>4, <1>5

(* No step changes what the file says. *)
LEMMA SameFile ==
    ASSUME content' = content
    PROVE  /\ Kinds' = Kinds /\ Ids' = Ids /\ Offsets' = Offsets
           /\ Fat!IsFat' = Fat!IsFat /\ Fat!Claimed' = Fat!Claimed
           /\ Count' = Count /\ StartOf' = StartOf
           /\ Fat!Sound' = Fat!Sound
<1>1. Kinds' = Kinds
  BY DEF Kinds, Fat!KindAt
<1>2. Ids' = Ids
  BY DEF Ids, Fat!UUIDAt, Fat!KindAt
<1>3. Offsets' = Offsets
  BY DEF Offsets, Fat!EntryOffset, Fat!KindAt
<1>4. Fat!IsFat' = Fat!IsFat
  BY DEF Fat!IsFat, Fat!KindAt
<1>5. Fat!Claimed' = Fat!Claimed
  BY <1>4 DEF Fat!Claimed
<1>6. Count' = Count
  BY <1>2, <1>4, <1>5 DEF Count
<1>7. StartOf' = StartOf
  BY <1>3, <1>4, <1>6 DEF StartOf
<1>8. Fat!Sound' = Fat!Sound
  BY DEF Fat!Sound, Fat!Starts, Fat!Claimed, Fat!IsFat, Fat!KindAt, Fat!UUIDAt,
         Fat!EntryOffset
<1> QED
  BY <1>1, <1>2, <1>3, <1>4, <1>5, <1>6, <1>7, <1>8

-------------------------------------------------------------------------------
(* Nothing is known yet of a binary that nobody asked. *)
LEMMA LoaderInitHolds == ASSUME Fat!Init PROVE FatInv
<1> USE DEF Fat!Init
<1>1. content \in Contents
  OBVIOUS
<1>2. /\ call.at = "idle" /\ call.for = "none" /\ call.uuid = NONE /\ call.left = 0
      /\ machos = <<>> /\ Len(machos) = 0 /\ machos \in Objects
  BY DEF Fat!NoCall, Objects
<1>3. LoaderTyped
  <2>1. call \in Calls
    BY <1>1, ClaimFacts DEF Fat!NoCall, Calls
  <2>2. answer \in Answers
    BY DEF Answers
  <2>3. inMemory \in BOOLEAN /\ there \in BOOLEAN /\ (inMemory => there)
    OBVIOUS
  <2>4. pos \in 0 .. Len(content)
    BY <1>1, ContentFacts
  <2> QED BY <1>1, <1>2, <2>1, <2>2, <2>3, <2>4 DEF LoaderTyped
<1>4. CallIs
  BY <1>2 DEF CallIs
<1>5. Validated /\ Made
  BY <1>2 DEF Validated, Made
<1>6. Kept
  BY <1>2 DEF Kept, OfFile
<1>7. ValidateHolds /\ LookupHolds /\ ListHolds
  BY DEF ValidateHolds, LookupHolds, ListHolds
<1> QED
  BY <1>3, <1>4, <1>5, <1>6, <1>7 DEF FatInv

(* The list of objects as a function of the number of an object. *)
LEMMA ObjectFacts ==
    ASSUME NEW objects \in Objects
    PROVE  /\ Len(objects) \in Nat /\ DOMAIN objects = 1 .. Len(objects)
           /\ objects = <<>> <=> Len(objects) = 0
           /\ \A i \in 1 .. Len(objects) :
                /\ objects[i] \in Object
                /\ objects[i].start \in Nat
                /\ objects[i].uuid \in UUIDs \cup {NONE}
<1> USE DEF Objects
<1>1. Len(objects) \in Nat /\ DOMAIN objects = 1 .. Len(objects)
  OBVIOUS
<1>2. objects = <<>> <=> Len(objects) = 0
  OBVIOUS
<1>3. ASSUME NEW i \in 1 .. Len(objects)
      PROVE  /\ objects[i] \in Object
             /\ objects[i].start \in Nat
             /\ objects[i].uuid \in UUIDs \cup {NONE}
  <2>1. objects[i] \in Object
    BY <1>3
  <2> QED BY <2>1 DEF Object
<1> QED
  BY <1>1, <1>2, <1>3

(* While a call runs there is no answer to speak of. *)
LEMMA NoAnswerYet ==
    ASSUME call' # Fat!NoCall
    PROVE  ValidateHolds' /\ LookupHolds' /\ ListHolds'
BY DEF ValidateHolds, LookupHolds, ListHolds, Fat!NoCall

(* A step of a call that changes neither the objects nor the place of a reader
   of entries, but perhaps the stream and the step of the call, keeps the
   objects. *)
LEMMA KeptKept ==
    ASSUME Kept, call.at # "loading", content' = content, UNCHANGED <<machos, loaded>>,
           call'.at # "ask"
    PROVE  Kept'
<1> USE SameFile
<1>1. OfFile(machos) /\ (loaded => machos # <<>>)
  BY DEF Kept
<1>2. OfFile(machos)'
  BY <1>1 DEF OfFile
<1> QED
  BY <1>1, <1>2 DEF Kept

(* A client begins a call: no reader has begun, no object has changed. *)
LEMMA BeginKeeps ==
    ASSUME FatInv, NEW for, NEW u, Fat!Begin(for, u),
           \/ for \in {"validate", "load", "getAllUUIDs"} /\ u = NONE
           \/ for = "getMachO" /\ u \in UUIDs
    PROVE  FatInv'
<1> USE SameFile DEF Fat!Begin
<1>1. /\ LoaderTyped /\ CallIs /\ Kept /\ content' = content /\ UNCHANGED <<machos, loaded>>
      /\ call.at = "idle"
  BY DEF FatInv, Fat!NoCall
<1>2. /\ call'.for = for /\ call'.uuid = u /\ call'.left = 0
      /\ call'.at \in {"validate", "load", "ask"}
      /\ call'.at = "validate" <=> for = "validate"
      /\ call'.at = "ask" => loaded
      /\ for = "load" => call'.at = "load"
  OBVIOUS
<1>3. LoaderTyped'
  <2>1. call' \in Calls'
    BY ClaimFacts, <1>1 DEF Calls, LoaderTyped
  <2>2. machos' \in Objects' /\ answer' \in Answers'
    BY <1>1 DEF LoaderTyped, Objects, Answers
  <2> QED BY <2>1, <2>2, <1>1 DEF LoaderTyped
<1>4. CallIs'
  BY <1>2 DEF CallIs
<1>5. Validated' /\ Made'
  BY <1>2 DEF Validated, Made
<1>6. Kept'
  <2>1. CASE call'.at # "ask"
    BY <2>1, <1>1, KeptKept
  <2>2. CASE call'.at = "ask"
    <3>1. machos # <<>> /\ call.at # "loading"
      BY <2>2, <1>1, <1>2 DEF Kept
    <3>2. OfFile(machos) /\ OfFile(machos)'
      BY <3>1, <1>1 DEF Kept, OfFile
    <3> QED BY <3>1, <3>2, <2>2, <1>1 DEF Kept
  <2> QED BY <2>1, <2>2
<1>7. call' # Fat!NoCall
  BY <1>2 DEF Fat!NoCall
<1> QED
  BY <1>3, <1>4, <1>5, <1>6, <1>7, NoAnswerYet DEF FatInv

(* The source of a file on disk comes and goes between two calls. *)
LEMMA SourceChangesKeeps == ASSUME FatInv, Fat!SourceChanges PROVE FatInv'
<1> USE SameFile DEF Fat!SourceChanges
<1>1. /\ LoaderTyped /\ CallIs /\ Kept /\ content' = content /\ UNCHANGED <<machos, loaded>>
      /\ call.at = "idle" /\ call' = call
  BY DEF FatInv, Fat!NoCall
<1>2. answer' \in Answers /\ answer'.to = "none"
  BY <1>1 DEF LoaderTyped, Answers
<1>3. LoaderTyped'
  <2>1. call' \in Calls' /\ machos' \in Objects' /\ answer' \in Answers'
    BY <1>1, <1>2 DEF LoaderTyped, Calls, Objects, Answers
  <2> QED BY <2>1, <1>1 DEF LoaderTyped
<1>4. CallIs'
  BY <1>1 DEF CallIs, Fat!NoCall
<1>5. Validated' /\ Made' /\ Kept'
  BY <1>1, KeptKept DEF Validated, Made
<1>6. ValidateHolds' /\ LookupHolds' /\ ListHolds'
  BY <1>2 DEF ValidateHolds, LookupHolds, ListHolds
<1> QED
  BY <1>3, <1>4, <1>5, <1>6 DEF FatInv

(* Reply is a new answer to the call, and a call that has ended is none. *)
LEMMA ReplyFacts ==
    ASSUME LoaderTyped, NEW to \in {"validate", "load", "getMachO", "getAllUUIDs"},
           NEW ok \in BOOLEAN, Fat!Reply(to, ok)
    PROVE  /\ answer'.to = to /\ answer'.ok = ok
           /\ answer'.uuid = call.uuid
           /\ answer' \in Answers'
<1>1. call.uuid \in UUIDs \cup {NONE}
  BY DEF LoaderTyped, Calls
<1> QED
  BY <1>1 DEF Fat!Reply, Answers

(* NoCall is a call that no client has begun. *)
LEMMA NoCallFacts ==
    ASSUME content \in Contents, content' = content, call' = Fat!NoCall
    PROVE  /\ call' \in Calls' /\ CallIs' /\ Validated' /\ Made'
           /\ call'.at = "idle"
<1>1. /\ call'.at = "idle" /\ call'.for = "none" /\ call'.uuid = NONE /\ call'.left = 0
  BY DEF Fat!NoCall
<1>2. call' \in Calls'
  BY ClaimFacts, SameFile DEF Fat!NoCall, Calls
<1>3. CallIs'
  BY <1>1 DEF CallIs, Fat!NoCall
<1>4. Validated' /\ Made'
  BY <1>1 DEF Validated, Made
<1> QED
  BY <1>1, <1>2, <1>3, <1>4

(* A load that ends with the objects of the file leaves them to the client or
   to the question it was made for. *)
LEMMA LoadEnds ==
    ASSUME LoaderTyped, CallIs, call.at \in {"load", "loading"},
           NEW ok \in BOOLEAN, Fat!EndLoad(ok), UNCHANGED <<content, inMemory, there>>,
           pos' \in 0 .. Len(content), machos' \in Objects, OfFile(machos'),
           ok => machos' # <<>>,
           Fat!Undisturbed => machos' # <<>> \/ Count = 0
    PROVE  FatInv'
<1> USE SameFile
<1>1. loaded' = ok /\ content \in Contents
  BY DEF Fat!EndLoad, LoaderTyped
<1>2. OfFile(machos)'
  BY DEF OfFile
<1>3. CASE call.for = "load"
  <2>1. call' = Fat!NoCall /\ Fat!Reply("load", ok)
    BY <1>3 DEF Fat!EndLoad
  <2>2. answer'.to = "load" /\ answer' \in Answers'
    BY <2>1, ReplyFacts
  <2>3. /\ call' \in Calls' /\ CallIs' /\ Validated' /\ Made' /\ call'.at = "idle"
    BY <2>1, <1>1, NoCallFacts
  <2>4. LoaderTyped'
    BY <1>1, <2>2, <2>3 DEF LoaderTyped, Objects, Object
  <2>5. Kept'
    BY <1>1, <1>2, <2>3 DEF Kept
  <2>6. ValidateHolds' /\ LookupHolds' /\ ListHolds'
    BY <2>2 DEF ValidateHolds, LookupHolds, ListHolds
  <2> QED BY <2>3, <2>4, <2>5, <2>6 DEF FatInv
<1>4. CASE call.for # "load"
  <2>1. /\ call' = [call EXCEPT !.at = "ask"] /\ answer' = answer
        /\ call \in Calls
    BY <1>4 DEF Fat!EndLoad, LoaderTyped
  <2>2. /\ call'.at = "ask" /\ call'.for = call.for /\ call'.uuid = call.uuid
        /\ call' \in Calls
    BY <2>1 DEF Calls
  <2>3. LoaderTyped'
    <3>1. call' \in Calls' /\ answer' \in Answers'
      BY <2>1, <2>2 DEF Calls, Answers, LoaderTyped
    <3> QED BY <3>1, <1>1 DEF LoaderTyped, Objects, Object
  <2>4. CallIs'
    BY <2>2, <1>4 DEF CallIs
  <2>5. Validated' /\ Made'
    BY <2>2 DEF Validated, Made
  <2>6. Kept'
    BY <1>1, <1>2, <2>2 DEF Kept, Fat!Undisturbed
  <2>7. call' # Fat!NoCall
    BY <2>2 DEF Fat!NoCall
  <2> QED BY <2>3, <2>4, <2>5, <2>6, <2>7, NoAnswerYet DEF FatInv
<1> QED
  BY <1>3, <1>4

(* A validation that ends touches no object and answers as the file is. *)
LEMMA ValidateEnds ==
    ASSUME FatInv, call.at \in {"validate", "validating"},
           NEW ok \in BOOLEAN, Fat!EndValidate(ok),
           UNCHANGED <<content, inMemory, there, machos, loaded>>,
           pos' \in 0 .. Len(content),
           ok => Fat!Sound,
           Fat!Undisturbed /\ Fat!Sound => ok
    PROVE  FatInv'
<1> USE SameFile
<1>1. LoaderTyped /\ Kept /\ content \in Contents
  BY DEF FatInv, LoaderTyped
<1>2. call' = Fat!NoCall /\ Fat!Reply("validate", ok)
  BY DEF Fat!EndValidate
<1>3. answer'.to = "validate" /\ answer'.ok = ok /\ answer' \in Answers'
  BY <1>1, <1>2, ReplyFacts
<1>4. /\ call' \in Calls' /\ CallIs' /\ Validated' /\ Made' /\ call'.at = "idle"
  BY <1>1, <1>2, NoCallFacts
<1>5. LoaderTyped'
  BY <1>1, <1>3, <1>4 DEF LoaderTyped, Objects, Object
<1>6. Kept'
  BY <1>1, <1>4, KeptKept
<1>7. ValidateHolds'
  BY <1>3 DEF ValidateHolds, Fat!Undisturbed
<1>8. LookupHolds' /\ ListHolds'
  BY <1>3 DEF LookupHolds, ListHolds
<1> QED
  BY <1>4, <1>5, <1>6, <1>7, <1>8 DEF FatInv

(* A source that cannot be opened ends the call without a result. *)
LEMMA UnopenedKeeps == ASSUME FatInv, Fat!Unopened PROVE FatInv'
<1> USE DEF Fat!Unopened
<1>1. /\ LoaderTyped /\ CallIs /\ Kept /\ ~there
      /\ UNCHANGED <<content, inMemory, there, pos, machos>>
      /\ pos' \in 0 .. Len(content) /\ machos' \in Objects /\ ~Fat!Undisturbed
  BY DEF FatInv, LoaderTyped, Fat!Undisturbed
<1>2. CASE call.at = "validate" /\ Fat!EndValidate(FALSE) /\ UNCHANGED loaded
  BY <1>1, <1>2, ValidateEnds
<1>3. CASE call.at = "load" /\ Fat!EndLoad(FALSE)
  <2>1. OfFile(machos')
    BY <1>1, <1>3 DEF Kept
  <2> QED BY <2>1, <1>1, <1>3, LoadEnds
<1> QED
  BY <1>2, <1>3

(* A magic is met only at the front of the file, whichever stream is read. *)
LEMMA OpenedFacts ==
    ASSUME LoaderTyped
    PROVE  /\ Fat!Opened \in 0 .. Len(content)
           /\ Fat!KindAt(Fat!Opened) = Kinds[Fat!Opened]
           /\ Kinds[Fat!Opened] = "fat" =>
                 /\ Fat!Opened = 0 /\ Fat!IsFat /\ 1 \in 0 .. Len(content)
                 /\ content[Fat!Opened + 1].value = Fat!Claimed
           /\ Kinds[Fat!Opened] # "fat" /\ Fat!IsFat => inMemory
           /\ \A p \in 0 .. Len(content) : Fat!Moved(p) \in 0 .. Len(content)
<1>1. content \in Contents /\ pos \in 0 .. Len(content)
  BY DEF LoaderTyped
<1>2. Fat!Opened \in 0 .. Len(content) /\ (~inMemory => Fat!Opened = 0)
  BY <1>1, ContentFacts DEF Fat!Opened
<1>3. \A p \in 0 .. Len(content) : Fat!Moved(p) \in 0 .. Len(content)
  BY <1>1, ContentFacts DEF Fat!Moved
<1>4. Fat!Opened \in Nat
  BY <1>1, <1>2, ContentFacts
<1> HIDE DEF Fat!Opened
<1>5. Fat!KindAt(Fat!Opened) = Kinds[Fat!Opened]
  BY <1>1, <1>4, FileFacts
<1>6. Kinds[Fat!Opened] = "fat" =>
         /\ Fat!Opened = 0 /\ Fat!IsFat /\ 1 \in 0 .. Len(content)
         /\ content[Fat!Opened + 1].value = Fat!Claimed
  BY <1>1, <1>4, FileFacts, ClaimFacts, ContentFacts
<1>7. Kinds[Fat!Opened] # "fat" /\ Fat!IsFat => inMemory
  BY <1>1, <1>2, ClaimFacts
<1> QED
  BY <1>2, <1>3, <1>5, <1>6, <1>7

(* The entry at the position of a reader, and the position behind it. *)
LEMMA ArchEntryFacts ==
    ASSUME LoaderTyped
    PROVE  /\ Fat!ArchOffset = Offsets[pos] /\ Fat!ArchOffset \in Nat
           /\ Fat!KindAt(Fat!ArchOffset) = Kinds[Offsets[pos]]
           /\ Fat!Behind \in 0 .. Len(content)
           /\ Kinds[pos] = "arch" => Fat!Behind = pos + 1
           /\ Kinds[pos] # "arch" => Fat!Behind = Len(content)
           /\ Kinds[pos] # "arch" => Kinds[Offsets[pos]] = "other"
<1>1. content \in Contents /\ pos \in 0 .. Len(content) /\ pos \in Nat
  BY ContentFacts DEF LoaderTyped
<1>2. Fat!KindAt(pos) = Kinds[pos] /\ (Kinds[pos] # "other" => pos < Len(content))
  BY <1>1, FileFacts
<1>3. Fat!ArchOffset = Offsets[pos] /\ Offsets[pos] \in Nat
  BY <1>1, <1>2, FileFacts DEF Fat!ArchOffset
<1>4. Fat!KindAt(Fat!ArchOffset) = Kinds[Offsets[pos]]
  BY <1>1, <1>3, FileFacts
<1>5. /\ Fat!Behind \in 0 .. Len(content)
      /\ Kinds[pos] = "arch" => Fat!Behind = pos + 1
      /\ Kinds[pos] # "arch" => Fat!Behind = Len(content)
  <2>1. Len(content) \in Nat
    BY <1>1, ContentFacts
  <2>2. CASE Kinds[pos] = "arch"
    <3>1. pos + 1 \in 0 .. Len(content) /\ Fat!Behind = pos + 1
      BY <2>1, <2>2, <1>1, <1>2 DEF Fat!Behind
    <3> QED BY <2>2, <3>1
  <2>3. CASE Kinds[pos] # "arch"
    <3>1. Fat!Behind = Len(content)
      BY <2>3, <1>2 DEF Fat!Behind, Fat!Lost
    <3> QED BY <2>1, <2>3, <3>1
  <2> QED BY <2>2, <2>3
<1>6. Kinds[pos] # "arch" => Kinds[Offsets[pos]] = "other"
  <2>1. SUFFICES ASSUME Kinds[pos] # "arch" PROVE Kinds[Len(content)] = "other"
    BY <1>1, FileFacts
  <2> QED BY <1>1, FileFacts, ContentFacts
<1> QED
  BY <1>3, <1>4, <1>5, <1>6

(* The call of a loop over the entries that begins. *)
LEMMA CallBegins ==
    ASSUME LoaderTyped, NEW step \in {"validating", "loading"},
           call' = [call EXCEPT !.at = step, !.left = Fat!Claimed], content' = content
    PROVE  /\ call'.at = step /\ call'.left = Fat!Claimed
           /\ call'.for = call.for /\ call'.uuid = call.uuid /\ call' \in Calls
<1>1. call \in Calls /\ Fat!Claimed \in 0 .. Fat!Claimed
  BY ClaimFacts DEF LoaderTyped
<1> HIDE DEF Fat!Claimed
<1> QED
  BY <1>1 DEF Calls

(* The validation of a universal binary begins in front of its entries. *)
LEMMA ValidateFatKeeps == ASSUME FatInv, Fat!ValidateFat PROVE FatInv'
<1> USE SameFile DEF Fat!ValidateFat
<1>1. /\ LoaderTyped /\ CallIs /\ Kept /\ call \in Calls /\ content \in Contents
      /\ UNCHANGED <<content, inMemory, there, machos, loaded, answer>>
      /\ call.at = "validate"
  BY DEF FatInv, LoaderTyped
<1>2. /\ Fat!IsFat /\ pos' = 1 /\ 1 \in 0 .. Len(content)
      /\ call' = [call EXCEPT !.at = "validating", !.left = Fat!Claimed]
  <2>1. Kinds[Fat!Opened] = "fat"
    BY <1>1, OpenedFacts
  <2>2. /\ Fat!Opened = 0 /\ Fat!IsFat /\ 1 \in 0 .. Len(content)
        /\ content[Fat!Opened + 1].value = Fat!Claimed
    BY <1>1, <2>1, OpenedFacts
  <2> HIDE DEF Fat!Opened, Fat!Claimed
  <2> QED BY <2>2
<1>3. /\ call'.at = "validating" /\ call'.left = Fat!Claimed
      /\ call'.for = call.for /\ call'.uuid = call.uuid /\ call' \in Calls
  BY <1>1, <1>2, CallBegins
<1>4. LoaderTyped'
  <2>1. call' \in Calls' /\ machos' \in Objects' /\ answer' \in Answers'
    BY <1>1, <1>3 DEF LoaderTyped, Calls, Objects, Object, Answers
  <2> QED BY <2>1, <1>1, <1>2 DEF LoaderTyped
<1>5. CallIs'
  BY <1>1, <1>2, <1>3 DEF CallIs
<1>6. Validated'
  <2>1. Entry' = 0
    BY <1>1, <1>3, ClaimFacts DEF Entry
  <2> QED BY <2>1, <1>2 DEF Validated
<1>7. Made' /\ Kept' /\ call' # Fat!NoCall
  BY <1>1, <1>3, KeptKept DEF Made, Fat!NoCall
<1> QED
  BY <1>4, <1>5, <1>6, <1>7, NoAnswerYet DEF FatInv

(* A thin file is valid if it begins with an object's header, wherever a
   shared stream stands. *)
LEMMA ValidateThinKeeps == ASSUME FatInv, Fat!ValidateThin PROVE FatInv'
<1> USE DEF Fat!ValidateThin
<1>1. /\ LoaderTyped /\ content \in Contents
      /\ UNCHANGED <<content, inMemory, there, machos, loaded>>
      /\ call.at = "validate" /\ Kinds[Fat!Opened] # "fat"
  BY OpenedFacts DEF FatInv, LoaderTyped
<1>2. Fat!KindAt(0) = Kinds[0]
  BY <1>1, FileFacts
<1>3. pos' \in 0 .. Len(content)
  <2>1. (IF Fat!KindAt(0) = "macho" THEN 1 ELSE Fat!Lost) \in 0 .. Len(content)
    BY <1>1, <1>2, FileFacts, ContentFacts DEF Fat!Lost
  <2> QED BY <2>1, <1>1, OpenedFacts
<1>4. Kinds[0] = "macho" => Fat!Sound
  BY <1>1, <1>2, ClaimFacts DEF Fat!Sound
<1>5. Fat!Undisturbed => ~Fat!IsFat
  BY <1>1, OpenedFacts DEF Fat!Undisturbed
<1>6. Fat!Undisturbed /\ Fat!Sound => Kinds[0] = "macho"
  BY <1>2, <1>5 DEF Fat!Sound
<1>7. Fat!EndValidate(Kinds[0] = "macho")
  BY <1>2
<1> QED
  BY <1>1, <1>3, <1>4, <1>6, <1>7, ValidateEnds

(* One more entry of a file under validation: the place it points to decides. *)
LEMMA ValidateArchKeeps == ASSUME FatInv, Fat!ValidateArch PROVE FatInv'
<1> USE SameFile DEF Fat!ValidateArch
<1>1. /\ LoaderTyped /\ CallIs /\ Kept /\ Validated /\ call \in Calls /\ content \in Contents
      /\ UNCHANGED <<content, inMemory, there, machos, loaded>>
      /\ call.at = "validating" /\ call.left > 0 /\ Fat!IsFat
      /\ pos \in Nat /\ Len(content) \in Nat
  BY ContentFacts DEF FatInv, LoaderTyped, CallIs
<1>2. /\ call.left \in 1 .. Fat!Claimed /\ Entry \in 0 .. Fat!Claimed - 1
      /\ Fat!Claimed \in Nat /\ Count = Fat!Claimed
  BY <1>1, ClaimFacts DEF Calls, Entry
<1>3. /\ \A i \in 1 .. Entry : Kinds[Offsets[i]] = "macho"
      /\ pos = Entry + 1 \/ (inMemory /\ Kinds[pos] # "arch")
  BY <1>1 DEF Validated
<1>4. CASE Fat!KindAt(Fat!ArchOffset) = "macho"
  <2>1. /\ Kinds[Offsets[pos]] = "macho" /\ Kinds[pos] = "arch" /\ pos = Entry + 1
        /\ Fat!ArchOffset = Offsets[pos] /\ Offsets[pos] \in Nat
        /\ Fat!Behind = pos + 1 /\ Fat!Behind \in 0 .. Len(content)
    BY <1>1, <1>3, <1>4, ArchEntryFacts
  <2>2. /\ call' = [call EXCEPT !.left = @ - 1] /\ answer' = answer
        /\ pos' = IF inMemory THEN Offsets[pos] + 1 ELSE pos + 1
    BY <1>4, <2>1
  <2>3. /\ call'.at = "validating" /\ call'.left = call.left - 1
        /\ call'.for = call.for /\ call'.uuid = call.uuid /\ call' \in Calls
    BY <1>1, <1>2, <2>2 DEF Calls
  <2>4. pos' \in 0 .. Len(content)
    BY <1>1, <2>1, <2>2, FileFacts
  <2>5. LoaderTyped'
    <3>1. call' \in Calls' /\ machos' \in Objects' /\ answer' \in Answers'
      BY <1>1, <2>2, <2>3 DEF LoaderTyped, Calls, Objects, Object, Answers
    <3> QED BY <3>1, <1>1, <2>4 DEF LoaderTyped
  <2>6. CallIs'
    BY <1>1, <2>3 DEF CallIs
  <2>7. Validated'
    <3>1. Entry' = Entry + 1
      BY <1>1, <1>2, <2>3 DEF Entry
    <3>2. \A i \in 1 .. Entry + 1 : Kinds[Offsets[i]] = "macho"
      BY <1>2, <1>3, <2>1
    <3>3. CASE inMemory
      <4>1. Kinds[Offsets[pos] + 1] # "arch"
        BY <1>1, <2>1, FileFacts
      <4> QED BY <3>1, <3>2, <3>3, <4>1, <1>1, <2>2 DEF Validated
    <3>4. CASE ~inMemory
      BY <3>1, <3>2, <3>4, <2>1, <2>2 DEF Validated
    <3> QED BY <3>3, <3>4
  <2>8. Made' /\ Kept' /\ call' # Fat!NoCall
    BY <1>1, <2>3, KeptKept DEF Made, Fat!NoCall
  <2> QED BY <2>5, <2>6, <2>7, <2>8, NoAnswerYet DEF FatInv
<1>5. CASE Fat!KindAt(Fat!ArchOffset) # "macho"
  <2>1. pos' \in 0 .. Len(content) /\ Fat!EndValidate(FALSE)
    <3>1. pos' = Len(content) /\ Fat!EndValidate(FALSE)
      BY <1>5, Zenon DEF Fat!Lost
    <3>2. Len(content) \in 0 .. Len(content)
      BY <1>1
    <3> QED BY <3>1, <3>2, Zenon
  <2>2. Fat!Undisturbed => ~Fat!Sound
    <3>1. SUFFICES ASSUME Fat!Undisturbed PROVE ~Fat!Sound
      OBVIOUS
    <3>2. pos = Entry + 1 /\ Kinds[Offsets[pos]] # "macho"
      BY <3>1, <1>1, <1>3, <1>5, ArchEntryFacts DEF Fat!Undisturbed
    <3>3. Entry + 1 \in 1 .. Count /\ Fat!Starts[Entry + 1] = Offsets[Entry + 1]
      BY <1>1, <1>2, ClaimFacts
    <3>4. Fat!KindAt(Offsets[Entry + 1]) = Kinds[Offsets[Entry + 1]]
      BY <1>1, <1>2, FileFacts
    <3> QED BY <3>2, <3>3, <3>4, <1>1, <1>2 DEF Fat!Sound
  <2> QED BY <1>1, <2>1, <2>2, ValidateEnds
<1> QED
  BY <1>4, <1>5

(* A load of a universal binary begins with no objects, in front of its
   entries. *)
LEMMA LoadFatKeeps == ASSUME FatInv, Fat!LoadFat PROVE FatInv'
<1> USE SameFile DEF Fat!LoadFat
<1>1. /\ LoaderTyped /\ CallIs /\ call \in Calls /\ content \in Contents /\ there
      /\ UNCHANGED <<content, inMemory, there, loaded, answer>>
      /\ call.at = "load" /\ machos' = <<>>
  BY DEF FatInv, LoaderTyped, Fat!Renew
<1>2. /\ Fat!IsFat /\ pos' = 1 /\ 1 \in 0 .. Len(content)
      /\ call' = [call EXCEPT !.at = "loading", !.left = Fat!Claimed]
  <2>1. Kinds[Fat!Opened] = "fat"
    BY <1>1, OpenedFacts
  <2>2. /\ Fat!Opened = 0 /\ Fat!IsFat /\ 1 \in 0 .. Len(content)
        /\ content[Fat!Opened + 1].value = Fat!Claimed
    BY <1>1, <2>1, OpenedFacts
  <2> HIDE DEF Fat!Opened, Fat!Claimed
  <2> QED BY <2>2
<1>3. /\ call'.at = "loading" /\ call'.left = Fat!Claimed
      /\ call'.for = call.for /\ call'.uuid = call.uuid /\ call' \in Calls
  BY <1>1, <1>2, CallBegins
<1>4. LoaderTyped'
  <2>1. call' \in Calls' /\ answer' \in Answers'
    BY <1>1, <1>3 DEF LoaderTyped, Calls, Answers
  <2>2. machos' \in Objects'
    BY <1>1 DEF Objects
  <2> QED BY <2>1, <2>2, <1>1, <1>2 DEF LoaderTyped
<1>5. CallIs'
  BY <1>1, <1>2, <1>3 DEF CallIs
<1>6. Made'
  <2>1. Entry' = 0
    BY <1>1, <1>3, ClaimFacts DEF Entry
  <2>2. Len(machos') = 0
    BY <1>1
  <2> QED BY <2>1, <2>2, <1>2 DEF Made
<1>7. Validated' /\ Kept' /\ call' # Fat!NoCall
  BY <1>3 DEF Validated, Kept, Fat!NoCall
<1> QED
  BY <1>4, <1>5, <1>6, <1>7, NoAnswerYet DEF FatInv

(* A load that meets no magic keeps the object of a thin file, if it has a
   UUID; of a universal binary in memory it keeps nothing. *)
LEMMA LoadThinKeeps == ASSUME FatInv, Fat!LoadThin PROVE FatInv'
<1> USE DEF Fat!LoadThin
<1>1. /\ LoaderTyped /\ CallIs /\ content \in Contents
      /\ UNCHANGED <<content, inMemory, there>>
      /\ call.at = "load" /\ Kinds[Fat!Opened] # "fat"
      /\ machos' = Fat!ThinObjects
  BY OpenedFacts DEF FatInv, LoaderTyped, Fat!Renew
<1>2. pos' \in 0 .. Len(content)
  BY <1>1, OpenedFacts, ContentFacts DEF Fat!Lost
<1>3. Fat!UUIDAt(0) = Ids[0] /\ Ids[0] \in UUIDs \cup {NONE}
  BY <1>1, FileFacts
<1>4. Fat!Undisturbed => ~Fat!IsFat
  BY <1>1, OpenedFacts DEF Fat!Undisturbed
<1>5. CASE Ids[0] = NONE
  <2>1. machos' = <<>> /\ Fat!EndLoad(FALSE)
    BY <1>1, <1>3, <1>5 DEF Fat!ThinObjects
  <2>2. machos' \in Objects /\ OfFile(machos')
    BY <2>1 DEF Objects, OfFile
  <2>3. ~Fat!IsFat => Count = 0
    BY <1>5 DEF Count
  <2> QED BY <2>1, <2>2, <2>3, <1>1, <1>2, <1>4, LoadEnds
<1>6. CASE Ids[0] # NONE
  <2> DEFINE made == [start |-> 0, uuid |-> Ids[0]]
  <2>1. machos' = <<made>> /\ machos' # <<>>
    BY <1>1, <1>3, <1>6 DEF Fat!ThinObjects
  <2>2. made \in Object /\ made.start = 0 /\ made.uuid = Ids[0]
    BY <1>3 DEF Object
  <2> HIDE DEF made
  <2>3. machos' \in Objects /\ Len(machos') = 1 /\ machos'[1] = made
    BY <2>1, <2>2 DEF Objects
  <2>4. ~Fat!IsFat /\ Count = 1 /\ StartOf[1] = 0
    <3>1. ~Fat!IsFat
      BY <1>1, <1>6, ClaimFacts
    <3>2. Count = 1
      BY <1>6, <3>1 DEF Count
    <3> QED BY <3>1, <3>2, <1>1, ClaimFacts
  <2>5. OfFile(machos')
    BY <2>2, <2>3, <2>4 DEF OfFile
  <2>6. Fat!EndLoad(TRUE)
    BY <1>1, <2>1
  <2> QED BY <2>1, <2>3, <2>5, <2>6, <1>1, <1>2, LoadEnds
<1> QED
  BY <1>5, <1>6

(* One more object is made, for the next entry of the file. *)
LEMMA LoadArchKeeps == ASSUME FatInv, Fat!LoadArch PROVE FatInv'
<1> USE SameFile DEF Fat!LoadArch
<1>1. /\ LoaderTyped /\ CallIs /\ Made /\ call \in Calls /\ content \in Contents
      /\ UNCHANGED <<content, inMemory, there, loaded, answer>>
      /\ call.at = "loading" /\ call.left > 0 /\ Fat!IsFat
      /\ pos \in Nat /\ Len(content) \in Nat /\ machos \in Objects
      /\ NONE \in UUIDs \cup {NONE}
  BY ContentFacts DEF FatInv, LoaderTyped, CallIs
<1>2. /\ call.left \in 1 .. Fat!Claimed /\ Entry \in 0 .. Fat!Claimed - 1
      /\ Fat!Claimed \in Nat
  BY <1>1, ClaimFacts DEF Calls, Entry
<1>3. /\ Len(machos) = Entry
      /\ \A i \in 1 .. Entry : machos[i].start = Offsets[i] /\ machos[i].uuid = NONE
      /\ \/ pos = Entry + 1
         \/ pos = Len(content) /\ Kinds[Entry + 1] # "arch"
  BY <1>1 DEF Made
<1>4. Fat!ArchOffset = Offsets[Entry + 1] /\ Fat!ArchOffset \in Nat
  <2>1. Entry + 1 \in Nat
    BY <1>2
  <2>2. Fat!ArchOffset = Offsets[pos] /\ Fat!ArchOffset \in Nat
    BY <1>1, ArchEntryFacts
  <2>3. CASE pos = Len(content) /\ Kinds[Entry + 1] # "arch"
    BY <2>1, <2>2, <2>3, <1>1, FileFacts
  <2> QED BY <2>2, <2>3, <1>3
<1> DEFINE made == [start |-> Fat!ArchOffset, uuid |-> NONE]
<1>5. made \in Object /\ made.start = Offsets[Entry + 1] /\ made.uuid = NONE
  BY <1>1, <1>4 DEF Object
<1>6. machos' = Append(machos, made) /\ call' = [call EXCEPT !.left = @ - 1]
      /\ pos' = Fat!Behind
  OBVIOUS
<1> HIDE DEF made
<1>7. /\ machos' \in Objects /\ Len(machos') = Entry + 1
      /\ \A i \in 1 .. Entry : machos'[i] = machos[i]
      /\ machos'[Entry + 1] = made
  BY <1>1, <1>3, <1>5, <1>6 DEF Objects
<1>8. /\ call'.at = "loading" /\ call'.left = call.left - 1
      /\ call'.for = call.for /\ call'.uuid = call.uuid /\ call' \in Calls
  BY SMTT(20), <1>1, <1>2, <1>6 DEF Calls
<1>9. LoaderTyped'
  <2>1. call' \in Calls' /\ machos' \in Objects' /\ answer' \in Answers'
    BY <1>1, <1>7, <1>8 DEF LoaderTyped, Calls, Objects, Object, Answers
  <2>2. pos' \in 0 .. Len(content)
    BY <1>1, <1>6, ArchEntryFacts
  <2> QED BY <2>1, <2>2, <1>1 DEF LoaderTyped
<1>10. CallIs'
  BY <1>1, <1>8 DEF CallIs
<1>11. Made'
  <2>1. Entry' = Entry + 1
    BY <1>1, <1>2, <1>8 DEF Entry
  <2>2. \A i \in 1 .. Entry + 1 : machos'[i].start = Offsets[i] /\ machos'[i].uuid = NONE
    <3>1. ASSUME NEW i \in 1 .. Entry + 1, i # Entry + 1 PROVE i \in 1 .. Entry
      BY <3>1, <1>2
    <3> QED BY <3>1, <1>3, <1>5, <1>7
  <2>3. \/ pos' = Entry + 2
        \/ pos' = Len(content) /\ Kinds[Entry + 2] # "arch"
    <3>1. Entry + 1 \in Nat /\ (Entry + 1) + 1 = Entry + 2
      BY <1>2
    <3>2. Kinds[Entry + 1] # "arch" => Kinds[Entry + 2] # "arch"
      <4>1. Kinds[Entry + 1] # "fat"
        BY <1>1, <1>2, <3>1, FileFacts
      <4> QED BY <4>1, <3>1, <1>1, FileFacts
    <3>3. CASE pos = Entry + 1
      BY <3>1, <3>2, <3>3, <1>1, <1>6, ArchEntryFacts
    <3>4. CASE pos = Len(content) /\ Kinds[Entry + 1] # "arch"
      <4>1. Kinds[pos] # "arch"
        BY <3>4, <1>1, FileFacts
      <4> QED BY <4>1, <3>2, <3>4, <1>1, <1>6, ArchEntryFacts
    <3> QED BY <3>3, <3>4, <1>3
  <2>4. (Entry + 1) + 1 = Entry + 2
    BY <1>2
  <2> QED BY <2>1, <2>2, <2>3, <2>4, <1>1, <1>7 DEF Made
<1>12. Validated' /\ Kept' /\ call' # Fat!NoCall
  BY <1>8 DEF Validated, Kept, Fat!NoCall
<1> QED
  BY <1>9, <1>10, <1>11, <1>12, NoAnswerYet DEF FatInv

(* The entries are read: what they gave is the result. *)
LEMMA EndArchsKeeps == ASSUME FatInv, Fat!EndArchs PROVE FatInv'
<1> USE DEF Fat!EndArchs
<1>1. /\ LoaderTyped /\ CallIs /\ Validated /\ Made /\ call \in Calls /\ content \in Contents
      /\ UNCHANGED <<content, inMemory, there, pos, machos>>
      /\ call.left = 0 /\ Fat!IsFat /\ pos \in 0 .. Len(content) /\ machos \in Objects
  BY DEF FatInv, LoaderTyped, CallIs
<1>2. Entry = Count /\ Count = Fat!Claimed /\ Count \in Nat
  BY <1>1, ClaimFacts DEF Entry
<1>3. CASE call.at = "loading"
  <2>1. Fat!EndLoad(machos # <<>>) /\ machos' = machos
    BY <1>1, <1>3
  <2>2. /\ Len(machos) = Count
        /\ \A i \in 1 .. Len(machos) : machos[i].start = Offsets[i] /\ machos[i].uuid = NONE
    BY <1>1, <1>2, <1>3 DEF Made
  <2>3. OfFile(machos)
    BY <2>2, <1>1, <1>2, ClaimFacts DEF OfFile
  <2>4. machos # <<>> \/ Count = 0
    BY <2>2, <1>1, ObjectFacts
  <2> QED BY <2>1, <2>3, <2>4, <1>1, <1>3, LoadEnds
<1>4. CASE call.at = "validating"
  <2>1. Fat!EndValidate(Count # 0) /\ UNCHANGED loaded
    BY <1>1, <1>2, <1>4, ClaimFacts
  <2>2. \A i \in 1 .. Count : Fat!KindAt(Fat!Starts[i]) = "macho"
    BY SMTT(30), <1>1, <1>2, <1>4, ClaimFacts, FileFacts DEF Validated
  <2>3. Fat!Sound <=> Count # 0
    BY <2>2, <1>1, <1>2 DEF Fat!Sound
  <2> QED BY <2>1, <2>3, <1>1, <1>4, ValidateEnds
<1> QED
  BY <1>3, <1>4

(* What asking an object for its UUID gives: the one the object has in the
   file, while the file can be read. *)
LEMMA EntriesRead ==
    ASSUME LoaderTyped, OfFile(machos), NEW i \in 1 .. Len(machos)
    PROVE  /\ i \in 1 .. Count
           /\ Fat!UUIDRead(machos[i]) \in UUIDs \cup {NONE}
           /\ machos[i].start = StartOf[i] /\ StartOf[i] \in Nat
           /\ there => Fat!UUIDRead(machos[i]) = Ids[StartOf[i]]
           /\ ~there => Fat!UUIDRead(machos[i]) = machos[i].uuid
           /\ Fat!UUIDRead(machos[i]) # NONE => Fat!UUIDRead(machos[i]) = Ids[StartOf[i]]
<1>1. machos \in Objects /\ content \in Contents
  BY DEF LoaderTyped
<1>2. /\ machos[i].start = StartOf[i]
      /\ machos[i].uuid \in {NONE, Ids[StartOf[i]]}
      /\ machos # <<>> /\ Len(machos) = Count
  BY <1>1, ObjectFacts DEF OfFile
<1>3. StartOf[i] \in Nat
  BY <1>1, <1>2, ClaimFacts
<1>4. Fat!UUIDAt(machos[i].start) = Ids[StartOf[i]] /\ Ids[StartOf[i]] \in UUIDs \cup {NONE}
  BY <1>1, <1>2, <1>3, FileFacts
<1> QED
  BY <1>2, <1>3, <1>4 DEF Fat!UUIDRead

(* A question that asks the first objects for their UUIDs leaves the objects
   of the file, and their UUIDs still read in order. *)
LEMMA AskedFacts ==
    ASSUME LoaderTyped, OfFile(machos), NEW n \in Nat, NEW reads, Fat!Asked(n, reads)
    PROVE  /\ machos' \in Objects /\ OfFile(machos')
           /\ Len(machos') = Len(machos)
           /\ pos' \in 0 .. Len(content)
<1> DEFINE Len0 == Len(machos)
           asked(i) == [machos[i] EXCEPT !.uuid = Fat!UUIDRead(machos[i])]
<1>1. /\ machos \in Objects /\ content \in Contents /\ Len0 \in Nat
      /\ DOMAIN machos = 1 .. Len0
  BY ObjectFacts DEF LoaderTyped
<1>2. machos' = [i \in 1 .. Len0 |-> IF i <= n THEN asked(i) ELSE machos[i]]
  BY <1>1 DEF Fat!Asked
<1>3. ASSUME NEW i \in 1 .. Len0
      PROVE  /\ machos'[i] \in Object /\ machos'[i].start = StartOf[i]
             /\ machos'[i].uuid = IF i <= n THEN Fat!UUIDRead(machos[i]) ELSE machos[i].uuid
  <2>1. machos[i] \in Object /\ machos[i].start = StartOf[i]
    BY <1>1, ObjectFacts, EntriesRead
  <2>2. /\ asked(i) \in Object /\ asked(i).start = StartOf[i]
        /\ asked(i).uuid = Fat!UUIDRead(machos[i])
    BY <2>1, EntriesRead DEF Object
  <2> HIDE DEF asked
  <2> QED BY <2>1, <2>2, <1>2
<1>4. machos' \in Objects /\ Len(machos') = Len0
  <2>1. machos' \in [1 .. Len0 -> Object]
    BY <1>2, <1>3
  <2> QED BY <2>1, <1>1 DEF Objects
<1>5. machos' # <<>> => Len(machos') = Count
  BY <1>1, <1>4, ObjectFacts DEF OfFile
<1>6. ASSUME NEW i \in 1 .. Len0 PROVE machos'[i].uuid \in {NONE, Ids[StartOf[i]]}
  BY <1>3, EntriesRead DEF OfFile
<1>7. ASSUME NEW i \in 1 .. Len0, NEW j \in 1 .. Len0, j < i, machos'[i].uuid # NONE
      PROVE  machos'[j].uuid = Ids[StartOf[j]]
  <2>1. CASE machos[i].uuid # NONE
    <3>1. machos[j].uuid = Ids[StartOf[j]]
      BY <2>1, <1>7 DEF OfFile
    <3> QED BY <3>1, <1>3, EntriesRead
  <2>2. CASE machos[i].uuid = NONE
    <3>1. i <= n /\ there
      BY <2>2, <1>3, <1>7, EntriesRead
    <3>2. j <= n
      BY <3>1, <1>1, <1>7
    <3> QED BY <3>1, <3>2, <1>3, EntriesRead
  <2> QED BY <2>1, <2>2
<1>8. OfFile(machos')
  <2> HIDE DEF Len0
  <2> QED BY <1>3, <1>4, <1>5, <1>6, <1>7 DEF OfFile
<1>9. pos' \in 0 .. Len(content)
  <2>1. Fat!Lost \in 0 .. Len(content) /\ pos \in 0 .. Len(content)
    BY <1>1, ContentFacts DEF Fat!Lost, LoaderTyped
  <2> QED BY <2>1, OpenedFacts DEF Fat!Asked
<1> QED
  BY <1>4, <1>8, <1>9

(* A question that was answered from the objects of the file. *)
LEMMA QuestionEnds ==
    ASSUME FatInv, call.at = "ask", call' = Fat!NoCall,
           UNCHANGED <<content, inMemory, there, loaded>>,
           pos' \in 0 .. Len(content), machos' \in Objects, OfFile(machos'),
           Len(machos') = Len(machos), answer' \in Answers,
           answer'.to \in {"getMachO", "getAllUUIDs"},
           LookupHolds', ListHolds'
    PROVE  FatInv'
<1> USE SameFile
<1>1. LoaderTyped /\ Kept /\ content \in Contents /\ machos \in Objects
  BY DEF FatInv, LoaderTyped
<1>2. /\ call' \in Calls' /\ CallIs' /\ Validated' /\ Made' /\ call'.at = "idle"
  BY <1>1, NoCallFacts
<1>3. LoaderTyped'
  <2>1. machos' \in Objects' /\ answer' \in Answers'
    BY DEF Objects, Object, Answers
  <2> QED BY <2>1, <1>1, <1>2 DEF LoaderTyped
<1>4. Kept'
  <2>1. OfFile(machos)'
    BY DEF OfFile
  <2>2. loaded => machos' # <<>>
    BY <1>1, ObjectFacts DEF Kept
  <2> QED BY <2>1, <2>2, <1>2 DEF Kept
<1>5. ValidateHolds'
  BY DEF ValidateHolds
<1> QED
  BY <1>2, <1>3, <1>4, <1>5 DEF FatInv

(* getMachO answers with the first object that has the UUID: all objects in
   front of it were asked, now or before the file went away. *)
LEMMA AskMachOKeeps == ASSUME FatInv, Fat!AskMachO PROVE FatInv'
<1> USE SameFile DEF Fat!AskMachO
<1>1. /\ LoaderTyped /\ CallIs /\ Kept /\ call \in Calls /\ content \in Contents
      /\ UNCHANGED <<content, inMemory, there, loaded>>
      /\ call.at = "ask" /\ call.for = "getMachO" /\ call' = Fat!NoCall
      /\ machos \in Objects /\ OfFile(machos)
      /\ call.uuid \in UUIDs /\ NONE \notin UUIDs
  BY ContentFacts DEF FatInv, LoaderTyped, CallIs, Kept
<1>2. /\ Len(machos) \in Nat /\ DOMAIN machos = 1 .. Len(machos)
      /\ machos # <<>> => Len(machos) = Count
      /\ machos = <<>> <=> Len(machos) = 0
  BY <1>1, ObjectFacts DEF OfFile
<1>3. \A i \in Fat!Matching(call.uuid) : i \in 1 .. Len(machos) /\ i \in Having(call.uuid)
  BY <1>1, <1>2, EntriesRead DEF Fat!Matching, Having
<1>4. ASSUME NEW i \in Fat!Matching(call.uuid),
             \A j \in Fat!Matching(call.uuid) : i <= j,
             Fat!Asked(i, Fat!Unread(i)),
             answer' = [to |-> "getMachO", ok |-> TRUE, uuid |-> call.uuid,
                        object |-> i, list |-> <<>>]
      PROVE  FatInv'
  <2>1. i \in 1 .. Len(machos) /\ i \in Having(call.uuid) /\ i \in Nat
        /\ Fat!UUIDRead(machos[i]) = call.uuid
    BY <1>2, <1>3 DEF Fat!Matching
  <2>2. /\ machos' \in Objects /\ OfFile(machos')
        /\ Len(machos') = Len(machos) /\ pos' \in 0 .. Len(content)
    BY <2>1, <1>1, <1>4, AskedFacts
  <2>3. /\ answer'.to = "getMachO" /\ answer'.ok = TRUE /\ answer'.uuid = call.uuid
        /\ answer'.object = i /\ answer' \in Answers
    BY <2>1, <1>1, <1>4 DEF Answers
  <2>4. ASSUME NEW j \in Having(call.uuid) PROVE i <= j
    <3>1. j \in 1 .. Len(machos) /\ Ids[StartOf[j]] = call.uuid
      BY <2>1, <1>2 DEF Having
    <3>2. CASE j < i
      <4>1. Fat!UUIDRead(machos[j]) = Ids[StartOf[j]]
        <5>1. CASE there
          BY <5>1, <3>1, <1>1, EntriesRead
        <5>2. CASE ~there
          <6>1. machos[i].uuid # NONE
            BY <5>2, <2>1, <1>1, EntriesRead
          <6> QED BY <6>1, <5>2, <3>1, <3>2, <2>1, <1>1, EntriesRead DEF OfFile
        <5> QED BY <5>1, <5>2
      <4>2. j \in Fat!Matching(call.uuid)
        BY <4>1, <3>1, <1>2 DEF Fat!Matching
      <4> QED BY <4>2, <1>4
    <3> QED BY <3>1, <3>2, <2>1, <1>2
  <2>5. LookupHolds'
    BY <2>1, <2>3, <2>4, <1>1 DEF LookupHolds, Having
  <2>6. ListHolds'
    BY <2>3 DEF ListHolds
  <2> QED BY <2>2, <2>3, <2>5, <2>6, <1>1, QuestionEnds
<1>5. ASSUME Fat!Matching(call.uuid) = {},
             Fat!Asked(Len(machos), Fat!Unread(Len(machos))),
             Fat!Reply("getMachO", FALSE)
      PROVE  FatInv'
  <2>1. /\ machos' \in Objects /\ OfFile(machos')
        /\ Len(machos') = Len(machos) /\ pos' \in 0 .. Len(content)
    BY <1>1, <1>2, <1>5, AskedFacts
  <2>2. /\ answer'.to = "getMachO" /\ answer'.ok = FALSE /\ answer'.uuid = call.uuid
        /\ answer' \in Answers'
    BY <1>1, <1>5, ReplyFacts
  <2>3. ASSUME Fat!Undisturbed, NEW j \in Having(call.uuid) PROVE FALSE
    <3>1. j \in 1 .. Count /\ Ids[StartOf[j]] = call.uuid /\ there
      BY <2>3 DEF Having, Fat!Undisturbed
    <3>2. machos # <<>>
      BY <3>1, <2>3, <1>1, ClaimFacts DEF Kept
    <3>3. j \in Fat!Matching(call.uuid)
      BY <3>1, <3>2, <1>1, <1>2, EntriesRead DEF Fat!Matching
    <3> QED BY <3>3, <1>5
  <2>4. LookupHolds'
    BY <2>2, <2>3, <1>1 DEF LookupHolds, Having, Fat!Undisturbed
  <2>5. ListHolds' /\ answer' \in Answers
    BY <2>2 DEF ListHolds, Answers
  <2> QED BY <2>1, <2>2, <2>4, <2>5, <1>1, QuestionEnds
<1> QED
  BY <1>4, <1>5

(* The list ends at the first object without a UUID, or behind the last. *)
LEMMA ObjectsFacts ==
    ASSUME machos \in Objects
    PROVE  /\ Fat!ListedUpTo \in 0 .. Len(machos)
           /\ \A i \in 1 .. Fat!ListedUpTo : Fat!Listable(i)
<1> DEFINE Last == Len(machos)
           Ends == {i \in 1 .. Last + 1 : i = Last + 1 \/ ~Fat!Listable(i)}
<1>1. Last \in Nat
  BY ObjectFacts
<1> HIDE DEF Last
<1>2. PICK e \in Ends : \A y \in Ends : e <= y
  <2>1. Last + 1 \in Ends /\ Ends \subseteq Nat
    BY <1>1
  <2> QED BY <2>1, LeastNatural
<1>3. /\ e - 1 \in 0 .. Last
      /\ \A i \in 1 .. e - 1 : Fat!Listable(i)
      /\ e - 1 < Last => ~Fat!Listable((e - 1) + 1)
  BY <1>1, <1>2
<1>4. \E n \in 0 .. Last : /\ \A i \in 1 .. n : Fat!Listable(i)
                           /\ n < Last => ~Fat!Listable(n + 1)
  BY <1>3
<1> QED
  BY <1>4 DEF Fat!ListedUpTo, Last

(* getAllUUIDs lists the objects up to the first without a UUID; a list that
   reaches the last object is that of the file. *)
LEMMA AskAllUUIDsKeeps == ASSUME FatInv, Fat!AskAllUUIDs PROVE FatInv'
<1> USE SameFile DEF Fat!AskAllUUIDs
<1>1. /\ LoaderTyped /\ CallIs /\ Kept /\ call \in Calls /\ content \in Contents
      /\ UNCHANGED <<content, inMemory, there, loaded>>
      /\ call.at = "ask" /\ call' = Fat!NoCall
      /\ machos \in Objects /\ OfFile(machos)
  BY DEF FatInv, LoaderTyped, Kept
<1>2. /\ Len(machos) \in Nat /\ DOMAIN machos = 1 .. Len(machos)
      /\ machos # <<>> => Len(machos) = Count
      /\ machos = <<>> <=> Len(machos) = 0
  BY <1>1, ObjectFacts DEF OfFile
<1>3. CASE ~loaded
  <2>1. Fat!Reply("getAllUUIDs", FALSE) /\ UNCHANGED <<pos, machos>>
    BY <1>3
  <2>2. answer'.to = "getAllUUIDs" /\ answer'.ok = FALSE /\ answer' \in Answers'
    BY <2>1, <1>1, ReplyFacts
  <2>3. LookupHolds' /\ ListHolds' /\ answer' \in Answers /\ pos' \in 0 .. Len(content)
    BY <2>1, <2>2, <1>1 DEF LookupHolds, ListHolds, Answers, LoaderTyped
  <2> QED BY <2>1, <2>2, <2>3, <1>1, QuestionEnds
<1>4. CASE loaded
  <2> DEFINE n == Fat!ListedUpTo
             read == [i \in 1 .. n |-> Fat!UUIDRead(machos[i])]
  <2>1. /\ Fat!Asked(n, machos # <<>>)
        /\ answer' = [to |-> "getAllUUIDs", ok |-> n = Len(machos), uuid |-> NONE,
                      object |-> 0, list |-> read]
    BY <1>4
  <2>2. n \in 0 .. Len(machos) /\ \A i \in 1 .. n : Fat!Listable(i)
    BY <1>1, ObjectsFacts
  <2> HIDE DEF n
  <2>3. n \in Nat /\ \A i \in 1 .. n : i \in 1 .. Len(machos)
    BY <2>2, <1>2
  <2>4. /\ machos' \in Objects /\ OfFile(machos')
        /\ Len(machos') = Len(machos) /\ pos' \in 0 .. Len(content)
    BY <2>1, <2>3, <1>1, AskedFacts
  <2>5. read \in Seq(UUIDs \cup {NONE})
    <3>1. read \in [1 .. n -> UUIDs \cup {NONE}]
      BY <2>3, <1>1, EntriesRead
    <3> QED BY <3>1, <2>3
  <2> HIDE DEF read
  <2>6. /\ answer'.to = "getAllUUIDs" /\ answer'.ok = (n = Len(machos))
        /\ answer'.list = read /\ answer' \in Answers
    BY <2>1, <2>5 DEF Answers
  <2>7. LookupHolds'
    BY <2>6 DEF LookupHolds
  <2>8. ASSUME n = Len(machos)
        PROVE  /\ read = [i \in 1 .. Count |-> Ids[StartOf[i]]]
               /\ \A i \in 1 .. Count : Ids[StartOf[i]] # NONE
    <3>1. n = Count
      BY <2>8, <1>1, <1>2, <1>4 DEF Kept
    <3>2. ASSUME NEW i \in 1 .. n
          PROVE  /\ Fat!UUIDRead(machos[i]) = Ids[StartOf[i]]
                 /\ Ids[StartOf[i]] # NONE
      <4>1. there /\ Fat!UUIDAt(machos[i].start) # NONE
        BY <2>2 DEF Fat!Listable
      <4>2. machos[i].start = StartOf[i] /\ StartOf[i] \in Nat
        BY <2>3, <1>1, EntriesRead
      <4> QED BY <4>1, <4>2, <2>3, <1>1, EntriesRead, FileFacts
    <3> QED BY <3>1, <3>2 DEF read
  <2>9. ListHolds'
    BY <2>6, <2>8, <1>1 DEF ListHolds
  <2> QED BY <2>4, <2>6, <2>7, <2>9, <1>1, QuestionEnds
<1> QED
  BY <1>3, <1>4

-------------------------------------------------------------------------------
(* Every step of a loader keeps its invariant. *)
LEMMA FatNextKeeps == ASSUME FatInv, Fat!Next PROVE FatInv'
<1>1. ASSUME NEW for \in {"validate", "load", "getAllUUIDs"}, Fat!Begin(for, NONE)
      PROVE  FatInv'
  BY <1>1, BeginKeeps
<1>2. ASSUME NEW u \in UUIDs, Fat!Begin("getMachO", u) PROVE FatInv'
  BY <1>2, BeginKeeps
<1>3. CASE Fat!Run
  BY <1>3, UnopenedKeeps, ValidateFatKeeps, ValidateThinKeeps, ValidateArchKeeps,
     LoadFatKeeps, LoadThinKeeps, LoadArchKeeps, EndArchsKeeps, AskMachOKeeps,
     AskAllUUIDsKeeps
  DEF Fat!Run
<1> QED
  BY <1>1, <1>2, <1>3, SourceChangesKeeps DEF Fat!Next

(* The invariant says what ObjectsAreTheFiles says, in the model's own words. *)
LEMMA LoaderInvariantImplies == ASSUME LoaderIInv PROVE ObjectsAreTheFiles
<1> SUFFICES ASSUME part = "fat"
             PROVE  /\ Fat!TypeOK
                    /\ Fat!ValidateTruthful /\ Fat!MachosAreTheFiles
                    /\ Fat!LookupRight /\ Fat!ListComplete
  BY DEF ObjectsAreTheFiles
<1>1. /\ FatInv /\ LoaderTyped /\ CallIs /\ content \in Contents /\ machos \in Objects
      /\ Fat!Claimed \in Nat /\ Count \in Nat
  BY ClaimFacts DEF LoaderIInv, FatInv, LoaderTyped
<1>2. /\ Len(machos) \in Nat /\ DOMAIN machos = 1 .. Len(machos)
      /\ machos = <<>> <=> Len(machos) = 0
  BY <1>1, ObjectFacts
<1>3. Fat!Starts = StartOf /\ DOMAIN Fat!Starts = 1 .. Count
      /\ \A i \in 1 .. Count : Fat!UUIDAt(Fat!Starts[i]) = Ids[StartOf[i]]
  BY <1>1, ClaimFacts, FileFacts DEF StartOf
<1>4. Fat!TypeOK
  <2>1. Len(machos) <= IF Fat!IsFat THEN Fat!Claimed ELSE 1
    <3>1. CASE call.at = "loading"
      <4>1. Fat!IsFat /\ Len(machos) = Fat!Claimed - call.left
        BY <3>1, <1>1 DEF FatInv, CallIs, Made, Entry
      <4>2. call.left \in 0 .. Fat!Claimed
        BY <1>1 DEF LoaderTyped, Calls
      <4> QED BY <4>1, <4>2, <1>1, <1>2
    <3>2. CASE call.at # "loading"
      <4>1. Len(machos) = 0 \/ Len(machos) = Count
        BY <3>2, <1>1, <1>2 DEF FatInv, Kept, OfFile
      <4> QED BY <4>1, <1>1, ClaimFacts
    <3> QED BY <3>1, <3>2
  <2> QED BY <2>1, <1>1 DEF Fat!TypeOK, LoaderTyped, Calls, Objects, Object
<1>5. Fat!ValidateTruthful
  BY <1>1 DEF FatInv, ValidateHolds, Fat!ValidateTruthful
<1>6. Fat!MachosAreTheFiles
  <2> SUFFICES ASSUME call.at # "loading", machos # <<>>
               PROVE  /\ [i \in DOMAIN machos |-> machos[i].start] = Fat!Starts
                      /\ \A i \in DOMAIN machos :
                            machos[i].uuid \in {NONE, Fat!UUIDAt(machos[i].start)}
    BY DEF Fat!MachosAreTheFiles
  <2>1. /\ Len(machos) = Count
        /\ \A i \in 1 .. Len(machos) : /\ machos[i].start = StartOf[i]
                                       /\ machos[i].uuid \in {NONE, Ids[StartOf[i]]}
    BY <1>1 DEF FatInv, Kept, OfFile
  <2>2. StartOf = [i \in 1 .. Count |-> StartOf[i]]
    BY DEF StartOf
  <2> QED BY <2>1, <2>2, <1>2, <1>3
<1>7. Fat!LookupRight
  BY <1>1, <1>3 DEF FatInv, LookupHolds, Having, Fat!LookupRight
<1>8. Fat!ListComplete
  BY <1>1, <1>3 DEF FatInv, ListHolds, Fat!ListComplete
<1> QED
  BY <1>4, <1>5, <1>6, <1>7, <1>8

(* Whatever was called, on whatever file and wherever a shared stream stood:
   the objects being made are those of the entries read so far, the objects
   kept are the file's with UUIDs read in order, and the last answer is true. *)
THEOREM LoaderInvariant == Spec => []LoaderIInv
<1>1. Init => LoaderIInv
  BY LoaderInitHolds DEF Init, LoaderIInv
<1>2. LoaderIInv /\ [Next]_all => LoaderIInv'
  <2> SUFFICES ASSUME LoaderIInv, [Next]_all, part' = "fat" PROVE FatInv'
    BY DEF LoaderIInv
  <2>1. CASE part = "fat" /\ Fat!Next
    BY <2>1, FatNextKeeps DEF LoaderIInv
  <2>2. CASE UNCHANGED all
    <3>1. /\ FatInv
          /\ UNCHANGED <<content, inMemory, there, pos, call, machos, loaded, loads, answer>>
      BY <2>2 DEF LoaderIInv, all, fatOnly
    <3>2. UNCHANGED <<Kinds, Ids, Offsets, Count, StartOf, Fat!IsFat, Fat!Claimed, Fat!Sound>>
      BY <3>1, SameFile
    <3>3. LoaderTyped'
      BY <3>1, <3>2 DEF FatInv, LoaderTyped, Calls, Objects, Object, Answers
    <3>4. CallIs' /\ Validated' /\ Made'
      BY <3>1, <3>2 DEF FatInv, CallIs, Validated, Made, Entry, Fat!NoCall
    <3>5. Kept'
      BY <3>1, <3>2 DEF FatInv, Kept, OfFile, Fat!Undisturbed
    <3>6. ValidateHolds'
      BY <3>1, <3>2 DEF FatInv, ValidateHolds, Fat!Undisturbed, Fat!NoCall
    <3>7. LookupHolds' /\ ListHolds'
      BY <3>1, <3>2 DEF FatInv, LookupHolds, ListHolds, Having, Fat!Undisturbed, Fat!NoCall
    <3> QED BY <3>3, <3>4, <3>5, <3>6, <3>7 DEF FatInv
  <2>3. CASE Next /\ part # "fat"
    BY <2>3 DEF Next, NotOfFind, LogNext, MiniNext
  <2>4. Next /\ part = "fat" => Fat!Next
    BY DEF Next, LogNext, MiniNext
  <2> QED BY <2>1, <2>2, <2>3, <2>4
<1> QED
  BY <1>1, <1>2, PTL DEF Spec

(* For every file, in memory or on a disk where it comes and goes, and after
   any calls: a valid binary holds what it claims, the objects kept are the
   file's in its order, none has the UUID of another, a lookup finds the first
   object with the UUID asked for, and a complete list is the file's.  About
   CFAT::_validate, _load, getMachO and getAllUUIDs. *)
THEOREM ObjectsAlwaysTheFiles == Spec => []ObjectsAreTheFiles
BY LoaderInvariant, LoaderInvariantImplies, PTL
===============================================================================
