-------------------------------- MODULE CrashLog --------------------------------
(***************************************************************************)
(* CMachOCrashLog::Parse: what is made of the text of a crash report: the  *)
(* binary image that crashed, the libraries it was linked with and the     *)
(* type of the crash.                                                      *)
(*                                                                         *)
(* The part behind "Binary Images:" is a sequence of words and, for each   *)
(* line, the words in front of it; the first line is what the token's own  *)
(* line has left, as a rule nothing.  An image is scanned from the start   *)
(* of a line, and swscanf passes over the ends of lines: a blank line is   *)
(* scanned as the next one, a line that lacks its last words takes them    *)
(* from the next.  UUIDs are told apart up to case.                        *)
(* A definition marked mutant is a plausible bug in the one below it; no   *)
(* behaviour uses it.                                                      *)
(***************************************************************************)
EXTENDS Integers, Sequences

CONSTANTS
    Reports, \* records of the parts of a report, see ReportAssumption
    NONE     \* what is absent or unset

(* A word is one that %llx reads, a dash, a UUID of 32 digits in angle
   brackets, something else behind an angle bracket, or any other. *)
Word == [kind : {"hex", "dash", "uuid", "odd", "other"}, text : STRING]

(* path is NONE without a "Path:" and "" when the rest of its line is blank. *)
ReportAssumption ==
    \A r \in Reports :
        /\ r.images # NONE =>
              /\ r.images.words \in Seq(Word)
              /\ r.images.starts \in Seq(0 .. Len(r.images.words)) /\ r.images.starts # <<>>
        /\ r.path = NONE \/ r.path \in STRING
        /\ r.exception \in BOOLEAN /\ r.tells \in STRING

VARIABLES
    report, \* constant
    at,     \* the part that is read next
    line,   \* the line of images that is read next
    image,  \* m_img_addr, m_img_end_addr, m_image_name, m_uuid
    links,  \* m_linkLibWithUUID: pairs of name and UUID, one per name
    type    \* m_type

vars == <<report, at, line, image, links, type>>

NoImage == [addr |-> NONE, end |-> NONE, name |-> NONE, uuid |-> NONE]

Init ==
    /\ report \in Reports
    /\ at = "path" /\ line = 1
    /\ image = NoImage
    /\ links = {} /\ type = "Unknown"

-------------------------------------------------------------------------------
(* "%llx - %llx %s %s  <%32s> %s", word by word. *)
Format == <<"hex", "dash", "hex", "any", "any", "uuid", "any">>

words == report.images.words
Lines == IF report.images = NONE THEN {} ELSE DOMAIN report.images.starts

(* The k-th word behind the start of line i. *)
At(i, k) == words[report.images.starts[i] + k]

Fits(word, wanted) ==
    \/ wanted = "any" \/ word.kind = wanted
    \/ wanted = "uuid" /\ word.kind = "odd"

(* From the start of line i the scan gets through k words; the closing bracket
   is missed only behind the digits. *)
Scans(i, k) ==
    /\ report.images.starts[i] + k <= Len(words)
    /\ \A j \in 1 .. k : Fits(At(i, j), Format[j])
    /\ k = 7 => At(i, 6).kind = "uuid"

(* All six fields were filled. *)
Whole(i) == Scans(i, 7)

ScannedWhole(i, garbage) ==                                         \* mutant
    [addr |-> IF Whole(i) THEN At(i, 1).text ELSE garbage,
     end  |-> IF Whole(i) THEN At(i, 3).text ELSE garbage,
     name |-> IF Scans(i, 4) THEN At(i, 4).text ELSE "",
     uuid |-> IF Scans(i, 6) THEN At(i, 6).text ELSE ""]
(* ParseImagesLine: names that cannot be scanned stay empty, an address that
   is not scanned is whatever the variable held. *)
Scanned(i, garbage) ==
    [addr |-> IF Scans(i, 1) THEN At(i, 1).text ELSE garbage,
     end  |-> IF Scans(i, 3) THEN At(i, 3).text ELSE garbage,
     name |-> IF Scans(i, 4) THEN At(i, 4).text ELSE "",
     uuid |-> IF Scans(i, 6) THEN At(i, 6).text ELSE ""]

(* A blank "Path:" makes a string of a range that ends before it begins,
   which throws. *)
ReadPath ==
    /\ at = "path"
    /\ at' = IF report.path = "" THEN "thrown" ELSE "first"
    /\ UNCHANGED <<report, line, image, links, type>>

FirstLineOver(next) ==
    /\ at = "first"
    /\ IF Lines = {} THEN at' = "type" /\ UNCHANGED image
       ELSE /\ \E garbage \in {NONE, "0"} : image' = Scanned(1, garbage)
            /\ at' = IF Whole(1) THEN "lines" ELSE "type"
    /\ line' = next
    /\ UNCHANGED <<report, links, type>>
FirstLinePassed == FirstLineOver(3)                                 \* mutant
(* The first scan starts right behind the token, and the loop at the end of
   the token's line: the first image, on the line below it, is read twice. *)
FirstLine == FirstLineOver(2)

(* A whole line names a library and its UUID. *)
LinkOf(i) == <<At(i, 4).text, At(i, 6).text>>

LinkBoth(i) == links \cup {LinkOf(i)}                               \* mutant
(* map::insert keeps the pair of a name that is already there. *)
Link(i) == IF \E p \in links : p[1] = LinkOf(i)[1] THEN links ELSE links \cup {LinkOf(i)}

IsMainByName(i) == At(i, 4).text = image.name                       \* mutant
(* The line of the path that the report names is the image that crashed. *)
IsMain(i) == report.path # NONE /\ At(i, 7).text = report.path

NextLineStopping ==                                                 \* mutant
    /\ at = "lines" /\ line \in Lines
    /\ IF Whole(line)
       THEN /\ links' = Link(line)
            /\ image' = IF IsMain(line) THEN Scanned(line, NONE) ELSE image
            /\ line' = line + 1
            /\ UNCHANGED at
       ELSE at' = "type" /\ UNCHANGED <<line, links, image>>
    /\ UNCHANGED <<report, type>>
NextLine ==
    /\ at = "lines" /\ line \in Lines
    /\ line' = line + 1
    /\ IF Whole(line)
       THEN /\ links' = Link(line)
            /\ image' = IF IsMain(line) THEN Scanned(line, NONE) ELSE image
       ELSE UNCHANGED <<links, image>>
    /\ UNCHANGED <<report, at, type>>

LinesEndLate ==                                                     \* mutant
    /\ at = "lines" /\ line \notin Lines /\ line - 1 \notin Lines
    /\ at' = "type"
    /\ UNCHANGED <<report, line, image, links, type>>
LinesEnd ==
    /\ at = "lines" /\ line \notin Lines
    /\ at' = "type"
    /\ UNCHANGED <<report, line, image, links, type>>

(* What the exception's name and its codes are deduced to is not assigned:
   only what the rest of the report tells remains. *)
ParseType ==
    /\ at = "type"
    /\ type' = IF report.exception /\ report.tells = "backtrace" THEN "UnhandledException"
               ELSE IF report.exception /\ report.tells = "thread"
               THEN "UnknownWithCrashedThread" ELSE "Unknown"
    /\ at' = "done"
    /\ UNCHANGED <<report, line, image, links>>

Next == ReadPath \/ FirstLine \/ NextLine \/ LinesEnd \/ ParseType

Spec == Init /\ [][Next]_vars /\ WF_vars(Next)

-------------------------------------------------------------------------------
Listed == Lines # {} /\ Whole(1)

(* The lines of the loop that are whole, and those of the path that crashed. *)
Images == {i \in Lines \ {1} : Whole(i)}
OfPath == {i \in Images : IsMain(i)}

(* Names link to one UUID each. *)
TypeOK ==
    /\ at \in {"path", "first", "lines", "type", "done", "thrown"}
    /\ line \in Nat
    /\ \A p, q \in links : p[1] = q[1] => p = q

(* What a whole line says of its image. *)
ImageOf(i) == [addr |-> At(i, 1).text, end |-> At(i, 3).text,
               name |-> At(i, 4).text, uuid |-> At(i, 6).text]

(* What is shown of the crashed image comes from one scan: of a line of the
   path that the report names if there is one, else of the first. *)
OneImage ==
    at = "done" /\ Listed =>
        \E i \in Images \cup {1} :
            image = ImageOf(i) /\ (IF OfPath = {} THEN i = 1 ELSE i \in OfPath)

(* A UUID is never reported beside addresses that were not read. *)
UUIDWithAddress ==
    image.uuid \notin {NONE, ""} =>
        \E i \in Lines : image.addr = ImageOf(i).addr /\ image.end = ImageOf(i).end

(* Every image is linked, also behind a line that cannot be read; of two with
   one name it is the first.  The image that crashed is linked with itself,
   unless it stands on the token's own line and no path leads to another. *)
LinksComplete ==
    at = "done" /\ Listed =>
        /\ \A i \in Images : \E p \in links : p[1] = LinkOf(i)[1]
        /\ \A p \in links : \E i \in Images :
              p = LinkOf(i) /\ \A j \in Images : j < i => LinkOf(j)[1] # p[1]
        /\ OfPath # {} \/ (2 \in Lines /\ report.images.starts[1] = report.images.starts[2]) =>
              \E p \in links : p[1] = image.name

(* Every report is read to its end, or the path it lacks is thrown at. *)
ParseReturns == <>(at \in {"done", "thrown"})
===============================================================================
