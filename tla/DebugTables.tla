------------------------------ MODULE DebugTables ------------------------------
(***************************************************************************)
(* dwarf::CDWARFAggregator and its CDWARFCompileUnitTable: which unit      *)
(* answers for an address.  The tables are made and the units parsed when  *)
(* they are first needed and kept until clean(); every stream that is not  *)
(* kept opens the file again.  Nobody tests whether a stream is there.     *)
(* The file may go away at any moment; it comes back only between calls.   *)
(* A definition marked mutant is a plausible bug in the one below it; no   *)
(* behaviour uses it.                                                      *)
(***************************************************************************)
EXTENDS Naturals, Sequences, FiniteSets

CONSTANTS
    Files,     \* debug sections a file may have
    Addresses, \* addresses getInfoByAddress is asked for
    CanVanish, \* the source is a path, not a memory stream
    NULL

(* A unit is a unit: neither NULL nor what answers in place of one; and every
   address has one or NULL. *)
FilesAssumption ==
    /\ NULL \notin BOOLEAN
    /\ \A f \in Files :
        /\ NULL \notin f.good /\ NULL \notin Seq(f.good) /\ "symbol" \notin f.good
        /\ DOMAIN f.cu = Addresses /\ f.cu # NULL
        /\ f.ranges \in BOOLEAN

Sections == {"aranges", "abbrev", "str", "info", "ranges"}

VARIABLES
    file,    \* constant: cu, the unit of an address or NULL; good, the units
             \* that parse; ranges, whether there is a __debug_ranges
    there,   \* the file can be opened
    headers, \* sections whose header was read, m_isloaded
    kept,    \* m_sm_aranges and m_sm_abbrev: sections whose stream is kept
    arange,  \* m_arange: NULL, or the units of the addresses
    abbr,    \* m_abbr: NULL, or whether the declarations are there
    units,   \* m_units: NULL, or the offsets in m_arr
    ranges,  \* m_ranges is there
    at,      \* step of getInfoByAddress, or "idle"
    asked,   \* its address
    answer,  \* the unit that answered, "symbol", or NULL
    fault    \* a NULL stream was used

tables == <<headers, kept, arange, abbr, units, ranges>>
vars == <<file, there, tables, at, asked, answer, fault>>

Init ==
    /\ file \in Files
    /\ there \in IF CanVanish THEN BOOLEAN ELSE {TRUE}
    /\ headers = {} /\ kept = {}
    /\ arange = NULL /\ abbr = NULL /\ units = NULL /\ ranges = FALSE
    /\ at = "idle" /\ asked = NULL /\ answer = NULL /\ fault = FALSE

-------------------------------------------------------------------------------
(* CSection::load and read: a header that was not read leaves no section. *)
Opened(s) == headers' = IF there THEN headers \cup {s} ELSE headers
OpenedAll(S) == headers' = IF there THEN headers \cup S ELSE headers

getInfoByAddress(a) ==
    /\ at = "idle" /\ ~fault
    /\ at' = "aranges" /\ asked' = a /\ answer' = NULL
    /\ UNCHANGED <<file, there, tables, fault>>

ArangesEarly ==                                                     \* mutant
    /\ at = "aranges"
    /\ arange' = IF there THEN file.cu ELSE [a \in Addresses |-> NULL]
    /\ kept' = kept \cup {"aranges"}
    /\ at' = "find"
    /\ Opened("aranges")
    /\ UNCHANGED <<file, there, abbr, units, ranges, asked, answer, fault>>
(* The table is there from the first call on, the stream until clean(). *)
Aranges ==
    /\ at = "aranges"
    /\ IF arange # NULL
       THEN at' = "find" /\ UNCHANGED <<tables, fault>>
       ELSE /\ Opened("aranges")
            /\ fault' = ~there
            /\ IF there THEN /\ arange' = file.cu /\ kept' = kept \cup {"aranges"}
                             /\ at' = "find"
                        ELSE at' = "idle" /\ UNCHANGED <<arange, kept>>
            /\ UNCHANGED <<abbr, units, ranges>>
    /\ UNCHANGED <<file, there, asked, answer>>

(* Without a range the symbol table answers. *)
Find ==
    /\ at = "find"
    /\ \/ /\ arange[asked] = NULL
          /\ answer' = "symbol" /\ at' = "idle"
       \/ /\ arange[asked] # NULL
          /\ at' = "abbreviations" /\ UNCHANGED answer
    /\ UNCHANGED <<file, there, tables, asked, fault>>

Abbreviations ==
    /\ at = "abbreviations"
    /\ IF abbr # NULL
       THEN at' = "extract" /\ UNCHANGED <<tables, fault>>
       ELSE /\ Opened("abbrev")
            /\ fault' = ~there
            /\ IF there THEN /\ abbr' = TRUE /\ kept' = kept \cup {"abbrev"}
                             /\ at' = "extract"
                        ELSE at' = "idle" /\ UNCHANGED <<abbr, kept>>
            /\ UNCHANGED <<arange, units, ranges>>
    /\ UNCHANGED <<file, there, asked, answer>>

Made == IF units = NULL THEN <<>> ELSE units
IsParsed(offset) == \E i \in DOMAIN Made : Made[i] = offset

ExtractKeeping ==                                                   \* mutant
    /\ at = "extract"
    /\ OpenedAll({"str", "info"})
    /\ fault' = (~there /\ ~IsParsed(arange[asked]))
    /\ at' = IF fault' THEN "idle" ELSE "lookup"
    /\ units' = IF ~fault' /\ ~IsParsed(arange[asked]) THEN Append(Made, arange[asked]) ELSE Made
    /\ UNCHANGED <<file, there, kept, arange, abbr, ranges, asked, answer>>
(* extractCompileUnitBy: both streams are opened, a unit that is not in the
   table is parsed behind the others, and taken away if it does not parse. *)
Extract ==
    /\ at = "extract"
    /\ OpenedAll({"str", "info"})
    /\ fault' = (~there /\ ~IsParsed(arange[asked]))
    /\ at' = IF fault' THEN "idle" ELSE "lookup"
    /\ units' = IF ~fault' /\ ~IsParsed(arange[asked]) /\ arange[asked] \in file.good
                THEN Append(Made, arange[asked]) ELSE Made
    /\ UNCHANGED <<file, there, kept, arange, abbr, ranges, asked, answer>>

LookupAgain ==                                                      \* mutant
    /\ at = "lookup"
    /\ at' = IF IsParsed(arange[asked]) THEN "ask" ELSE "extract"
    /\ UNCHANGED <<file, there, tables, asked, answer, fault>>
(* getCompileUnitBy; without a unit the symbol table answers. *)
Lookup ==
    /\ at = "lookup"
    /\ \/ /\ ~IsParsed(arange[asked])
          /\ answer' = "symbol" /\ at' = "idle"
       \/ /\ IsParsed(arange[asked])
          /\ at' = "ask" /\ UNCHANGED answer
    /\ UNCHANGED <<file, there, tables, asked, fault>>

AskRanges ==                                                        \* mutant
    /\ at = "ask"
    /\ OpenedAll({"str", "info", "ranges"})
    /\ fault' = (~there \/ ~file.ranges)
    /\ ranges' = TRUE
    /\ answer' = IF there THEN arange[asked] ELSE answer
    /\ at' = "idle"
    /\ UNCHANGED <<file, there, kept, arange, abbr, units, asked>>
(* getDIEIdxsBy and the names read entries through the same streams, and
   ranges if the file has a section of them; when the file is gone it depends
   on what is still unread whether one of them is used. *)
Ask ==
    /\ at = "ask"
    /\ OpenedAll({"str", "info"} \cup IF file.ranges THEN {"ranges"} ELSE {})
    /\ fault' \in IF there THEN {FALSE} ELSE BOOLEAN
    /\ ranges' = (ranges \/ file.ranges)
    /\ answer' = IF fault' THEN answer ELSE arange[asked]
    /\ at' = "idle"
    /\ UNCHANGED <<file, there, kept, arange, abbr, units, asked>>

CleanTables ==                                                      \* mutant
    /\ at = "idle" /\ ~fault
    /\ kept' = {} /\ abbr' = NULL /\ units' = NULL /\ ranges' = FALSE
    /\ UNCHANGED <<file, there, headers, arange, at, asked, answer, fault>>
clean ==
    /\ at = "idle" /\ ~fault
    /\ kept' = {}
    /\ arange' = NULL /\ abbr' = NULL /\ units' = NULL /\ ranges' = FALSE
    /\ UNCHANGED <<file, there, headers, at, asked, answer, fault>>

Vanish ==
    /\ CanVanish /\ there
    /\ there' = FALSE
    /\ UNCHANGED <<file, tables, at, asked, answer, fault>>
ComeBack ==
    /\ at = "idle" /\ ~fault /\ ~there
    /\ there' = TRUE
    /\ UNCHANGED <<file, tables, at, asked, answer, fault>>

Work == Aranges \/ Find \/ Abbreviations \/ Extract \/ Lookup \/ Ask
Next ==
    \/ \E a \in Addresses : getInfoByAddress(a)
    \/ Work \/ clean \/ Vanish \/ ComeBack

(* A call runs until it returns. *)
Spec == Init /\ [][Next]_vars /\ WF_vars(Work)

-------------------------------------------------------------------------------
TypeOK ==
    /\ file \in Files /\ there \in BOOLEAN
    /\ headers \subseteq Sections /\ kept \subseteq {"aranges", "abbrev"}
    /\ arange = NULL \/ DOMAIN arange = Addresses
    /\ abbr \in BOOLEAN \cup {NULL} /\ ranges \in BOOLEAN
    /\ at \in {"idle", "aranges", "find", "abbreviations", "extract", "lookup", "ask"}
    /\ asked \in Addresses \cup {NULL} /\ fault \in BOOLEAN
    /\ kept = {s \in {"aranges"} : arange # NULL} \cup {s \in {"abbrev"} : abbr # NULL}

(* What is in a table is what the file has, each unit that parses once; a
   table that was made while the file was gone is not kept. *)
TablesWhole ==
    /\ arange \in {NULL, file.cu} /\ abbr \in {NULL, TRUE}
    /\ \A i, j \in DOMAIN Made : Made[i] = Made[j] => i = j
    /\ \A i \in DOMAIN Made : Made[i] \in file.good

(* The answer is the unit of the address if it parses and the symbol table
   otherwise: whatever was asked before, cleaned, or failed. *)
AnswerOfFile ==
    (at = "idle" /\ answer # NULL) =>
        answer = IF file.cu[asked] \in file.good THEN file.cu[asked] ELSE "symbol"

(* A NULL stream is used only if the file is gone: that a section is missing
   that a file need not have is noticed. *)
FaultOnlyGone == fault => ~there

(* Every question gets an answer, or meets a missing file. *)
QuestionsEnd == (at # "idle") ~> (at = "idle" /\ (answer # NULL \/ fault))
===============================================================================
