---------------------------- MODULE MCDebugSections ----------------------------
(***************************************************************************)
(* The parsers of the debug sections, one in each behaviour: a section's   *)
(* parser shares no state with another's, so what is checked is a sum of   *)
(* the four modules, not their product.  The variables of the parts that   *)
(* do not run are Idle.                                                    *)
(***************************************************************************)
EXTENDS Integers, Sequences

CONSTANTS
    RangeSections, LineSections, Sets, Tails, Cuts, Tables, \* inputs
    Offsets, Bases, LineAddresses, \* what is asked for
    Header,             \* units of a line table's prologue
    Top,                \* 2^64
    Codes, Kinds,       \* 2^32 and 2^16
    MaxSets, MaxSz, MaxFiles,
    NULL, Idle

VARIABLES
    part, \* constant: the section that is read
    section, table, query, inRange,          \* RangeLists, LineTables
    whole, node, answer,                     \* LineTables
    at, pos,                                 \* LineTables, AbbrevTable, LinePrologue
    set, stream, abbr, m_map,                \* AbbrevTable
    cells, size, prologue, end_prologue      \* LinePrologue

Ranges == INSTANCE RangeLists WITH
    Sections <- RangeSections
Lines == INSTANCE LineTables WITH
    Sections <- LineSections, Addresses <- LineAddresses
Abbrevs == INSTANCE AbbrevTable
Prologue == INSTANCE LinePrologue

ASSUME RangesAssumption == Ranges!RangesAssumption
ASSUME LineTablesAssumption == Lines!LineTablesAssumption
ASSUME AbbrevTableAssumption == Abbrevs!AbbrevTableAssumption
ASSUME LinePrologueAssumption == Prologue!LinePrologueAssumption

all == <<part, section, table, query, inRange, whole, node, answer, at, pos, set, stream,
         abbr, m_map, cells, size, prologue, end_prologue>>

(* What only one part has, and what several share. *)
rangesOnly == <<query, inRange>>
linesOnly == <<whole, node>>
abbrevsOnly == <<set, stream, abbr, m_map>>
prologueOnly == <<cells, size, prologue, end_prologue>>

NoRanges == query = Idle /\ inRange = Idle
NoLines == whole = Idle /\ node = Idle
NoAbbrevs == set = Idle /\ stream = Idle /\ abbr = Idle /\ m_map = Idle
NoPrologue == cells = Idle /\ size = Idle /\ prologue = Idle /\ end_prologue = Idle

Init ==
    \/ /\ part = "ranges" /\ Ranges!Init /\ at = Idle /\ pos = Idle /\ answer = Idle
       /\ NoLines /\ NoAbbrevs /\ NoPrologue
    \/ /\ part = "lines" /\ Lines!Init
       /\ NoRanges /\ NoAbbrevs /\ NoPrologue
    \/ /\ part = "abbrevs" /\ Abbrevs!Init /\ section = Idle /\ table = Idle /\ answer = Idle
       /\ NoRanges /\ NoLines /\ NoPrologue
    \/ /\ part = "prologue" /\ Prologue!Init /\ section = Idle /\ answer = Idle
       /\ NoRanges /\ NoLines /\ NoAbbrevs

Asked == /\ part = "lines" /\ Lines!Call
         /\ UNCHANGED <<part, rangesOnly, abbrevsOnly, prologueOnly>>
Ran == /\ part = "lines" /\ Lines!Run
       /\ UNCHANGED <<part, rangesOnly, abbrevsOnly, prologueOnly>>
AbbrevsRead ==
    /\ part = "abbrevs" /\ Abbrevs!Next
    /\ UNCHANGED <<part, section, table, answer, rangesOnly, linesOnly, prologueOnly>>
PrologueRead ==
    /\ part = "prologue" /\ Prologue!Next
    /\ UNCHANGED <<part, section, answer, rangesOnly, linesOnly, abbrevsOnly>>
RangesAsked ==
    /\ part = "ranges" /\ Ranges!Next
    /\ UNCHANGED <<part, at, pos, answer, linesOnly, abbrevsOnly, prologueOnly>>

Parse == Ran \/ AbbrevsRead \/ PrologueRead

Next == RangesAsked \/ Asked \/ Parse

(* A call, once made, runs: the process is sequential and never waits. *)
Spec == Init /\ [][Next]_all /\ WF_all(Parse)

-------------------------------------------------------------------------------
(* Type invariant of the four parsers. *)
TypeOK ==
    /\ part = "ranges" => Ranges!TypeOK
    /\ part = "lines" => Lines!TypeOK
    /\ part = "abbrevs" => Abbrevs!TypeOK
    /\ part = "prologue" => Prologue!TypeOK

(* Range lists and line tables are kept from call to call: what was asked for
   before, in which order and with which outcome, never changes an answer. *)
KeptTablesAnswer ==
    /\ part = "ranges" => Ranges!AnswerIsTheLists /\ Ranges!ReadOnce
    /\ part = "lines" =>
        Lines!AnswerIsTheSections /\ Lines!EachTableOnce /\ Lines!SpanningTable

(* Declarations and file names are those of the producer, each in its place;
   of a section that is cut, those in front of the cut. *)
ProducersAreRead ==
    /\ part = "abbrevs" => Abbrevs!SetIsRead /\ Abbrevs!CutIsPrefix
    /\ part = "prologue" => Prologue!FilesAreTheProducers /\ Prologue!CutIsPrefix

(* A call for line tables returns and a parse ends, in a section that is as
   long as its headers claim; the parse of abbreviations in any. *)
ParsesEnd ==
    /\ (part = "lines" /\ Lines!Complete /\ at # "idle") ~> (at = "idle")
    /\ (part = "abbrevs") ~> (at = "done")
    /\ (part = "prologue" /\ Prologue!IsWhole) ~> (at = "done")

-------------------------------------------------------------------------------
(* Range lists: up to three entries, among them the end of a list and one
   that selects a base. *)
Pairs == {<<0, 0>>, <<0, 1>>, <<1, 2>>, <<Top - 1, 1>>}
SomeRanges == UNION {[1 .. n -> Pairs] : n \in 0 .. 3}

(* Line tables: every section of three units, each of which may begin one, with
   rows or without. *)
Claims == {[accepted |-> FALSE, length |-> 0, min |-> 0, max |-> 0],
           [accepted |-> TRUE, length |-> 1, min |-> 9, max |-> 0]} \cup
    {[accepted |-> TRUE, length |-> n, min |-> e[1], max |-> e[2]] :
        n \in 0 .. 3, e \in {<<1, 2>>, <<4, 4>>}}
SomeLines == [1 .. 3 -> Claims]

(* Abbreviations: up to two declarations with up to two attributes and codes
   that may repeat, followed by nothing or by another unit's set. *)
First == [attr |-> 5, form |-> 6]
Second == [attr |-> 7, form |-> 8]
Declarations ==
    [code : {1, 2}, tag : {3, 4}, children : {0, 1}, attrs : {<<>>, <<Second, First>>}]
SomeSets == {<<>>} \cup {<<d>> : d \in Declarations} \cup (Declarations \X Declarations)
NextUnits == {<<>>, <<3, 3, 0, First.attr, First.form, 0, 0>>}
SomeCuts == 0 .. 20

(* Prologues: up to two directories, two files and two defined ones, padding
   behind the files, all versions and one that is refused.  Names of MaxSz and
   more characters do not fit. *)
SomeTables ==
    [version : {2, 4, 5}, lengths : {<<>>, <<1, 0>>}, dirs : {<<>>, <<2>>, <<4, 1>>},
     files : {<<>>, <<1>>, <<2, 1>>, <<5>>}, defined : {<<>>, <<2, 2>>}, pad : {0, 1}]
===============================================================================
