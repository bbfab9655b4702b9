----------------------------- MODULE MCMachObject -----------------------------
(***************************************************************************)
(* Objects small enough for TLC: an application binary without debug       *)
(* information, complete and incomplete dSYMs, an object that names things *)
(* twice, and an empty one.                                                *)
(***************************************************************************)
EXTENDS MachObject

Segment(n, s) == [cmd |-> "SEGMENT", name |-> n, sections |-> s]
Command(c, i) == [cmd |-> c, id |-> i]

Text == Segment(kSEGMENT_TEXT, {kSECTION_TEXT})

Stripped ==
    <<Command("UUID", 1), Text, Command("LOAD_DYLIB", 1),
      Command("VERSION_MIN", 1), Command("LOAD_WEAK_DYLIB", 2),
      Command("SYMTAB", 1)>>

DSym == <<Command("UUID", 1), Text, Command("SYMTAB", 1),
          Segment(kSEGMENT_DWARF, DebugSections)>>

WithoutRanges ==
    <<Text, Segment(kSEGMENT_DWARF, DebugSections \ {kSECTION_DEBUG_RANGES}),
      Command("UUID", 1)>>

Twice ==
    <<Command("SYMTAB", 1), Segment(kSEGMENT_DWARF, {kSECTION_DEBUG_LINE}),
      Command("UUID", 1), Segment(kSEGMENT_DWARF, DebugSections),
      Command("SYMTAB", 2), Command("UUID", 2)>>

AllCalls == ListUnits \cup Untested \cup
    {"load", "ReadHeader", "GetDebugLines", "NewMachOW", "GetVMAddress",
     "GetSHA256", "ShowSegment", "ShowSection"}

(* Every object in memory; two that lack something on a disk where they come
   and go, which nobody asks for the version; complete ones with clients that
   look no segment up untested. *)
SomePrograms ==
    [file : {Stripped, DSym, WithoutRanges, Twice, <<>>}, onDisk : {FALSE}, calls : {AllCalls}]
    \cup [file : {Stripped, WithoutRanges}, onDisk : {TRUE}, calls : {AllCalls \ {"version"}}]
    \cup [file : {Stripped, DSym}, onDisk : {FALSE}, calls : {AllCalls \ Untested}]
===============================================================================
