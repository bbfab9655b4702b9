------------------------------- MODULE FormReader -------------------------------
(***************************************************************************)
(* CDWARFFormValue::parse and CDWARFFormValue::Skip: how far each of them  *)
(* moves the stream over the attributes of one debugging entry.  The       *)
(* entries of a unit are skipped when the unit is read (parse_if) and      *)
(* parsed when they are needed (parse_all), so both have to agree with the *)
(* producer on where an attribute ends.                                    *)
(* An attribute is its form, the count the stream holds for it (bytes of a *)
(* LEB128 number or of a string with its NUL, length of a block) and the   *)
(* number of DW_FORM_indirect in front.  Off the attribute's beginning, or *)
(* cut by the end of the stream, that count is whatever the bytes there    *)
(* happen to say.                                                          *)
(* A definition marked mutant is a plausible bug in the one below it; no   *)
(* behaviour uses it.                                                      *)
(***************************************************************************)
EXTENDS Integers, Sequences

CONSTANTS
    Entries,     \* lists of attributes, and where the stream ends
    Units,       \* addrSize and version of the unit
    Counts,      \* counts a stream may hold
    StringLimit  \* sizeof(8192) - 1

Leb == {"udata", "sdata", "ref_udata"}
Block == {"block", "exprloc", "block1", "block2", "block4"}
Fixed == {"data1", "flag", "ref1", "data2", "ref2", "data4", "ref4", "strp",
          "sec_offset", "data8", "ref8", "ref_sig8", "flag_present",
          "addr", "ref_addr"}
KnownForms == Leb \cup Block \cup Fixed \cup {"string"}

Attribute == [form : KnownForms \cup {"unknown"}, count : Nat, indirect : Nat]

FormReaderAssumption ==
    /\ \A e \in Entries : e.cut \in Nat /\ e.attrs \in Seq(Attribute)
    /\ \A u \in Units : u.addrSize \in {4, 8} /\ u.version \in 2 .. 4
    /\ Counts \subseteq Nat
    /\ StringLimit \in Nat \ {0}

VARIABLES
    entry, unit,  \* constant
    parsed,       \* the full parse: attributes read, position, still good
    skipped       \* the same of the skipping one

vars == <<entry, unit, parsed, skipped>>

Fresh == [read |-> 0, pos |-> 0, ok |-> TRUE]

Init ==
    /\ entry \in Entries /\ unit \in Units
    /\ parsed = Fresh /\ skipped = Fresh

-------------------------------------------------------------------------------
(* What the producer wrote (32-bit DWARF). *)
HeadSize(a) ==
    CASE a.form \in Leb \cup {"string"}       -> a.count
      [] a.form \in {"block", "exprloc"}      -> 1
      [] a.form \in {"data1", "flag", "ref1", "block1"} -> 1
      [] a.form \in {"data2", "ref2", "block2"}         -> 2
      [] a.form \in {"data4", "ref4", "strp", "sec_offset", "block4"} -> 4
      [] a.form \in {"data8", "ref8", "ref_sig8"}       -> 8
      [] a.form = "addr"     -> unit.addrSize
      [] a.form = "ref_addr" -> IF unit.version > 2 THEN 4 ELSE unit.addrSize
      [] OTHER               -> 0
BodySize(a) == IF a.form \in Block THEN a.count ELSE 0
SizeOf(a) == a.indirect + HeadSize(a) + BodySize(a)
Start(i) ==
    LET start[n \in 0 .. Len(entry.attrs)] == \* of what is behind attribute n
            IF n = 0 THEN 0 ELSE start[n - 1] + SizeOf(entry.attrs[n])
    IN start[i - 1]

-------------------------------------------------------------------------------
ClampedNot(p) == p                                                  \* mutant
Clamped(p) == IF p < entry.cut THEN p ELSE entry.cut

ParseWidth(form) ==
    CASE form \in {"data1", "flag", "ref1", "block1"} -> 1
      [] form \in {"data2", "ref2", "block2"} -> 2
      [] form \in {"data4", "ref4", "strp", "sec_offset", "block4"} -> 4
      [] form \in {"data8", "ref8", "ref_sig8"} -> 8
      [] form = "flag_present" -> 0
      [] form = "addr" -> IF unit.addrSize = 4 THEN 4 ELSE 8
      [] form = "ref_addr" ->
            IF unit.version > 2 \/ unit.addrSize = 4 THEN 4 ELSE 8
      [] OTHER -> 0

SkipWidthOld(form) ==                                               \* mutant
    CASE form = "ref_addr" -> unit.addrSize
      [] OTHER -> ParseWidth(form)
(* The same cases in the other function; a block's length is read in both. *)
SkipWidth(form) ==
    CASE form \in {"data1", "flag", "ref1", "block1"} -> 1
      [] form \in {"data2", "ref2", "block2"} -> 2
      [] form \in {"data4", "ref4", "strp", "sec_offset", "block4"} -> 4
      [] form \in {"data8", "ref8", "ref_sig8"} -> 8
      [] form = "flag_present" -> 0
      [] form = "addr" -> unit.addrSize
      [] form = "ref_addr" -> IF unit.version > 2 THEN 32 \div 8 ELSE unit.addrSize
      [] OTHER -> 0

StringReadLess(n) == IF n < StringLimit THEN n ELSE StringLimit - 1   \* mutant
(* read_sz with room for StringLimit bytes, the NUL among them. *)
StringRead(n) == IF n < StringLimit THEN n ELSE StringLimit

FixedPart(form, count, width) ==
    CASE form \in Leb -> count
      [] form = "string" -> StringRead(count)
      [] form \in {"block", "exprloc"} -> 1
      [] OTHER -> width

BlockFits(p, n) ==
    IF p + n <= entry.cut THEN [pos |-> p + n, ok |-> TRUE] ELSE [pos |-> p, ok |-> FALSE]

(* Reading a value of the form at a position, whose count is as given. *)
Value(form, count, width, p) ==
    LET head == Clamped(p + FixedPart(form, count, width))
    IN CASE form = "unknown" -> [pos |-> p, ok |-> FALSE]
         [] form \in Block -> BlockFits(head, count)
         [] OTHER -> [pos |-> head, ok |-> TRUE]

(* The attribute is where the stream is, and its head is all there. *)
Whole(i, p) ==
    LET a == entry.attrs[i] IN p = Start(i) /\ p + a.indirect + HeadSize(a) <= entry.cut

FormsAt(i, p) ==
    IF entry.attrs[i].indirect = 0 \/ Whole(i, p) THEN {entry.attrs[i].form}
    ELSE KnownForms \cup {"unknown"}
CountsAt(i, p) == IF Whole(i, p) THEN {entry.attrs[i].count} ELSE Counts
Width(form, full) ==
    IF full THEN ParseWidth(form) ELSE SkipWidth(form)
ReadOne(i, p, full) ==
    {Value(f, n, Width(f, full), Clamped(p + entry.attrs[i].indirect)) :
        f \in FormsAt(i, p), n \in CountsAt(i, p)}

parse ==
    /\ parsed.ok /\ parsed.read < Len(entry.attrs)
    /\ \E v \in ReadOne(parsed.read + 1, parsed.pos, TRUE) :
        parsed' = [read |-> parsed.read + 1, pos |-> v.pos, ok |-> v.ok]
    /\ UNCHANGED <<entry, unit, skipped>>

Skip ==
    /\ skipped.ok /\ skipped.read < Len(entry.attrs)
    /\ \E v \in ReadOne(skipped.read + 1, skipped.pos, FALSE) :
        skipped' = [read |-> skipped.read + 1, pos |-> v.pos, ok |-> v.ok]
    /\ UNCHANGED <<entry, unit, parsed>>

Next == parse \/ Skip

Spec == Init /\ [][Next]_vars

-------------------------------------------------------------------------------
Reading == [read : 0 .. Len(entry.attrs), pos : 0 .. entry.cut, ok : BOOLEAN]
TypeOK == parsed \in Reading /\ skipped \in Reading

Good(i) ==
    LET a == entry.attrs[i] IN
    /\ a.form # "unknown"
    /\ a.form = "string" => a.count <= StringLimit
    /\ Start(i) + SizeOf(a) <= entry.cut

(* Over attributes that are complete, of known forms and without long
   strings, both readers stop where the producer stopped, in units of either
   address size and of every version: the next entry begins there. *)
InStep ==
    \A r \in {parsed, skipped} :
        (\A i \in 1 .. r.read : Good(i)) => r.ok /\ r.pos = Start(r.read + 1)

(* The two readers agree with each other over every attribute whose head lies
   in the stream, strings the limit cuts included, as long as the first of
   them is the last: an entry parsed on demand ends where it was skipped to. *)
ReadersAgree ==
    (/\ parsed.read = skipped.read
     /\ \A i \in 1 .. parsed.read :
            /\ Start(i) + entry.attrs[i].indirect + HeadSize(entry.attrs[i]) <= entry.cut
            /\ (entry.attrs[i].form = "string" /\ entry.attrs[i].count > StringLimit)
                    => i = parsed.read)
    => parsed = skipped

(* "Read the value for the form into value": all of it. *)
ValueRead ==
    (parsed.ok /\ Start(parsed.read + 1) <= entry.cut) => parsed.pos = Start(parsed.read + 1)
===============================================================================
