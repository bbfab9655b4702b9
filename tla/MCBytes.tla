-------------------------------- MODULE MCBytes --------------------------------
(***************************************************************************)
(* How bytes become values: the streams in memory, LEB128 numbers, the     *)
(* attributes of an entry and the variant that holds one.  One of the four *)
(* in each behaviour: they share no state.  The variables of the others    *)
(* are Idle.                                                               *)
(***************************************************************************)
EXTENDS Integers, Sequences

CONSTANTS
    Sources, Digits, Entries, Units, Counts, Forms, \* inputs
    Base, MaxSize, kSIZE,                   \* of streams
    DigitBits, IntBits, LongBits, MaxBytes, \* of LEB128
    StringLimit, Slots, Idle

VARIABLES
    part,                                   \* constant: what is read
    grows, buffer, pos, reserved, held, big, copying, val, answer, copied, overrun, \* MemoryStream
    signed, bytes, more, shift, out, done,  \* Leb128
    entry, unit, parsed, skipped,           \* FormReader
    exists, m_type, string, damaged         \* FormValue

Stream == INSTANCE MemoryStream
Leb == INSTANCE Leb128
Reader == INSTANCE FormReader
Held == INSTANCE FormValue

ASSUME MemoryAssumption == Stream!MemoryAssumption
ASSUME LebAssumption == Leb!LebAssumption
ASSUME FormReaderAssumption == Reader!FormReaderAssumption
ASSUME FormValueAssumption == Held!FormValueAssumption

streamOnly == <<grows, buffer, pos, reserved, held, big, copying, val, answer, copied, overrun>>
lebOnly == <<signed, bytes, more, shift, out, done>>
readerOnly == <<entry, unit, parsed, skipped>>
heldOnly == <<exists, m_type, string, damaged>>
all == <<part, streamOnly, lebOnly, readerOnly, heldOnly>>

NoStream ==
    /\ grows = Idle /\ buffer = Idle /\ pos = Idle /\ reserved = Idle /\ held = Idle
    /\ big = Idle /\ copying = Idle /\ val = Idle /\ answer = Idle /\ copied = Idle
    /\ overrun = Idle
NoLeb ==
    /\ signed = Idle /\ bytes = Idle /\ more = Idle /\ shift = Idle
    /\ out = Idle /\ done = Idle
NoReader == entry = Idle /\ unit = Idle /\ parsed = Idle /\ skipped = Idle
NoHeld == exists = Idle /\ m_type = Idle /\ string = Idle /\ damaged = Idle

Init ==
    \/ part = "stream" /\ Stream!Init /\ NoLeb /\ NoReader /\ NoHeld
    \/ part = "leb" /\ Leb!Init /\ NoStream /\ NoReader /\ NoHeld
    \/ part = "reader" /\ Reader!Init /\ NoStream /\ NoLeb /\ NoHeld
    \/ part = "held" /\ Held!Init /\ NoStream /\ NoLeb /\ NoReader

NotOfStream == UNCHANGED <<part, lebOnly, readerOnly, heldOnly>>

Next ==
    \/ part = "stream" /\ Stream!Next /\ NotOfStream
    \/ part = "leb" /\ Leb!Next /\ UNCHANGED <<part, streamOnly, readerOnly, heldOnly>>
    \/ part = "reader" /\ Reader!Next /\ UNCHANGED <<part, streamOnly, lebOnly, heldOnly>>
    \/ part = "held" /\ Held!Next /\ UNCHANGED <<part, streamOnly, lebOnly, readerOnly>>

(* A copy from another stream runs until it returns. *)
Spec ==
    Init /\ [][Next]_all
        /\ WF_all(part = "stream" /\ Stream!Swrite /\ NotOfStream)

-------------------------------------------------------------------------------
(* Type invariant of the four parts. *)
TypeOK ==
    /\ part = "stream" => Stream!TypeOK
    /\ part = "leb" => Leb!TypeOK
    /\ part = "reader" => Reader!TypeOK
    /\ part = "held" => Held!TypeOK

(* Writes stay in the stream's block, unless it is a copy, numbers and texts
   come back as they were put, and what swrite reports it has put. *)
StreamKeeps ==
    part = "stream" =>
        Stream!InBlock /\ Stream!NumbersKept /\ Stream!TextEnds /\ Stream!SwriteWhole

(* The stream is a tape of bytes: no byte but those it puts ever changes. *)
Tape == INSTANCE ByteTape WITH
    Byte <- Stream!Byte,
    tape <- IF part = "stream" THEN buffer ELSE <<>>,
    at <- IF part = "stream" THEN pos ELSE 0
ImplementsTape == Tape!Spec

(* The two readers of attributes stay in step with the producer and with each
   other, LEB128 numbers are exact as far as they fit an int, and an attribute
   holds a string exactly while its form says so. *)
AttributesKept ==
    /\ part = "leb" => Leb!SmallExact
    /\ part = "reader" => Reader!InStep /\ Reader!ReadersAgree
    /\ part = "held" => Held!StringsAreTyped /\ Held!NoDamage

(* "Read the value for the form into value": all of it. *)
ValueRead == part = "reader" => Reader!ValueRead

(* A copy from another stream ends, however little the other has. *)
SwriteReturns ==
    (part = "stream" /\ copying # Stream!NotCopying)
        ~> (copying = Stream!NotCopying \/ overrun = TRUE)

-------------------------------------------------------------------------------
SomeSources == {<<>>, <<1>>, <<1, 0, 1>>}

(* No bit, the lowest, the sign and all of them. *)
SomeDigits == {0, 1, 2 ^ (DigitBits - 1), 2 ^ DigitBits - 1}

(* Entries of one and two attributes of every form, with streams that end
   anywhere in or behind them. *)
Attr(f, n, k) == [form |-> f, count |-> n, indirect |-> k]
FixedForms == {"data1", "flag", "ref1", "data2", "ref2", "data4", "ref4", "strp", "sec_offset",
               "data8", "ref8", "ref_sig8", "flag_present", "addr", "ref_addr"}
Attributes ==
    {Attr(f, 0, 0) : f \in FixedForms \cup {"unknown"}}
    \cup {Attr(f, n, 0) : f \in {"udata", "sdata", "ref_udata", "string"}, n \in {1, 2}}
    \cup {Attr(f, n, 0) : f \in {"block", "exprloc", "block1", "block2", "block4"}, n \in {0, 2}}
    \cup {Attr("string", 3, 0), Attr("string", 5, 0)}
    \cup {Attr(f, 2, k) : f \in {"data2", "block1", "unknown"}, k \in {1, 2}}
Lists == {<<a>> : a \in Attributes} \cup {<<a, b>> : a \in Attributes, b \in Attributes}
Ends == {0, 1, 2, 3, 5, 8, 12, 20}
SmallEntries == [attrs : Lists, cut : Ends]
SmallUnits == {[addrSize |-> 4, version |-> 2], [addrSize |-> 8, version |-> 2],
               [addrSize |-> 8, version |-> 4]}

(* One form of each type. *)
SomeForms == {"data4", "sdata", "string", "block1", "indirect", "unknown"}
===============================================================================
