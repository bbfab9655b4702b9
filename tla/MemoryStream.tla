------------------------------ MODULE MemoryStream ------------------------------
(***************************************************************************)
(* io::stream_memory and io::stream_dmemory, which grows, with what        *)
(* stream_base builds on them: numbers in either byte order (becodec,      *)
(* lecodec), strings that end in zero, and the copy from another stream.   *)
(* A byte has Base values; numbers are of one or of two bytes.             *)
(* A definition marked mutant is a plausible bug in the one below it; no   *)
(* behaviour uses it.                                                      *)
(***************************************************************************)
EXTENDS Integers, Sequences, SequencesExt

CONSTANTS
    Base,    \* values of a byte
    MaxSize, \* bound: no write goes beyond
    kSIZE,   \* size of swrite's buffer
    Sources  \* bytes another stream may hold

Byte == 0 .. (Base - 1)
Widths == {1, 2}
Weight == <<1, Base>> \* of a number's bytes, the least first

MemoryAssumption ==
    /\ Base \in Nat \ {0, 1} /\ MaxSize \in Nat /\ kSIZE \in Nat \ {0}
    /\ Sources \subseteq Seq(Byte)

VARIABLES
    grows,    \* constant: a stream_dmemory
    buffer,   \* m_buffer up to m_size
    pos,      \* m_position
    reserved, \* m_reserved
    held,     \* bytes the allocated block really has
    big,      \* the byte order is big endian
    copying,  \* swrite in progress: [src, size, done, from]
    val,      \* the client's variable that is read into
    answer,   \* the last answer
    copied,   \* history: the stream is a copy of another
    overrun   \* history: a write has left the allocated block

vars == <<grows, buffer, pos, reserved, held, big, copying, val, answer, copied, overrun>>
stream == <<buffer, pos, reserved, held, overrun>>

NotCopying == [src |-> <<>>, size |-> 0, done |-> 0, from |-> 0, all |-> <<>>]
Nothing == [to |-> "none", n |-> 0, width |-> 0, from |-> 0, value |-> 0, bytes |-> <<>>]

Init ==
    /\ grows \in BOOLEAN
    /\ buffer \in UNION {[1 .. n -> {0}] : n \in 0 .. (MaxSize \div 2)}
    /\ pos = 0
    /\ reserved = Len(buffer) /\ held = Len(buffer)
    /\ big = FALSE
    /\ copying = NotCopying
    /\ val = 0 /\ answer = Nothing /\ copied = FALSE /\ overrun = FALSE

-------------------------------------------------------------------------------
Lesser(m, n) == IF m < n THEN m ELSE n
Bytes(from, n) == SubSeq(buffer, from + 1, from + n)
OverRest(bytes) == SubSeq(buffer, 1, pos) \o bytes                  \* mutant
Over(bytes) ==
    [i \in 1 .. (IF pos + Len(bytes) > Len(buffer) THEN pos + Len(bytes) ELSE Len(buffer)) |->
        IF i > pos /\ i <= pos + Len(bytes) THEN bytes[i - pos] ELSE buffer[i]]

ReallocateTight(end) == reserved' = end /\ held' = end - 1          \* mutant
(* The block grows to twice what is needed. *)
Reallocate(end) == reserved' = 2 * end /\ held' = 2 * end

(* stream_dmemory::write: into the reserve if it is large enough. *)
WriteGrowing(bytes) ==
    /\ pos + Len(bytes) <= MaxSize
    /\ IF pos + Len(bytes) > Len(buffer) /\ pos + Len(bytes) > reserved
       THEN /\ Reallocate(pos + Len(bytes))
            /\ buffer' = Over(bytes) /\ pos' = pos + Len(bytes) /\ UNCHANGED overrun
       ELSE /\ UNCHANGED <<reserved, held>>
            /\ IF pos + Len(bytes) <= held
               THEN buffer' = Over(bytes) /\ pos' = pos + Len(bytes) /\ UNCHANGED overrun
               ELSE overrun' = TRUE /\ UNCHANGED <<buffer, pos>>

(* stream_memory::write: as much as there is room for. *)
WriteFixed(bytes) ==
    LET n == Lesser(Len(buffer) - pos, Len(bytes))
    IN  /\ buffer' = Over(SubSeq(bytes, 1, n))
        /\ pos' = pos + n
        /\ UNCHANGED <<reserved, held, overrun>>

Written(bytes) == IF grows THEN Len(bytes) ELSE Lesser(Len(buffer) - pos, Len(bytes))
write(bytes) == IF grows THEN WriteGrowing(bytes) ELSE WriteFixed(bytes)

Readable(n) == Lesser(Len(buffer) - pos, n)

-------------------------------------------------------------------------------
(* becodec and lecodec: byte i of a number holds its digit of that weight. *)
Digit(v, i) == (v \div Weight[i]) % Base
le_encode(v, w) == [i \in 1 .. w |-> Digit(v, i)]
be_encode(v, w) == [i \in 1 .. w |-> Digit(v, w + 1 - i)]

le_decode(bytes) ==
    LET from[i \in 1 .. Len(bytes) + 1] == \* the number of byte i and those behind
            IF i > Len(bytes) THEN 0 ELSE from[i + 1] * Base + bytes[i]
    IN from[1]
be_decodeSame(bytes) == le_decode(bytes)                            \* mutant
be_decode(bytes) == le_decode(Reverse(bytes))

encoded(v, w) == IF big THEN be_encode(v, w) ELSE le_encode(v, w)

be_write(v, w) == big /\ write(be_encode(v, w))
le_write(v, w) == ~big /\ write(le_encode(v, w))

be_value(w) == IF Readable(w) = w THEN be_decode(Bytes(pos, w)) ELSE val
le_value(w) == IF Readable(w) = w THEN le_decode(Bytes(pos, w)) ELSE val

Free == copying = NotCopying /\ ~overrun

set_encoding ==
    /\ Free /\ big' = ~big /\ answer' = Nothing
    /\ UNCHANGED <<grows, stream, copying, val, copied>>

seekAnywhere(offset) ==                                             \* mutant
    /\ Free
    /\ pos' = offset
    /\ answer' = [Nothing EXCEPT !.to = "seek", !.n = pos']
    /\ UNCHANGED <<grows, buffer, reserved, held, overrun, big, copying, val, copied>>
(* stream_memory::seek: an offset at the end or beyond it is ignored. *)
seek(offset) ==
    /\ Free
    /\ pos' = IF offset < Len(buffer) THEN offset ELSE pos
    /\ answer' = [Nothing EXCEPT !.to = "seek", !.n = pos']
    /\ UNCHANGED <<grows, buffer, reserved, held, overrun, big, copying, val, copied>>

t_write(v, w) ==
    /\ Free /\ (be_write(v, w) \/ le_write(v, w))
    /\ answer' = [Nothing EXCEPT !.to = "t_write", !.n = Written(encoded(v, w)), !.width = w,
                                 !.from = pos, !.value = v]
    /\ UNCHANGED <<grows, big, copying, val, copied>>

(* Fewer bytes than the number has: they are skipped, the variable is kept. *)
t_read(w) ==
    /\ Free
    /\ pos' = pos + Readable(w)
    /\ val' = IF big THEN be_value(w) ELSE le_value(w)
    /\ answer' = [Nothing EXCEPT !.to = "t_read", !.n = Readable(w), !.width = w,
                                 !.from = pos, !.value = val]
    /\ UNCHANGED <<grows, buffer, reserved, held, overrun, big, copying, copied>>

write_sz(text) ==
    /\ Free /\ write(Append(text, 0))
    /\ answer' = [Nothing EXCEPT !.to = "write_sz", !.n = Written(Append(text, 0))]
    /\ UNCHANGED <<grows, big, copying, val, copied>>

SizeOfAll(max) == Readable(max)                                     \* mutant
(* One byte at least is tried, and none behind a zero. *)
SizeOfText(max) ==
    CHOOSE n \in 0 .. Readable(max) :
        /\ \A i \in 1 .. (n - 1) : buffer[pos + i] # 0
        /\ n = Readable(max) \/ (n > 0 /\ buffer[pos + n] = 0)

read_sz(max) ==
    /\ Free /\ max > 0
    /\ pos' = pos + SizeOfText(max)
    /\ answer' = [Nothing EXCEPT !.to = "read_sz", !.n = SizeOfText(max), !.width = max,
                                 !.from = pos, !.bytes = Bytes(pos, SizeOfText(max))]
    /\ UNCHANGED <<grows, buffer, reserved, held, overrun, big, copying, val, copied>>

-------------------------------------------------------------------------------
BeginSwrite(src, size) ==
    /\ Free /\ size > 0 /\ pos + size <= MaxSize
    /\ copying' = [src |-> src, size |-> size, done |-> 0, from |-> pos, all |-> src]
    /\ answer' = Nothing
    /\ UNCHANGED <<grows, stream, big, val, copied>>

(* What is read from the source in one turn. *)
Portion == SubSeq(copying.src, 1,
                  Lesser(Len(copying.src), Lesser(kSIZE, copying.size - copying.done)))

Swriting == copying # NotCopying /\ ~overrun

(* What the stream has no room for is gone from the source. *)
SwriteSome ==
    /\ Swriting /\ copying.done < copying.size
    /\ Portion # <<>> /\ Written(Portion) > 0
    /\ write(Portion)
    /\ copying' = [copying EXCEPT !.src = SubSeq(@, Len(Portion) + 1, Len(@)),
                                  !.done = @ + Written(Portion)]
    /\ UNCHANGED <<grows, big, val, answer, copied>>

SwriteFailsFull ==                                                  \* mutant
    /\ Swriting /\ copying.done < copying.size
    /\ Portion # <<>> /\ Written(Portion) = 0
    /\ copying' = NotCopying
    /\ answer' = [Nothing EXCEPT !.to = "swrite", !.width = copying.size]
    /\ UNCHANGED <<grows, stream, big, val, copied>>
SwriteFailsLate ==                                                  \* mutant
    /\ Swriting /\ copying.done < copying.size
    /\ Portion = <<>> \/ Written(Portion) = 0
    /\ copying' = NotCopying
    /\ answer' = [Nothing EXCEPT !.to = "swrite", !.n = copying.done, !.from = copying.from,
                                 !.width = copying.size, !.bytes = copying.all]
    /\ UNCHANGED <<grows, stream, big, val, copied>>
(* Nothing is said of the bytes written before the source or the room ends. *)
SwriteFails ==
    /\ Swriting /\ copying.done < copying.size
    /\ Portion = <<>> \/ Written(Portion) = 0
    /\ copying' = NotCopying
    /\ answer' = [Nothing EXCEPT !.to = "swrite", !.width = copying.size, !.from = copying.from,
                                 !.bytes = copying.all]
    /\ UNCHANGED <<grows, stream, big, val, copied>>

SwriteEnds ==
    /\ Swriting /\ copying.done = copying.size
    /\ copying' = NotCopying
    /\ answer' = [Nothing EXCEPT !.to = "swrite", !.n = copying.done, !.from = copying.from,
                                 !.width = copying.size, !.bytes = copying.all]
    /\ UNCHANGED <<grows, stream, big, val, copied>>

(* The client goes on with a copy: the block is as long as the bytes are,
   the reserve is that of the original. *)
Copy ==
    /\ Free
    /\ pos' = 0 /\ held' = Len(buffer) /\ copied' = TRUE /\ answer' = Nothing
    /\ UNCHANGED <<grows, buffer, reserved, overrun, big, copying, val>>

Swrite == SwriteSome \/ SwriteFails \/ SwriteEnds

Texts == {<<>>, <<1>>, <<1, 1>>}

Next ==
    \/ set_encoding
    \/ \E offset \in 0 .. MaxSize : seek(offset)
    \/ \E w \in Widths : \E v \in 0 .. (Weight[w] * Base - 1) : t_write(v, w)
    \/ \E w \in Widths : t_read(w)
    \/ \E text \in Texts : write_sz(text)
    \/ \E max \in 1 .. MaxSize : read_sz(max)
    \/ \E src \in Sources : \E size \in 1 .. MaxSize : BeginSwrite(src, size)
    \/ Swrite
    \/ Copy

Spec == Init /\ [][Next]_vars /\ WF_vars(Swrite)

-------------------------------------------------------------------------------
(* The position is among the bytes, and the bytes in the reserve. *)
TypeOK ==
    /\ buffer \in Seq(Byte) /\ Len(buffer) <= MaxSize
    /\ pos \in 0 .. Len(buffer)
    /\ Len(buffer) <= reserved
    /\ val \in 0 .. (Base * Base - 1)
    /\ copying.done <= copying.size

(* Only a copy, which takes over a reserve it does not have, is ever written
   to outside its block. *)
InBlock == overrun \/ Len(buffer) > held => copied

(* The value of a number's bytes by its byte order. *)
Value(bytes) == IF Len(bytes) = 1 THEN bytes[1]
                ELSE IF big THEN bytes[1] * Base + bytes[2] ELSE bytes[2] * Base + bytes[1]

(* A number is put with the weights of the byte order and got with the same;
   where a number was not there in full, the variable has its old value. *)
NumbersKept ==
    /\ answer.to = "t_write" /\ answer.n = answer.width /\ ~overrun =>
           Value(Bytes(answer.from, answer.n)) = answer.value
    /\ answer.to = "t_read" =>
           val = IF answer.n = answer.width THEN Value(Bytes(answer.from, answer.n))
                 ELSE answer.value

(* A string is read with its zero and not beyond. *)
TextEnds ==
    answer.to = "read_sz" =>
        /\ \A i \in 1 .. (answer.n - 1) : answer.bytes[i] # 0
        /\ answer.n < answer.width /\ pos < Len(buffer) => Last(answer.bytes) = 0

(* A copy from another stream that reports a size has put all its bytes. *)
SwriteWhole ==
    answer.to = "swrite" /\ answer.n > 0 =>
        /\ answer.n = answer.width
        /\ Bytes(answer.from, answer.n) = SubSeq(answer.bytes, 1, answer.n)

(* A copy from another stream ends, however little the other has. *)
SwriteReturns == (copying # NotCopying) ~> (copying = NotCopying \/ overrun)
===============================================================================
