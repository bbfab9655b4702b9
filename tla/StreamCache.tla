------------------------------ MODULE StreamCache ------------------------------
(***************************************************************************)
(* io::stream_cache<SIZE> reading through an io::substream (one section of *)
(* a Mach-O object) from the stream the object lives in: a read-only       *)
(* io::stream_file of its own, or an io::stream_memory that every other    *)
(* reader of the object shares.  This is the stack CDWARFAggregator builds *)
(* for __debug_info, __debug_line, __debug_str and __debug_ranges.         *)
(* A definition marked mutant is a plausible bug in the one below it; no   *)
(* behaviour uses it.                                                      *)
(***************************************************************************)
EXTENDS Integers, Sequences

CONSTANTS
    kSIZE,       \* capacity of m_buffer
    Start,       \* m_start of the substream
    Size,        \* m_size of the substream, as the section header claims it
    FileSize,    \* bytes that exist in the base stream
    BaseIsFile,  \* stream_file (private, read-only) or stream_memory (shared)
    Byte,        \* byte values
    Junk,        \* a byte that is not the section's: the zeros m_buffer starts
                 \* with, or the memory behind it
    MaxRequest   \* bound on one request and on a seek target

ASSUME StreamAssumption ==
    /\ kSIZE \in Nat \ {0}
    /\ Start \in Nat /\ Size \in Nat /\ FileSize \in Nat /\ MaxRequest \in Nat
    /\ BaseIsFile \in BOOLEAN

VARIABLES
    data,      \* bytes of the base stream
    basePos,   \* its position
    subPos,    \* m_position of the substream
    pos,       \* m_position of the cache
    cachePos,  \* m_cache_position
    hasCache,  \* m_has_cache
    buffer,    \* m_buffer
    out        \* the bytes the last read reported as delivered

parent == <<data, basePos, subPos>>
cache == <<cachePos, hasCache, buffer>>
vars == <<data, basePos, subPos, pos, cachePos, hasCache, buffer, out>>

Smaller(a, b) == IF a < b THEN a ELSE b
Larger(a, b) == IF a < b THEN b ELSE a

(* Bytes of the section that exist: a truncated file has fewer than Size. *)
Avail == Smaller(Size, Larger(FileSize - Start, 0))

(* CSection::read opens the base, seeks it to the section and wraps it. *)
Init ==
    /\ data \in [0 .. FileSize - 1 -> Byte]
    /\ basePos = IF BaseIsFile \/ Start < FileSize THEN Start ELSE 0
    /\ subPos = 0
    /\ pos = 0
    /\ cachePos = 0
    /\ hasCache = FALSE
    /\ buffer \in [0 .. kSIZE - 1 -> {Junk}]
    /\ out = <<>>

-------------------------------------------------------------------------------
(* stream_memory::seek ignores an offset at or past the end;
   stream_file::seek goes anywhere. *)
BaseSeek(o) == IF BaseIsFile \/ o < FileSize THEN o ELSE basePos

(* substream::seek ignores an offset at or past the end. *)
SubSeek(o) == IF o < Size THEN o ELSE subPos

SubReachable(p) == BaseSeek(Start + p) = Start + p

SubCountUnclamped(p, n) ==                                          \* mutant
    IF SubReachable(p) THEN Smaller(n, Larger(FileSize - (Start + p), 0)) ELSE 0

(* Bytes a substream transfers at its position p when asked for n. *)
SubCount(p, n) ==
    IF SubReachable(p)
    THEN Smaller(Smaller(Size - p, n), Larger(FileSize - (Start + p), 0))
    ELSE 0

(* Position the base is left at, after count bytes from p. *)
BaseAfter(p, count) == IF SubReachable(p) THEN Start + p + count ELSE basePos

-------------------------------------------------------------------------------
Seek(o) ==
    /\ pos' = Smaller(o, Size)
    /\ UNCHANGED <<parent, cache, out>>

IsHitUnfilled(n) == pos >= cachePos /\ pos + n < cachePos + kSIZE  \* mutant
IsHit(n) == hasCache /\ pos >= cachePos /\ pos + n < cachePos + kSIZE

(* The bytes come from the buffer, and all n of them count as read. *)
ReadHit(n) ==
    /\ n <= kSIZE
    /\ IsHit(n)
    /\ out' = [i \in 1 .. n |-> buffer[pos - cachePos + i - 1]]
    /\ pos' = Smaller(pos + n, Size)
    /\ UNCHANGED <<parent, cache>>

(* do_read into the buffer: count bytes of the section replace its front. *)
Refilled(from, count) ==
    [i \in 0 .. kSIZE - 1 |->
        IF i < count THEN data[Start + from + i] ELSE buffer[i]]

RefillUnplaced(from, count) ==                                      \* mutant
    hasCache' = TRUE /\ buffer' = Refilled(from, count) /\ UNCHANGED cachePos
Refill(from, count) ==
    hasCache' = TRUE /\ buffer' = Refilled(from, count) /\ cachePos' = from

(***************************************************************************)
(* The buffer is refilled from where the parent says it stands after the   *)
(* seek.  That is not the reader's position when the seek was ignored, and *)
(* the copy then starts pos - cachePos bytes into the buffer or behind it. *)
(***************************************************************************)
ReadMiss(n) ==
    LET from  == SubSeek(pos)
        count == SubCount(from, kSIZE)
        ret   == Smaller(count, n)
    IN
    /\ n <= kSIZE
    /\ ~IsHit(n)
    /\ Refill(from, count)
    /\ out' = [i \in 1 .. ret |-> IF pos - from + i <= kSIZE
                                  THEN buffer'[pos - from + i - 1] ELSE Junk]
    /\ pos' = Smaller(pos + ret, Size)
    /\ subPos' = from + count
    /\ basePos' = BaseAfter(from, count)
    /\ UNCHANGED data

(* A request larger than the buffer goes to the parent. *)
DirectFrom(from, count) ==
    /\ out' = [i \in 1 .. count |-> data[Start + from + i - 1]]
    /\ subPos' = from + count
    /\ basePos' = BaseAfter(from, count)
    /\ UNCHANGED <<data, cache>>

ReadDirectTrusting(n) ==                                            \* mutant
    /\ n > kSIZE
    /\ DirectFrom(SubSeek(pos), SubCount(SubSeek(pos), n))
    /\ pos' = pos + n
ReadDirect(n) ==
    /\ n > kSIZE
    /\ DirectFrom(SubSeek(pos), SubCount(SubSeek(pos), n))
    /\ pos' = pos + SubCount(SubSeek(pos), n)

(* do_write: the reader does not move.  The file is open for reading only,
   so there it transfers nothing. *)
WriteThrough(n, b) ==
    LET from  == SubSeek(pos)
        count == IF BaseIsFile THEN 0 ELSE SubCount(from, n)
    IN
    /\ data' = [a \in 0 .. FileSize - 1 |->
                   IF Start + from <= a /\ a < Start + from + count
                   THEN b ELSE data[a]]
    /\ subPos' = from + count
    /\ basePos' = BaseAfter(from, count)
    /\ UNCHANGED <<pos, cachePos, buffer, out>>

WriteKeepsCache(n, b) == WriteThrough(n, b) /\ UNCHANGED hasCache    \* mutant
Write(n, b) == WriteThrough(n, b) /\ hasCache' = FALSE

(* Somebody else reads the memory stream this section shares. *)
OtherReader(p) ==
    /\ ~BaseIsFile
    /\ basePos' = p
    /\ UNCHANGED <<data, subPos, pos, cache, out>>

Read(n) == ReadHit(n) \/ ReadMiss(n) \/ ReadDirect(n)

Next ==
    \/ \E o \in 0 .. MaxRequest : Seek(o)
    \/ \E n \in 0 .. MaxRequest : Read(n)
    \/ \E n \in 0 .. MaxRequest, b \in Byte : Write(n, b)
    \/ \E p \in 0 .. FileSize : OtherReader(p)

Spec == Init /\ [][Next]_vars

-------------------------------------------------------------------------------
TypeOK ==
    /\ data \in [0 .. FileSize - 1 -> Byte]
    /\ basePos \in Nat
    /\ subPos \in 0 .. Size
    /\ pos \in Nat
    /\ cachePos \in 0 .. Size
    /\ hasCache \in BOOLEAN
    /\ buffer \in [0 .. kSIZE - 1 -> Byte \cup {Junk}]
    /\ out \in Seq(Byte \cup {Junk})

(***************************************************************************)
(* A valid cache holds the section's bytes: every buffer cell that stands  *)
(* for an existing byte of the section equals it, whatever seeks, short    *)
(* reads, writes and other readers came between (stream_cache::read,       *)
(* write, reset_cache).                                                    *)
(***************************************************************************)
CacheCoherent ==
    hasCache => \A i \in 0 .. kSIZE - 1 :
        cachePos + i < Avail => buffer[i] = data[Start + cachePos + i]

(***************************************************************************)
(* The bytes outside the section are never written through its stream:     *)
(* substream::write clamps to its window even when the seek before it was  *)
(* ignored.                                                                *)
(***************************************************************************)
WritesStayInSection ==
    [][\A a \in 0 .. FileSize - 1 :
          (a < Start \/ a >= Start + Size) => data'[a] = data[a]]_vars

(***************************************************************************)
(* The stack implements the stream a DWARF parser relies on: the window is *)
(* the section's part of the base stream.                                  *)
(***************************************************************************)
sectionBytes == [i \in 0 .. Avail - 1 |-> data[Start + i]]

BS == INSTANCE ByteStream WITH window <- sectionBytes

ImplementsByteStream == BS!Spec
===============================================================================
