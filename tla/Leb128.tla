--------------------------------- MODULE Leb128 ---------------------------------
(***************************************************************************)
(* stream_base::read_uleb128 and read_sleb128, byte by byte, with the      *)
(* widths of the code's integers: a byte's bits are shifted in an unsigned *)
(* int (32 bits) and collected in a 64-bit integer.  A shift of the width  *)
(* of an int or more is undefined: the bits land where the shift modulo    *)
(* the width puts them, or are lost.                                       *)
(* A definition marked mutant is a plausible bug in the one below it; no   *)
(* behaviour uses it.                                                      *)
(***************************************************************************)
EXTENDS Integers, Sequences

CONSTANTS
    DigitBits, \* payload bits of a byte: 7 in the code
    IntBits,   \* 32 in the code
    LongBits,  \* 64 in the code
    Digits,    \* payloads a byte may have
    MaxBytes   \* bound: bytes the stream may hold

LebAssumption ==
    /\ DigitBits \in Nat \ {0} /\ IntBits \in Nat /\ LongBits \in Nat
    /\ DigitBits < IntBits /\ IntBits < LongBits
    /\ (IntBits - 1) % DigitBits # 0
    /\ Digits \subseteq 0 .. (2 ^ DigitBits - 1)

VARIABLES
    signed, \* constant: which of the two functions
    bytes,  \* history: the payloads read
    more,   \* the last byte had the continuation bit
    shift, out,
    done

vars == <<signed, bytes, more, shift, out, done>>

Init ==
    /\ signed \in BOOLEAN
    /\ bytes = <<>> /\ more = TRUE
    /\ shift = 0 /\ out = 0 /\ done = FALSE

-------------------------------------------------------------------------------
AsInt(v) == v % (2 ^ IntBits)

(* The bits of two longs together. *)
Bit(v, i) == (v \div 2 ^ i) % 2
Or(a, b) ==
    LET lower[n \in 0 .. LongBits] == \* of the lowest n bits
            IF n = 0 THEN 0
            ELSE IF Bit(a, n - 1) = 1 \/ Bit(b, n - 1) = 1 THEN lower[n - 1] + 2 ^ (n - 1)
            ELSE lower[n - 1]
    IN lower[LongBits]

(* What a payload shifted as an unsigned int can be. *)
Shifted(digit) ==
    IF shift < IntBits THEN {AsInt(digit * 2 ^ shift)}
    ELSE {AsInt(digit * 2 ^ (shift % IntBits)), 0}

ReadByteLastUnshifted(digit, continued) ==                          \* mutant
    /\ ~done /\ more /\ Len(bytes) < MaxBytes
    /\ \E part \in Shifted(digit) : out' = Or(out, part)
    /\ bytes' = Append(bytes, digit)
    /\ shift' = IF continued THEN shift + DigitBits ELSE shift
    /\ more' = continued
    /\ UNCHANGED <<signed, done>>
ReadByte(digit, continued) ==
    /\ ~done /\ more /\ Len(bytes) < MaxBytes
    /\ \E part \in Shifted(digit) : out' = Or(out, part)
    /\ bytes' = Append(bytes, digit)
    /\ shift' = shift + DigitBits
    /\ more' = continued
    /\ UNCHANGED <<signed, done>>

IsNegative == bytes # <<>> /\ bytes[Len(bytes)] >= 2 ^ (DigitBits - 1)

(* -(1 << shift) is an int, converted to a long. *)
Extension ==
    IF shift < IntBits THEN {2 ^ LongBits - 2 ^ shift}
    ELSE {2 ^ LongBits - 2 ^ (shift % IntBits), 0}

NegativeAlways == shift < LongBits                                  \* mutant
Negative == shift < LongBits /\ IsNegative

(* Behind the last byte of the number, or of the stream. *)
Return ==
    /\ ~done
    /\ done' = TRUE
    /\ IF signed /\ Negative
       THEN \E e \in Extension : out' = Or(out, e)
       ELSE UNCHANGED out
    /\ UNCHANGED <<signed, bytes, more, shift>>

Next ==
    \/ \E digit \in Digits, continued \in BOOLEAN : ReadByte(digit, continued)
    \/ Return

Spec == Init /\ [][Next]_vars

-------------------------------------------------------------------------------
(* The number that the bytes encode. *)
Unsigned ==
    LET Sum[n \in 0 .. Len(bytes)] ==
            IF n = 0 THEN 0 ELSE Sum[n - 1] + bytes[n] * 2 ^ (DigitBits * (n - 1))
    IN  Sum[Len(bytes)]
Width == DigitBits * Len(bytes)
AsLong(v) == v % (2 ^ LongBits)
Encoded ==
    IF signed /\ IsNegative /\ Width < LongBits
    THEN 2 ^ LongBits - (2 ^ Width - Unsigned)
    ELSE AsLong(Unsigned)

(* The result is a long. *)
TypeOK ==
    /\ out \in 0 .. (2 ^ LongBits - 1)
    /\ shift = Width

(* A number that fits an int is read exactly, however many bytes it takes; a
   signed one as long as its bytes fit an int too. *)
SmallExact ==
    /\ done /\ ~signed /\ Unsigned < 2 ^ IntBits => out = Encoded
    /\ done /\ signed /\ Width < IntBits => out = Encoded
===============================================================================
