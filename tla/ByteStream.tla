------------------------------ MODULE ByteStream ------------------------------
(***************************************************************************)
(* What a reader of a debug section relies on when it holds an             *)
(* io::stream_base: a window of bytes, a position, and reads that deliver  *)
(* the bytes at the position and move it past them.  Inside the available  *)
(* bytes the promise is exact.  A read that runs past them still delivers  *)
(* every byte that is left, in front of whatever the implementation adds,  *)
(* and moves the reader by what it delivered, at most to the end.          *)
(***************************************************************************)
EXTENDS Integers, Sequences

CONSTANTS
    Avail,      \* number of bytes that really exist in the window
    Size,       \* size the window claims to have
    Byte,       \* byte values
    Junk,       \* a byte that does not come from the window
    MaxRequest  \* bound on the size of one request and on a seek target

VARIABLES
    window,     \* the bytes, 0 .. Avail - 1
    pos,        \* position of the reader
    out         \* what the last read delivered

vars == <<window, pos, out>>

Window == [0 .. Avail - 1 -> Byte]

Smaller(a, b) == IF a < b THEN a ELSE b

Init ==
    /\ window \in Window
    /\ pos = 0
    /\ out = <<>>

Seek(o) ==
    /\ pos' = Smaller(o, Size)
    /\ UNCHANGED <<window, out>>

ReadInside(n) ==
    /\ pos + n <= Avail
    /\ out' = [i \in 1 .. n |-> window[pos + i - 1]]
    /\ pos' = pos + n
    /\ UNCHANGED window

ReadPastEnd(n) ==
    /\ pos + n > Avail
    /\ out' \in Seq(Byte \cup {Junk})
    /\ Len(out') <= n
    /\ \A i \in 1 .. Avail - pos :
          i <= Len(out') /\ out'[i] = window[pos + i - 1]
    /\ pos' \in Nat
    /\ pos < Avail => pos' = Smaller(pos + Len(out'), Size)
    /\ UNCHANGED window

(***************************************************************************)
(* A write replaces bytes from the position on and does not move the       *)
(* reader.  Behind the last byte it is not defined where it lands.         *)
(***************************************************************************)
Write(n) ==
    /\ window' \in Window
    /\ pos < Size =>
         \A i \in 0 .. Avail - 1 :
             ~(pos <= i /\ i < pos + n) => window'[i] = window[i]
    /\ UNCHANGED <<pos, out>>

Next ==
    \/ \E o \in 0 .. MaxRequest : Seek(o)
    \/ \E n \in 0 .. MaxRequest : ReadInside(n) \/ ReadPastEnd(n) \/ Write(n)

Spec == Init /\ [][Next]_vars
===============================================================================
