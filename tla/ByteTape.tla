-------------------------------- MODULE ByteTape --------------------------------
(***************************************************************************)
(* What a stream in memory promises: bytes and a position among them.      *)
(* Bytes are put at the position, over those that are there and beyond     *)
(* their end; the position moves; no byte goes away.                       *)
(***************************************************************************)
EXTENDS Naturals, Sequences

CONSTANT Byte

VARIABLES tape, at

Init == tape \in Seq(Byte) /\ at = 0

Overlay(old, from, new) ==
    [i \in 1 .. (IF from + Len(new) > Len(old) THEN from + Len(new) ELSE Len(old)) |->
        IF i > from /\ i <= from + Len(new) THEN new[i - from] ELSE old[i]]

(* Between two positions of one step lie the bytes it has put. *)
Put ==
    /\ at' > at
    /\ at' <= Len(tape')
    /\ tape' = Overlay(tape, at, SubSeq(tape', at + 1, at'))

Move == at' \in 0 .. Len(tape) /\ UNCHANGED tape

Next == Put \/ Move

Spec == Init /\ [][Next]_<<tape, at>>
===============================================================================
