------------------------------ MODULE SortedTable -----------------------------
(***************************************************************************)
(* What the tables of the library use of the standard library: std::sort   *)
(* and std::lower_bound over a vector ordered by a key.                    *)
(* A table is a sequence; its keys are a sequence of the same length.      *)
(***************************************************************************)
EXTENDS Integers, Sequences

F == INSTANCE Functions

Ordered(keys) == \A i, j \in DOMAIN keys : i <= j => keys[i] <= keys[j]

(* Positions an iterator may have; the last one is end(). *)
Places(s) == 1 .. Len(s) + 1

(* The first position whose key is not less than x. *)
IsLowerBound(keys, x, i) ==
    /\ i <= Len(keys) => keys[i] >= x
    /\ \A j \in DOMAIN keys : j < i => keys[j] < x

(* The first position whose key is greater than x. *)
IsUpperBound(keys, x, i) ==
    /\ i <= Len(keys) => keys[i] > x
    /\ \A j \in DOMAIN keys : j < i => keys[j] <= x

(* std::sort promises an order of the keys, not which of two elements with
   equal keys comes first. *)
Sorts(s, keys) ==
    {[i \in DOMAIN s |-> s[p[i]]] :
        p \in {p \in F!Bijection(DOMAIN s, DOMAIN s) :
                  Ordered([i \in DOMAIN s |-> keys[p[i]]])}}

(* t with e put in front of place i. *)
PutAt(s, i, e) == SubSeq(s, 1, i - 1) \o <<e>> \o SubSeq(s, i, Len(s))
===============================================================================
