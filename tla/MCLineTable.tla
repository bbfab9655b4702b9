------------------------------ MODULE MCLineTable -----------------------------
(* A small prologue for LineTable: specials move the address by 0 or 1. *)
EXTENDS LineTable

SmallPrologue == [minInstLength |-> 1, lineBase |-> -1, lineRange |-> 4,
                  opcodeBase |-> 13]

(* Short programs of every opcode, and longer ones with several sequences, in
   any order of addresses; for the seam, with one address to set. *)
Every == [adjusts |-> {0, 7}, advances |-> {2}, lines |-> {-2}, files |-> {2, 5},
          addresses |-> {3}, max |-> 5]
Sequences_ == [adjusts |-> {7}, advances |-> {}, lines |-> {}, files |-> {},
               addresses |-> {1, 3}, max |-> 7]
SomeEncoders == {Every, Sequences_}
SeamEncoders == {[Sequences_ EXCEPT !.addresses = {3}]}
===============================================================================
