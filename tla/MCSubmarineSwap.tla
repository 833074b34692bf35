--------------------------- MODULE MCSubmarineSwap ---------------------------
(* Instances of SubmarineSwap for TLC. *)
EXTENDS SubmarineSwap

\* Every swap times out at block 1.
MCTimeout == [s \in Swaps |-> 1]
=============================================================================
