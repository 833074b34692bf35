---------------------------- MODULE MCReverseSwap ----------------------------
(* Instances of ReverseSwap for TLC. *)
EXTENDS ReverseSwap

\* Every swap times out at block 2: one block passes before, one after.
MCTimeout == [s \in Swaps |-> 2]

\* Every swap times out at the next block.
MCTimeoutNext == [s \in Swaps |-> 1]
=============================================================================
