----------------------------- MODULE MCStacksSwap -----------------------------
(* Instances of StacksSwap for TLC. *)
EXTENDS StacksSwap

\* Every swap times out at block 1: one block passes before, one after.
MCStacksTimeout == [s \in StxSwaps |-> 1]
=============================================================================
