-------------------------------- MODULE Sums ---------------------------------
(***************************************************************************)
(* Sums of natural numbers over a finite set.  A sum is written as the     *)
(* number of coins the amounts stand for: what is then known of the        *)
(* cardinality of finite sets is known of sums, without an induction.      *)
(***************************************************************************)
EXTENDS Naturals, FiniteSets

(* The coins of a function from anything to amounts: <<x, 1>>, <<x, 2>>    *)
(* and so on up to <<x, amount[x]>>.                                       *)
CoinsOf(amount) == UNION {{x} \X (1..amount[x]) : x \in DOMAIN amount}

Total(amount) == Cardinality(CoinsOf(amount))
=============================================================================
