---------------------------- MODULE MCMedianSort ----------------------------
(***************************************************************************)
(* Every vector of one to five prices between 1 and 4: both parities, ties *)
(* of any size, every order.  Two prices at the bound just fit an i128.    *)
(***************************************************************************)
EXTENDS MedianSort

MCInputs == UNION {[1..n -> 1..MAX_PRICE] : n \in 1..5}
=============================================================================
