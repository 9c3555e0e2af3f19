-------------------------------- MODULE Sums --------------------------------
(***************************************************************************)
(* The sums the service and the contract form: weightedAverage's in        *)
(* scripts/keeper/aggregate.mjs and twap()'s in oracle_v0/src/lib.rs.      *)
(***************************************************************************)
EXTENDS Integers, FiniteSetsExt

\* The sum of f over S.
Total(f, S) == MapThenSumSet(LAMBDA x : f[x], S)
=============================================================================
