--------------------------- MODULE MCOracleViews ---------------------------
(***************************************************************************)
(* The instance MCOracleQuorum of the contract with its history views, for *)
(* an I128Max that a full ring at the highest accepted price just reaches. *)
(***************************************************************************)
EXTENDS MCOracle, OracleViews

\* No round, less than the ring holds, all of it and more.
MCRecords == 0..3
=============================================================================
