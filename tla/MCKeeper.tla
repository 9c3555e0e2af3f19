------------------------------ MODULE MCKeeper ------------------------------
(***************************************************************************)
(* Small instances of Keeper.tla.  A tick is half a round window; the      *)
(* constants keep the order of config.mjs: poll = window < second <=       *)
(* timeout <= sample staleness, and watchdog period <= grace.              *)
(***************************************************************************)
EXTENDS Keeper

CONSTANTS x, y, v1, v2

MCWeight == [v \in Venues |-> IF v = v1 THEN 3 ELSE 1]
MCLists == [v \in Venues |-> IF v = v1 THEN Assets ELSE {x}]
=============================================================================
