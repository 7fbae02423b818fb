-------------------------- MODULE MCPlayerService --------------------------
(***************************************************************************)
(* PlayerService for TLC: two sessions follow each other on one player,    *)
(* so that what the first leaves behind meets the second.  Every trouble   *)
(* is allowed, up to three of them in a behaviour.                         *)
(***************************************************************************)
EXTENDS PlayerService, FiniteSets

UpToThreeTroubles == Cardinality(met) <= 3
=============================================================================
