------------------------------ MODULE MCMerger ------------------------------
(* Six addresses and two records: up to six networks, so that two runs, a  *)
(* gap between them, a run of several networks and a network before, after *)
(* and between them all happen, and the last address may be covered.       *)
EXTENDS Merger
=============================================================================
