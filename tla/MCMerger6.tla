----------------------------- MODULE MCMerger6 ------------------------------
(* Five addresses and two records; the top of the address space is reached *)
(* by the last network of every path.                                      *)
EXTENDS Merger6
=============================================================================
