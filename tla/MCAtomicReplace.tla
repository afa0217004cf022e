-------------------------- MODULE MCAtomicReplace ---------------------------
(* Two builds, one process that maps the database and one loss of power: a *)
(* build that replaces the other's file, one that fails after the other    *)
(* replaced path, a file that is replaced while it is mapped and a crash   *)
(* before, between and after the two renames all happen.                   *)
EXTENDS AtomicReplace, TLC

Symmetric == Permutations(Writers)
=============================================================================
