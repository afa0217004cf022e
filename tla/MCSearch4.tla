----------------------------- MODULE MCSearch4 ------------------------------
(* Two buckets of two windows of three addresses, and every list of up to  *)
(* three starts over them: empty windows and buckets, full windows, a key  *)
(* below the first start and a key answered by an earlier window or bucket *)
(* all happen.                                                             *)
EXTENDS Search4, FiniteSets

InOrder == [j \in 1..(Buckets * BucketSize) |-> j - 1]

ShortStartLists ==
  {SelectSeq(InOrder, LAMBDA a : a \in S) :
     S \in {T \in SUBSET Addresses : Cardinality(T) <= 3}}
=============================================================================
