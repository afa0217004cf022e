----------------------------- MODULE MCSearch6 ------------------------------
(* Two buckets of four values of hi, low halves of 0 to 2, and at most two *)
(* bits of slots: every list of up to three starts over all of it, and     *)
(* every list of four to six over two values of hi, which are more starts  *)
(* than the slots are for.  Slots of one, two and four values of hi, empty *)
(* ones, and steps back over one and two exceptions happen.                *)
EXTENDS Search6, FiniteSets

LoCount == LoTop + 1
InOrder ==
  [a \in 1..(Buckets * BucketSize * LoCount) |->
     [hi |-> (a - 1) \div LoCount, lo |-> (a - 1) % LoCount]]

ListOf(T) == SelectSeq(InOrder, LAMBDA a : a \in T)

Pairs == {{a, b} : a, b \in Addresses}

ShortStartLists ==
  {<<>>}
  \union {ListOf(T) : T \in Pairs}
  \union {ListOf(T \union {a}) :
            T \in {U \in Pairs : \A b \in U : b.hi < BucketSize},
            a \in Addresses}
  \union {ListOf(T) : T \in SUBSET {a \in Addresses : a.hi \in {1, 2}}}
=============================================================================
