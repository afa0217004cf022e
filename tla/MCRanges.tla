------------------------------ MODULE MCRanges ------------------------------
(* Three buckets of two IPv4 addresses.  IPv6 addresses of five top halves *)
(* and four low ones, with alias prefixes placed as the real ones are: two *)
(* inside the first top half, two of a whole top half each, and addresses  *)
(* between and above them.  Every file of up to three boundaries of one    *)
(* family, next to one of the other; of the IPv6 ones with three, those    *)
(* that begin and end with a covered range.                                *)
EXTENDS Ranges

Address(h, l) == [hi |-> h, lo |-> l]
AliasPrefixes ==
  <<[first |-> Address(0, 0), last |-> Address(0, 0)],
    [first |-> Address(0, 2), last |-> Address(0, 2)],
    [first |-> Address(1, 0), last |-> Address(1, 3)],
    [first |-> Address(3, 0), last |-> Address(3, 3)]>>
Embedded == [x \in {y \in Addresses6 : Aliased(y)} |-> (x.hi + x.lo) % 4]

(* The boundaries at the addresses of T, with ids. *)
Lists(InOrder, T, ids) ==
  LET s == SelectSeq(InOrder, LAMBDA x : x \in T) IN
  {[k \in DOMAIN s |-> [start |-> s[k], id |-> f[k]]] : f \in [DOMAIN s -> ids]}

AtMost2(A) == {{x, y} : x, y \in A} \union {{}}
AtMost3(A) == {T \union {x} : T \in AtMost2(A), x \in A}

InOrder4 == [k \in 1..(Top4 + 1) |-> k - 1]
InOrder6 == [k \in 1..((HiTop + 1) * (LoTop + 1)) |->
               Address((k - 1) \div (LoTop + 1), (k - 1) % (LoTop + 1))]

Lists4 == UNION {Lists(InOrder4, T, 0..2) : T \in AtMost3(Addresses4)}
Lists6 == UNION {Lists(InOrder6, T, 0..2) : T \in AtMost2(Addresses6)}
          \union {l \in UNION {Lists(InOrder6, T, 0..1) :
                             T \in AtMost3(Addresses6) \ {{}}} :
                    l[1].id = 1 /\ l[Len(l)].id = 1}
One4 == <<[start |-> 1, id |-> 1]>>
One6 == <<[start |-> Address(1, 2), id |-> 1]>>

SmallFiles == {[v4 |-> l, v6 |-> One6] : l \in Lists4}
              \union {[v4 |-> One4, v6 |-> l] : l \in Lists6}
=============================================================================
