------------------------------- MODULE Tables -------------------------------
(***************************************************************************)
(* What the tables of a file and the loops over them are made of: the list *)
(* of the IPv6 exceptions, which the builder writes and the Reader looks   *)
(* up and walks, and the halving that the Reader's searches share.         *)
(***************************************************************************)
EXTENDS Integers, Sequences

(* appendExcIdx: the boundaries, from 0, whose low half is not 0.          *)
ExceptionsOf(low) ==
  LET Idx[m \in 0..Len(low)] ==
        IF m = 0 THEN <<>>
        ELSE IF low[m] # 0 THEN Append(Idx[m - 1], m - 1) ELSE Idx[m - 1]
  IN  Idx[Len(low)]

(* Where P begins to hold between lo and hi, if it then goes on: v6ExcLo's *)
(* loop, and start4's.                                                     *)
FirstTrue(P, lo, hi) ==
  LET Search[w \in (lo..hi) \X (lo..hi)] ==
        LET mid == (w[1] + w[2]) \div 2 IN
        IF w[1] >= w[2] THEN w[1]
        ELSE IF P[mid] THEN Search[<<w[1], mid>>] ELSE Search[<<mid + 1, w[2]>>]
  IN  Search[<<lo, hi>>]
=============================================================================
