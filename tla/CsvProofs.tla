----------------------------- MODULE CsvProofs ------------------------------
(***************************************************************************)
(* Proofs about CsvSource, for all address spaces, alias blocks, keys and  *)
(* files of any length.  First, the ranges it adds to each family's merger *)
(* are ranges of that family's addresses, and each lies above all before   *)
(* it, which is what the mergers take for granted (IInv).  Then, that they *)
(* answer what the rows say, all of the way through a row that is split at *)
(* the alias blocks, and that it refuses a file only for its disorder      *)
(* (RowInv).                                                               *)
(***************************************************************************)
EXTENDS CsvSource, TLAPS

(* What row has established when add runs: a well-formed range whose part  *)
(* from cur on is still to be added, and whose key has an id.              *)
Adding ==
  pc = "add" =>
    /\ ~BadBounds /\ Known
    /\ First.a <= cur /\ cur <= Last.a

(* end4 and end6 are at or above everything added. *)
EndIsLast == \A f \in Families : \A t \in added[f] : t.last <= end[f]

Top(f) == IF f = 4 THEN Top4 ELSE Top6

(* The tables that addRange writes. *)
AddedOK ==
  /\ end = [f \in Families |-> end[f]]
  /\ added = [f \in Families |-> added[f]]
  /\ EndIsLast
  /\ \A f \in Families :
       /\ end[f] \in (0..Top(f)) \union {None}
       /\ \A s \in added[f] : /\ s.first \in 0..Top(f) /\ s.last \in 0..Top(f)
                             /\ s.first <= s.last /\ s.rec \in DOMAIN ids

(* The other variables. *)
RestOK ==
  /\ layout \in {"text", "ip2l", "ip2lASN"} /\ v6 \in BOOLEAN
  /\ pc \in {"open", "row", "add", "next", "done", "failed", "panicked"}
  /\ err \in {"none", "syntax", "order"}
  /\ row \in RowsOf(layout)
  /\ prev = [f \in Families |-> prev[f]]
  /\ \A f \in Families : prev[f] \in (0..Top(f)) \union {None}
  /\ ids \in Seq(Keys \ BadKeys)
  /\ cur \in 0..Top6 /\ blk \in 1..(Len(Blocks) + 1)

IInv == RestOK /\ AddedOK /\ Adding

LEMMA InvTypes ==
  ASSUME IInv
  PROVE  TypeOK
BY DEF IInv, RestOK, AddedOK, TypeOK, Top

LEMMA Row ==
  ASSUME row \in RowsOf(layout), layout \in {"text", "ip2l", "ip2lASN"},
         ~BadBounds
  PROVE  /\ Fam \in Families /\ Last.fam = Fam
         /\ First.a \in 0..Top(Fam) /\ Last.a \in 0..Top(Fam)
         /\ First.a <= Last.a
         /\ row.key \in Keys \union {NoData}
<1>1. /\ row # Short /\ ~BadAddress(row.first) /\ ~BadAddress(row.last)
      /\ First.fam = Last.fam /\ ~(Last.a < First.a)
  BY DEF BadBounds
<1>2. /\ row.first \in Addresses /\ row.last \in Addresses
      /\ row.key \in Keys \union {NoData}
  BY <1>1 DEF RowsOf, Addresses
<1>3. ASSUME NEW x \in Addresses, ~BadAddress(x)
      PROVE  /\ Addr(x).fam \in Families
             /\ Addr(x).a \in 0..Top(Addr(x).fam)
             /\ Addr(x).a \in Nat
  <2>1. CASE Decimal /\ ~v6
    <3>1. Addr(x) = [fam |-> 4, a |-> x.a] /\ x.a \in Nat /\ x.a <= Top4
      BY <1>3, <2>1, TopAssumption DEF Addr, BadAddress, Addresses
    <3>. QED  BY <3>1, TopAssumption DEF Top, Families
  <2>2. CASE ~(Decimal /\ ~v6)
    <3>1. Addr(x) = x
      BY <2>2 DEF Addr
    <3>. QED  BY <1>3, <3>1, TopAssumption DEF Top, Families, Addresses
  <2>. QED  BY <2>1, <2>2
<1>4. /\ First.fam \in Families /\ First.a \in 0..Top(First.fam)
      /\ Last.a \in 0..Top(Last.fam) /\ First.a \in Nat /\ Last.a \in Nat
  BY <1>1, <1>2, <1>3 DEF First, Last
<1>. QED  BY <1>1, <1>2, <1>4 DEF Fam

(* Of a step: it adds only above what was there. *)
NewAbove ==
  \A f \in Families : \A s \in added'[f] \ added[f] :
    \A t \in added[f] : t.last < s.first

LEMMA AddRangeStep ==
  ASSUME AddedOK, Known, ids' = ids,
         NEW f \in Families, NEW lo \in 0..Top(f), NEW hi \in 0..Top(f),
         lo <= hi, AddRange(f, lo, hi)
  PROVE  AddedOK' /\ NewAbove
<1> DEFINE new == [first |-> lo, last |-> hi, rec |-> Id]
<1>1. Id \in DOMAIN ids
  BY DEF Known, Id
<1>2. /\ end[f] < lo
      /\ end' = [end EXCEPT ![f] = hi]
      /\ added' = [added EXCEPT ![f] = @ \union {new}]
  BY DEF AddRange, Fits
<1>3. AddedOK
  OBVIOUS
<1>4. Top(f) \in Nat /\ \A g \in Families : Top(g) \in Nat
  BY TopAssumption DEF Top
<1>5. /\ end'[f] = hi /\ added'[f] = added[f] \union {new}
      /\ \A g \in Families \ {f} : end'[g] = end[g] /\ added'[g] = added[g]
      /\ end' = [g \in Families |-> end'[g]]
      /\ added' = [g \in Families |-> added'[g]]
  BY <1>2, <1>3 DEF AddedOK
<1> HIDE DEF new
<1>6. new.first = lo /\ new.last = hi /\ new.rec = Id
  BY DEF new
<1>7. \A t \in added[f] : t.last < lo /\ t.last <= hi
  <2>1. SUFFICES ASSUME NEW t \in added[f] PROVE t.last < lo /\ t.last <= hi
    OBVIOUS
  <2>2. t.last \in 0..Top(f) /\ t.last <= end[f] /\ (end[f] \in 0..Top(f) \/ end[f] = -1)
    BY <1>3 DEF AddedOK, EndIsLast, None
  <2>. QED  BY <1>2, <1>4, <2>2
<1>8. EndIsLast'
  <2>1. SUFFICES ASSUME NEW g \in Families, NEW t \in added'[g]
                 PROVE  t.last <= end'[g]
    BY DEF EndIsLast
  <2>2. CASE g # f
    BY <1>3, <1>5, <2>2 DEF AddedOK, EndIsLast
  <2>3. CASE g = f /\ t \in added[f]
    BY <1>5, <1>7, <2>3
  <2>4. CASE g = f /\ t = new
    BY <1>4, <1>5, <1>6, <2>4
  <2>. QED  BY <1>5, <2>1, <2>2, <2>3, <2>4
<1>9. ASSUME NEW g \in Families
      PROVE  /\ end'[g] \in (0..Top(g)) \union {None}
             /\ \A s \in added'[g] :
                  /\ s.first \in 0..Top(g) /\ s.last \in 0..Top(g)
                  /\ s.first <= s.last /\ s.rec \in DOMAIN ids
  <2>1. CASE g # f
    BY <1>3, <1>5, <1>9, <2>1 DEF AddedOK
  <2>2. CASE g = f
    BY <1>1, <1>3, <1>5, <1>6, <2>2 DEF AddedOK
  <2>. QED  BY <2>1, <2>2
<1>10. NewAbove
  <2>1. SUFFICES ASSUME NEW g \in Families, NEW s \in added'[g] \ added[g],
                        NEW t \in added[g]
                 PROVE  t.last < s.first
    BY DEF NewAbove
  <2>2. g = f /\ s = new
    BY <1>5, <2>1
  <2>. QED  BY <1>6, <1>7, <2>1, <2>2
<1>11. (\A g \in Families :
          /\ end[g] \in (0..Top(g)) \union {None}
          /\ \A s \in added[g] :
               /\ s.first \in 0..Top(g) /\ s.last \in 0..Top(g)
               /\ s.first <= s.last /\ s.rec \in DOMAIN ids)'
  BY <1>9 DEF Top
<1>. QED  BY <1>5, <1>8, <1>10, <1>11 DEF AddedOK

-----------------------------------------------------------------------------
(* What a row says depends on the row and on how its file is read. *)
LEMMA SameRow ==
  ASSUME UNCHANGED source
  PROVE  /\ First' = First /\ Last' = Last /\ Fam' = Fam
         /\ BadBounds' = BadBounds
BY DEF source, First, Last, Fam, Addr, Decimal, BadBounds, BadAddress

(* The alias block that add has come to. *)
LEMMA BlockRange ==
  ASSUME IInv, MoreBlocks
  PROVE  /\ Fam = 6 /\ Block.first \in 0..Top6 /\ Block.last \in 0..(Top6 - 1)
         /\ Block.first <= Block.last /\ Block.first <= Last.a
         /\ Block.v4 => Block.last - Block.first = Top4
         /\ blk + 1 \in 1..(Len(Blocks) + 1)
<1>1. blk \in DOMAIN Blocks /\ Fam = 6 /\ Block.first <= Last.a
      /\ blk + 1 \in 1..(Len(Blocks) + 1)
  BY BlocksAssumption DEF IInv, RestOK, MoreBlocks
<1>2. Block \in [first : 0..Top6, last : 0..(Top6 - 1), v4 : BOOLEAN]
  <2> DEFINE R == [first : 0..Top6, last : 0..(Top6 - 1), v4 : BOOLEAN]
  <2>1. Blocks \in Seq(R)
    BY BlocksAssumption
  <2> HIDE DEF R
  <2>2. Blocks[blk] \in R
    BY <1>1, <2>1
  <2>. QED  BY <2>2 DEF R, Block
<1>. QED  BY <1>1, <1>2, BlocksAssumption DEF Block

(* The row being added. *)
LEMMA AddRow ==
  ASSUME IInv, pc = "add"
  PROVE  /\ ~BadBounds /\ Known
         /\ Fam \in Families /\ Last.fam = Fam
         /\ First.a \in 0..Top(Fam) /\ Last.a \in 0..Top(Fam)
         /\ First.a <= cur /\ cur <= Last.a /\ First.a <= Last.a
         /\ cur \in 0..Top(Fam)
<1>1. ~BadBounds /\ Known /\ First.a <= cur /\ cur <= Last.a /\ cur \in 0..Top6
  BY DEF IInv, Adding, RestOK
<1>2. /\ Fam \in Families /\ Last.fam = Fam /\ First.a <= Last.a
      /\ First.a \in 0..Top(Fam) /\ Last.a \in 0..Top(Fam)
  BY <1>1, Row DEF IInv, RestOK
<1>3. Top(Fam) \in Nat
  BY <1>2, TopAssumption DEF Top
<1>. QED  BY <1>1, <1>2, <1>3

(* A step of add that leaves the tables, or changes them by AddRange. *)
LEMMA Keep ==
  ASSUME AddedOK, UNCHANGED <<end, added>>,
         \A k \in DOMAIN ids : k \in DOMAIN ids'
  PROVE  AddedOK' /\ NewAbove
<1>1. NewAbove
  BY DEF NewAbove
<1>2. AddedOK'
  BY DEF AddedOK, EndIsLast, Top
<1>. QED  BY <1>1, <1>2

LEMMA InitInv ==
  ASSUME Init
  PROVE  IInv
<1>1. RestOK
  <2>1. 0 \in 0..Top6
    BY TopAssumption
  <2>2. 1 \in 1..(Len(Blocks) + 1)
    <3>1. Len(Blocks) \in Nat
      BY BlocksAssumption
    <3>. QED  BY <3>1
  <2>3. ids = <<>> /\ <<>> \in Seq(Keys \ BadKeys)
    BY DEF Init
  <2>. QED  BY <2>1, <2>2, <2>3 DEF Init, RestOK
<1>2. AddedOK
  BY DEF Init, AddedOK, EndIsLast
<1>. QED  BY <1>1, <1>2 DEF IInv, Adding, Init

LEMMA NextInv ==
  ASSUME IInv, [Next]_vars
  PROVE  IInv' /\ NewAbove
<1> USE DEF IInv
<1>1. ASSUME NEW why \in {"syntax", "order"}, Fail(why)
      PROVE  IInv' /\ NewAbove
  <2>1. AddedOK' /\ NewAbove
    BY <1>1, Keep DEF Fail
  <2>2. RestOK' /\ Adding'
    BY <1>1 DEF Fail, RestOK, source, Adding
  <2>. QED  BY <2>1, <2>2
<1>2. CASE RefuseFirstRow \/ RefuseBounds \/ RefuseOrder \/ RefuseFill
           \/ RefuseRange \/ ReadFails
  BY <1>1, <1>2 DEF RefuseFirstRow, RefuseBounds, RefuseOrder, RefuseFill,
                    RefuseRange, ReadFails
<1>3. CASE Panic \/ Open \/ EndOfFile
  <2>1. UNCHANGED <<end, added, ids, layout, row, err, prev, cur, blk>>
        /\ v6' \in BOOLEAN /\ pc' \in {"panicked", "row", "done"}
    BY <1>3 DEF Panic, Open, EndOfFile, source, Decimal, RestOK
  <2>2. AddedOK' /\ NewAbove
    BY <2>1, Keep
  <2>3. RestOK' /\ Adding'
    BY <2>1 DEF RestOK, Adding
  <2>. QED  BY <2>2, <2>3
<1>4. ASSUME NEW r \in RowsOf(layout), ReadRow(r)
      PROVE  IInv' /\ NewAbove
  <2>1. AddedOK' /\ NewAbove
    BY <1>4, Keep DEF ReadRow
  <2>2. RestOK' /\ Adding'
    BY <1>4 DEF ReadRow, RestOK, Adding
  <2>. QED  BY <2>1, <2>2
<1>5. ASSUME Checked
      PROVE  /\ Fam \in Families /\ Last.a \in 0..Top(Fam) /\ ~BadBounds
             /\ First.a \in 0..Top(Fam) /\ First.a <= Last.a
             /\ prev' = [f \in Families |-> prev'[f]]
             /\ \A f \in Families : prev'[f] \in (0..Top(f)) \union {None}
             /\ row.key \in Keys \union {NoData}
  <2>1. /\ Fam \in Families /\ Last.a \in 0..Top(Fam) /\ ~BadBounds
        /\ First.a \in 0..Top(Fam) /\ First.a <= Last.a
        /\ row.key \in Keys \union {NoData}
    BY <1>5, Row DEF Checked, RestOK
  <2>. QED  BY <1>5, <2>1 DEF Checked, RestOK
<1>6. CASE SkipRow
  <2>1. Checked /\ pc' = "next"
        /\ UNCHANGED <<source, err, end, ids, cur, blk, added, rows>>
    BY <1>6 DEF SkipRow
  <2>2. AddedOK' /\ NewAbove
    BY <2>1, Keep
  <2>3. RestOK' /\ Adding'
    BY <1>5, <2>1 DEF RestOK, Adding, source, Top
  <2>. QED  BY <2>2, <2>3
<1>7. CASE StartAdd
  <2>1. /\ Checked /\ row.key # NoData
        /\ Known \/ row.key \notin BadKeys
        /\ ids' = IF Known THEN ids ELSE Append(ids, row.key)
        /\ pc' = "add" /\ cur' = First.a /\ blk' = 1
        /\ UNCHANGED <<source, err, end, added, rows>>
    BY <1>7 DEF StartAdd
  <2>2. /\ ids' \in Seq(Keys \ BadKeys) /\ Known'
        /\ \A k \in DOMAIN ids : k \in DOMAIN ids'
    <3>1. row' = row /\ ids \in Seq(Keys \ BadKeys)
      BY <2>1 DEF source, RestOK
    <3>2. CASE Known
      BY <2>1, <3>1, <3>2 DEF Known
    <3>3. CASE ~Known
      <4>1. row.key \in Keys \ BadKeys /\ ids' = Append(ids, row.key)
        BY <1>5, <2>1, <3>3
      <4>2. /\ ids' \in Seq(Keys \ BadKeys) /\ Len(ids') = Len(ids) + 1
            /\ ids'[Len(ids) + 1] = row.key
        BY <3>1, <4>1
      <4>. QED  BY <3>1, <4>2 DEF Known
    <3>. QED  BY <3>2, <3>3
  <2>3. AddedOK' /\ NewAbove
    BY <2>1, <2>2, Keep
  <2>4. cur' \in 0..Top6 /\ First'.a <= cur' /\ cur' <= Last'.a /\ ~BadBounds'
    <3>1. First.a \in 0..Top6 /\ First.a <= First.a
      BY <1>5, <2>1, TopAssumption DEF Top
    <3>. QED  BY <1>5, <2>1, <3>1, SameRow
  <2>5. RestOK'
    BY <1>5, <2>1, <2>2, <2>4 DEF RestOK, source, Top
  <2>. QED  BY <2>2, <2>3, <2>4, <2>5 DEF Adding
<1>8. ASSUME pc = "add", UNCHANGED <<source, err, prev, ids>>,
             cur' \in 0..Top6, blk' \in 1..(Len(Blocks) + 1),
             pc' = "next" \/ (pc' = "add" /\ First.a <= cur' /\ cur' <= Last.a)
      PROVE  RestOK' /\ Adding'
  <2>1. RestOK'
    BY <1>8 DEF RestOK, source, Top
  <2>2. Adding'
    <3>1. ~BadBounds /\ Known
      BY <1>8, AddRow
    <3>2. Known'
      BY <1>8, <3>1 DEF Known, source
    <3>. QED  BY <1>8, <3>1, <3>2, SameRow DEF Adding
  <2>. QED  BY <2>1, <2>2
<1>9. CASE AddV4
  <2>1. /\ pc = "add" /\ Fam = 4 /\ AddRange(4, First.a, Last.a) /\ pc' = "next"
        /\ UNCHANGED <<source, err, prev, ids, cur, blk, rows>>
    BY <1>9 DEF AddV4
  <2>2. AddedOK' /\ NewAbove
    <3>1. First.a \in 0..Top(4) /\ Last.a \in 0..Top(4) /\ First.a <= Last.a
          /\ Known /\ 4 \in Families
      BY <2>1, AddRow
    <3>. QED  BY <2>1, <3>1, AddRangeStep
  <2>3. RestOK' /\ Adding'
    BY <1>8, <2>1 DEF RestOK
  <2>. QED  BY <2>2, <2>3
<1>10. CASE PassBlock
  <2>1. /\ pc = "add" /\ MoreBlocks /\ blk' = blk + 1
        /\ UNCHANGED <<source, pc, err, prev, end, ids, cur, added, rows>>
    BY <1>10 DEF PassBlock
  <2>2. AddedOK' /\ NewAbove
    BY <2>1, Keep
  <2>3. RestOK' /\ Adding'
    BY <1>8, <2>1, AddRow, BlockRange DEF RestOK
  <2>. QED  BY <2>2, <2>3
<1>11. CASE AddBeforeBlock
  <2>1. /\ pc = "add" /\ MoreBlocks /\ cur < Block.first
        /\ AddRange(6, cur, Block.first - 1) /\ cur' = Block.first
        /\ UNCHANGED <<source, pc, err, prev, ids, blk, rows>>
    BY <1>11 DEF AddBeforeBlock
  <2>2. /\ Fam = 6 /\ Block.first \in 0..Top6 /\ Block.first <= Last.a
        /\ cur \in 0..Top6 /\ First.a <= cur /\ Known /\ 6 \in Families
        /\ First.a \in 0..Top6 /\ Top(6) = Top6
    BY <2>1, AddRow, BlockRange DEF Top
  <2>3. AddedOK' /\ NewAbove
    <3>1. Block.first - 1 \in 0..Top(6) /\ cur <= Block.first - 1
      BY <2>1, <2>2, TopAssumption
    <3>. QED  BY <2>1, <2>2, <3>1, AddRangeStep
  <2>4. RestOK' /\ Adding'
    <3>1. First.a <= Block.first
      BY <2>1, <2>2, TopAssumption
    <3>. QED  BY <1>8, <2>1, <2>2, <3>1 DEF RestOK
  <2>. QED  BY <2>3, <2>4
<1>12. ASSUME pc = "add", AtBlock, LeaveBlock, UNCHANGED <<source, err, prev, ids>>
       PROVE  RestOK' /\ Adding'
  <2>1. /\ MoreBlocks /\ cur <= Block.last
        /\ cur' = IF Last.a <= Block.last THEN cur ELSE Block.last + 1
        /\ blk' = IF Last.a <= Block.last THEN blk ELSE blk + 1
        /\ pc' = IF Last.a <= Block.last THEN "next" ELSE "add"
    BY <1>12 DEF AtBlock, LeaveBlock
  <2>2. /\ Block.last \in 0..(Top6 - 1) /\ blk + 1 \in 1..(Len(Blocks) + 1)
        /\ cur \in 0..Top6 /\ First.a <= cur
        /\ First.a \in 0..Top6 /\ Last.a \in 0..Top6
    BY <1>12, <2>1, AddRow, BlockRange DEF Top
  <2>3. CASE Last.a <= Block.last
    BY <1>8, <1>12, <2>1, <2>2, <2>3 DEF RestOK
  <2>4. CASE ~(Last.a <= Block.last)
    <3>1. /\ Block.last + 1 \in 0..Top6 /\ First.a <= Block.last + 1
          /\ Block.last + 1 <= Last.a
      BY <2>1, <2>2, <2>4, TopAssumption
    <3>. QED  BY <1>8, <1>12, <2>1, <2>2, <2>4, <3>1
  <2>. QED  BY <2>3, <2>4
<1>13. CASE AddMapped
  <2>1. /\ pc = "add" /\ AtBlock /\ Block.v4 /\ LeaveBlock
        /\ AddRange(4, BlockPart[1], BlockPart[2])
        /\ UNCHANGED <<source, err, prev, ids, rows>>
    BY <1>13 DEF AddMapped
  <2>2. AddedOK' /\ NewAbove
    <3>1. /\ MoreBlocks /\ Block.first <= cur /\ cur <= Block.last
      BY <2>1 DEF AtBlock
    <3>2. /\ Block.first \in 0..Top6 /\ Block.last \in 0..(Top6 - 1)
          /\ Block.last - Block.first = Top4
          /\ cur \in 0..Top6 /\ cur <= Last.a /\ Last.a \in 0..Top6
          /\ Known /\ 4 \in Families /\ Top(4) = Top4
      BY <2>1, <3>1, AddRow, BlockRange DEF Top, Families
    <3>3. /\ BlockPart[1] = cur - Block.first
          /\ BlockPart[2] = (IF Last.a < Block.last THEN Last.a ELSE Block.last)
                           - Block.first
      BY DEF BlockPart, Mapped
    <3>4. /\ BlockPart[1] \in 0..Top(4) /\ BlockPart[2] \in 0..Top(4)
          /\ BlockPart[1] <= BlockPart[2]
      BY <3>1, <3>2, <3>3, TopAssumption
    <3>. QED  BY <2>1, <3>2, <3>4, AddRangeStep
  <2>3. RestOK' /\ Adding'
    BY <1>12, <2>1
  <2>. QED  BY <2>2, <2>3
<1>14. CASE LeaveOut
  <2>1. /\ pc = "add" /\ AtBlock /\ LeaveBlock
        /\ UNCHANGED <<source, err, prev, end, ids, added, rows>>
    BY <1>14 DEF LeaveOut
  <2>2. AddedOK' /\ NewAbove
    BY <2>1, Keep
  <2>. QED  BY <1>12, <2>1, <2>2
<1>15. CASE AddRest
  <2>1. /\ pc = "add" /\ Fam = 6 /\ AddRange(6, cur, Last.a) /\ pc' = "next"
        /\ UNCHANGED <<source, err, prev, ids, cur, blk, rows>>
    BY <1>15 DEF AddRest
  <2>2. AddedOK' /\ NewAbove
    BY <2>1, AddRow, AddRangeStep
  <2>3. RestOK' /\ Adding'
    BY <1>8, <2>1 DEF RestOK
  <2>. QED  BY <2>2, <2>3
<1>16. CASE UNCHANGED vars
  <2>1. UNCHANGED <<layout, v6, row, pc, err, prev, end, ids, cur, blk, added>>
    BY <1>16 DEF vars, source
  <2>2. AddedOK' /\ NewAbove
    BY <2>1, Keep
  <2>3. RestOK'
    BY <2>1 DEF RestOK, Top
  <2>4. Adding'
    BY <2>1, SameRow DEF Adding, Known, source
  <2>. QED  BY <2>2, <2>3, <2>4
<1>. QED  BY <1>2, <1>3, <1>4, <1>6, <1>7, <1>9, <1>10, <1>11, <1>13, <1>14,
            <1>15, <1>16 DEF Next

(* The invariant, for every file. *)
THEOREM Invariance == Spec => []IInv
<1>1. IInv /\ [Next]_vars => IInv'
  BY NextInv
<1>. QED  BY <1>1, InitInv, PTL DEF Spec

(* Types: every range has addresses of its family, in order, and the id of *)
(* a record that exists (csvdb/reader.go:266-311).                         *)
THEOREM TypeCorrect == Spec => []TypeOK
BY Invariance, InvTypes, PTL

(* The ranges of each family ascend, whatever mixture of IPv4, IPv6 and    *)
(* IPv4-mapped rows they come from (csvdb/reader.go:302).                  *)
THEOREM AlwaysAbove == Spec => AddedAbove
<1>1. IInv /\ [Next]_vars =>
        [\A f \in Families : \A s \in added'[f] \ added[f] :
           \A t \in added[f] : t.last < s.first]_vars
  BY NextInv DEF NewAbove
<1>. QED  BY <1>1, Invariance, PTL DEF Spec, AddedAbove

-----------------------------------------------------------------------------
(* What the ranges answer, and what the rows ask for. *)
Answers(f, x) ==
  {ids[s.rec] : s \in {t \in added[f] : t.first <= x /\ x <= t.last}}

Wanted(R, f, x) ==
  {r.key : r \in {t \in R : t.key # NoData /\ x \in Image(f, t)}}

(* The current row up to address a. *)
UpTo(a) == [first |-> First, last |-> [fam |-> Fam, a |-> a], key |-> row.key]

(* What has been added is the rows before the current one, and of that one *)
(* what add has come past.                                                 *)
Answered ==
  \A f \in Families : \A x \in 0..Top6 :
    /\ pc \in {"open", "row"} => Answers(f, x) = Wanted(rows, f, x)
    /\ pc = "add" => Answers(f, x) = Wanted(rows \union {UpTo(cur - 1)}, f, x)
    /\ pc \in {"next", "done"} => Answers(f, x) = Wanted(rows \union {AsRead}, f, x)

(* add is past the blocks before blk, and passes none for an IPv4 row; a   *)
(* row without data is not added.                                         *)
Passed ==
  pc = "add" => /\ \A b \in 1..(blk - 1) : Blocks[b].last < cur
                /\ Fam = 4 => blk = 1
                /\ row.key # NoData

(* The rows whose addresses prev holds, once the current one is checked. *)
Compared == IF pc \in {"add", "next", "done"} THEN rows \union {AsRead} ELSE rows

(* Where the ends that rows and ranges are compared with come from. *)
Ordered ==
  /\ \A f \in Families :
       prev[f] # None => \E r \in Compared : r.first.fam = f /\ r.last.a = prev[f]
  /\ end[4] # None =>
       \/ \E r \in rows : r.key # NoData /\ end[4] \in Image(4, r)
       \/ /\ pc \in {"next", "done"} /\ row.key # NoData /\ end[4] \in Image(4, AsRead)
       \/ pc = "add" /\ \E b \in 1..(blk - 1) : Blocks[b].v4 /\ end[4] \in Image(4, AsRead)
  /\ end[6] <= prev[6]
  /\ pc = "add" /\ Fam = 6 => prev[6] = Last.a /\ end[6] < cur

(* A build that fails stops. *)
Stopped == err # "none" => pc = "failed"

RowInv ==
  /\ Answered /\ Passed /\ Stopped /\ RefusesOnlyDisorder
  /\ pc \notin {"failed", "panicked"} => Ordered
-----------------------------------------------------------------------------
(* What belongs to the image of a range of addresses. *)
LEMMA InImage ==
  ASSUME NEW f \in Families, NEW r, NEW x
  PROVE  x \in Image(f, r) <=>
           \/ /\ r.first.fam = f /\ x \in r.first.a..r.last.a
              /\ f = 6 => \A b \in DOMAIN Blocks : ~InBlock(b, x, x)
           \/ /\ f = 4 /\ r.first.fam = 6 /\ x \in 0..Top4
              /\ \E b \in DOMAIN Blocks :
                   Blocks[b].v4 /\ Blocks[b].first + x \in r.first.a..r.last.a
BY DEF Image, Families

LEMMA BlockFacts ==
  ASSUME NEW b \in DOMAIN Blocks
  PROVE  /\ b \in Nat \ {0} /\ b <= Len(Blocks)
         /\ Blocks[b].first \in Nat /\ Blocks[b].last \in Nat
         /\ Blocks[b].first <= Blocks[b].last
         /\ Blocks[b].v4 => Blocks[b].last = Blocks[b].first + Top4
         /\ \A c \in DOMAIN Blocks : b < c => Blocks[b].last < Blocks[c].first
<1> DEFINE R == [first : 0..Top6, last : 0..(Top6 - 1), v4 : BOOLEAN]
<1>1. Blocks \in Seq(R)
  BY BlocksAssumption
<1> HIDE DEF R
<1>2. Blocks[b] \in R /\ b \in Nat \ {0} /\ b <= Len(Blocks)
  BY <1>1
<1>. QED  BY <1>2, BlocksAssumption, TopAssumption DEF R

(* An address of the mapped block. *)
LEMMA MappedAddress ==
  ASSUME NEW b \in DOMAIN Blocks, Blocks[b].v4, NEW x \in 0..Top4
  PROVE  /\ Blocks[b].first + x \in Nat
         /\ Blocks[b].first <= Blocks[b].first + x
         /\ Blocks[b].first + x <= Blocks[b].last
BY BlockFacts, TopAssumption

LEMMA WantedMore ==
  ASSUME NEW R, NEW r, NEW f, NEW x
  PROVE  Wanted(R \union {r}, f, x) =
           Wanted(R, f, x)
           \union (IF r.key # NoData /\ x \in Image(f, r) THEN {r.key} ELSE {})
BY DEF Wanted

LEMMA Unwanted ==
  ASSUME NEW R, NEW r, NEW f, NEW x, r.key = NoData \/ x \notin Image(f, r)
  PROVE  Wanted(R \union {r}, f, x) = Wanted(R, f, x)
BY DEF Wanted

LEMMA UpToFields ==
  ASSUME NEW y
  PROVE  /\ UpTo(y).first = First /\ UpTo(y).last.a = y /\ UpTo(y).key = row.key
         /\ First.fam = Fam
BY DEF UpTo, Fam

LEMMA WholeRow ==
  ASSUME row \in RowsOf(layout), ~BadBounds
  PROVE  UpTo(Last.a) = AsRead
<1>1. row.last \in Addresses /\ Last.fam = Fam
  BY DEF BadBounds, RowsOf, Addresses, Fam
<1>2. Last = [fam |-> Fam, a |-> Last.a]
  BY <1>1 DEF Addresses, Last, Addr
<1>. QED  BY <1>2 DEF UpTo, AsRead

(* What addRange does to the answers. *)
LEMMA AddRangeAnswers ==
  ASSUME IInv, Known, ids' = ids, NEW f \in Families, NEW lo, NEW hi,
         AddRange(f, lo, hi), NEW g \in Families, NEW x
  PROVE  Answers(g, x)' =
           Answers(g, x)
           \union (IF g = f /\ lo <= x /\ x <= hi THEN {row.key} ELSE {})
<1> DEFINE new == [first |-> lo, last |-> hi, rec |-> Id]
<1>1. ids[Id] = row.key
  BY DEF Known, Id
<1>2. /\ added'[f] = added[f] \union {new}
      /\ \A h \in Families \ {f} : added'[h] = added[h]
  BY DEF AddRange, IInv, AddedOK
<1>3. new.first = lo /\ new.last = hi /\ new.rec = Id
  OBVIOUS
<1> HIDE DEF new
<1>4. CASE g # f
  BY <1>2, <1>4 DEF Answers
<1>5. CASE g = f
  BY <1>1, <1>2, <1>3, <1>5 DEF Answers
<1>. QED  BY <1>4, <1>5

(* A step of add answers for what it adds, and comes past nothing else. *)
LEMMA Extend ==
  ASSUME row.key # NoData, NEW f, NEW x, NEW N, NEW y, NEW A,
         Answers(f, x) = Wanted(rows \union {UpTo(cur - 1)}, f, x),
         A = Answers(f, x) \union (IF x \in N THEN {row.key} ELSE {}),
         x \in Image(f, UpTo(y)) <=> (x \in Image(f, UpTo(cur - 1)) \/ x \in N)
  PROVE  A = Wanted(rows \union {UpTo(y)}, f, x)
BY WantedMore, UpToFields

(* Between two blocks every address is its own. *)
LEMMA BetweenBlocks ==
  ASSUME IInv, Passed, pc = "add", Fam = 6, NEW y \in Int, cur <= y, y <= Last.a,
         \A b \in DOMAIN Blocks : blk <= b => y < Blocks[b].first,
         NEW f \in Families, NEW x \in 0..Top6
  PROVE  x \in Image(f, UpTo(y)) <=>
           \/ x \in Image(f, UpTo(cur - 1))
           \/ x \in (IF f = 6 THEN cur..y ELSE {})
<1>1. /\ First.a \in Nat /\ cur \in Nat /\ First.a <= cur /\ blk \in Nat /\ x \in Nat
  BY AddRow, TopAssumption DEF Top, IInv, RestOK
<1>2. ASSUME NEW b \in DOMAIN Blocks, NEW z \in cur..y
      PROVE  ~InBlock(b, z, z)
  <2>1. CASE b < blk
    BY <1>1, <2>1, BlockFacts DEF Passed, InBlock
  <2>2. CASE blk <= b
    BY <1>1, <2>2, BlockFacts DEF InBlock
  <2>. QED  BY <1>1, <2>1, <2>2, BlockFacts
<1>3. First.a..y = (First.a..(cur - 1)) \union (cur..y)
  BY <1>1
<1>4. CASE f = 6
  BY <1>2, <1>3, <1>4, InImage, UpToFields
<1>5. CASE f = 4
  <2>1. ASSUME NEW b \in DOMAIN Blocks, Blocks[b].v4, x \in 0..Top4
        PROVE  Blocks[b].first + x \notin cur..y
    BY <1>2, <2>1, MappedAddress DEF InBlock
  <2>. QED  BY <1>3, <1>5, <2>1, InImage, UpToFields
<1>. QED  BY <1>4, <1>5 DEF Families

(* Inside a block no address is looked up as IPv6, and those of the mapped *)
(* block are as IPv4.                                                      *)
LEMMA InsideBlock ==
  ASSUME IInv, pc = "add", AtBlock, NEW y \in Int, cur <= y, y <= Block.last,
         NEW f \in Families, NEW x \in 0..Top6
  PROVE  x \in Image(f, UpTo(y)) <=>
           \/ x \in Image(f, UpTo(cur - 1))
           \/ x \in (IF f = 4 /\ Block.v4
                     THEN (cur - Block.first)..(y - Block.first) ELSE {})
<1>1. /\ First.a \in Nat /\ cur \in Nat /\ First.a <= cur /\ Fam = 6 /\ x \in Nat
      /\ blk \in DOMAIN Blocks /\ Block.first <= cur /\ Block = Blocks[blk]
  <2>1. MoreBlocks /\ Block.first <= cur
    BY DEF AtBlock
  <2>2. /\ First.a \in 0..Top(Fam) /\ First.a <= cur /\ Fam = 6
        /\ cur \in 0..Top6 /\ blk \in 1..(Len(Blocks) + 1) /\ blk <= Len(Blocks)
    BY <2>1, AddRow DEF IInv, RestOK, MoreBlocks
  <2>. QED  BY <2>1, <2>2, TopAssumption, BlocksAssumption DEF Top, Block
<1>2. /\ Block.first \in Nat /\ Block.last \in Nat
      /\ Block.v4 => Block.last = Block.first + Top4
  BY <1>1, BlockFacts
<1>3. First.a..y = (First.a..(cur - 1)) \union (cur..y)
  BY <1>1
<1>4. CASE f = 6
  <2>1. x \in cur..y => InBlock(blk, x, x)
    BY <1>1, <1>2 DEF InBlock
  <2>. QED  BY <1>1, <1>3, <1>4, <2>1, InImage, UpToFields
<1>5. CASE f = 4
  <2>1. ASSUME NEW b \in DOMAIN Blocks, Blocks[b].v4, x \in 0..Top4,
               Blocks[b].first + x \in cur..y
        PROVE  b = blk
    <3>1. /\ Blocks[b].first <= Block.last /\ Block.first <= Blocks[b].last
          /\ b \in Nat /\ blk \in Nat
      <4>1. /\ Blocks[b].first \in Nat /\ Blocks[b].last \in Nat
            /\ Blocks[b].first <= Blocks[b].first + x
            /\ Blocks[b].first + x <= Blocks[b].last
            /\ b \in Nat /\ blk \in Nat
        BY <1>1, <2>1, MappedAddress, BlockFacts
      <4>2. cur <= Blocks[b].first + x /\ Blocks[b].first + x <= y
        BY <1>1, <2>1, <4>1
      <4>. QED  BY <1>1, <1>2, <4>1, <4>2
    <3>2. ~(b < blk) /\ ~(blk < b)
      BY <1>1, <1>2, <3>1, BlockFacts
    <3>. QED  BY <3>1, <3>2
  <2>2. (\E b \in DOMAIN Blocks :
           Blocks[b].v4 /\ x \in 0..Top4 /\ Blocks[b].first + x \in cur..y)
        <=> Block.v4 /\ x \in (cur - Block.first)..(y - Block.first)
    <3>1. ASSUME Block.v4
          PROVE  x \in 0..Top4 /\ Block.first + x \in cur..y
                 <=> x \in (cur - Block.first)..(y - Block.first)
      BY <1>1, <1>2, <3>1, TopAssumption
    <3>. QED  BY <1>1, <2>1, <3>1
  <2>3. x \in Image(f, UpTo(y)) <=>
          \/ x \in Image(f, UpTo(cur - 1))
          \/ \E b \in DOMAIN Blocks :
               Blocks[b].v4 /\ x \in 0..Top4 /\ Blocks[b].first + x \in cur..y
    BY <1>1, <1>3, <1>5, InImage, UpToFields
  <2>. QED  BY <1>5, <2>2, <2>3
<1>. QED  BY <1>4, <1>5 DEF Families
-----------------------------------------------------------------------------
(* Of one step: images depend on addresses only. *)
LEMMA NextWanted ==
  ASSUME NEW f, NEW x
  PROVE  /\ Wanted(rows, f, x)' = Wanted(rows', f, x)
         /\ Wanted(rows \union {UpTo(cur - 1)}, f, x)'
              = Wanted(rows' \union {UpTo(cur - 1)'}, f, x)
         /\ Wanted(rows \union {AsRead}, f, x)' = Wanted(rows' \union {AsRead'}, f, x)
BY DEF Wanted, Image, InBlock

LEMMA SameAnswers ==
  ASSUME IInv, added' = added, \A k \in DOMAIN ids : ids'[k] = ids[k],
         NEW f \in Families, NEW x
  PROVE  Answers(f, x)' = Answers(f, x)
BY DEF Answers, IInv, AddedOK

LEMMA SameAsRead ==
  ASSUME UNCHANGED source
  PROVE  AsRead' = AsRead
BY SameRow DEF AsRead, source

(* A step of add, which comes to address y. *)
LEMMA AnsweredAdd ==
  ASSUME IInv, pc = "add", UNCHANGED <<source, rows>>, NEW y \in Int,
         \A f \in Families : \A x \in 0..Top6 :
           Answers(f, x)' = Wanted(rows \union {UpTo(y)}, f, x),
         (pc' = "add" /\ cur' = y + 1) \/ (pc' = "next" /\ y = Last.a)
  PROVE  Answered'
<1>1. SUFFICES ASSUME NEW f \in Families, NEW x \in 0..Top6
               PROVE  /\ pc' = "add" => Answers(f, x)' =
                           Wanted(rows' \union {UpTo(cur - 1)'}, f, x)
                      /\ pc' = "next" => Answers(f, x)' =
                           Wanted(rows' \union {AsRead'}, f, x)
  BY NextWanted DEF Answered
<1>2. CASE pc' = "add" /\ cur' = y + 1
  <2>1. cur' - 1 = y
    BY <1>2
  <2>2. UpTo(cur - 1)' = UpTo(y)
    BY <2>1, SameRow DEF UpTo, source
  <2>. QED  BY <1>2, <2>2
<1>3. CASE pc' = "next" /\ y = Last.a
  <2>1. AsRead' = UpTo(y)
    BY <1>3, AddRow, WholeRow, SameAsRead DEF IInv, RestOK
  <2>. QED  BY <1>3, <2>1
<1>. QED  BY <1>2, <1>3

(* What a step of add leaves of the comparisons, if prev is as it was and  *)
(* end only goes on with the current row.                                  *)
LEMMA OrderedAdd ==
  ASSUME IInv, RowInv, pc = "add", pc' \in {"add", "next"},
         UNCHANGED <<source, err, prev, rows>>, blk' \in Nat, blk' >= blk,
         \/ end'[4] = end[4]
         \/ end'[4] \in Image(4, AsRead) /\ (pc' = "add" => \E b \in 1..(blk' - 1) : Blocks[b].v4),
         \/ end'[6] = end[6]
         \/ Fam = 6 /\ end'[6] <= Last.a,
         pc' = "add" /\ Fam = 6 => end'[6] < cur'
  PROVE  Ordered'
<1>1. Ordered /\ Compared' = Compared /\ AsRead' = AsRead /\ Fam' = Fam /\ Last' = Last
      /\ row' = row /\ blk \in Nat /\ row.key # NoData
  BY SameAsRead, SameRow DEF RowInv, Compared, IInv, RestOK, source, Passed
<1>2. \A f \in Families :
        prev'[f] # None => \E r \in Compared' : r.first.fam = f /\ r.last.a = prev'[f]
  BY <1>1 DEF Ordered
<1>3. end'[4] # None =>
        \/ \E r \in rows' : r.key # NoData /\ end'[4] \in Image(4, r)
        \/ /\ pc' \in {"next", "done"} /\ row'.key # NoData
           /\ end'[4] \in Image(4, AsRead')
        \/ pc' = "add" /\ \E b \in 1..(blk' - 1) :
                            Blocks[b].v4 /\ end'[4] \in Image(4, AsRead')
  <2>1. CASE end'[4] = end[4]
    <3>1. \A m, n \in Nat : n >= m => \A b \in 1..(m - 1) : b \in 1..(n - 1)
      OBVIOUS
    <3>. QED  BY <1>1, <2>1, <3>1 DEF Ordered
  <2>2. CASE /\ end'[4] \in Image(4, AsRead)
             /\ pc' = "add" => \E b \in 1..(blk' - 1) : Blocks[b].v4
    BY <1>1, <2>2
  <2>. QED  BY <2>1, <2>2
<1>4. end'[6] <= prev'[6]
  BY <1>1 DEF Ordered
<1>5. pc' = "add" /\ Fam' = 6 => prev'[6] = Last'.a /\ end'[6] < cur'
  BY <1>1 DEF Ordered
<1>. QED  BY <1>2, <1>3, <1>4, <1>5 DEF Ordered, Image, InBlock

(* A step that does not fail. *)
LEMMA GoesOn ==
  ASSUME RowInv, pc # "failed", err' = err, Answered', Passed', Ordered'
  PROVE  RowInv'
BY DEF RowInv, Stopped, RefusesOnlyDisorder

LEMMA AddV4Step ==
  ASSUME IInv, RowInv, AddV4
  PROVE  RowInv'
<1>1. /\ pc = "add" /\ Fam = 4 /\ AddRange(4, First.a, Last.a) /\ pc' = "next"
      /\ UNCHANGED <<source, err, prev, ids, cur, blk, rows>>
      /\ Known /\ row.key # NoData
  BY AddRow DEF AddV4, RowInv, Passed
<1>2. /\ First.a \in Nat /\ Last.a \in Nat /\ First.a <= cur /\ cur <= Last.a
      /\ 4 \in Families /\ cur \in Nat /\ blk \in Nat
  BY <1>1, AddRow, TopAssumption DEF Top, Families, IInv, RestOK
<1>3. Answered'
  <2>1. ASSUME NEW f \in Families, NEW x \in 0..Top6
        PROVE  Answers(f, x)' = Wanted(rows \union {UpTo(Last.a)}, f, x)
    <3> DEFINE N == IF f = 4 THEN First.a..Last.a ELSE {}
    <3>1. Answers(f, x) = Wanted(rows \union {UpTo(cur - 1)}, f, x)
      BY <1>1 DEF RowInv, Answered
    <3>2. Answers(f, x)' = Answers(f, x) \union (IF x \in N THEN {row.key} ELSE {})
      BY <1>1, <1>2, AddRangeAnswers
    <3>3. x \in Image(f, UpTo(Last.a)) <=> (x \in Image(f, UpTo(cur - 1)) \/ x \in N)
      BY <1>1, <1>2, InImage, UpToFields
    <3>. QED  BY <1>1, <3>1, <3>2, <3>3, Extend
  <2>. QED  BY <1>1, <1>2, <2>1, AnsweredAdd
<1>4. Ordered'
  <2>1. end'[4] = Last.a /\ end'[6] = end[6]
    BY <1>1, <1>2 DEF AddRange, IInv, AddedOK, Families
  <2>2. Last.a \in Image(4, AsRead)
    BY <1>1, <1>2, InImage DEF AsRead, Fam
  <2>. QED  BY <1>1, <1>2, <2>1, <2>2, OrderedAdd
<1>. QED  BY <1>1, <1>3, <1>4, GoesOn DEF Passed

LEMMA PassBlockStep ==
  ASSUME IInv, RowInv, PassBlock
  PROVE  RowInv'
<1>1. /\ pc = "add" /\ MoreBlocks /\ Fam = 6 /\ Fam' = Fam
      /\ Block.last < cur /\ blk' = blk + 1
      /\ UNCHANGED <<source, pc, err, prev, end, ids, cur, added, rows>>
      /\ blk \in Nat \ {0} /\ cur \in Nat /\ Passed /\ Ordered
  BY SameRow, TopAssumption DEF PassBlock, IInv, RestOK, RowInv, MoreBlocks, source
<1>2. Answered'
  <2>1. \A f \in Families : \A x \in 0..Top6 :
          Answers(f, x)' = Wanted(rows \union {UpTo(cur - 1)}, f, x)
    BY <1>1, SameAnswers DEF RowInv, Answered
  <2>2. cur - 1 \in Int /\ cur' = (cur - 1) + 1
    BY <1>1
  <2>. QED  BY <1>1, <2>1, <2>2, AnsweredAdd
<1>3. Passed'
  <2>1. \A b \in 1..((blk + 1) - 1) : b \in 1..(blk - 1) \/ b = blk
    BY <1>1
  <2>. QED  BY <1>1, <2>1 DEF Passed, Block, source
<1>4. Ordered'
  BY <1>1, OrderedAdd DEF Ordered
<1>. QED  BY <1>1, <1>2, <1>3, <1>4, GoesOn

LEMMA AddBeforeBlockStep ==
  ASSUME IInv, RowInv, AddBeforeBlock
  PROVE  RowInv'
<1>1. /\ pc = "add" /\ MoreBlocks /\ cur < Block.first
      /\ AddRange(6, cur, Block.first - 1) /\ cur' = Block.first
      /\ UNCHANGED <<source, pc, err, prev, ids, blk, rows>>
      /\ blk \in Nat \ {0} /\ cur \in Nat /\ Passed /\ Known /\ row.key # NoData
  BY AddRow, TopAssumption DEF AddBeforeBlock, IInv, RestOK, RowInv, Passed
<1>2. /\ Fam = 6 /\ Block.first \in Nat /\ Block.first <= Last.a /\ Last.a \in Nat
      /\ blk \in DOMAIN Blocks /\ Block = Blocks[blk] /\ 6 \in Families /\ 4 \in Families
  <2>1. Last.a \in 0..Top(Fam) /\ Fam = 6 /\ Block.first \in 0..Top6 /\ Block.first <= Last.a
    BY <1>1, AddRow, BlockRange
  <2>2. Last.a \in Nat /\ Block.first \in Nat
    BY <2>1, TopAssumption DEF Top
  <2>3. blk \in DOMAIN Blocks /\ Block = Blocks[blk]
    BY <1>1, TopAssumption, BlocksAssumption DEF MoreBlocks, Block
  <2>. QED  BY <2>1, <2>2, <2>3 DEF Families
<1> DEFINE y == Block.first - 1
<1>3. y \in Int /\ cur <= y /\ y <= Last.a /\ y + 1 = Block.first
  BY <1>1, <1>2
<1>4. \A b \in DOMAIN Blocks : blk <= b => y < Blocks[b].first
  <2>1. ASSUME NEW b \in DOMAIN Blocks, blk <= b
        PROVE  y < Blocks[b].first
    <3>1. CASE b = blk
      BY <1>2, <3>1
    <3>2. CASE blk < b
      <4>1. Blocks[blk].last < Blocks[b].first /\ Blocks[blk].first <= Blocks[blk].last
            /\ Blocks[blk].last \in Nat /\ Blocks[b].first \in Nat
        BY <1>2, <3>2, BlockFacts
      <4>. QED  BY <1>2, <4>1
    <3>. QED  BY <1>1, <2>1, <3>1, <3>2, BlockFacts
  <2>. QED  BY <2>1
<1> HIDE DEF y
<1>5. Answered'
  <2>1. ASSUME NEW f \in Families, NEW x \in 0..Top6
        PROVE  Answers(f, x)' = Wanted(rows \union {UpTo(y)}, f, x)
    <3> DEFINE N == IF f = 6 THEN cur..y ELSE {}
    <3>1. Answers(f, x) = Wanted(rows \union {UpTo(cur - 1)}, f, x)
      BY <1>1 DEF RowInv, Answered
    <3>2. Answers(f, x)' = Answers(f, x) \union (IF x \in N THEN {row.key} ELSE {})
      <4>1. AddRange(6, cur, y) /\ x \in Int
        BY <1>1, TopAssumption DEF y
      <4>. QED  BY <1>1, <1>2, <1>3, <4>1, AddRangeAnswers
    <3>3. x \in Image(f, UpTo(y)) <=> (x \in Image(f, UpTo(cur - 1)) \/ x \in N)
      BY <1>1, <1>2, <1>3, <1>4, BetweenBlocks
    <3>. QED  BY <1>1, <3>1, <3>2, <3>3, Extend
  <2>. QED  BY <1>1, <1>3, <2>1, AnsweredAdd
<1>6. Passed'
  <2>1. ASSUME NEW b \in 1..(blk - 1) PROVE Blocks[b].last < Block.first
    BY <1>1, <1>2, <2>1, BlockFacts DEF Passed
  <2>2. Fam' = 6
    BY <1>1, <1>2, SameRow DEF source
  <2>. QED  BY <1>1, <2>1, <2>2 DEF Passed, source
<1>7. Ordered'
  <2>1. end'[6] = y /\ end'[4] = end[4]
    BY <1>1, <1>2 DEF AddRange, IInv, AddedOK, y
  <2>. QED  BY <1>1, <1>2, <1>3, <2>1, OrderedAdd
<1>. QED  BY <1>1, <1>5, <1>6, <1>7, GoesOn

LEMMA AddRestStep ==
  ASSUME IInv, RowInv, AddRest
  PROVE  RowInv'
<1>1. /\ pc = "add" /\ Fam = 6 /\ ~MoreBlocks /\ AddRange(6, cur, Last.a) /\ pc' = "next"
      /\ UNCHANGED <<source, err, prev, ids, cur, blk, rows>>
      /\ blk \in Nat \ {0} /\ cur \in Nat /\ Passed /\ Known /\ row.key # NoData
  BY AddRow, TopAssumption DEF AddRest, IInv, RestOK, RowInv, Passed
<1>2. Last.a \in Nat /\ cur <= Last.a /\ 6 \in Families /\ 4 \in Families
  BY <1>1, AddRow, TopAssumption DEF Top, Families
<1>3. \A b \in DOMAIN Blocks : blk <= b => Last.a < Blocks[b].first
  <2>1. ASSUME NEW b \in DOMAIN Blocks, blk <= b
        PROVE  Last.a < Blocks[b].first
    <3>1. blk \in DOMAIN Blocks /\ Last.a < Block.first
      <4>1. blk <= Len(Blocks) /\ blk \in DOMAIN Blocks
        BY <1>1, <2>1, BlockFacts, BlocksAssumption
      <4>2. Block.first \in Nat
        BY <4>1, BlockFacts DEF Block
      <4>. QED  BY <1>1, <1>2, <4>1, <4>2 DEF MoreBlocks
    <3>2. CASE b = blk
      BY <3>1, <3>2 DEF Block
    <3>3. CASE blk < b
      <4>1. Blocks[blk].last < Blocks[b].first /\ Blocks[blk].first <= Blocks[blk].last
            /\ Blocks[blk].last \in Nat /\ Blocks[b].first \in Nat /\ Blocks[blk].first \in Nat
        BY <3>1, <3>3, BlockFacts
      <4>. QED  BY <1>2, <3>1, <4>1 DEF Block
    <3>. QED  BY <1>1, <2>1, <3>2, <3>3, BlockFacts
  <2>. QED  BY <2>1
<1>4. Answered'
  <2>1. ASSUME NEW f \in Families, NEW x \in 0..Top6
        PROVE  Answers(f, x)' = Wanted(rows \union {UpTo(Last.a)}, f, x)
    <3> DEFINE N == IF f = 6 THEN cur..Last.a ELSE {}
    <3>1. Answers(f, x) = Wanted(rows \union {UpTo(cur - 1)}, f, x)
      BY <1>1 DEF RowInv, Answered
    <3>2. Answers(f, x)' = Answers(f, x) \union (IF x \in N THEN {row.key} ELSE {})
      <4>1. x \in Int
        BY TopAssumption
      <4>. QED  BY <1>1, <1>2, <4>1, AddRangeAnswers
    <3>3. x \in Image(f, UpTo(Last.a)) <=> (x \in Image(f, UpTo(cur - 1)) \/ x \in N)
      BY <1>1, <1>2, <1>3, BetweenBlocks
    <3>. QED  BY <1>1, <3>1, <3>2, <3>3, Extend
  <2>. QED  BY <1>1, <1>2, <2>1, AnsweredAdd
<1>5. Ordered'
  <2>1. end'[6] = Last.a /\ end'[4] = end[4]
    BY <1>1, <1>2 DEF AddRange, IInv, AddedOK
  <2>. QED  BY <1>1, <1>2, <2>1, OrderedAdd
<1>. QED  BY <1>1, <1>4, <1>5, GoesOn DEF Passed

(* What AddMapped and LeaveOut share: the row up to the end of the block.  *)
BlockEnd == IF Last.a <= Block.last THEN Last.a ELSE Block.last

LEMMA BlockStep ==
  ASSUME IInv, RowInv, pc = "add", AtBlock, LeaveBlock,
         UNCHANGED <<source, err, prev, ids, rows>>,
         IF Block.v4
         THEN AddRange(4, cur - Block.first, BlockEnd - Block.first)
         ELSE UNCHANGED <<end, added>>
  PROVE  RowInv'
<1>1. /\ MoreBlocks /\ Block.first <= cur /\ cur <= Block.last
      /\ cur' = IF Last.a <= Block.last THEN cur ELSE Block.last + 1
      /\ blk' = IF Last.a <= Block.last THEN blk ELSE blk + 1
      /\ pc' = IF Last.a <= Block.last THEN "next" ELSE "add"
      /\ blk \in Nat \ {0} /\ cur \in Nat /\ Passed /\ Ordered /\ row.key # NoData
  BY TopAssumption DEF AtBlock, LeaveBlock, IInv, RestOK, RowInv, Passed
<1>2. /\ Fam = 6 /\ Block.first \in Nat /\ Block.last \in Nat /\ Last.a \in Nat
      /\ blk \in DOMAIN Blocks /\ Block = Blocks[blk] /\ 6 \in Families /\ 4 \in Families
      /\ Block.v4 => Block.last = Block.first + Top4
      /\ First.a \in Nat /\ First.a <= cur /\ cur <= Last.a /\ Known
  <2>1. /\ Last.a \in 0..Top(Fam) /\ Fam = 6 /\ First.a \in 0..Top(Fam)
        /\ First.a <= cur /\ cur <= Last.a /\ Known
    BY <1>1, AddRow, BlockRange
  <2>2. blk \in DOMAIN Blocks
    BY <1>1, BlocksAssumption DEF MoreBlocks
  <2>. QED  BY <2>1, <2>2, BlockFacts, TopAssumption DEF Top, Block, Families
<1> DEFINE y == BlockEnd
<1>3. y \in Int /\ cur <= y /\ y <= Block.last /\ y <= Last.a
      /\ \/ pc' = "add" /\ cur' = y + 1 /\ y = Block.last
         \/ pc' = "next" /\ y = Last.a
  BY <1>1, <1>2 DEF BlockEnd
<1>4. IF Block.v4 THEN AddRange(4, cur - Block.first, y - Block.first)
                  ELSE UNCHANGED <<end, added>>
  OBVIOUS
<1> HIDE DEF y
<1>5. Answered'
  <2>1. ASSUME NEW f \in Families, NEW x \in 0..Top6
        PROVE  Answers(f, x)' = Wanted(rows \union {UpTo(y)}, f, x)
    <3> DEFINE N == IF f = 4 /\ Block.v4
                    THEN (cur - Block.first)..(y - Block.first) ELSE {}
    <3>1. Answers(f, x) = Wanted(rows \union {UpTo(cur - 1)}, f, x)
      BY DEF RowInv, Answered
    <3>2. Answers(f, x)' = Answers(f, x) \union (IF x \in N THEN {row.key} ELSE {})
      <4>1. x \in Int /\ cur - Block.first \in Int /\ y - Block.first \in Int
        BY <1>1, <1>2, <1>3, TopAssumption
      <4>2. CASE Block.v4
        BY <1>2, <1>4, <4>1, <4>2, AddRangeAnswers
      <4>3. CASE ~Block.v4
        BY <1>4, <4>3, SameAnswers
      <4>. QED  BY <4>2, <4>3
    <3>3. x \in Image(f, UpTo(y)) <=> (x \in Image(f, UpTo(cur - 1)) \/ x \in N)
      BY <1>3, InsideBlock
    <3>. QED  BY <1>1, <3>1, <3>2, <3>3, Extend
  <2>. QED  BY <1>3, <2>1, AnsweredAdd
<1>6. Passed'
  <2>1. CASE pc' = "add"
    <3>1. cur' = Block.last + 1 /\ blk' = blk + 1 /\ row' = row
      BY <1>1, <1>2, <2>1 DEF source
    <3>2. ASSUME NEW b \in 1..((blk + 1) - 1) PROVE Blocks[b].last < Block.last + 1
      <4>1. CASE b = blk
        BY <1>2, <4>1
      <4>2. CASE b # blk
        <5>1. b \in 1..(blk - 1) /\ b \in DOMAIN Blocks
          BY <1>1, <1>2, <4>2, BlockFacts, BlocksAssumption
        <5>2. Blocks[b].last < cur /\ Blocks[b].last \in Nat
          BY <1>1, <5>1, BlockFacts DEF Passed
        <5>. QED  BY <1>1, <1>2, <5>2
      <4>. QED  BY <4>1, <4>2
    <3>3. Fam' = 6
      BY <1>2, SameRow DEF source
    <3>. QED  BY <1>1, <3>1, <3>2, <3>3 DEF Passed
  <2>. QED  BY <1>3, <2>1 DEF Passed
<1>7. Ordered'
  <2>1. blk' \in Nat /\ blk' >= blk /\ pc' \in {"add", "next"}
    BY <1>1
  <2>2. end'[6] = end[6]
    BY <1>2, <1>4 DEF AddRange, IInv, AddedOK
  <2>3. \/ end'[4] = end[4]
        \/ /\ end'[4] \in Image(4, AsRead)
           /\ pc' = "add" => \E b \in 1..(blk' - 1) : Blocks[b].v4
    <3>1. CASE Block.v4
      <4>1. end'[4] = y - Block.first
        BY <1>2, <1>4, <3>1 DEF AddRange, IInv, AddedOK
      <4>2. y - Block.first \in 0..Top4 /\ Block.first + (y - Block.first) \in First.a..Last.a
        BY <1>1, <1>2, <1>3, <3>1, TopAssumption
      <4>3. y - Block.first \in Image(4, AsRead)
        BY <1>2, <3>1, <4>2, InImage DEF AsRead, Fam
      <4>4. pc' = "add" => blk \in 1..(blk' - 1)
        BY <1>1
      <4>. QED  BY <1>2, <3>1, <4>1, <4>3, <4>4
    <3>2. CASE ~Block.v4
      BY <1>4, <3>2
    <3>. QED  BY <3>1, <3>2
  <2>4. pc' = "add" /\ Fam = 6 => end'[6] < cur'
    <3>1. end[6] < cur /\ end[6] \in Int
      BY <1>2, TopAssumption DEF Ordered, RowInv, IInv, AddedOK, Top, None
    <3>. QED  BY <1>1, <1>2, <2>2, <3>1
  <2>. QED  BY <2>1, <2>2, <2>3, <2>4, OrderedAdd
<1>. QED  BY <1>5, <1>6, <1>7, GoesOn

LEMMA AddMappedStep ==
  ASSUME IInv, RowInv, AddMapped
  PROVE  RowInv'
<1>1. /\ pc = "add" /\ AtBlock /\ Block.v4 /\ LeaveBlock
      /\ AddRange(4, BlockPart[1], BlockPart[2])
      /\ UNCHANGED <<source, err, prev, ids, rows>>
  BY DEF AddMapped
<1>2. BlockPart[1] = cur - Block.first /\ BlockPart[2] = BlockEnd - Block.first
  <2>1. Last.a \in Nat /\ Block.last \in Nat
    BY <1>1, AddRow, BlockRange, TopAssumption DEF Top, AtBlock, Families
  <2>2. (IF Last.a < Block.last THEN Last.a ELSE Block.last) = BlockEnd
    BY <2>1 DEF BlockEnd
  <2>. QED  BY <2>2 DEF BlockPart, Mapped
<1>. QED  BY <1>1, <1>2, BlockStep

LEMMA LeaveOutStep ==
  ASSUME IInv, RowInv, LeaveOut
  PROVE  RowInv'
BY BlockStep DEF LeaveOut

-----------------------------------------------------------------------------
(* The steps between adding. *)
LEMMA OpenStep ==
  ASSUME IInv, RowInv, Open
  PROVE  RowInv'
<1>1. /\ pc = "open" /\ pc' = "row"
      /\ UNCHANGED <<err, prev, end, ids, added, rows>>
  BY DEF Open
<1>2. Answered'
  BY <1>1, SameAnswers, NextWanted DEF RowInv, Answered
<1>3. Ordered'
  BY <1>1 DEF RowInv, Ordered, Compared, Image, InBlock
<1>. QED  BY <1>1, <1>2, <1>3, GoesOn DEF Passed

(* A row that is skipped asks for no answer: it has no data, or none of its *)
(* addresses is looked up where it would be.                                *)
LEMMA SkipRowStep ==
  ASSUME IInv, RowInv, SkipRow
  PROVE  RowInv'
<1>1. /\ pc = "row" /\ ~BadBounds /\ Above /\ pc' = "next"
      /\ prev' = [prev EXCEPT ![Fam] = Last.a]
      /\ row.key = NoData \/ Unread
      /\ UNCHANGED <<source, err, end, ids, cur, blk, added, rows>>
      /\ row \in RowsOf(layout) /\ Ordered
  BY DEF SkipRow, Checked, IInv, RestOK, RowInv
<1>2. /\ Fam \in Families /\ First.a \in Nat /\ Last.a \in Nat /\ First.a <= Last.a
      /\ Last.fam = Fam
  BY <1>1, Row, TopAssumption DEF IInv, RestOK, Top
<1>3. ASSUME NEW f \in Families, NEW x \in 0..Top6, Unread
      PROVE  x \notin Image(f, AsRead)
  <2>1. PICK b \in DOMAIN Blocks : ~Blocks[b].v4 /\ InBlock(b, First.a, Last.a)
    BY <1>3 DEF Unread
  <2>2. /\ Fam = 6 /\ Blocks[b].first <= First.a /\ Last.a <= Blocks[b].last
        /\ Blocks[b].first \in Nat /\ Blocks[b].last \in Nat /\ b \in Nat
    BY <1>3, <2>1, BlockFacts DEF Unread, InBlock
  <2>3. ASSUME NEW z \in First.a..Last.a PROVE InBlock(b, z, z)
    BY <1>2, <2>2 DEF InBlock
  <2>4. ASSUME NEW c \in DOMAIN Blocks, Blocks[c].v4, x \in 0..Top4,
               Blocks[c].first + x \in First.a..Last.a
        PROVE  FALSE
    <3>1. /\ Blocks[c].first \in Nat /\ Blocks[c].last \in Nat /\ c \in Nat
          /\ Blocks[c].first <= Blocks[c].first + x
          /\ Blocks[c].first + x <= Blocks[c].last
      BY <2>4, BlockFacts, MappedAddress
    <3>2. Blocks[c].first <= Blocks[b].last /\ Blocks[b].first <= Blocks[c].last
      BY <1>2, <2>2, <2>4, <3>1
    <3>3. ~(b < c) /\ ~(c < b)
      BY <2>2, <3>1, <3>2, BlockFacts
    <3>. QED  BY <2>1, <2>2, <2>4, <3>1, <3>3
  <2>. QED  BY <2>2, <2>3, <2>4, InImage DEF AsRead, Fam, Families
<1>4. Answered'
  <2>1. ASSUME NEW f \in Families, NEW x \in 0..Top6
        PROVE  Answers(f, x)' = Wanted(rows' \union {AsRead'}, f, x)
    <3>1. Answers(f, x)' = Wanted(rows, f, x)
      BY <1>1, SameAnswers DEF RowInv, Answered
    <3>2. AsRead.key = NoData \/ x \notin Image(f, AsRead)
      BY <1>1, <1>3 DEF AsRead
    <3>3. Wanted(rows \union {AsRead}, f, x) = Wanted(rows, f, x)
      BY <3>2, Unwanted
    <3>4. AsRead' = AsRead /\ rows' = rows
      BY <1>1, SameAsRead
    <3>. QED  BY <3>1, <3>3, <3>4
  <2>. QED  BY <1>1, <2>1, NextWanted DEF Answered
<1>5. Ordered'
  <2>1. Compared = rows /\ Compared' = rows \union {AsRead}
    BY <1>1, SameAsRead DEF Compared
  <2>2. prev'[Fam] = Last.a /\ \A f \in Families \ {Fam} : prev'[f] = prev[f]
    BY <1>1, <1>2 DEF IInv, RestOK
  <2>3. AsRead.first.fam = Fam /\ AsRead.last.a = Last.a
    BY DEF AsRead, Fam
  <2>4. ASSUME NEW f \in Families, prev'[f] # None
        PROVE  \E r \in Compared' : r.first.fam = f /\ r.last.a = prev'[f]
    BY <1>1, <2>1, <2>2, <2>3, <2>4 DEF Ordered
  <2>5. end'[6] <= prev'[6]
    <3>1. end[6] <= prev[6] /\ prev[Fam] < First.a
      BY <1>1 DEF Ordered, Above
    <3>2. end[6] \in Int /\ prev[6] \in Int
      BY TopAssumption DEF IInv, RestOK, AddedOK, Top, None, Families
    <3>. QED  BY <1>1, <1>2, <2>2, <3>1, <3>2 DEF Families
  <2>. QED  BY <1>1, <2>4, <2>5 DEF Ordered, Image, InBlock
<1>. QED  BY <1>1, <1>4, <1>5, GoesOn DEF Passed

LEMMA StartAddStep ==
  ASSUME IInv, RowInv, StartAdd
  PROVE  RowInv'
<1>1. /\ pc = "row" /\ ~BadBounds /\ Above /\ pc' = "add" /\ cur' = First.a /\ blk' = 1
      /\ prev' = [prev EXCEPT ![Fam] = Last.a] /\ row.key # NoData
      /\ ids' = IF Known THEN ids ELSE Append(ids, row.key)
      /\ UNCHANGED <<source, err, end, added, rows>>
      /\ row \in RowsOf(layout) /\ Ordered
  BY DEF StartAdd, Checked, IInv, RestOK, RowInv
<1>2. /\ Fam \in Families /\ First.a \in Nat /\ Last.a \in Nat /\ First.a <= Last.a
      /\ Last.fam = Fam
  BY <1>1, Row, TopAssumption DEF IInv, RestOK, Top
<1>3. \A k \in DOMAIN ids : ids'[k] = ids[k]
  <2>1. ids \in Seq(Keys \ BadKeys)
    BY DEF IInv, RestOK
  <2>. QED  BY <1>1, <2>1
<1>4. Answered'
  <2>1. ASSUME NEW f \in Families, NEW x \in 0..Top6
        PROVE  Answers(f, x)' = Wanted(rows' \union {UpTo(cur - 1)'}, f, x)
    <3>1. Answers(f, x)' = Wanted(rows, f, x)
      BY <1>1, <1>3, SameAnswers DEF RowInv, Answered
    <3>2. UpTo(cur - 1)' = UpTo(First.a - 1)
      BY <1>1, SameRow DEF UpTo, source
    <3>3. x \notin Image(f, UpTo(First.a - 1))
      <4>1. First.a..(First.a - 1) = {}
        BY <1>2
      <4>. QED  BY <4>1, InImage, UpToFields
    <3>4. Wanted(rows \union {UpTo(First.a - 1)}, f, x) = Wanted(rows, f, x)
      BY <3>3, Unwanted
    <3>. QED  BY <1>1, <3>1, <3>2, <3>4
  <2>. QED  BY <1>1, <2>1, NextWanted DEF Answered
<1>5. Ordered'
  <2>1. Compared = rows /\ Compared' = rows \union {AsRead} /\ Fam' = Fam /\ Last' = Last
    BY <1>1, SameAsRead, SameRow DEF Compared
  <2>2. prev'[Fam] = Last.a /\ \A f \in Families \ {Fam} : prev'[f] = prev[f]
    BY <1>1, <1>2 DEF IInv, RestOK
  <2>3. AsRead.first.fam = Fam /\ AsRead.last.a = Last.a
    BY DEF AsRead, Fam
  <2>4. ASSUME NEW f \in Families, prev'[f] # None
        PROVE  \E r \in Compared' : r.first.fam = f /\ r.last.a = prev'[f]
    BY <1>1, <2>1, <2>2, <2>3, <2>4 DEF Ordered
  <2>5. end'[6] <= prev'[6] /\ (Fam = 6 => end'[6] < First.a)
    <3>1. end[6] <= prev[6] /\ prev[Fam] < First.a
      BY <1>1 DEF Ordered, Above
    <3>2. end[6] \in Int /\ prev[6] \in Int
      BY TopAssumption DEF IInv, RestOK, AddedOK, Top, None, Families
    <3>. QED  BY <1>1, <1>2, <2>2, <3>1, <3>2 DEF Families
  <2>6. end'[4] # None => \E r \in rows' : r.key # NoData /\ end'[4] \in Image(4, r)
    BY <1>1 DEF Ordered
  <2>. QED  BY <1>1, <2>1, <2>2, <2>4, <2>5, <2>6 DEF Ordered, Image, InBlock
<1>6. Passed'
  BY <1>1 DEF Passed, source
<1>. QED  BY <1>1, <1>4, <1>5, <1>6, GoesOn

(* The row that was read joins the earlier ones. *)
LEMMA NextRowStep ==
  ASSUME IInv, RowInv, pc = "next", pc' \in {"row", "done"},
         rows' = rows \union {AsRead}, pc' = "done" => UNCHANGED source,
         UNCHANGED <<err, prev, end, ids, added>>
  PROVE  RowInv'
<1>1. Answered'
  <2>1. ASSUME NEW f \in Families, NEW x \in 0..Top6
        PROVE  /\ Answers(f, x)' = Wanted(rows', f, x)
               /\ pc' = "done" => rows' \union {AsRead'} = rows'
    <3>1. Answers(f, x)' = Wanted(rows', f, x)
      BY SameAnswers DEF RowInv, Answered
    <3>2. pc' = "done" => AsRead' = AsRead
      BY SameAsRead
    <3>. QED  BY <3>1, <3>2
  <2>. QED  BY <2>1, NextWanted DEF Answered
<1>2. Ordered'
  <2>1. Ordered
    BY DEF RowInv
  <2>2. \A r \in Compared : r \in Compared'
    BY DEF Compared
  <2>3. AsRead.key = row.key
    BY DEF AsRead
  <2>. QED  BY <2>1, <2>2, <2>3 DEF Ordered, Image, InBlock
<1>. QED  BY <1>1, <1>2, GoesOn DEF Passed

-----------------------------------------------------------------------------
(* The steps that end a build. *)
LEMMA FailStep ==
  ASSUME RowInv, NEW why \in {"syntax", "order"}, Fail(why),
         why = "order" => RefusesOnlyDisorder'
  PROVE  RowInv'
BY DEF Fail, RowInv, Answered, Passed, Stopped, RefusesOnlyDisorder

LEMMA RefuseOrderStep ==
  ASSUME IInv, RowInv, RefuseOrder
  PROVE  RowInv'
<1>1. /\ pc = "row" /\ ~BadBounds /\ ~Above /\ Fail("order") /\ row \in RowsOf(layout)
      /\ rows' = rows /\ UNCHANGED source /\ Ordered
  BY DEF RefuseOrder, Fail, IInv, RestOK, RowInv
<1>2. Fam \in Families /\ First.a \in Nat
  BY <1>1, Row, TopAssumption DEF IInv, RestOK, Top
<1>3. prev[Fam] >= First.a /\ prev[Fam] # None
  <2>1. prev[Fam] \in Int
    BY <1>2, TopAssumption DEF IInv, RestOK, None, Top
  <2>. QED  BY <1>1, <1>2, <2>1 DEF Above, None
<1>4. \E r \in rows : r.first.fam = Fam /\ r.last.a >= First.a
  BY <1>1, <1>2, <1>3 DEF Ordered, Compared
<1>5. RefusesOnlyDisorder'
  BY <1>1, <1>4, SameRow DEF RefusesOnlyDisorder
<1>. QED  BY <1>1, <1>5, FailStep

(* A range that does not fit is one of IPv4, and an earlier row has data for *)
(* an IPv4 address at or above its first.                                    *)
LEMMA RefuseRangeStep ==
  ASSUME IInv, RowInv, RefuseRange
  PROVE  RowInv'
<1>1. /\ pc = "add" /\ Fail("order") /\ rows' = rows /\ UNCHANGED source
      /\ Ordered /\ Passed
  BY DEF RefuseRange, Fail, RowInv
<1>2. /\ Fam \in Families /\ First.a \in Nat /\ Last.a \in Nat /\ cur \in Nat
      /\ First.a <= cur /\ cur <= Last.a /\ First.a <= Last.a
      /\ end[4] \in Int /\ end[6] \in Int /\ blk \in Nat
      /\ 4 \in Families /\ 6 \in Families
  BY <1>1, AddRow, TopAssumption DEF Top, IInv, AddedOK, RestOK, None, Families
<1>3. Fam = 6 => end[6] < cur
  BY <1>1 DEF Ordered
<1>4. PICK y \in 0..Top4 :
        /\ end[4] >= y /\ y \in Image(4, AsRead)
        /\ \/ Fam = 4
           \/ Fam = 6 /\ \E b \in DOMAIN Blocks : blk <= b /\ Blocks[b].v4
  <2>1. CASE Fam = 4 /\ ~Fits(4, First.a)
    <3>1. First.a \in Image(4, AsRead)
      BY <1>2, <2>1, InImage DEF AsRead, Fam
    <3>2. First.a \in 0..Top4 /\ end[4] >= First.a
      BY <1>1, <1>2, <2>1, AddRow DEF Fits, Top
    <3>. QED  BY <2>1, <3>1, <3>2
  <2>2. CASE AtBlock /\ Block.v4 /\ ~Fits(4, BlockPart[1])
    <3>1. /\ MoreBlocks /\ Block.first <= cur /\ cur <= Block.last
          /\ BlockPart[1] = cur - Block.first
      BY <2>2 DEF AtBlock, BlockPart, Mapped
    <3>2. /\ Fam = 6 /\ blk \in DOMAIN Blocks /\ Block = Blocks[blk]
          /\ Block.first \in Nat /\ Block.last = Block.first + Top4
      <4>1. Fam = 6 /\ blk \in DOMAIN Blocks
        BY <1>2, <3>1, BlocksAssumption DEF IInv, RestOK, MoreBlocks
      <4>. QED  BY <2>2, <4>1, BlockFacts DEF Block
    <3>3. /\ cur - Block.first \in 0..Top4
          /\ Block.first + (cur - Block.first) \in First.a..Last.a
      BY <1>2, <3>1, <3>2, TopAssumption
    <3>4. cur - Block.first \in Image(4, AsRead)
      BY <2>2, <3>2, <3>3, InImage, <1>2 DEF AsRead, Fam
    <3>5. end[4] >= cur - Block.first
      BY <1>2, <2>2, <3>1, <3>3 DEF Fits
    <3>. QED  BY <1>2, <2>2, <3>2, <3>3, <3>4, <3>5
  <2>3. CASE MoreBlocks /\ cur < Block.first /\ ~Fits(6, cur)
    BY <1>2, <1>3, <2>3 DEF MoreBlocks, Fits
  <2>4. CASE Fam = 6 /\ ~MoreBlocks /\ ~Fits(6, cur)
    BY <1>2, <1>3, <2>4 DEF Fits
  <2>. QED  BY <2>1, <2>2, <2>3, <2>4 DEF RefuseRange
<1>5. PICK r \in rows : r.key # NoData /\ end[4] \in Image(4, r)
  <2>1. end[4] # None
    BY <1>2, <1>4, TopAssumption DEF None
  <2>2. ~(\E b \in 1..(blk - 1) : Blocks[b].v4 /\ end[4] \in Image(4, AsRead))
    <3>1. SUFFICES ASSUME NEW b \in 1..(blk - 1), Blocks[b].v4,
                          end[4] \in Image(4, AsRead)
                   PROVE  FALSE
      OBVIOUS
    <3>2. CASE Fam = 6
      <4>1. PICK c \in DOMAIN Blocks : blk <= c /\ Blocks[c].v4
        BY <1>4, <3>2
      <4>2. b \in DOMAIN Blocks /\ b # c
        <5>1. blk \in 1..(Len(Blocks) + 1) /\ Len(Blocks) \in Nat
          BY BlocksAssumption DEF IInv, RestOK
        <5>2. c \in Nat /\ b \in 1..Len(Blocks) /\ b < c
          BY <1>2, <3>1, <4>1, <5>1, BlockFacts
        <5>. QED  BY <5>2, BlocksAssumption
      <4>. QED  BY <3>1, <4>1, <4>2, BlocksAssumption
    <3>3. CASE Fam = 4
      <4>1. blk = 1
        BY <1>1, <3>3 DEF Passed
      <4>. QED  BY <3>1, <4>1
    <3>. QED  BY <1>2, <3>2, <3>3 DEF Families
  <2>. QED  BY <1>1, <2>1, <2>2 DEF Ordered
<1>6. RefusesOnlyDisorder'
  <2>1. end[4] >= y /\ AsRead' = AsRead /\ \A z : Image(4, z)' = Image(4, z)
    BY <1>1, <1>4, SameAsRead DEF Image, InBlock
  <2>. QED  BY <1>1, <1>4, <1>5, <2>1 DEF RefusesOnlyDisorder, Image, InBlock
<1>. QED  BY <1>1, <1>6, FailStep

LEMMA PanicStep ==
  ASSUME RowInv, Panic
  PROVE  RowInv'
BY DEF Panic, RowInv, Answered, Passed, Stopped, RefusesOnlyDisorder

-----------------------------------------------------------------------------
(* The invariant of the rows. *)
LEMMA InitRow ==
  ASSUME Init
  PROVE  RowInv
<1>1. /\ pc = "open" /\ err = "none" /\ rows = {}
      /\ \A f \in Families : prev[f] = None /\ end[f] = None /\ added[f] = {}
  BY DEF Init
<1>2. Answered
  BY <1>1 DEF Answered, Answers, Wanted
<1>3. Ordered
  BY <1>1 DEF Ordered, Families, None
<1>. QED  BY <1>1, <1>2, <1>3 DEF RowInv, Passed, Stopped, RefusesOnlyDisorder

LEMMA StutterRow ==
  ASSUME RowInv, UNCHANGED vars
  PROVE  RowInv'
<1>1. /\ UNCHANGED <<pc, err, row, prev, end, ids, cur, blk, added, rows>>
      /\ UNCHANGED source
  BY DEF vars, source
<1>2. AsRead' = AsRead /\ Fam' = Fam /\ First' = First /\ Last' = Last
  BY <1>1, SameAsRead, SameRow
<1>3. UpTo(cur - 1)' = UpTo(cur - 1)
  BY <1>1, <1>2 DEF UpTo
<1>4. \A f, x : Answers(f, x)' = Answers(f, x)
  BY <1>1 DEF Answers
<1>5. Answered'
  BY <1>1, <1>2, <1>3, <1>4, NextWanted DEF RowInv, Answered
<1>6. Passed' /\ Stopped'
  BY <1>1, <1>2 DEF RowInv, Passed, Stopped
<1>7. RefusesOnlyDisorder'
  BY <1>1, <1>2 DEF RowInv, RefusesOnlyDisorder, Image, InBlock
<1>8. Compared' = Compared
  BY <1>1, <1>2 DEF Compared
<1>9. pc \notin {"failed", "panicked"} => Ordered'
  BY <1>1, <1>2, <1>8 DEF RowInv, Ordered, Image, InBlock
<1>. QED  BY <1>1, <1>5, <1>6, <1>7, <1>9 DEF RowInv

LEMMA NextRowInv ==
  IInv /\ RowInv /\ [Next]_vars => RowInv'
<1>. SUFFICES ASSUME IInv, RowInv, [Next]_vars PROVE RowInv'
  OBVIOUS
<1>1. CASE RefuseFirstRow \/ RefuseBounds \/ RefuseFill \/ ReadFails
  <2>1. Fail("syntax")
    BY <1>1 DEF RefuseFirstRow, RefuseBounds, RefuseFill, ReadFails
  <2>. QED  BY <2>1, FailStep
<1>2. CASE Panic \/ Open \/ SkipRow \/ StartAdd
  BY <1>2, PanicStep, OpenStep, SkipRowStep, StartAddStep
<1>3. CASE RefuseOrder \/ RefuseRange
  BY <1>3, RefuseOrderStep, RefuseRangeStep
<1>4. CASE AddV4 \/ PassBlock \/ AddBeforeBlock \/ AddMapped \/ LeaveOut \/ AddRest
  BY <1>4, AddV4Step, PassBlockStep, AddBeforeBlockStep, AddMappedStep,
     LeaveOutStep, AddRestStep
<1>5. CASE EndOfFile \/ \E r \in RowsOf(layout) : ReadRow(r)
  <2>1. /\ pc = "next" /\ pc' \in {"row", "done"} /\ rows' = rows \union {AsRead}
        /\ pc' = "done" => UNCHANGED source
        /\ UNCHANGED <<err, prev, end, ids, added>>
    BY <1>5 DEF EndOfFile, ReadRow
  <2>. QED  BY <2>1, NextRowStep
<1>6. CASE UNCHANGED vars
  BY <1>6, StutterRow
<1>. QED  BY <1>1, <1>2, <1>3, <1>4, <1>5, <1>6 DEF Next

(* What has been added always answers for the rows read so far.            *)
THEOREM RowInvariance == Spec => []RowInv
<1>1. Init => RowInv
  BY InitRow
<1>2. IInv /\ RowInv /\ [Next]_vars => RowInv'
  BY NextRowInv
<1>. QED  BY <1>1, <1>2, Invariance, PTL DEF Spec

(* At the end of each row the ranges added to the build answer every       *)
(* address of each family with the records of the rows that hold it, and   *)
(* nothing in the blocks that are not stored, whatever rows of the two     *)
(* families and of IPv4-mapped addresses the file holds                    *)
(* (csvdb/reader.go:266-311).                                              *)
THEOREM EveryRowAnswered == Spec => []RowsAnswered
<1>1. RowInv => RowsAnswered
  BY DEF RowInv, Answered, Answers, Wanted, RowsAnswered
<1>. QED  BY <1>1, RowInvariance, PTL

(* A build that fails for the order of its rows has read a row of the same *)
(* family, or one with data for IPv4 addresses, that does not end below    *)
(* the current one (csvdb/reader.go:103, 302).                             *)
THEOREM RefusalsAreRight == Spec => []RefusesOnlyDisorder
<1>1. RowInv => RefusesOnlyDisorder
  BY DEF RowInv
<1>. QED  BY <1>1, RowInvariance, PTL

=============================================================================
