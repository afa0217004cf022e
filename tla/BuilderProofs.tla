---------------------------- MODULE BuilderProofs ---------------------------
(***************************************************************************)
(* Proofs about the two halves of the Builder (internal/build).            *)
(*                                                                         *)
(* Merger, for every address width and every set of records: its types,    *)
(* that its boundaries ascend, that it holds exactly the networks added,   *)
(* that its boundaries do not depend on their order, and that it           *)
(* implements Coverage; and that merger6, which wraps, is merger4.         *)
(*                                                                         *)
(* StringTable, for every set of strings and every width of the id fields: *)
(* its types, that each record is kept under its id when Finish numbers    *)
(* the strings anew, and that a build fails only when they do not fit.     *)
(***************************************************************************)
EXTENDS Merger, StringTable, TableProofs


(* What adding a network or pushing a boundary does to the answers. *)
BoundaryLists == Seq(BoundarySet)

(* A network holds an address of each network it overlaps. *)
LEMMA OverlapShares ==
  ASSUME NEW r \in Ranges, NEW s \in Ranges
  PROVE  Overlap(r, s) <=> \E a \in Addresses : Contains(r, a) /\ Contains(s, a)
<1>1. ASSUME Overlap(r, s)
      PROVE  \E a \in Addresses : Contains(r, a) /\ Contains(s, a)
  <2>1. CASE r.start <= s.start
    BY <1>1, <2>1 DEF Overlap, Contains, Ranges, Addresses
  <2>2. CASE s.start <= r.start
    BY <1>1, <2>2 DEF Overlap, Contains, Ranges, Addresses
  <2>. QED  BY <2>1, <2>2 DEF Ranges, Addresses
<1>2. ASSUME NEW a \in Addresses, Contains(r, a), Contains(s, a)
      PROVE  Overlap(r, s)
  BY <1>2 DEF Overlap, Contains, Ranges, Addresses
<1>. QED  BY <1>1, <1>2

(* Among disjoint networks, the one that contains an address decides it. *)
LEMMA RecordOfMember ==
  ASSUME NEW rs \in SUBSET Ranges, Disjoint(rs),
         NEW r \in rs, NEW a \in Addresses, Contains(r, a)
  PROVE  RecordOf(rs, a) = r.rec
<1> DEFINE s == CHOOSE t \in rs : Contains(t, a)
<1>1. s \in rs /\ Contains(s, a)
  OBVIOUS
<1>2. s = r
  BY <1>1, OverlapShares DEF Disjoint
<1>. QED  BY <1>2 DEF RecordOf

LEMMA RecordOfNone ==
  ASSUME NEW rs, NEW a, \A r \in rs : ~Contains(r, a)
  PROVE  RecordOf(rs, a) = NoRecord
BY DEF RecordOf

(* Only addresses of a network have a record, and 0 is never one. *)
LEMMA RecordOfSome ==
  ASSUME NEW rs \in SUBSET Ranges, Disjoint(rs), NEW a \in Addresses
  PROVE  RecordOf(rs, a) # NoRecord <=> \E r \in rs : Contains(r, a)
<1>1. ASSUME NEW r \in rs, Contains(r, a) PROVE RecordOf(rs, a) # NoRecord
  <2>1. RecordOf(rs, a) = r.rec
    BY <1>1, RecordOfMember
  <2>. QED  BY <2>1, RecordsAssumption DEF Ranges, NoRecord
<1>. QED  BY <1>1, RecordOfNone

(* What one more network that overlaps none of the others changes. *)
LEMMA RecordOfAdd ==
  ASSUME NEW rs \in SUBSET Ranges, Disjoint(rs), NEW r \in Ranges,
         \A s \in rs : ~Overlap(r, s)
  PROVE  /\ Disjoint(rs \union {r})
         /\ \A a \in Addresses :
              RecordOf(rs \union {r}, a) =
                IF Contains(r, a) THEN r.rec ELSE RecordOf(rs, a)
<1>1. Disjoint(rs \union {r})
  BY DEF Disjoint, Overlap
<1>2. ASSUME NEW a \in Addresses
      PROVE  RecordOf(rs \union {r}, a) =
                IF Contains(r, a) THEN r.rec ELSE RecordOf(rs, a)
  <2>1. CASE Contains(r, a)
    BY <1>1, <2>1, RecordOfMember
  <2>2. CASE \E s \in rs : Contains(s, a)
    <3>1. PICK s \in rs : Contains(s, a)
      BY <2>2
    <3>2. ~Contains(r, a)
      BY <3>1, OverlapShares
    <3>3. RecordOf(rs \union {r}, a) = s.rec /\ RecordOf(rs, a) = s.rec
      BY <1>1, <3>1, RecordOfMember
    <3>. QED  BY <3>2, <3>3
  <2>3. CASE \A s \in rs \union {r} : ~Contains(s, a)
    BY <2>3, RecordOfNone
  <2>. QED  BY <2>1, <2>2, <2>3
<1>. QED  BY <1>1, <1>2

-----------------------------------------------------------------------------
(* The elements of a boundary list. *)
LEMMA StartsAreAddresses ==
  ASSUME NEW bs \in BoundaryLists, NEW i \in 1..Len(bs)
  PROVE  /\ bs[i] \in BoundarySet
         /\ bs[i].start \in Addresses /\ bs[i].start \in Int
<1>1. bs[i] \in BoundarySet
  BY DEF BoundaryLists
<1>. QED  BY <1>1 DEF BoundarySet, Addresses

(* The run that holds an address decides it, and there is only one. *)
LEMMA RecordAtRun ==
  ASSUME NEW bs \in BoundaryLists, Ascending(bs),
         NEW a \in Int, NEW i \in 1..Len(bs), InRun(bs, i, a)
  PROVE  /\ RecordAt(bs, a) = bs[i].rec
         /\ \A j \in 1..Len(bs) : InRun(bs, j, a) => j = i
<1>1. ASSUME NEW j \in 1..Len(bs), InRun(bs, j, a) PROVE j = i
  <2>1. \A k \in 1..Len(bs) : bs[k].start \in Int
    BY StartsAreAddresses
  <2>2. ~(i < j)
    <3>1. SUFFICES ASSUME i < j PROVE FALSE
      OBVIOUS
    <3>2. i + 1 \in 1..Len(bs) /\ i + 1 <= j
      BY <3>1
    <3>3. bs[i + 1].start <= bs[j].start
      BY <2>1, <3>2 DEF Ascending
    <3>. QED  BY <1>1, <2>1, <3>1, <3>2, <3>3 DEF InRun
  <2>3. ~(j < i)
    <3>1. SUFFICES ASSUME j < i PROVE FALSE
      OBVIOUS
    <3>2. j + 1 \in 1..Len(bs) /\ j + 1 <= i
      BY <3>1
    <3>3. bs[j + 1].start <= bs[i].start
      BY <2>1, <3>2 DEF Ascending
    <3>. QED  BY <1>1, <2>1, <3>1, <3>2, <3>3 DEF InRun
  <2>. QED  BY <2>2, <2>3
<1>. QED  BY <1>1 DEF RecordAt

LEMMA RecordAtNone ==
  ASSUME NEW bs, NEW a, \A i \in 1..Len(bs) : ~InRun(bs, i, a)
  PROVE  RecordAt(bs, a) = NoRecord
BY DEF RecordAt

(* The boundary pushed last decides the addresses from its start on and    *)
(* leaves the answers below as they were.                                  *)
LEMMA RecordAtPush ==
  ASSUME NEW bs \in BoundaryLists, Ascending(bs), NEW b \in BoundarySet,
         bs # <<>> => bs[Len(bs)].start < b.start
  PROVE  /\ Append(bs, b) \in BoundaryLists
         /\ Len(Append(bs, b)) = Len(bs) + 1
         /\ Append(bs, b)[Len(bs) + 1] = b
         /\ \A i \in 1..Len(bs) : Append(bs, b)[i] = bs[i]
         /\ Ascending(Append(bs, b))
         /\ \A a \in Int :
              RecordAt(Append(bs, b), a) =
                IF b.start <= a THEN b.rec ELSE RecordAt(bs, a)
<1> DEFINE n == Len(bs)  cs == Append(bs, b)
<1>1. /\ cs \in BoundaryLists /\ Len(cs) = n + 1 /\ n \in Nat
      /\ cs[n + 1] = b
      /\ \A i \in 1..n : cs[i] = bs[i]
  BY DEF BoundaryLists
<1>2. \A k \in 1..(n + 1) : cs[k].start \in Int
  BY <1>1, StartsAreAddresses
<1>3. \A i \in 1..n : bs[i].start < b.start
  <2>1. SUFFICES ASSUME NEW i \in 1..n PROVE bs[i].start < b.start
    OBVIOUS
  <2>2. bs # <<>>
    BY <1>1, <2>1 DEF BoundaryLists
  <2>3. bs[i].start <= bs[n].start
    BY <1>1, <1>2, <2>1 DEF Ascending
  <2>. QED  BY <1>1, <1>2, <2>1, <2>2, <2>3
<1>4. Ascending(cs)
  BY <1>1, <1>3 DEF Ascending
<1>5. ASSUME NEW a \in Int
      PROVE  RecordAt(cs, a) = IF b.start <= a THEN b.rec ELSE RecordAt(bs, a)
  <2>1. CASE b.start <= a
    <3>1. n + 1 \in 1..Len(cs) /\ InRun(cs, n + 1, a)
      BY <1>1, <2>1 DEF InRun
    <3>2. RecordAt(cs, a) = cs[n + 1].rec
      BY <1>1, <1>4, <3>1, RecordAtRun
    <3>. QED  BY <1>1, <2>1, <3>2
  <2>2. CASE ~(b.start <= a)
    <3>1. ~InRun(cs, n + 1, a)
      BY <1>1, <2>2 DEF InRun
    <3>2. \A i \in 1..n : InRun(cs, i, a) <=> InRun(bs, i, a)
      <4>1. SUFFICES ASSUME NEW i \in 1..n
                     PROVE  InRun(cs, i, a) <=> InRun(bs, i, a)
        OBVIOUS
      <4>2. CASE i = n
        BY <1>1, <1>2, <2>2, <4>2 DEF InRun
      <4>3. CASE i < n
        <5>1. i + 1 \in 1..n
          BY <1>1, <4>3
        <5>. QED  BY <1>1, <4>3, <5>1 DEF InRun
      <4>. QED  BY <1>1, <4>2, <4>3
    <3>3. CASE \E i \in 1..n : InRun(bs, i, a)
      <4>1. PICK i \in 1..n : InRun(bs, i, a)
        BY <3>3
      <4>2. RecordAt(bs, a) = bs[i].rec
        BY <4>1, RecordAtRun
      <4>3. i \in 1..Len(cs) /\ InRun(cs, i, a)
        BY <1>1, <3>2, <4>1
      <4>4. RecordAt(cs, a) = cs[i].rec
        BY <1>1, <1>4, <4>3, RecordAtRun
      <4>. QED  BY <1>1, <2>2, <4>2, <4>4
    <3>4. CASE \A i \in 1..n : ~InRun(bs, i, a)
      <4>1. \A i \in 1..Len(cs) : ~InRun(cs, i, a)
        BY <1>1, <3>1, <3>2, <3>4
      <4>. QED  BY <2>2, <3>4, <4>1, RecordAtNone
    <3>. QED  BY <3>3, <3>4
  <2>. QED  BY <2>1, <2>2
<1>. QED  BY <1>1, <1>4, <1>5

-----------------------------------------------------------------------------
(* The boundaries, of which the last one is open up to expected. *)
OpenAt(a) == IF a < expected THEN RecordAt(out, a) ELSE NoRecord

(* No boundary repeats the record of the one before it. *)
NoRepeat(bs) ==
  /\ bs # <<>> => bs[1].rec # NoRecord
  /\ \A i \in 1..(Len(bs) - 1) : bs[i].rec # bs[i + 1].rec

(* Until finish closes it, the last boundary is the open run. *)
OpenRun ==
  phase # "done" =>
    /\ out = <<>> => expected = 0 /\ lastRec = NoRecord
    /\ out # <<>> => /\ lastRec = out[Len(out)].rec
                     /\ lastRec # NoRecord
                     /\ out[Len(out)].start < expected

(* In order, the previous range is the one added last. *)
InOrder ==
  (phase = "adding" /\ ~collecting) =>
    /\ unsorted = {}
    /\ started <=> out # <<>>
    /\ started => \E s \in added : s.start = prev /\ s.last = expected - 1

(* What is left to merge lies above what is merged. *)
LoopOrder ==
  /\ phase = "replaying" => \A s \in unsorted : s.start >= expected
  /\ phase = "done" => unsorted = {}
  /\ phase # "adding" => ~collecting

IInv ==
  /\ TypeOK
  /\ Disjoint(added) /\ Disjoint(unsorted)
  /\ Ascending(out) /\ NoRepeat(out)
  /\ OpenRun /\ InOrder /\ LoopOrder
  /\ NothingLost

USE DEF NoRecord

LEMMA RangeFields ==
  ASSUME NEW r \in Ranges
  PROVE  /\ r.start \in Addresses /\ r.last \in Addresses /\ r.start <= r.last
         /\ r.start \in Int /\ r.last \in Int /\ r.last + 1 \in 0..(Top + 1)
         /\ r.rec \in Records /\ r.rec # NoRecord
BY RecordsAssumption, TopAssumption DEF Ranges, Addresses

LEMMA BoundaryTyped ==
  ASSUME NEW start \in Addresses, NEW rec \in Records \union {NoRecord}
  PROVE  /\ Boundary(start, rec) \in BoundarySet
         /\ Boundary(start, rec).start = start
         /\ Boundary(start, rec).rec = rec
BY DEF Boundary, BoundarySet

(* Pushing a boundary that starts above the last one, with another record. *)
LEMMA PushKeeps ==
  ASSUME NEW bs \in BoundaryLists, Ascending(bs), NoRepeat(bs),
         NEW b \in BoundarySet,
         bs # <<>> => bs[Len(bs)].start < b.start /\ bs[Len(bs)].rec # b.rec,
         bs = <<>> => b.rec # NoRecord
  PROVE  /\ NoRepeat(Append(bs, b))
         /\ Append(bs, b) # <<>>
<1> DEFINE n == Len(bs)  cs == Append(bs, b)
<1>1. /\ cs \in BoundaryLists /\ Len(cs) = n + 1 /\ n \in Nat
      /\ cs[n + 1] = b
      /\ \A i \in 1..n : cs[i] = bs[i]
  BY DEF BoundaryLists
<1>2. bs = <<>> <=> n = 0
  BY DEF BoundaryLists
<1>3. cs # <<>>
  BY <1>1 DEF BoundaryLists
<1>4. cs[1].rec # NoRecord
  <2>1. CASE n = 0
    BY <1>1, <1>2, <2>1
  <2>2. CASE n # 0
    <3>1. 1 \in 1..n
      BY <1>1, <2>2
    <3>. QED  BY <1>1, <1>2, <2>2, <3>1 DEF NoRepeat
  <2>. QED  BY <2>1, <2>2
<1>5. ASSUME NEW i \in 1..n PROVE cs[i].rec # cs[i + 1].rec
  <2>1. CASE i = n
    BY <1>1, <1>2, <2>1
  <2>2. CASE i < n
    <3>1. i \in 1..(n - 1) /\ i + 1 \in 1..n
      BY <1>1, <2>2
    <3>2. cs[i] = bs[i] /\ cs[i + 1] = bs[i + 1]
      BY <1>1, <3>1
    <3>. QED  BY <3>1, <3>2 DEF NoRepeat
  <2>. QED  BY <1>1, <2>1, <2>2
<1>. QED  BY <1>1, <1>3, <1>4, <1>5 DEF NoRepeat

(* The last boundary decides every address from its start on. *)
LEMMA LastRun ==
  ASSUME NEW bs \in BoundaryLists, Ascending(bs), bs # <<>>,
         NEW a \in Int, bs[Len(bs)].start <= a
  PROVE  RecordAt(bs, a) = bs[Len(bs)].rec
<1>1. Len(bs) \in 1..Len(bs)
  BY DEF BoundaryLists
<1>2. InRun(bs, Len(bs), a)
  BY <1>1 DEF InRun
<1>. QED  BY <1>1, <1>2, RecordAtRun

(* step: merging a range that starts at expected or above adds exactly it. *)
LEMMA StepMerges ==
  ASSUME TypeOK, Ascending(out), NoRepeat(out), OpenRun, phase # "done",
         NEW r \in Ranges, r.start >= expected, Step(r)
  PROVE  /\ out' \in BoundaryLists /\ out' # <<>>
         /\ Ascending(out') /\ NoRepeat(out')
         /\ lastRec' = r.rec /\ lastRec' = out'[Len(out')].rec
         /\ out'[Len(out')].start < expected'
         /\ expected' = r.last + 1 /\ expected' \in 0..(Top + 1)
         /\ \A a \in Addresses :
              OpenAt(a)' = IF Contains(r, a) THEN r.rec ELSE OpenAt(a)
<1>1. /\ out \in BoundaryLists /\ Len(out) \in Nat
      /\ expected \in 0..(Top + 1) /\ expected \in Int
      /\ lastRec \in Records \union {NoRecord}
  BY TopAssumption DEF TypeOK, BoundaryLists
<1>2. /\ r.start \in Addresses /\ r.last \in Addresses /\ r.start <= r.last
      /\ r.start \in Int /\ r.last \in Int /\ r.last + 1 \in 0..(Top + 1)
      /\ r.rec \in Records /\ r.rec # NoRecord
  BY RangeFields
<1>3. /\ out = <<>> => expected = 0 /\ lastRec = NoRecord
      /\ out # <<>> => /\ lastRec = out[Len(out)].rec
                       /\ lastRec # NoRecord
                       /\ out[Len(out)].start < expected
  BY DEF OpenRun
<1>4. /\ out' = Opened(r) /\ lastRec' = r.rec /\ expected' = r.last + 1
  BY DEF Step
<1>5. out # <<>> => out[Len(out)].start \in Int
  <2>1. out # <<>> => Len(out) \in 1..Len(out)
    BY <1>1 DEF BoundaryLists
  <2>. QED  BY <1>1, <2>1, StartsAreAddresses
<1>6. \A a \in Addresses : a \in Int
  BY DEF Addresses
<1> DEFINE b == Boundary(r.start, r.rec)
<1>7. b \in BoundarySet /\ b.start = r.start /\ b.rec = r.rec
  BY <1>2, BoundaryTyped
<1> DEFINE Goal ==
      /\ out' \in BoundaryLists /\ out' # <<>>
      /\ Ascending(out') /\ NoRepeat(out')
      /\ r.rec = out'[Len(out')].rec
      /\ out'[Len(out')].start < r.last + 1
      /\ \A a \in Addresses :
           (IF a < r.last + 1 THEN RecordAt(out', a) ELSE NoRecord)
             = IF Contains(r, a) THEN r.rec ELSE OpenAt(a)
<1>8. ASSUME Gap(r) PROVE Goal
  <2> DEFINE g == Boundary(expected, NoRecord)  cs == Append(out, g)
  <2>1. out # <<>> /\ lastRec # NoRecord /\ r.start > expected
        /\ expected \in Addresses
    <3>1. lastRec # NoRecord /\ r.start > expected
      BY <1>8 DEF Gap
    <3>2. expected \in Addresses
      BY <1>1, <1>2, <3>1, TopAssumption DEF Addresses
    <3>. QED  BY <1>3, <3>1, <3>2
  <2>2. g \in BoundarySet /\ g.start = expected /\ g.rec = NoRecord
    BY <2>1, BoundaryTyped
  <2>3. /\ cs \in BoundaryLists /\ Len(cs) = Len(out) + 1
        /\ cs[Len(out) + 1] = g /\ Ascending(cs)
        /\ \A a \in Int : RecordAt(cs, a) =
             IF expected <= a THEN NoRecord ELSE RecordAt(out, a)
    BY <1>1, <1>3, <2>1, <2>2, RecordAtPush
  <2>4. NoRepeat(cs) /\ cs # <<>>
    BY <1>1, <1>3, <2>1, <2>2, PushKeeps
  <2>5. cs[Len(cs)] = g
    BY <2>3
  <2>6. out' = Append(cs, b)
    BY <1>4, <1>8 DEF Opened, Closed
  <2>7. /\ Append(cs, b) \in BoundaryLists
        /\ Len(Append(cs, b)) = Len(cs) + 1
        /\ Append(cs, b)[Len(cs) + 1] = b /\ Ascending(Append(cs, b))
        /\ \A a \in Int : RecordAt(Append(cs, b), a) =
             IF r.start <= a THEN r.rec ELSE RecordAt(cs, a)
    <3>1. cs[Len(cs)].start < b.start
      BY <1>7, <2>1, <2>2, <2>5
    <3>2. /\ Append(cs, b) \in BoundaryLists
          /\ Len(Append(cs, b)) = Len(cs) + 1
          /\ Append(cs, b)[Len(cs) + 1] = b /\ Ascending(Append(cs, b))
          /\ \A a \in Int : RecordAt(Append(cs, b), a) =
               IF b.start <= a THEN b.rec ELSE RecordAt(cs, a)
      <4> HIDE DEF cs, b
      <4>. QED  BY <1>7, <2>3, <3>1, RecordAtPush
    <3>. QED  BY <1>7, <3>2
  <2>8. NoRepeat(Append(cs, b)) /\ Append(cs, b) # <<>>
    BY <1>2, <1>7, <2>1, <2>2, <2>3, <2>4, <2>5, PushKeeps
  <2>9. ASSUME NEW a \in Addresses
        PROVE  (IF a < r.last + 1 THEN RecordAt(out', a) ELSE NoRecord)
                 = IF Contains(r, a) THEN r.rec ELSE OpenAt(a)
    <3>1. a \in Int
      BY <1>6
    <3>2. RecordAt(out', a) = IF r.start <= a THEN r.rec
                              ELSE IF expected <= a THEN NoRecord
                              ELSE RecordAt(out, a)
      BY <2>3, <2>6, <2>7, <3>1
    <3>. QED  BY <1>1, <1>2, <2>1, <3>1, <3>2 DEF Contains, OpenAt
  <2>. QED  BY <1>2, <1>7, <2>6, <2>7, <2>8, <2>9
<1>9. ASSUME ~Gap(r), r.rec # lastRec PROVE Goal
  <2>1. out' = Append(out, b)
    BY <1>4, <1>9 DEF Opened, Closed
  <2>2. out # <<>> => r.start = expected
    BY <1>1, <1>2, <1>3, <1>9 DEF Gap
  <2>3. /\ Append(out, b) \in BoundaryLists
        /\ Len(Append(out, b)) = Len(out) + 1
        /\ Append(out, b)[Len(out) + 1] = b /\ Ascending(Append(out, b))
        /\ \A a \in Int : RecordAt(Append(out, b), a) =
             IF r.start <= a THEN r.rec ELSE RecordAt(out, a)
    BY <1>1, <1>3, <1>7, <2>2, RecordAtPush
  <2>4. NoRepeat(Append(out, b)) /\ Append(out, b) # <<>>
    BY <1>1, <1>2, <1>3, <1>7, <1>9, <2>2, PushKeeps
  <2>5. ASSUME NEW a \in Addresses
        PROVE  (IF a < r.last + 1 THEN RecordAt(out', a) ELSE NoRecord)
                 = IF Contains(r, a) THEN r.rec ELSE OpenAt(a)
    <3>1. a \in Int /\ a >= 0
      BY DEF Addresses
    <3>2. RecordAt(out', a) =
             IF r.start <= a THEN r.rec ELSE RecordAt(out, a)
      BY <2>1, <2>3, <3>1
    <3>3. CASE out = <<>>
      <4>1. RecordAt(out, a) = NoRecord
        BY <3>3 DEF RecordAt
      <4>. QED  BY <1>1, <1>2, <1>3, <3>1, <3>2, <3>3, <4>1 DEF Contains, OpenAt
    <3>4. CASE out # <<>>
      BY <1>1, <1>2, <2>2, <3>1, <3>2, <3>4 DEF Contains, OpenAt
    <3>. QED  BY <3>3, <3>4
  <2>. QED  BY <1>2, <1>7, <2>1, <2>3, <2>4, <2>5
<1>10. ASSUME ~Gap(r), r.rec = lastRec PROVE Goal
  <2>1. out' = out
    BY <1>4, <1>10 DEF Opened, Closed
  <2>2. out # <<>> /\ r.start = expected
    BY <1>1, <1>2, <1>3, <1>10 DEF Gap
  <2>3. ASSUME NEW a \in Addresses
        PROVE  (IF a < r.last + 1 THEN RecordAt(out', a) ELSE NoRecord)
                 = IF Contains(r, a) THEN r.rec ELSE OpenAt(a)
    <3>1. a \in Int
      BY <1>6
    <3>2. expected <= a => RecordAt(out, a) = lastRec
      BY <1>1, <1>3, <1>5, <2>2, <3>1, LastRun
    <3>. QED  BY <1>1, <1>2, <1>10, <2>1, <2>2, <3>1, <3>2 DEF Contains, OpenAt
  <2>4. out[Len(out)].start < r.last + 1
    BY <1>1, <1>2, <1>3, <1>5, <2>2
  <2>. QED  BY <1>1, <1>3, <1>10, <2>1, <2>2, <2>3, <2>4
<1>11. Goal
  BY <1>8, <1>9, <1>10
<1>12. ASSUME NEW a \in Addresses
       PROVE  OpenAt(a)' = IF Contains(r, a) THEN r.rec ELSE OpenAt(a)
  <2>1. OpenAt(a)' = IF a < r.last + 1 THEN RecordAt(out', a) ELSE NoRecord
    BY <1>4 DEF OpenAt, RecordAt, InRun
  <2>. QED  BY <1>11, <2>1
<1>. QED  BY <1>2, <1>4, <1>11, <1>12

-----------------------------------------------------------------------------
(* ranges: the recovered ranges are disjoint and hold what the boundaries  *)
(* up to expected hold.                                                    *)
LEMMA RecoveryKeeps ==
  ASSUME IInv, phase = "adding", ~collecting
  PROVE  /\ RecoveredRanges \subseteq Ranges
         /\ Disjoint(RecoveredRanges)
         /\ \A a \in Addresses : RecordOf(RecoveredRanges, a) = OpenAt(a)
<1> DEFINE n == Len(out)
<1>1. /\ out \in BoundaryLists /\ n \in Nat /\ Ascending(out)
      /\ expected \in 0..(Top + 1) /\ expected \in Int
  BY TopAssumption DEF IInv, TypeOK, BoundaryLists
<1>2. \A i \in 1..n : /\ out[i] \in BoundarySet
                      /\ out[i].start \in Addresses /\ out[i].start \in Int
                      /\ out[i].rec \in Records \union {NoRecord}
  BY <1>1, StartsAreAddresses DEF BoundarySet
<1>3. n # 0 => out[n].start < expected
  BY <1>1 DEF IInv, OpenRun, BoundaryLists
<1>4. ASSUME NEW i \in 1..n
      PROVE  /\ RunEnd(i) \in Addresses /\ RunEnd(i) \in Int
             /\ out[i].start <= RunEnd(i)
             /\ i < n => RunEnd(i) = out[i + 1].start - 1
             /\ i = n => RunEnd(i) = expected - 1
  <2>1. CASE i = n
    BY <1>1, <1>2, <1>3, <2>1, TopAssumption DEF RunEnd, Addresses
  <2>2. CASE i < n
    <3>1. i + 1 \in 1..n
      BY <1>1, <2>2
    <3>2. out[i].start < out[i + 1].start
      BY <1>1, <3>1 DEF Ascending
    <3>. QED
      BY <1>1, <1>2, <2>2, <3>1, <3>2, TopAssumption DEF RunEnd, Addresses
  <2>. QED  BY <1>1, <2>1, <2>2
<1>5. \A i \in 1..n : out[i].rec # NoRecord => Run(i) \in Ranges
  BY <1>2, <1>4 DEF Run, Ranges
<1>6. \A i \in 1..n : Run(i).start = out[i].start /\ Run(i).last = RunEnd(i)
                      /\ Run(i).rec = out[i].rec
  BY DEF Run
<1>7. RecoveredRanges \subseteq Ranges
  BY <1>5 DEF RecoveredRanges
<1>8. ASSUME NEW i \in 1..n, NEW a \in Addresses
      PROVE  Contains(Run(i), a) <=> a < expected /\ InRun(out, i, a)
  <2>1. a \in Int
    BY DEF Addresses
  <2>2. CASE i = n
    BY <1>1, <1>2, <1>4, <1>6, <2>1, <2>2 DEF Contains, InRun
  <2>3. CASE i < n
    <3>1. i + 1 \in 1..n /\ n \in 1..n
      BY <1>1, <2>3
    <3>2. out[i + 1].start <= out[n].start
      BY <1>1, <1>2, <3>1 DEF Ascending
    <3>3. out[i + 1].start < expected
      BY <1>1, <1>2, <1>3, <3>1, <3>2
    <3>. QED
      BY <1>1, <1>2, <1>4, <1>6, <2>1, <2>3, <3>1, <3>3 DEF Contains, InRun
  <2>. QED  BY <1>1, <2>2, <2>3
<1>9. ASSUME NEW i \in 1..n, NEW j \in 1..n,
             out[i].rec # NoRecord, out[j].rec # NoRecord,
             Overlap(Run(i), Run(j))
      PROVE  i = j
  <2>1. Run(i) \in Ranges /\ Run(j) \in Ranges
    BY <1>5, <1>9
  <2>2. PICK a \in Addresses : Contains(Run(i), a) /\ Contains(Run(j), a)
    BY <1>9, <2>1, OverlapShares
  <2>3. InRun(out, i, a) /\ InRun(out, j, a) /\ a \in Int
    BY <1>8, <2>2 DEF Addresses
  <2>. QED  BY <1>1, <2>3, RecordAtRun
<1>10. Disjoint(RecoveredRanges)
  BY <1>9 DEF Disjoint, RecoveredRanges
<1>11. ASSUME NEW a \in Addresses
       PROVE  RecordOf(RecoveredRanges, a) = OpenAt(a)
  <2>1. a \in Int
    BY DEF Addresses
  <2>2. CASE \E r \in RecoveredRanges : Contains(r, a)
    <3>1. PICK i \in 1..n : out[i].rec # NoRecord /\ Contains(Run(i), a)
      BY <2>2 DEF RecoveredRanges
    <3>2. Run(i) \in RecoveredRanges
      BY <3>1 DEF RecoveredRanges
    <3>3. RecordOf(RecoveredRanges, a) = out[i].rec
      BY <1>6, <1>7, <1>10, <3>1, <3>2, RecordOfMember
    <3>4. a < expected /\ RecordAt(out, a) = out[i].rec
      BY <1>1, <1>8, <2>1, <3>1, RecordAtRun
    <3>. QED  BY <3>3, <3>4 DEF OpenAt
  <2>3. CASE \A r \in RecoveredRanges : ~Contains(r, a)
    <3>1. RecordOf(RecoveredRanges, a) = NoRecord
      BY <2>3, RecordOfNone
    <3>2. \A i \in 1..n : out[i].rec # NoRecord => ~Contains(Run(i), a)
      BY <2>3 DEF RecoveredRanges
    <3>3. CASE a < expected /\ \E i \in 1..n : InRun(out, i, a)
      <4>1. PICK i \in 1..n : InRun(out, i, a)
        BY <3>3
      <4>2. out[i].rec = NoRecord
        BY <1>8, <3>2, <3>3, <4>1
      <4>3. RecordAt(out, a) = out[i].rec
        BY <1>1, <2>1, <4>1, RecordAtRun
      <4>. QED  BY <3>1, <3>3, <4>2, <4>3 DEF OpenAt
    <3>4. CASE a < expected /\ \A i \in 1..n : ~InRun(out, i, a)
      BY <3>1, <3>4, RecordAtNone DEF OpenAt
    <3>5. CASE ~(a < expected)
      BY <3>1, <3>5 DEF OpenAt
    <3>. QED  BY <3>3, <3>4, <3>5
  <2>. QED  BY <2>2, <2>3
<1>. QED  BY <1>7, <1>10, <1>11

(* The abstract view of the state while nothing is published. *)
LEMMA HeldOpen ==
  ASSUME IInv, phase # "done", NEW a \in Addresses
  PROVE  /\ ~collecting =>
              RecordOf(added, a) = IF \E r \in unsorted : Contains(r, a)
                                   THEN RecordOf(unsorted, a) ELSE OpenAt(a)
         /\ collecting => RecordOf(added, a) = RecordOf(unsorted, a)
<1>1. Held(a) = RecordOf(added, a)
  BY DEF IInv, NothingLost
<1>2. CASE \E r \in unsorted : Contains(r, a)
  BY <1>1, <1>2 DEF Held
<1>3. CASE \A r \in unsorted : ~Contains(r, a)
  BY <1>1, <1>3, RecordOfNone DEF Held, OpenAt
<1>. QED  BY <1>2, <1>3

(* A network that overlaps none of those added overlaps none collected. *)
LEMMA NewIsApart ==
  ASSUME IInv, phase = "adding", NEW r \in Ranges,
         \A s \in added : ~Overlap(r, s)
  PROVE  \A s \in unsorted : ~Overlap(r, s)
<1>1. SUFFICES ASSUME NEW s \in unsorted, Overlap(r, s) PROVE FALSE
  OBVIOUS
<1>2. /\ s \in Ranges /\ unsorted \in SUBSET Ranges /\ added \in SUBSET Ranges
      /\ Disjoint(unsorted) /\ Disjoint(added)
  BY DEF IInv, TypeOK
<1>3. PICK a \in Addresses : Contains(r, a) /\ Contains(s, a)
  BY <1>1, <1>2, OverlapShares
<1>4. RecordOf(unsorted, a) # NoRecord
  BY <1>2, <1>3, RecordOfSome
<1>5. RecordOf(added, a) = RecordOf(unsorted, a)
  BY <1>3, HeldOpen
<1>6. PICK t \in added : Contains(t, a)
  BY <1>2, <1>4, <1>5, RecordOfSome
<1>. QED  BY <1>2, <1>3, <1>6, OverlapShares

(* A network in order lies above what is merged. *)
LEMMA InOrderIsAbove ==
  ASSUME IInv, phase = "adding", ~collecting,
         NEW r \in Ranges, ~OutOfOrder(r), \A s \in added : ~Overlap(r, s)
  PROVE  r.start >= expected
<1>1. /\ r.start \in Int /\ r.last \in Int /\ r.start <= r.last
      /\ r.start >= 0
  BY RangeFields DEF Addresses
<1>2. CASE out = <<>>
  BY <1>1, <1>2 DEF IInv, OpenRun
<1>3. CASE out # <<>>
  <2>1. started /\ prev < r.start
    <3>1. started /\ prev \in Int
      BY <1>3 DEF IInv, InOrder, TypeOK, Addresses
    <3>. QED  BY <1>1, <3>1 DEF OutOfOrder
  <2>2. PICK s \in added : s.start = prev /\ s.last = expected - 1
    BY <2>1 DEF IInv, InOrder
  <2>3. s.start \in Int /\ s.last \in Int /\ s.start <= s.last
    BY <2>2, RangeFields DEF IInv, TypeOK
  <2>4. ~(r.start <= s.last)
    BY <1>1, <2>1, <2>2, <2>3 DEF Overlap
  <2>5. expected \in Int
    BY DEF IInv, TypeOK
  <2>. QED  BY <1>1, <2>2, <2>3, <2>4, <2>5
<1>. QED  BY <1>2, <1>3

-----------------------------------------------------------------------------
LEMMA InitInv == Init => IInv
<1>. SUFFICES ASSUME Init PROVE IInv
  OBVIOUS
<1>1. TypeOK
  <2>1. out \in Seq(BoundarySet)
    BY DEF Init
  <2>2. expected \in 0..(Top + 1) /\ prev \in Addresses
    BY TopAssumption DEF Init, Addresses
  <2>. QED  BY <2>1, <2>2 DEF Init, TypeOK
<1>2. Disjoint(added) /\ Disjoint(unsorted) /\ Ascending(out) /\ NoRepeat(out)
  BY DEF Init, Disjoint, Ascending, NoRepeat
<1>3. OpenRun /\ InOrder /\ LoopOrder
  BY DEF Init, OpenRun, InOrder, LoopOrder
<1>4. NothingLost
  BY DEF Init, NothingLost, Held, RecordOf, Addresses
<1>. QED  BY <1>1, <1>2, <1>3, <1>4 DEF IInv

LEMMA AddInOrderInv ==
  ASSUME IInv, NEW r \in Ranges, AddInOrder(r)
  PROVE  IInv'
<1> USE DEF AddInOrder, New
<1>1. /\ phase = "adding" /\ ~collecting /\ unsorted = {} /\ Step(r)
      /\ unsorted' = {} /\ collecting' = FALSE /\ phase' = "adding"
      /\ added' = added \union {r} /\ prev' = r.start /\ started' = TRUE
      /\ \A s \in added : ~Overlap(r, s)
  BY DEF IInv, InOrder, TypeOK
<1>2. /\ added \in SUBSET Ranges /\ Disjoint(added) /\ TypeOK
      /\ Ascending(out) /\ NoRepeat(out) /\ OpenRun
  BY DEF IInv, TypeOK
<1>3. r.start >= expected
  BY <1>1, InOrderIsAbove
<1>4. /\ out' \in BoundaryLists /\ out' # <<>>
      /\ Ascending(out') /\ NoRepeat(out')
      /\ lastRec' = r.rec /\ lastRec' = out'[Len(out')].rec
      /\ out'[Len(out')].start < expected'
      /\ expected' = r.last + 1 /\ expected' \in 0..(Top + 1)
      /\ \A a \in Addresses :
           OpenAt(a)' = IF Contains(r, a) THEN r.rec ELSE OpenAt(a)
  BY <1>1, <1>2, <1>3, StepMerges
<1>5. r.start \in Addresses /\ r.last \in Int /\ r.rec \in Records /\ r.rec # NoRecord
  BY RangeFields
<1>6. /\ Disjoint(added')
      /\ \A a \in Addresses : RecordOf(added', a) =
           IF Contains(r, a) THEN r.rec ELSE RecordOf(added, a)
  BY <1>1, <1>2, RecordOfAdd
<1>7. TypeOK'
  BY <1>1, <1>2, <1>4, <1>5 DEF TypeOK, BoundaryLists
<1>8. OpenRun' /\ InOrder' /\ LoopOrder'
  <2>1. OpenRun'
    BY <1>4, <1>5 DEF OpenRun
  <2>2. r.last = expected' - 1
    BY <1>4, <1>5
  <2>3. InOrder'
    BY <1>1, <1>4, <2>2 DEF InOrder
  <2>4. LoopOrder'
    BY <1>1 DEF LoopOrder
  <2>. QED  BY <2>1, <2>3, <2>4
<1>9. NothingLost'
  <2>1. ASSUME NEW a \in Addresses PROVE Held(a)' = RecordOf(added', a)
    <3>1. Held(a)' = OpenAt(a)'
      BY <1>1 DEF Held, OpenAt, RecordAt, InRun
    <3>2. RecordOf(added, a) = OpenAt(a)
      BY <1>1, HeldOpen
    <3>. QED  BY <1>4, <1>6, <3>1, <3>2
  <2>. QED  BY <2>1 DEF NothingLost, RecordOf
<1>10. Disjoint(unsorted')
  BY <1>1 DEF Disjoint
<1>. QED  BY <1>4, <1>6, <1>7, <1>8, <1>9, <1>10 DEF IInv, Disjoint, Ascending, NoRepeat

LEMMA AddOutOfOrderInv ==
  ASSUME IInv, NEW r \in Ranges, AddOutOfOrder(r)
  PROVE  IInv'
<1> USE DEF AddOutOfOrder, New, merged
<1>1. /\ phase = "adding" /\ ~collecting /\ unsorted = {} /\ phase' = "adding"
      /\ unsorted' = RecoveredRanges \union {r} /\ collecting' = TRUE
      /\ added' = added \union {r}
      /\ \A s \in added : ~Overlap(r, s)
      /\ UNCHANGED <<out, expected, lastRec, prev, started>>
  BY DEF IInv, InOrder, TypeOK
<1>2. /\ added \in SUBSET Ranges /\ Disjoint(added) /\ TypeOK
  BY DEF IInv, TypeOK
<1>3. /\ RecoveredRanges \in SUBSET Ranges /\ Disjoint(RecoveredRanges)
      /\ \A a \in Addresses : RecordOf(RecoveredRanges, a) = OpenAt(a)
  BY <1>1, RecoveryKeeps
<1>4. \A a \in Addresses : RecordOf(added, a) = OpenAt(a)
  BY <1>1, HeldOpen
<1>5. \A s \in RecoveredRanges : ~Overlap(r, s)
  <2>1. SUFFICES ASSUME NEW s \in RecoveredRanges, Overlap(r, s) PROVE FALSE
    OBVIOUS
  <2>2. PICK a \in Addresses : Contains(r, a) /\ Contains(s, a)
    BY <1>3, <2>1, OverlapShares
  <2>3. RecordOf(added, a) # NoRecord
    BY <1>3, <1>4, <2>2, RecordOfSome
  <2>4. PICK t \in added : Contains(t, a)
    BY <1>2, <2>3, RecordOfSome
  <2>. QED  BY <1>1, <1>2, <2>2, <2>4, OverlapShares
<1>6. /\ Disjoint(added')
      /\ \A a \in Addresses : RecordOf(added', a) =
           IF Contains(r, a) THEN r.rec ELSE RecordOf(added, a)
  BY <1>1, <1>2, RecordOfAdd
<1>7. /\ Disjoint(unsorted')
      /\ \A a \in Addresses : RecordOf(unsorted', a) =
           IF Contains(r, a) THEN r.rec ELSE RecordOf(RecoveredRanges, a)
  BY <1>1, <1>3, <1>5, RecordOfAdd
<1>8. TypeOK'
  BY <1>1, <1>2, <1>3 DEF TypeOK
<1>9. NothingLost'
  <2>1. ASSUME NEW a \in Addresses PROVE Held(a)' = RecordOf(added', a)
    <3>1. Held(a)' = RecordOf(unsorted', a)
      BY <1>1, RecordOfNone DEF Held, RecordOf
    <3>. QED  BY <1>3, <1>4, <1>6, <1>7, <3>1
  <2>. QED  BY <2>1 DEF NothingLost, RecordOf
<1>10. OpenRun' /\ InOrder' /\ LoopOrder'
  BY <1>1 DEF IInv, OpenRun, InOrder, LoopOrder
<1>. QED  BY <1>1, <1>6, <1>7, <1>8, <1>9, <1>10 DEF IInv, Disjoint, Ascending, NoRepeat

LEMMA AddCollectedInv ==
  ASSUME IInv, NEW r \in Ranges, AddCollected(r)
  PROVE  IInv'
<1> USE DEF AddCollected, New, merged
<1>1. /\ phase = "adding" /\ collecting /\ phase' = "adding" /\ collecting'
      /\ unsorted' = unsorted \union {r} /\ added' = added \union {r}
      /\ \A s \in added : ~Overlap(r, s)
      /\ UNCHANGED <<out, expected, lastRec, prev, started, collecting>>
  OBVIOUS
<1>2. /\ added \in SUBSET Ranges /\ Disjoint(added) /\ TypeOK
      /\ unsorted \in SUBSET Ranges /\ Disjoint(unsorted)
  BY DEF IInv, TypeOK
<1>3. \A s \in unsorted : ~Overlap(r, s)
  BY <1>1, NewIsApart
<1>4. /\ Disjoint(added')
      /\ \A a \in Addresses : RecordOf(added', a) =
           IF Contains(r, a) THEN r.rec ELSE RecordOf(added, a)
  BY <1>1, <1>2, RecordOfAdd
<1>5. /\ Disjoint(unsorted')
      /\ \A a \in Addresses : RecordOf(unsorted', a) =
           IF Contains(r, a) THEN r.rec ELSE RecordOf(unsorted, a)
  BY <1>1, <1>2, <1>3, RecordOfAdd
<1>6. TypeOK'
  BY <1>1, <1>2 DEF TypeOK
<1>7. NothingLost'
  <2>1. ASSUME NEW a \in Addresses PROVE Held(a)' = RecordOf(added', a)
    <3>1. Held(a)' = RecordOf(unsorted', a)
      BY <1>1, RecordOfNone DEF Held, RecordOf
    <3>2. RecordOf(added, a) = RecordOf(unsorted, a)
      BY <1>1, HeldOpen
    <3>. QED  BY <1>4, <1>5, <3>1, <3>2
  <2>. QED  BY <2>1 DEF NothingLost, RecordOf
<1>8. OpenRun' /\ InOrder' /\ LoopOrder'
  BY <1>1 DEF IInv, OpenRun, InOrder, LoopOrder
<1>. QED  BY <1>1, <1>4, <1>5, <1>6, <1>7, <1>8 DEF IInv, Disjoint, Ascending, NoRepeat

LEMMA ResetInv ==
  ASSUME IInv, Reset
  PROVE  IInv'
<1> USE DEF Reset
<1>1. TypeOK'
  <2>1. out' \in Seq(BoundarySet)
    OBVIOUS
  <2>2. expected' \in 0..(Top + 1) /\ prev' \in Addresses
    BY TopAssumption DEF Addresses
  <2>. QED  BY <2>1, <2>2 DEF IInv, TypeOK
<1>2. Ascending(out') /\ NoRepeat(out')
  BY DEF Ascending, NoRepeat
<1>3. OpenRun' /\ InOrder'
  BY DEF OpenRun, InOrder
<1>4. LoopOrder'
  BY RangeFields DEF LoopOrder, IInv, TypeOK, Addresses
<1>5. NothingLost'
  <2>1. ASSUME NEW a \in Addresses PROVE Held(a)' = RecordOf(added', a)
    <3>1. Held(a)' = RecordOf(unsorted, a)
      BY RecordOfNone DEF Held, RecordOf, RecordAt
    <3>. QED  BY <3>1, HeldOpen DEF RecordOf
  <2>. QED  BY <2>1 DEF NothingLost, RecordOf
<1>. QED  BY <1>1, <1>2, <1>3, <1>4, <1>5 DEF IInv, Disjoint, Ascending, NoRepeat

LEMMA ReplayInv ==
  ASSUME IInv, NEW r \in unsorted, Replay(r)
  PROVE  IInv'
<1> USE DEF Replay
<1>1. /\ phase = "replaying" /\ phase' = "replaying" /\ ~collecting /\ ~collecting'
      /\ unsorted' = unsorted \ {r} /\ added' = added /\ Step(r)
      /\ \A s \in unsorted : r.start <= s.start
  BY DEF IInv, LoopOrder
<1>2. /\ r \in Ranges /\ unsorted \in SUBSET Ranges /\ Disjoint(unsorted)
      /\ TypeOK /\ Ascending(out) /\ NoRepeat(out) /\ OpenRun
      /\ r.start >= expected
  BY <1>1 DEF IInv, TypeOK, LoopOrder
<1>3. /\ out' \in BoundaryLists /\ out' # <<>>
      /\ Ascending(out') /\ NoRepeat(out')
      /\ lastRec' = r.rec /\ lastRec' = out'[Len(out')].rec
      /\ out'[Len(out')].start < expected'
      /\ expected' = r.last + 1 /\ expected' \in 0..(Top + 1)
      /\ \A a \in Addresses :
           OpenAt(a)' = IF Contains(r, a) THEN r.rec ELSE OpenAt(a)
  BY <1>1, <1>2, StepMerges
<1>4. r.rec \in Records /\ r.rec # NoRecord /\ r.start \in Int /\ r.last \in Int
  BY <1>2, RangeFields
<1>5. TypeOK'
  BY <1>1, <1>2, <1>3, <1>4 DEF TypeOK, BoundaryLists
<1>6. LoopOrder'
  <2>1. ASSUME NEW s \in unsorted' PROVE s.start >= expected'
    <3>1. s \in unsorted /\ s # r /\ s \in Ranges /\ r.start <= s.start
      BY <1>1, <1>2
    <3>2. ~Overlap(r, s)
      BY <1>2, <3>1 DEF Disjoint
    <3>3. s.start \in Int /\ s.last \in Int /\ s.start <= s.last
      BY <3>1, RangeFields
    <3>. QED  BY <1>3, <1>4, <3>1, <3>2, <3>3 DEF Overlap
  <2>. QED  BY <1>1, <2>1 DEF LoopOrder
<1>7. OpenRun' /\ InOrder'
  BY <1>1, <1>3, <1>4 DEF OpenRun, InOrder
<1>8. Disjoint(unsorted')
  BY <1>1, <1>2 DEF Disjoint
<1>9. NothingLost'
  <2>1. ASSUME NEW a \in Addresses PROVE Held(a)' = RecordOf(added', a)
    <3>1. RecordOf(added, a) = IF \E s \in unsorted : Contains(s, a)
                               THEN RecordOf(unsorted, a) ELSE OpenAt(a)
      BY <1>1, HeldOpen
    <3>2. Held(a)' = IF \E s \in unsorted' : Contains(s, a)
                     THEN RecordOf(unsorted', a) ELSE OpenAt(a)'
      BY <1>1 DEF Held, OpenAt, RecordOf, RecordAt, InRun
    <3>3. unsorted' \in SUBSET Ranges
      BY <1>1, <1>2
    <3>4. CASE Contains(r, a)
      <4>1. RecordOf(unsorted, a) = r.rec
        BY <1>2, <3>4, RecordOfMember
      <4>2. \A s \in unsorted' : ~Contains(s, a)
        BY <1>1, <1>2, <3>4, OverlapShares DEF Disjoint
      <4>. QED  BY <1>1, <1>3, <3>1, <3>2, <3>4, <4>1, <4>2
    <3>5. CASE ~Contains(r, a) /\ \E s \in unsorted : Contains(s, a)
      <4>1. PICK s \in unsorted : Contains(s, a)
        BY <3>5
      <4>2. s \in unsorted'
        BY <1>1, <3>5, <4>1
      <4>3. RecordOf(unsorted, a) = s.rec /\ RecordOf(unsorted', a) = s.rec
        BY <1>2, <1>8, <3>3, <4>1, <4>2, RecordOfMember
      <4>. QED  BY <1>1, <3>1, <3>2, <4>1, <4>2, <4>3
    <3>6. CASE \A s \in unsorted : ~Contains(s, a)
      BY <1>1, <1>3, <3>1, <3>2, <3>6
    <3>. QED  BY <3>4, <3>5, <3>6
  <2>. QED  BY <2>1 DEF NothingLost, RecordOf
<1>. QED  BY <1>1, <1>2, <1>3, <1>5, <1>6, <1>7, <1>8, <1>9
          DEF IInv, Disjoint, Ascending, NoRepeat

LEMMA CloseInv ==
  ASSUME IInv, Close
  PROVE  IInv'
<1> USE DEF Close
<1>1. /\ unsorted = {} /\ ~collecting /\ phase # "done" /\ phase' = "done"
      /\ unsorted' = {} /\ ~collecting' /\ added' = added
      /\ UNCHANGED <<expected, lastRec, prev, started>>
  BY DEF IInv, InOrder, LoopOrder
<1>2. /\ TypeOK /\ Ascending(out) /\ NoRepeat(out) /\ out \in BoundaryLists
      /\ expected \in 0..(Top + 1) /\ expected \in Int
  BY TopAssumption DEF IInv, TypeOK, BoundaryLists
<1>3. /\ out = <<>> => expected = 0 /\ lastRec = NoRecord
      /\ out # <<>> => /\ lastRec = out[Len(out)].rec
                       /\ lastRec # NoRecord
                       /\ out[Len(out)].start < expected
  BY <1>1 DEF IInv, OpenRun
<1>4. \A a \in Addresses : RecordOf(added, a) = OpenAt(a)
  BY <1>1, HeldOpen
<1> DEFINE Goal == /\ out' \in BoundaryLists /\ Ascending(out') /\ NoRepeat(out')
                   /\ \A a \in Addresses : RecordAt(out', a) = OpenAt(a)
<1>5. ASSUME GapFollows PROVE Goal
  <2> DEFINE g == Boundary(expected, NoRecord)
  <2>1. out # <<>> /\ expected \in Addresses
    BY <1>2, <1>3, <1>5, TopAssumption DEF GapFollows, Addresses
  <2>2. g \in BoundarySet /\ g.start = expected /\ g.rec = NoRecord
    BY <2>1, BoundaryTyped
  <2>3. out' = Append(out, g)
    BY <1>5
  <2> HIDE DEF g
  <2>4. /\ Append(out, g) \in BoundaryLists /\ Ascending(Append(out, g))
        /\ \A a \in Int : RecordAt(Append(out, g), a) =
             IF g.start <= a THEN g.rec ELSE RecordAt(out, a)
    BY <1>2, <1>3, <2>1, <2>2, RecordAtPush
  <2>5. NoRepeat(Append(out, g))
    BY <1>2, <1>3, <2>1, <2>2, PushKeeps
  <2>6. \A a \in Addresses : RecordAt(Append(out, g), a) = OpenAt(a)
    BY <1>2, <2>2, <2>4 DEF OpenAt, Addresses
  <2>. QED  BY <2>3, <2>4, <2>5, <2>6
<1>6. ASSUME ~GapFollows PROVE Goal
  <2>1. out' = out
    BY <1>6
  <2>2. ASSUME NEW a \in Addresses PROVE RecordAt(out, a) = OpenAt(a)
    <3>1. CASE out = <<>>
      BY <3>1 DEF OpenAt, RecordAt
    <3>2. CASE out # <<>>
      <4>1. ~(expected <= Top)
        BY <1>3, <1>6, <3>2 DEF GapFollows
      <4>. QED  BY <1>2, <4>1, TopAssumption DEF OpenAt, Addresses
    <3>. QED  BY <3>1, <3>2
  <2>. QED  BY <1>2, <2>1, <2>2
<1>7. Goal
  BY <1>5, <1>6
<1>8. TypeOK'
  BY <1>1, <1>2, <1>7 DEF TypeOK, BoundaryLists
<1>9. OpenRun' /\ InOrder' /\ LoopOrder'
  BY <1>1 DEF OpenRun, InOrder, LoopOrder
<1>10. NothingLost'
  <2>1. ASSUME NEW a \in Addresses PROVE Held(a)' = RecordOf(added', a)
    <3>1. Held(a)' = RecordAt(out', a)
      BY <1>1 DEF Held, RecordAt, InRun
    <3>. QED  BY <1>1, <1>4, <1>7, <3>1
  <2>. QED  BY <2>1 DEF NothingLost, RecordOf
<1>11. Disjoint(unsorted') /\ Disjoint(added')
  BY <1>1 DEF IInv, Disjoint
<1>. QED  BY <1>7, <1>8, <1>9, <1>10, <1>11 DEF IInv, Disjoint, Ascending, NoRepeat

LEMMA StutterInv ==
  ASSUME IInv, UNCHANGED vars
  PROVE  IInv'
<1>1. TypeOK' /\ OpenRun' /\ InOrder' /\ LoopOrder'
  BY DEF vars, merged, IInv, TypeOK, OpenRun, InOrder, LoopOrder
<1>2. Disjoint(unsorted') /\ Disjoint(added')
  BY DEF vars, merged, IInv
<1>3. Ascending(out)' /\ NoRepeat(out)'
  BY DEF vars, merged, IInv, Ascending, NoRepeat
<1>4. NothingLost'
  BY DEF vars, merged, IInv, NothingLost, Held, RecordOf, RecordAt, InRun
<1>. QED  BY <1>1, <1>2, <1>3, <1>4 DEF IInv, Disjoint, Ascending, NoRepeat

LEMMA NextInv == IInv /\ [Next]_vars => IInv'
BY AddInOrderInv, AddOutOfOrderInv, AddCollectedInv, ResetInv, ReplayInv,
   CloseInv, StutterInv DEF Next

(* The inductive invariant holds in every reachable state. *)
THEOREM Invariance == Spec => []IInv
<1>. QED  BY InitInv, NextInv, PTL DEF Spec

(* merger4's variables hold values of their types; no boundary past the    *)
(* top of the address space is pushed.                                     *)
THEOREM TypeCorrect == Spec => []TypeOK
<1>1. IInv => TypeOK
  BY DEF IInv
<1>. QED  BY <1>1, Invariance, PTL

(* merger4 holds exactly the networks added, at every point of the merge.  *)
THEOREM NeverLosesANetwork == Spec => []NothingLost
<1>1. IInv => NothingLost
  BY DEF IInv
<1>. QED  BY <1>1, Invariance, PTL

(* merger4's boundaries ascend strictly, at every point of the merge.      *)
THEOREM AlwaysAscending == Spec => []BoundariesAscend
<1>1. IInv => BoundariesAscend
  BY DEF IInv, BoundariesAscend
<1>. QED  BY <1>1, Invariance, PTL

-----------------------------------------------------------------------------
(* In a list that ascends and repeats no record, a boundary starts where,  *)
(* and only where, the answer changes.                                     *)
LEMMA StartsAreChanges ==
  ASSUME NEW bs \in BoundaryLists, Ascending(bs), NoRepeat(bs),
         NEW a \in Addresses
  PROVE  (\E i \in 1..Len(bs) : bs[i].start = a) <=>
           RecordAt(bs, a) # IF a = 0 THEN NoRecord ELSE RecordAt(bs, a - 1)
<1> DEFINE n == Len(bs)
<1>1. /\ n \in Nat /\ a \in Int /\ a >= 0
      /\ \A i \in 1..n : bs[i].start \in Int /\ bs[i].start >= 0
  BY StartsAreAddresses DEF BoundaryLists, Addresses
<1>2. ASSUME NEW i \in 1..n, bs[i].start = a
      PROVE  RecordAt(bs, a) # IF a = 0 THEN NoRecord ELSE RecordAt(bs, a - 1)
  <2>1. InRun(bs, i, a)
    BY <1>1, <1>2 DEF InRun, Ascending
  <2>2. RecordAt(bs, a) = bs[i].rec
    BY <1>1, <2>1, RecordAtRun
  <2>3. CASE i = 1
    <3>1. \A j \in 1..n : bs[1].start <= bs[j].start
      BY <1>1 DEF Ascending
    <3>2. \A j \in 1..n : ~InRun(bs, j, a - 1)
      BY <1>1, <1>2, <2>3, <3>1 DEF InRun
    <3>3. RecordAt(bs, a - 1) = NoRecord
      BY <3>2, RecordAtNone
    <3>4. bs # <<>>
      BY <1>1, <2>3
    <3>. QED  BY <2>2, <2>3, <3>3, <3>4 DEF NoRepeat
  <2>4. CASE i > 1
    <3>1. i - 1 \in 1..n /\ i - 1 \in 1..(n - 1)
      BY <1>1, <2>4
    <3>2. bs[i - 1].start < bs[i].start
      BY <1>1, <3>1 DEF Ascending
    <3>3. InRun(bs, i - 1, a - 1) /\ a # 0
      BY <1>1, <1>2, <3>1, <3>2 DEF InRun
    <3>4. RecordAt(bs, a - 1) = bs[i - 1].rec
      BY <1>1, <3>1, <3>3, RecordAtRun
    <3>5. bs[i - 1].rec # bs[(i - 1) + 1].rec
      BY <3>1 DEF NoRepeat
    <3>. QED  BY <1>1, <2>2, <3>3, <3>4, <3>5
  <2>. QED  BY <1>1, <2>3, <2>4
<1>3. ASSUME \A i \in 1..n : bs[i].start # a
      PROVE  RecordAt(bs, a) = IF a = 0 THEN NoRecord ELSE RecordAt(bs, a - 1)
  <2>1. CASE a = 0
    <3>1. \A i \in 1..n : ~InRun(bs, i, a)
      BY <1>1, <1>3, <2>1 DEF InRun
    <3>. QED  BY <2>1, <3>1, RecordAtNone
  <2>2. CASE a # 0
    <3>1. \A i \in 1..n : InRun(bs, i, a) => InRun(bs, i, a - 1)
      BY <1>1, <1>3 DEF InRun
    <3>2. \A i \in 1..n : InRun(bs, i, a - 1) => InRun(bs, i, a)
      <4>1. SUFFICES ASSUME NEW i \in 1..n, InRun(bs, i, a - 1)
                     PROVE  InRun(bs, i, a)
        OBVIOUS
      <4>2. i < n => i + 1 \in 1..n
        BY <1>1
      <4>. QED  BY <1>1, <1>3, <4>1, <4>2 DEF InRun
    <3>3. CASE \E i \in 1..n : InRun(bs, i, a)
      <4>1. PICK i \in 1..n : InRun(bs, i, a)
        BY <3>3
      <4>2. RecordAt(bs, a) = bs[i].rec
        BY <1>1, <4>1, RecordAtRun
      <4>3. a - 1 \in Int /\ InRun(bs, i, a - 1)
        BY <1>1, <3>1, <4>1
      <4>4. RecordAt(bs, a - 1) = bs[i].rec
        BY <4>3, RecordAtRun
      <4>. QED  BY <2>2, <4>2, <4>4
    <3>4. CASE \A i \in 1..n : ~InRun(bs, i, a)
      BY <2>2, <3>2, <3>4, RecordAtNone
    <3>. QED  BY <3>3, <3>4
  <2>. QED  BY <2>1, <2>2
<1>. QED  BY <1>2, <1>3

(* What finish returns depends on the networks only: "the boundaries are   *)
(* the same either way", for every order of every set of networks.         *)
THEOREM OrderDoesNotMatter == Spec => []SameEitherWay
<1>1. ASSUME IInv PROVE SameEitherWay
  <2>1. SUFFICES ASSUME phase = "done"
        PROVE  {out[i].start : i \in 1..Len(out)} =
                 {a \in Addresses : ChangesAt(a)}
    BY DEF SameEitherWay
  <2>2. /\ out \in BoundaryLists /\ Ascending(out) /\ NoRepeat(out)
        /\ unsorted = {} /\ ~collecting
    BY <1>1, <2>1 DEF IInv, TypeOK, BoundaryLists, LoopOrder
  <2>3. \A a \in Addresses : RecordOf(added, a) = RecordAt(out, a)
    BY <1>1, <2>1, <2>2 DEF IInv, NothingLost, Held
  <2>4. ASSUME NEW a \in Addresses
        PROVE  ChangesAt(a) <=> \E i \in 1..Len(out) : out[i].start = a
    <3>1. a # 0 => a - 1 \in Addresses
      BY TopAssumption DEF Addresses
    <3>2. ChangesAt(a) <=>
            RecordAt(out, a) # IF a = 0 THEN NoRecord ELSE RecordAt(out, a - 1)
      BY <2>3, <3>1 DEF ChangesAt
    <3>. QED  BY <2>2, <3>2, StartsAreChanges
  <2>5. \A i \in 1..Len(out) : out[i].start \in Addresses
    BY <2>2, StartsAreAddresses
  <2>. QED  BY <2>4, <2>5
<1>. QED  BY <1>1, Invariance, PTL

(* merger4 publishes the map the abstract builder publishes.               *)
THEOREM Refinement == Spec => ImplementsCoverage
<1> DEFINE avars == <<added, answers>>
<1>1. Init => Abstract!Init
  BY DEF Init, Abstract!Init, Abstract!NotFinished, answers
<1>2. ASSUME IInv, IInv', [Next]_vars
      PROVE  [Abstract!Next]_avars
  <2>1. ASSUME NEW r \in Ranges, New(r)
        PROVE  Abstract!Add(r)
    BY <2>1 DEF New, Abstract!Add, Abstract!NotFinished, answers, Overlap, Abstract!Overlap
  <2>2. ASSUME added' = added, phase # "done", phase' # "done"
        PROVE  UNCHANGED avars
    BY <2>2 DEF answers
  <2>3. ASSUME Close
        PROVE  Abstract!Finish
    <3>1. phase # "done" /\ phase' = "done" /\ added' = added
      BY <2>3 DEF Close
    <3>2. unsorted' = {} /\ ~collecting'
      BY <1>2, <3>1 DEF IInv, LoopOrder
    <3>3. \A a \in Addresses : RecordAt(out', a) = RecordOf(added, a)
      BY <1>2, <3>1, <3>2
         DEF IInv, NothingLost, Held, RecordOf, RecordAt, InRun
    <3>4. answers = <<>> /\ answers' = [a \in Addresses |-> RecordAt(out', a)]
      BY <3>1 DEF answers, RecordAt, InRun
    <3>. QED
      BY <3>1, <3>3, <3>4 DEF Abstract!Finish, Abstract!NotFinished,
         Abstract!Addresses, Addresses, Abstract!RecordOf, RecordOf,
         Abstract!Contains, Contains, Abstract!NoRecord
  <2>4. ASSUME UNCHANGED vars PROVE UNCHANGED avars
    BY <2>4 DEF vars, merged, answers, RecordAt, InRun
  <2>5. ASSUME NEW r \in Ranges, AddInOrder(r) \/ AddOutOfOrder(r) \/ AddCollected(r)
        PROVE  Abstract!Next
    <3>1. Abstract!Add(r)
      BY <2>1, <2>5 DEF AddInOrder, AddOutOfOrder, AddCollected
    <3>. QED  BY <3>1 DEF Abstract!Next, Abstract!Ranges, Ranges,
              Abstract!Addresses, Addresses
  <2>6. ASSUME Reset \/ \E r \in unsorted : Replay(r) PROVE UNCHANGED avars
    BY <2>2, <2>6 DEF Reset, Replay
  <2>. QED  BY <1>2, <2>3, <2>4, <2>5, <2>6 DEF Next, Abstract!Next
<1>3. Spec => []IInv
  BY Invariance
<1>. QED  BY <1>1, <1>2, <1>3, PTL DEF Spec, ImplementsCoverage, Abstract!Spec

-----------------------------------------------------------------------------
(***************************************************************************)
(* merger6 is merger4.  Its variables are merger4's but for what it keeps  *)
(* of expected: the wrapped address and the flag.  expected itself is tied *)
(* to these by Unwrapped, which any behaviour of merger6 satisfies with    *)
(* some expected, as M6!Spec does not mention it.                          *)
(***************************************************************************)
VARIABLES wrapped, haveExpected

M6 == INSTANCE Merger6 WITH expected <- wrapped

Unwrapped == expected = M6!unwrapped

(* The flag is clear exactly when the address is 0. *)
Flagged ==
  /\ wrapped \in Addresses /\ haveExpected \in BOOLEAN
  /\ haveExpected <=> wrapped # 0

LEMMA SameData ==
  /\ M6!Ranges = Ranges /\ M6!NoRecord = NoRecord /\ M6!Size = Top + 1
  /\ \A r, s : M6!Overlap(r, s) <=> Overlap(r, s)
  /\ \A r, s : M6!Boundary(r, s) = Boundary(r, s)
<1>1. M6!Ranges = Ranges
  BY DEF M6!Ranges, Ranges, M6!Addresses, Addresses
<1>2. M6!NoRecord = NoRecord
  BY DEF M6!NoRecord, NoRecord
<1>3. M6!Size = Top + 1
  BY DEF M6!Size
<1>4. \A r, s : M6!Overlap(r, s) <=> Overlap(r, s)
  BY DEF M6!Overlap, Overlap
<1>5. \A r, s : M6!Boundary(r, s) = Boundary(r, s)
  BY DEF M6!Boundary, Boundary
<1>. QED  BY <1>1, <1>2, <1>3, <1>4, <1>5

(* inc16 and dec16 wrap at the ends of the address space only. *)
LEMMA IncDec ==
  ASSUME NEW x \in Addresses
  PROVE  /\ M6!Inc16(x).res = IF x = Top THEN 0 ELSE x + 1
         /\ M6!Inc16(x).overflow <=> x = Top
         /\ M6!Dec16(x) = IF x = 0 THEN Top ELSE x - 1
<1>1. /\ x \in Int /\ 0 <= x /\ x <= Top /\ Top \in Nat
      /\ M6!Size = Top + 1
  BY TopAssumption, SameData DEF Addresses
<1>2. ASSUME NEW y \in 0..Top PROVE y % (Top + 1) = y
  BY <1>1, <1>2
<1>3. ASSUME NEW y \in 0..Top PROVE (y + (Top + 1)) % (Top + 1) = y
  BY <1>1, <1>3
<1>4. (x + 1) % M6!Size = IF x = Top THEN 0 ELSE x + 1
  <2>1. CASE x = Top
    <3>1. (0 + (Top + 1)) % (Top + 1) = 0
      BY <1>1, <1>3
    <3>. QED  BY <1>1, <2>1, <3>1
  <2>2. CASE x # Top
    <3>1. x + 1 \in 0..Top
      BY <1>1, <2>2
    <3>. QED  BY <1>1, <1>2, <2>2, <3>1
  <2>. QED  BY <2>1, <2>2
<1>5. (x + Top) % M6!Size = IF x = 0 THEN Top ELSE x - 1
  <2>1. CASE x = 0
    <3>1. Top % (Top + 1) = Top /\ x + Top = Top
      BY <1>1, <1>2, <2>1
    <3>. QED  BY <1>1, <2>1, <3>1
  <2>2. CASE x # 0
    <3>1. x - 1 \in 0..Top /\ (x - 1) + (Top + 1) = x + Top
      BY <1>1, <2>2
    <3>2. ((x - 1) + (Top + 1)) % (Top + 1) = x - 1
      BY <1>3, <3>1
    <3>. QED  BY <1>1, <2>2, <3>1, <3>2
  <2>. QED  BY <2>1, <2>2
<1>. QED  BY <1>4, <1>5 DEF M6!Inc16, M6!Dec16

(* What expected is while ranges are merged. *)
LEMMA ExpectedIs ==
  ASSUME IInv, phase # "done", Flagged, Unwrapped
  PROVE  /\ haveExpected => expected = wrapped
         /\ ~haveExpected => IF out = <<>> THEN expected = 0 ELSE expected = Top + 1
         /\ lastRec # NoRecord <=> out # <<>>
BY SameData DEF Flagged, Unwrapped, M6!unwrapped, IInv, OpenRun

(* merging a range above what is merged is the same step of both. *)
LEMMA SameStep ==
  ASSUME IInv, phase # "done", Flagged, Unwrapped, Unwrapped',
         NEW r \in Ranges, r.start >= expected, M6!Step(r)
  PROVE  Step(r) /\ Flagged'
<1>1. /\ r.start \in Addresses /\ r.last \in Addresses /\ r.start \in Int
      /\ r.start <= Top /\ Top \in Nat
  BY RangeFields, TopAssumption DEF Addresses
<1>2. /\ haveExpected => expected = wrapped
      /\ ~haveExpected => IF out = <<>> THEN expected = 0 ELSE expected = Top + 1
      /\ lastRec # NoRecord <=> out # <<>>
  BY ExpectedIs
<1>3. M6!Gap(r) <=> Gap(r)
  <2>1. CASE haveExpected
    BY <1>2, <2>1, SameData DEF M6!Gap, Gap
  <2>2. CASE ~haveExpected
    BY <1>1, <1>2, <2>2, SameData DEF M6!Gap, Gap
  <2>. QED  BY <2>1, <2>2
<1>4. Gap(r) => expected = wrapped
  BY <1>1, <1>2 DEF Gap
<1>5. M6!Closed(r) = Closed(r)
  BY <1>3, <1>4, SameData DEF M6!Closed, Closed
<1>6. M6!Opened(r) = Opened(r)
  BY <1>3, <1>5, SameData DEF M6!Opened, Opened
<1>7. /\ out' = Opened(r) /\ lastRec' = r.rec
      /\ wrapped' = M6!Inc16(r.last).res
      /\ haveExpected' = ~M6!Inc16(r.last).overflow
  BY <1>6 DEF M6!Step
<1>8. /\ wrapped' = IF r.last = Top THEN 0 ELSE r.last + 1
      /\ haveExpected' = (r.last # Top)
  BY <1>1, <1>7, IncDec
<1>9. out' # <<>>
  <2>1. out \in Seq(BoundarySet)
    BY DEF IInv, TypeOK
  <2>2. Closed(r) \in Seq({Boundary(expected, NoRecord)} \union BoundarySet)
    BY <2>1 DEF Closed
  <2>3. r.rec # NoRecord
    BY RangeFields
  <2>4. CASE Gap(r) \/ r.rec # lastRec
    BY <1>7, <2>2, <2>4 DEF Opened
  <2>5. CASE ~Gap(r) /\ r.rec = lastRec
    BY <1>2, <1>7, <2>3, <2>5 DEF Opened, Closed
  <2>. QED  BY <2>4, <2>5
<1>10. expected' = r.last + 1
  BY <1>1, <1>8, <1>9, SameData DEF Unwrapped, M6!unwrapped, M6!Size, Addresses
<1>11. Flagged'
  <2>1. wrapped' \in Addresses /\ (wrapped' # 0 <=> r.last # Top)
    BY <1>1, <1>8 DEF Addresses
  <2>. QED  BY <1>8, <2>1 DEF Flagged
<1>. QED  BY <1>7, <1>10, <1>11 DEF Step

(* What was merged is recovered alike. *)
LEMMA SameRecovery ==
  ASSUME IInv, phase = "adding", Flagged, Unwrapped
  PROVE  M6!RecoveredRanges = RecoveredRanges
<1>1. /\ out \in BoundaryLists /\ Ascending(out) /\ Len(out) \in Nat
      /\ Top \in Nat
  BY TopAssumption DEF IInv, TypeOK, BoundaryLists
<1>2. /\ haveExpected => expected = wrapped
      /\ ~haveExpected => IF out = <<>> THEN expected = 0 ELSE expected = Top + 1
  BY ExpectedIs
<1>3. ASSUME NEW m \in 1..Len(out) PROVE M6!RunEnd(m) = RunEnd(m)
  <2>1. CASE m < Len(out)
    <3>1. m + 1 \in 1..Len(out) /\ m < m + 1
      BY <1>1, <2>1
    <3>2. /\ out[m].start \in Addresses /\ out[m + 1].start \in Addresses
          /\ out[m].start < out[m + 1].start
      BY <1>1, <3>1, StartsAreAddresses DEF Ascending
    <3>3. out[m + 1].start # 0
      BY <3>2 DEF Addresses
    <3>. QED  BY <2>1, <3>2, <3>3, IncDec DEF M6!RunEnd, RunEnd
  <2>2. CASE ~(m < Len(out))
    <3>1. out # <<>> /\ wrapped \in Addresses /\ (haveExpected <=> wrapped # 0)
      BY <1>1 DEF Flagged
    <3>. QED  BY <1>1, <1>2, <2>2, <3>1, IncDec DEF M6!RunEnd, RunEnd
  <2>. QED  BY <2>1, <2>2
<1>4. \A m \in 1..Len(out) : M6!Run(m) = Run(m)
  BY <1>3 DEF M6!Run, Run
<1>. QED  BY <1>4, SameData DEF M6!RecoveredRanges, RecoveredRanges

(* Every step of merger6 is the same step of merger4. *)
LEMMA SameNext ==
  ASSUME IInv, Flagged, Unwrapped, Unwrapped', [M6!Next]_(M6!vars)
  PROVE  [Next]_vars /\ Flagged'
<1>1. ASSUME NEW r \in Ranges, M6!AddInOrder(r)
      PROVE  AddInOrder(r) /\ Flagged'
  <2>1. New(r) /\ ~collecting /\ ~OutOfOrder(r)
    BY <1>1, SameData DEF M6!AddInOrder, M6!New, New, M6!OutOfOrder, OutOfOrder
  <2>2. r.start >= expected
    BY <2>1, InOrderIsAbove DEF New
  <2>3. Step(r) /\ Flagged'
    BY <1>1, <2>1, <2>2, SameStep DEF M6!AddInOrder, New
  <2>. QED  BY <1>1, <2>1, <2>3 DEF M6!AddInOrder, AddInOrder
<1>2. ASSUME UNCHANGED <<out, wrapped, haveExpected>>
      PROVE  expected' = expected /\ Flagged'
  BY <1>2 DEF Unwrapped, M6!unwrapped, M6!Size, Flagged
<1>3. ASSUME NEW r \in Ranges, M6!AddOutOfOrder(r)
      PROVE  AddOutOfOrder(r) /\ Flagged'
  <2>1. New(r) /\ ~collecting /\ OutOfOrder(r)
    BY <1>3, SameData DEF M6!AddOutOfOrder, M6!New, New, M6!OutOfOrder, OutOfOrder
  <2>2. M6!RecoveredRanges = RecoveredRanges
    BY <2>1, SameRecovery DEF New
  <2>3. expected' = expected /\ Flagged'
    BY <1>2, <1>3 DEF M6!AddOutOfOrder, M6!merged
  <2>. QED  BY <1>3, <2>1, <2>2, <2>3 DEF M6!AddOutOfOrder, AddOutOfOrder, M6!merged, merged
<1>4. ASSUME NEW r \in Ranges, M6!AddCollected(r)
      PROVE  AddCollected(r) /\ Flagged'
  <2>1. expected' = expected /\ Flagged'
    BY <1>2, <1>4 DEF M6!AddCollected, M6!merged
  <2>. QED  BY <1>4, <2>1, SameData
       DEF M6!AddCollected, AddCollected, M6!New, New, M6!merged, merged
<1>5. ASSUME M6!Reset
      PROVE  Reset /\ Flagged'
  <2>1. out' = <<>> /\ wrapped' = 0 /\ haveExpected' = FALSE
    BY <1>5 DEF M6!Reset
  <2>2. expected' = 0
    BY <2>1 DEF Unwrapped, M6!unwrapped
  <2>3. 0 \in Addresses
    BY TopAssumption DEF Addresses
  <2>4. Flagged'
    BY <2>1, <2>3 DEF Flagged
  <2>. QED  BY <1>5, <2>2, <2>4, SameData DEF M6!Reset, Reset
<1>6. ASSUME NEW r \in unsorted, M6!Replay(r)
      PROVE  Replay(r) /\ Flagged'
  <2>1. phase = "replaying" /\ M6!Step(r)
    BY <1>6 DEF M6!Replay
  <2>2. r \in Ranges /\ r.start >= expected
    BY <2>1 DEF IInv, TypeOK, LoopOrder
  <2>3. Step(r) /\ Flagged'
    BY <2>1, <2>2, SameStep
  <2>. QED  BY <1>6, <2>3 DEF M6!Replay, Replay
<1>7. ASSUME M6!Close
      PROVE  Close /\ Flagged'
  <2>1. phase # "done"
    BY <1>7 DEF M6!Close
  <2>2. /\ haveExpected => expected = wrapped
        /\ ~haveExpected => IF out = <<>> THEN expected = 0 ELSE expected = Top + 1
        /\ lastRec # NoRecord <=> out # <<>>
    BY <2>1, ExpectedIs
  <2>3. lastRec # NoRecord /\ haveExpected <=> GapFollows
    BY <2>2, TopAssumption DEF GapFollows, Flagged, Addresses
  <2>4. out' = IF GapFollows THEN Append(out, Boundary(expected, NoRecord)) ELSE out
    BY <1>7, <2>2, <2>3, SameData DEF M6!Close
  <2>5. out' = <<>> <=> out = <<>>
    BY <2>2, <2>4 DEF GapFollows, IInv, TypeOK
  <2>6. wrapped' = wrapped /\ haveExpected' = haveExpected
    BY <1>7 DEF M6!Close
  <2>7. expected' = expected /\ Flagged'
    BY <2>5, <2>6 DEF Unwrapped, M6!unwrapped, M6!Size, Flagged
  <2>. QED  BY <1>7, <2>4, <2>7, SameData DEF M6!Close, Close
<1>8. ASSUME UNCHANGED M6!vars
      PROVE  UNCHANGED vars /\ Flagged'
  BY <1>2, <1>8 DEF M6!vars, M6!merged, vars, merged
<1>. QED  BY <1>1, <1>3, <1>4, <1>5, <1>6, <1>7, <1>8, SameData DEF M6!Next, Next

(* merger4's definitions, with expected as merger6's variables give it. *)
LEMMA SameOperators ==
  ASSUME Unwrapped
  PROVE  /\ Init => M6!AsMerger4!Init
         /\ M6!AsMerger4!Ranges = Ranges
         /\ \A r : M6!AsMerger4!New(r) <=> New(r)
         /\ \A r : M6!AsMerger4!OutOfOrder(r) <=> OutOfOrder(r)
         /\ \A r : M6!AsMerger4!Gap(r) <=> Gap(r)
         /\ \A r : M6!AsMerger4!Opened(r) = Opened(r)
         /\ M6!AsMerger4!RecoveredRanges = RecoveredRanges
         /\ M6!AsMerger4!GapFollows <=> GapFollows
<1>1. Init => M6!AsMerger4!Init
  BY DEF Init, M6!AsMerger4!Init, M6!AsMerger4!NoRecord, NoRecord, Unwrapped
<1>2. M6!AsMerger4!Ranges = Ranges
  BY DEF M6!AsMerger4!Ranges, Ranges, M6!AsMerger4!Addresses, Addresses
<1>3. \A r : M6!AsMerger4!New(r) <=> New(r)
  BY DEF M6!AsMerger4!New, New, M6!AsMerger4!Overlap, Overlap
<1>4. \A r : M6!AsMerger4!OutOfOrder(r) <=> OutOfOrder(r)
  BY DEF M6!AsMerger4!OutOfOrder, OutOfOrder
<1>5. \A r : M6!AsMerger4!Gap(r) <=> Gap(r)
  BY DEF M6!AsMerger4!Gap, Gap, M6!AsMerger4!NoRecord, NoRecord, Unwrapped
<1>6. \A r, s : M6!AsMerger4!Boundary(r, s) = Boundary(r, s)
  BY DEF M6!AsMerger4!Boundary, Boundary
<1>7. \A r : M6!AsMerger4!Closed(r) = Closed(r)
  BY <1>5, <1>6 DEF M6!AsMerger4!Closed, Closed, M6!AsMerger4!NoRecord, NoRecord, Unwrapped
<1>8. \A r : M6!AsMerger4!Opened(r) = Opened(r)
  BY <1>5, <1>6, <1>7 DEF M6!AsMerger4!Opened, Opened
<1>9. \A m : M6!AsMerger4!Run(m) = Run(m)
  BY DEF M6!AsMerger4!Run, Run, M6!AsMerger4!RunEnd, RunEnd, Unwrapped
<1>10. M6!AsMerger4!RecoveredRanges = RecoveredRanges
  BY <1>9 DEF M6!AsMerger4!RecoveredRanges, RecoveredRanges, M6!AsMerger4!NoRecord, NoRecord
<1>11. M6!AsMerger4!GapFollows <=> GapFollows
  BY DEF M6!AsMerger4!GapFollows, GapFollows, M6!AsMerger4!NoRecord, NoRecord, Unwrapped
<1>. QED  BY <1>1, <1>2, <1>3, <1>4, <1>5, <1>8, <1>10, <1>11

LEMMA SameSteps ==
  ASSUME Unwrapped, Unwrapped', [Next]_vars
  PROVE  [M6!AsMerger4!Next]_(M6!AsMerger4!vars)
<1>1. /\ expected = M6!unwrapped /\ expected' = M6!unwrapped'
  BY DEF Unwrapped
<1>2. ASSUME NEW r, Step(r) PROVE M6!AsMerger4!Step(r)
  BY <1>1, <1>2, SameOperators DEF Step, M6!AsMerger4!Step
<1>3. ASSUME NEW r \in Ranges, AddInOrder(r) PROVE M6!AsMerger4!AddInOrder(r)
  BY <1>2, <1>3, SameOperators DEF AddInOrder, M6!AsMerger4!AddInOrder
<1>4. ASSUME NEW r \in Ranges, AddOutOfOrder(r) PROVE M6!AsMerger4!AddOutOfOrder(r)
  BY <1>1, <1>4, SameOperators
     DEF AddOutOfOrder, M6!AsMerger4!AddOutOfOrder, merged, M6!AsMerger4!merged
<1>5. ASSUME NEW r \in Ranges, AddCollected(r) PROVE M6!AsMerger4!AddCollected(r)
  BY <1>1, <1>5, SameOperators
     DEF AddCollected, M6!AsMerger4!AddCollected, merged, M6!AsMerger4!merged
<1>6. ASSUME Reset PROVE M6!AsMerger4!Reset
  BY <1>1, <1>6 DEF Reset, M6!AsMerger4!Reset, M6!AsMerger4!NoRecord, NoRecord
<1>7. ASSUME NEW r \in unsorted, Replay(r) PROVE M6!AsMerger4!Replay(r)
  BY <1>2, <1>7 DEF Replay, M6!AsMerger4!Replay
<1>8. ASSUME Close PROVE M6!AsMerger4!Close
  BY <1>1, <1>8, SameOperators
     DEF Close, M6!AsMerger4!Close, M6!AsMerger4!Boundary, Boundary,
         M6!AsMerger4!NoRecord, NoRecord
<1>9. ASSUME UNCHANGED vars PROVE UNCHANGED M6!AsMerger4!vars
  BY <1>1, <1>9 DEF vars, merged, M6!AsMerger4!vars, M6!AsMerger4!merged
<1>. QED  BY <1>3, <1>4, <1>5, <1>6, <1>7, <1>8, <1>9, SameOperators
          DEF Next, M6!AsMerger4!Next

(* With the address that has not wrapped for expected, merger6 is merger4. *)
LEMMA WrapsLikeMerger4 == M6!Spec /\ []Unwrapped => Spec
<1>1. M6!Init /\ Unwrapped => Init /\ Flagged
  <2>1. SUFFICES ASSUME M6!Init, Unwrapped PROVE Init /\ Flagged
    OBVIOUS
  <2>2. out = <<>> /\ wrapped = 0 /\ haveExpected = FALSE
    BY <2>1 DEF M6!Init
  <2>3. expected = 0
    BY <2>1, <2>2 DEF Unwrapped, M6!unwrapped
  <2>4. Init
    BY <2>1, <2>3, SameData DEF M6!Init, Init
  <2>5. 0 \in Addresses
    BY TopAssumption DEF Addresses
  <2>. QED  BY <2>2, <2>4, <2>5 DEF Flagged
<1>2. IInv /\ Flagged /\ Unwrapped /\ Unwrapped' /\ [M6!Next]_(M6!vars)
      => [Next]_vars /\ IInv' /\ Flagged'
  BY SameNext, NextInv
<1>. QED  BY <1>1, <1>2, InitInv, PTL DEF M6!Spec, Spec

(* "merger6 is merger4 for IPv6" (merge.go:138): every behaviour of merger6 *)
(* is one of merger4, though its addresses wrap.  Unwrapped asks nothing of *)
(* merger6: it says what expected, which M6!Spec does not mention, is.      *)
THEOREM Refinement6 ==
  M6!Spec /\ []Unwrapped => M6!ImplementsMerger4
<1>1. Init /\ Unwrapped => M6!AsMerger4!Init
  BY SameOperators
<1>2. Unwrapped /\ Unwrapped' /\ [Next]_vars => [M6!AsMerger4!Next]_(M6!AsMerger4!vars)
  BY SameSteps
<1>. QED  BY <1>1, <1>2, WrapsLikeMerger4, PTL
          DEF Spec, M6!ImplementsMerger4, M6!AsMerger4!Spec

(* So the boundaries merger6 publishes ascend and start exactly where the  *)
(* record changes, up to the last address of the family.                   *)
THEOREM Boundaries6 ==
  M6!Spec /\ []Unwrapped => [](BoundariesAscend /\ SameEitherWay)
BY WrapsLikeMerger4, AlwaysAscending, OrderDoesNotMatter, PTL


-----------------------------------------------------------------------------
(* The interner's table: each string once, the empty one first. *)
TableOK(t) ==
  /\ t = [list |-> t.list, u16 |-> t.u16]
  /\ t.list \in Seq(AnyString) /\ t.list # <<>> /\ t.list[1] = Empty
  /\ \A c, d \in 1..Len(t.list) : t.list[c] = t.list[d] => c = d
  /\ t.u16 \subseteq 0..(Len(t.list) - 1) /\ 0 \in t.u16

Has(t, s) == \E c \in 1..Len(t.list) : t.list[c] = s

(* w has the strings of t under their ids, and perhaps more. *)
Grows(t, w) ==
  /\ Len(t.list) <= Len(w.list)
  /\ \A c \in 1..Len(t.list) : w.list[c] = t.list[c]
  /\ t.u16 \subseteq w.u16

Keys == [country : Nat, city : Nat, tz : Nat, ext : Nat]

KeptRecords == [country : AnyString, city : AnyString, tz : AnyString, alt : AnyString]

Types ==
  /\ profile \in {"asn", "country", "city"} /\ hasX \in BOOLEAN
  /\ pc \in {"building", "finished", "failed"}
  /\ TableOK(table)
  /\ recs \in Seq(Keys) /\ recs # <<>>
  /\ entries \in Seq(Nat)
  /\ meta \in Seq(Nat) /\ metaGiven \in Seq(AnyString)
  /\ given \in Seq([rec : SourceRecords, id : Nat])

(* The ids of a key are those of strings of t and of one of n entries. *)
KeyIn(t, n, key) ==
  /\ key.country \in t.u16 /\ key.tz \in t.u16
  /\ key.city \in 0..(Len(t.list) - 1)
  /\ key.ext + 1 \in 1..n

KeysRight ==
  /\ \A c \in 1..Len(recs) : KeyIn(table, Len(entries), recs[c])
  /\ \A c, d \in 2..Len(recs) : recs[c] = recs[d] => c = d

EntriesIn(t, ents) ==
  /\ ents \in Seq(Nat) /\ ents # <<>>
  /\ \A c \in 1..Len(ents) : ents[c] \in 0..(Len(t.list) - 1)
  /\ \A c, d \in 1..Len(ents) : ents[c] = ents[d] => c = d

EntriesRight == EntriesIn(table, entries) /\ entries[1] = 0 /\ (~hasX => entries = <<0>>)

(* The strings whose ids a key has. *)
StringsOf(t, ents, key) ==
  [country |-> t.list[key.country + 1], city |-> t.list[key.city + 1],
   tz |-> t.list[key.tz + 1], alt |-> t.list[ents[key.ext + 1] + 1]]

(* Kept, of a profile p with extension entries or without. *)
KeptOf(p, x, r) ==
  [country |-> IF p = "asn" THEN Empty ELSE r.country,
   city    |-> IF p = "country" THEN Empty ELSE r.city,
   tz      |-> IF p = "city" THEN r.tz ELSE Empty,
   alt     |-> IF x THEN r.alt ELSE Empty]

GivenRight ==
  \A c \in 1..Len(given) :
    /\ given[c].id \in 1..(Len(recs) - 1)
    /\ StringsOf(table, entries, recs[given[c].id + 1]) = KeptOf(profile, hasX, given[c].rec)

MetaRight ==
  /\ Len(meta) = Len(metaGiven)
  /\ \A c \in 1..Len(meta) :
       meta[c] \in 0..(Len(table.list) - 1) /\ table.list[meta[c] + 1] = metaGiven[c]

(* The table has the strings that are used, and no others. *)
NarrowUse(s) ==
  s = Empty \/ \E c \in 1..Len(given) :
                 LET k == KeptOf(profile, hasX, given[c].rec) IN s = k.country \/ s = k.tz
Use(s) ==
  \/ NarrowUse(s)
  \/ \E c \in 1..Len(given) :
       LET k == KeptOf(profile, hasX, given[c].rec) IN s = k.city \/ s = k.alt
  \/ \E c \in 1..Len(metaGiven) : s = metaGiven[c]

Narrow(t, s) == \E p \in t.u16 : t.list[p + 1] = s

UsesRight ==
  \A s : (Has(table, s) <=> Use(s)) /\ (Narrow(table, s) <=> NarrowUse(s))

FileRight ==
  /\ pc = "building" => file.records = <<>>
  /\ pc = "failed" => (TooLong \/ TooMany) /\ file.records = <<>>
  /\ pc = "finished" => ~TooLong /\ ~TooMany /\ file = Encoded

SInv ==
  /\ Types /\ KeysRight /\ EntriesRight /\ GivenRight /\ MetaRight
  /\ UsesRight /\ FileRight

-----------------------------------------------------------------------------
(* Interning. *)
LEMMA IdIs ==
  ASSUME NEW t, TableOK(t), NEW c \in 1..Len(t.list)
  PROVE  IdOf(t, t.list[c]) = c - 1
<1> DEFINE k == CHOOSE d \in DOMAIN t.list : t.list[d] = t.list[c]
<1>1. DOMAIN t.list = 1..Len(t.list)
  BY DEF TableOK
<1>2. k \in 1..Len(t.list) /\ t.list[k] = t.list[c]
  BY <1>1
<1>3. k = c
  BY <1>2 DEF TableOK
<1>. QED  BY <1>3 DEF IdOf

LEMMA GrowsTrans ==
  ASSUME NEW t, NEW u, NEW w, TableOK(t), TableOK(u), TableOK(w), Grows(t, u), Grows(u, w)
  PROVE  Grows(t, w)
<1>1. Len(t.list) \in Nat /\ Len(u.list) \in Nat /\ Len(w.list) \in Nat
  BY DEF TableOK
<1>. QED  BY <1>1 DEF Grows

LEMMA GrowsSelf ==
  ASSUME NEW t, TableOK(t)
  PROVE  Grows(t, t)
<1>1. Len(t.list) \in Nat
  BY DEF TableOK
<1>. QED  BY <1>1 DEF Grows

LEMMA InternIs ==
  ASSUME NEW t, TableOK(t), NEW s \in AnyString
  PROVE  LET w == Intern(t, s)
         IN  /\ TableOK(w) /\ Grows(t, w) /\ w.u16 = t.u16
             /\ IdOf(w, s) \in 0..(Len(w.list) - 1) /\ w.list[IdOf(w, s) + 1] = s
             /\ \A x : Has(w, x) <=> Has(t, x) \/ x = s
<1> DEFINE w == Intern(t, s)
<1>0. DOMAIN t.list = 1..Len(t.list) /\ Len(t.list) \in Nat \ {0} /\ t.list \in Seq(AnyString)
  BY DEF TableOK
<1>1. CASE Has(t, s)
  <2>1. PICK c \in 1..Len(t.list) : t.list[c] = s
    BY <1>1 DEF Has
  <2>2. w = t
    BY <1>0, <2>1 DEF Intern
  <2>3. IdOf(t, s) = c - 1
    BY <2>1, IdIs
  <2>4. c - 1 \in 0..(Len(t.list) - 1) /\ (c - 1) + 1 = c
    BY <1>0
  <2>. QED  BY <1>1, <2>1, <2>2, <2>3, <2>4, GrowsSelf
<1>2. CASE ~Has(t, s)
  <2> DEFINE L == Append(t.list, s)
  <2>1. w = [list |-> L, u16 |-> t.u16]
    <3>1. ~\E k \in DOMAIN t.list : t.list[k] = s
      BY <1>0, <1>2 DEF Has
    <3>2. w = [t EXCEPT !.list = L]
      BY <3>1 DEF Intern
    <3>. QED  BY <3>2 DEF TableOK
  <2>2. /\ L \in Seq(AnyString) /\ Len(L) = Len(t.list) + 1 /\ L[Len(t.list) + 1] = s
        /\ \A x \in 1..Len(t.list) : L[x] = t.list[x]
    BY <1>0, Appended
  <2> HIDE DEF L
  <2>3. w.list = L /\ w.u16 = t.u16 /\ w = [list |-> w.list, u16 |-> w.u16]
    BY <2>1
  <2> HIDE DEF w
  <2>4. ASSUME NEW c \in 1..Len(L), NEW d \in 1..Len(L), L[c] = L[d] PROVE c = d
    <3>1. \A x \in 1..Len(t.list) : L[x] # s
      BY <1>2, <2>2 DEF Has
    <3>2. CASE c = Len(t.list) + 1 \/ d = Len(t.list) + 1
      BY <1>0, <2>2, <2>4, <3>1, <3>2
    <3>3. CASE c \in 1..Len(t.list) /\ d \in 1..Len(t.list)
      BY <2>2, <2>4, <3>3 DEF TableOK
    <3>. QED  BY <1>0, <2>2, <3>2, <3>3
  <2>5. TableOK(w)
    <3>1. L # <<>> /\ L[1] = Empty
      BY <1>0, <2>2 DEF TableOK
    <3>2. t.u16 \subseteq 0..(Len(L) - 1) /\ 0 \in t.u16
      BY <1>0, <2>2 DEF TableOK
    <3>. QED  BY <2>2, <2>3, <2>4, <3>1, <3>2 DEF TableOK
  <2>6. Grows(t, w)
    BY <1>0, <2>2, <2>3 DEF Grows
  <2>7. IdOf(w, s) = Len(t.list)
    <3>1. Len(t.list) + 1 \in 1..Len(w.list)
      BY <1>0, <2>2, <2>3
    <3>2. IdOf(w, w.list[Len(t.list) + 1]) = (Len(t.list) + 1) - 1
      BY <2>5, <3>1, IdIs
    <3>. QED  BY <1>0, <2>2, <2>3, <3>2
  <2>8. \A x : Has(w, x) <=> Has(t, x) \/ x = s
    <3>1. \A c : c \in 1..Len(L) <=> c \in 1..Len(t.list) \/ c = Len(t.list) + 1
      BY <1>0, <2>2
    <3>. QED  BY <2>2, <2>3, <3>1 DEF Has
  <2>9. IdOf(w, s) \in 0..(Len(w.list) - 1) /\ w.list[IdOf(w, s) + 1] = s
    BY <1>0, <2>2, <2>3, <2>7
  <2>. QED  BY <2>3, <2>5, <2>6, <2>8, <2>9 DEF w
<1>. QED  BY <1>1, <1>2

LEMMA Intern16Is ==
  ASSUME NEW t, TableOK(t), NEW s \in AnyString
  PROVE  LET w == Intern16(t, s)
         IN  /\ TableOK(w) /\ Grows(t, w)
             /\ w.u16 = t.u16 \union {IdOf(w, s)}
             /\ IdOf(w, s) \in 0..(Len(w.list) - 1) /\ w.list[IdOf(w, s) + 1] = s
             /\ \A x : Has(w, x) <=> Has(t, x) \/ x = s
<1> DEFINE v == Intern(t, s)
           w == Intern16(t, s)
<1>1. /\ TableOK(v) /\ Grows(t, v) /\ v.u16 = t.u16
      /\ IdOf(v, s) \in 0..(Len(v.list) - 1) /\ v.list[IdOf(v, s) + 1] = s
      /\ \A x : Has(v, x) <=> Has(t, x) \/ x = s
  BY InternIs
<1>2. w = [v EXCEPT !.u16 = v.u16 \union {IdOf(v, s)}]
  BY DEF Intern16
<1> HIDE DEF v, w
<1>3. v = [list |-> v.list, u16 |-> v.u16]
  BY <1>1 DEF TableOK
<1>4. w = [list |-> v.list, u16 |-> v.u16 \union {IdOf(v, s)}]
  BY <1>2, <1>3
<1>5. w.list = v.list /\ w.u16 = t.u16 \union {IdOf(v, s)} /\ w = [list |-> w.list, u16 |-> w.u16]
  BY <1>1, <1>4
<1>6. IdOf(w, s) = IdOf(v, s)
  BY <1>5 DEF IdOf
<1>7. TableOK(w)
  BY <1>1, <1>5 DEF TableOK
<1>8. Grows(t, w)
  BY <1>1, <1>5 DEF Grows
<1>9. \A x : Has(w, x) <=> Has(t, x) \/ x = s
  BY <1>1, <1>5 DEF Has
<1>. QED  BY <1>1, <1>5, <1>6, <1>7, <1>8, <1>9 DEF w

Tables == {t \in [list : Seq(AnyString), u16 : SUBSET Nat] : TableOK(t)}

LEMMA TableIn ==
  ASSUME NEW t, TableOK(t)
  PROVE  t \in Tables
<1>1. t.list \in Seq(AnyString) /\ t.u16 \in SUBSET Nat /\ t = [list |-> t.list, u16 |-> t.u16]
  BY DEF TableOK
<1>. QED  BY <1>1 DEF Tables

LEMMA NewInternerIs ==
  TableOK(NewInterner) /\ \A x : Has(NewInterner, x) <=> x = Empty
<1>1. NewInterner.list = <<Empty>> /\ NewInterner.u16 = {0}
  BY DEF NewInterner
<1>2. /\ <<Empty>> \in Seq(AnyString) /\ Len(<<Empty>>) = 1 /\ <<Empty>>[1] = Empty
      /\ <<Empty>> # <<>>
  BY DEF AnyString
<1>3. \A c : c \in 1..1 <=> c = 1
  OBVIOUS
<1>4. TableOK(NewInterner)
  BY <1>1, <1>2, <1>3 DEF TableOK, NewInterner
<1>. QED  BY <1>1, <1>2, <1>3, <1>4 DEF Has

(* The strings of META and LANGS are the first, with the empty one. *)
LEMMA InternedIs ==
  ASSUME NEW strings \in Seq(AnyString)
  PROVE  LET w == Interned(strings)
         IN  /\ TableOK(w) /\ w.u16 = {0}
             /\ \A x : Has(w, x) <=> x = Empty \/ \E c \in 1..Len(strings) : strings[c] = x
<1> DEFINE N == Len(strings)
           step == [q \in (1..N) \X Tables |-> Intern(q[2], strings[q[1]])]
           F == CHOOSE f : f = [m \in 0..N |-> IF m = 0 THEN NewInterner
                                               ELSE Intern(f[m - 1], strings[m])]
<1>1. N \in Nat /\ NewInterner \in Tables
  BY NewInternerIs, TableIn
<1>2. step \in [(1..N) \X Tables -> Tables]
  <2>1. ASSUME NEW q \in (1..N) \X Tables
        PROVE  Intern(q[2], strings[q[1]]) \in Tables
    <3>0. q[1] \in 1..N /\ q[2] \in Tables
      OBVIOUS
    <3>1. TableOK(q[2]) /\ strings[q[1]] \in AnyString
      BY <3>0, Element DEF Tables
    <3>2. \A u, s : TableOK(u) /\ s \in AnyString => TableOK(Intern(u, s))
      BY InternIs
    <3>3. TableOK(Intern(q[2], strings[q[1]]))
      BY <3>1, <3>2
    <3>. QED  BY <3>3, TableIn
  <2>. QED  BY <2>1
<1>3. PICK G \in [0..N -> Tables] : Recurses(G, NewInterner, step, N)
  <2> HIDE DEF step, N
  <2>. QED  BY <1>1, <1>2, Recursion
<1>4. G = [m \in 0..N |-> IF m = 0 THEN NewInterner ELSE Intern(G[m - 1], strings[m])]
  <2>1. ASSUME NEW m \in 0..N, m # 0
        PROVE  step[<<m, G[m - 1]>>] = Intern(G[m - 1], strings[m])
    <3>1. m \in 1..N /\ m - 1 \in 0..N
      BY <1>1, <2>1
    <3>2. <<m, G[m - 1]>> \in (1..N) \X Tables
      BY <3>1
    <3> DEFINE q == <<m, G[m - 1]>>
    <3>3. step[q] = Intern(q[2], strings[q[1]])
      <4> HIDE DEF q
      <4>. QED  BY <3>2 DEF q
    <3>. QED  BY <3>3
  <2> HIDE DEF step, N
  <2>2. [m \in 0..N |-> IF m = 0 THEN NewInterner ELSE step[<<m, G[m - 1]>>]]
        = [m \in 0..N |-> IF m = 0 THEN NewInterner ELSE Intern(G[m - 1], strings[m])]
    BY <2>1
  <2>. QED  BY <1>3, <2>2 DEF Recurses
<1>5. F = [m \in 0..N |-> IF m = 0 THEN NewInterner ELSE Intern(F[m - 1], strings[m])]
  BY <1>4
<1>6. Interned(strings) = F[N]
  BY DEF Interned
<1> HIDE DEF F, step
<1> DEFINE Good(w, k) == /\ TableOK(w) /\ w.u16 = {0}
                         /\ \A x : Has(w, x) <=> x = Empty \/ \E c \in 1..k : strings[c] = x
           T == {k \in 0..N : Good(F[k], k)}
<1>7. 0 \in T
  <2>1. F[0] = NewInterner
    BY <1>1, <1>5
  <2>2. NewInterner.u16 = {0}
    BY DEF NewInterner
  <2>3. Good(F[0], 0)
    BY <2>1, <2>2, NewInternerIs
  <2> HIDE DEF Good
  <2>. QED  BY <1>1, <2>3
<1>8. ASSUME NEW k \in 0..(N - 1), k \in T
      PROVE  k + 1 \in T
  <2>1. Good(F[k], k)
    <3> HIDE DEF Good
    <3>. QED  BY <1>8
  <2>2. F[k + 1] = Intern(F[k], strings[k + 1])
    <3>1. k + 1 \in 0..N /\ k + 1 # 0 /\ (k + 1) - 1 = k
      BY <1>1
    <3>. QED  BY <1>5, <3>1
  <2>3. k + 1 \in 1..N /\ strings[k + 1] \in AnyString
    <3>1. k + 1 \in 1..N
      BY <1>1
    <3>. QED  BY <3>1, Element
  <2> DEFINE s == strings[k + 1]
             u == F[k]
  <2>4. LET w == Intern(u, s)
        IN  TableOK(w) /\ w.u16 = u.u16 /\ \A x : Has(w, x) <=> Has(u, x) \/ x = s
    <3> HIDE DEF s, u
    <3>1. TableOK(u) /\ s \in AnyString
      BY <2>1, <2>3 DEF s, u
    <3>. QED  BY <3>1, InternIs
  <2>5. \A c : c \in 1..(k + 1) <=> c \in 1..k \/ c = k + 1
    OBVIOUS
  <2>6. Good(F[k + 1], k + 1)
    BY <2>1, <2>2, <2>4, <2>5
  <2> HIDE DEF Good
  <2>. QED  BY <1>1, <2>3, <2>6
<1>9. N \in T
  <2> HIDE DEF T, N
  <2>1. 0..N \subseteq T
    BY <1>1, <1>7, <1>8, UpTo
  <2>. QED  BY <1>1, <2>1
<1>. QED  BY <1>6, <1>9

-----------------------------------------------------------------------------
(* Looking up a thing in a list, or adding it. *)
LEMMA Adds ==
  ASSUME NEW S, NEW s \in Seq(S), NEW e \in S,
         \A c, d \in 1..Len(s) : s[c] = s[d] => c = d
  PROVE  LET w == Added(s, e)
         IN  /\ w \in Seq(S) /\ Len(s) <= Len(w) /\ Len(w) \in Nat
             /\ \A c \in 1..Len(s) : w[c] = s[c]
             /\ PlaceIn(s, e) \in 1..Len(w) /\ w[PlaceIn(s, e)] = e
             /\ \A c, d \in 1..Len(w) : w[c] = w[d] => c = d
             /\ \A c \in 1..Len(w) : c \in 1..Len(s) \/ w[c] = e
<1>0. DOMAIN s = 1..Len(s) /\ Len(s) \in Nat
  OBVIOUS
<1>1. CASE \E k \in DOMAIN s : s[k] = e
  <2>1. Added(s, e) = s /\ PlaceIn(s, e) = CHOOSE k \in DOMAIN s : s[k] = e
    BY <1>1 DEF Added, PlaceIn
  <2>2. PlaceIn(s, e) \in 1..Len(s) /\ s[PlaceIn(s, e)] = e
    BY <1>0, <1>1, <2>1
  <2>. QED  BY <1>0, <2>1, <2>2
<1>2. CASE ~\E k \in DOMAIN s : s[k] = e
  <2> DEFINE w == Append(s, e)
  <2>1. Added(s, e) = w /\ PlaceIn(s, e) = Len(s) + 1
    BY <1>2 DEF Added, PlaceIn
  <2>2. /\ w \in Seq(S) /\ Len(w) = Len(s) + 1 /\ w[Len(s) + 1] = e
        /\ \A x \in 1..Len(s) : w[x] = s[x]
    BY Appended
  <2> HIDE DEF w
  <2>3. \A x \in 1..Len(s) : w[x] # e
    BY <1>0, <1>2, <2>2
  <2>4. \A c : c \in 1..Len(w) <=> c \in 1..Len(s) \/ c = Len(s) + 1
    BY <1>0, <2>2
  <2>5. \A c, d \in 1..Len(w) : w[c] = w[d] => c = d
    BY <2>2, <2>3, <2>4
  <2>6. Len(s) <= Len(w) /\ Len(w) \in Nat /\ Len(s) + 1 \in 1..Len(w)
    BY <1>0, <2>2
  <2>. QED  BY <2>1, <2>2, <2>4, <2>5, <2>6
<1>. QED  BY <1>1, <1>2

-----------------------------------------------------------------------------
(* What a record interns. *)
LEMMA SameId ==
  ASSUME NEW t, NEW w, TableOK(t), TableOK(w), Grows(t, w),
         NEW c \in 0..(Len(t.list) - 1)
  PROVE  /\ c \in 0..(Len(w.list) - 1) /\ w.list[c + 1] = t.list[c + 1]
         /\ IdOf(w, t.list[c + 1]) = c
<1>1. Len(t.list) \in Nat /\ Len(w.list) \in Nat
  BY DEF TableOK
<1>2. c + 1 \in 1..Len(t.list) /\ c + 1 \in 1..Len(w.list) /\ c \in 0..(Len(w.list) - 1)
  BY <1>1 DEF Grows
<1>3. w.list[c + 1] = t.list[c + 1]
  BY <1>2 DEF Grows
<1>4. IdOf(w, w.list[c + 1]) = (c + 1) - 1
  BY <1>2, IdIs
<1>. QED  BY <1>2, <1>3, <1>4

(* w has s. *)
Holds(w, s) == IdOf(w, s) \in 0..(Len(w.list) - 1) /\ w.list[IdOf(w, s) + 1] = s

LEMMA StillHolds ==
  ASSUME NEW t, NEW w, TableOK(t), TableOK(w), Grows(t, w), NEW s, Holds(t, s)
  PROVE  Holds(w, s) /\ IdOf(w, s) = IdOf(t, s)
<1>1. PICK c \in 0..(Len(t.list) - 1) : c = IdOf(t, s) /\ t.list[c + 1] = s
  BY DEF Holds
<1>2. /\ c \in 0..(Len(w.list) - 1) /\ w.list[c + 1] = t.list[c + 1]
      /\ IdOf(w, t.list[c + 1]) = c
  BY <1>1, SameId
<1>3. IdOf(w, s) = c
  BY <1>1, <1>2
<1>4. Holds(w, s)
  BY <1>1, <1>2, <1>3 DEF Holds
<1>. QED  BY <1>1, <1>3, <1>4

Stored(k) == Intern(Keyed(k), k.alt)

LEMMA StoredIs ==
  ASSUME TableOK(table), NEW k \in KeptRecords
  PROVE  LET w == Stored(k)
         IN  /\ TableOK(w) /\ Grows(table, w)
             /\ w.u16 = table.u16 \union {IdOf(w, k.country), IdOf(w, k.tz)}
             /\ Holds(w, k.country) /\ Holds(w, k.city) /\ Holds(w, k.tz) /\ Holds(w, k.alt)
             /\ \A x : Has(w, x) <=> \/ Has(table, x) \/ x = k.country \/ x = k.city
                                     \/ x = k.tz \/ x = k.alt
<1> DEFINE t1 == Intern16(table, k.country)
           t2 == Intern(t1, k.city)
           t3 == Intern16(t2, k.tz)
           w  == Intern(t3, k.alt)
<1>0. k.country \in AnyString /\ k.city \in AnyString /\ k.tz \in AnyString /\ k.alt \in AnyString
  BY DEF KeptRecords
<1>1. /\ TableOK(t1) /\ Grows(table, t1) /\ Holds(t1, k.country)
      /\ t1.u16 = table.u16 \union {IdOf(t1, k.country)}
      /\ \A x : Has(t1, x) <=> Has(table, x) \/ x = k.country
  BY <1>0, Intern16Is DEF Holds
<1> HIDE DEF t1
<1>2. /\ TableOK(t2) /\ Grows(t1, t2) /\ Holds(t2, k.city) /\ t2.u16 = t1.u16
      /\ \A x : Has(t2, x) <=> Has(t1, x) \/ x = k.city
  BY <1>0, <1>1, InternIs DEF Holds
<1> HIDE DEF t2
<1>3. /\ TableOK(t3) /\ Grows(t2, t3) /\ Holds(t3, k.tz)
      /\ t3.u16 = t2.u16 \union {IdOf(t3, k.tz)}
      /\ \A x : Has(t3, x) <=> Has(t2, x) \/ x = k.tz
  BY <1>0, <1>2, Intern16Is DEF Holds
<1> HIDE DEF t3
<1>4. /\ TableOK(w) /\ Grows(t3, w) /\ Holds(w, k.alt) /\ w.u16 = t3.u16
      /\ \A x : Has(w, x) <=> Has(t3, x) \/ x = k.alt
  BY <1>0, <1>3, InternIs DEF Holds
<1> HIDE DEF w
<1>5. Grows(t2, w) /\ Grows(t1, w) /\ Grows(table, w)
  <2>1. Grows(t2, w)
    BY <1>2, <1>3, <1>4, GrowsTrans
  <2>2. Grows(t1, w)
    BY <1>1, <1>2, <1>4, <2>1, GrowsTrans
  <2>3. Grows(table, w)
    BY <1>1, <1>4, <2>2, GrowsTrans
  <2>. QED  BY <2>1, <2>2, <2>3
<1>6. Holds(w, k.country) /\ IdOf(w, k.country) = IdOf(t1, k.country)
  BY <1>1, <1>4, <1>5, StillHolds
<1>7. Holds(w, k.city)
  BY <1>2, <1>4, <1>5, StillHolds
<1>8. Holds(w, k.tz) /\ IdOf(w, k.tz) = IdOf(t3, k.tz)
  BY <1>3, <1>4, StillHolds
<1>9. w.u16 = table.u16 \union {IdOf(w, k.country), IdOf(w, k.tz)}
  BY <1>1, <1>2, <1>3, <1>4, <1>6, <1>8
<1>10. w = Stored(k)
  BY DEF w, t3, t2, t1, Stored, Keyed
<1>. QED  BY <1>1, <1>2, <1>3, <1>4, <1>5, <1>6, <1>7, <1>8, <1>9, <1>10

LEMMA KeptIs ==
  ASSUME NEW p, NEW x, NEW r \in SourceRecords
  PROVE  LET k == KeptOf(p, x, r) IN k \in KeptRecords /\ (~x => k.alt = Empty)
<1>1. r.country \in AnyString /\ r.city \in AnyString /\ r.tz \in AnyString /\ r.alt \in AnyString
  BY SourceAssumption
<1>2. Empty \in AnyString
  BY DEF AnyString
<1> DEFINE a == IF p = "asn" THEN Empty ELSE r.country
           b == IF p = "country" THEN Empty ELSE r.city
           c == IF p = "city" THEN r.tz ELSE Empty
           d == IF x THEN r.alt ELSE Empty
<1>3. KeptOf(p, x, r) = [country |-> a, city |-> b, tz |-> c, alt |-> d]
  BY DEF KeptOf
<1>4. a \in AnyString /\ b \in AnyString /\ c \in AnyString /\ d \in AnyString
  BY <1>1, <1>2
<1>5. ~x => d = Empty
  OBVIOUS
<1> HIDE DEF a, b, c, d
<1>. QED  BY <1>3, <1>4, <1>5 DEF KeptRecords

LEMMA KeptSame == \A r : Kept(r) = KeptOf(profile, hasX, r)
BY DEF Kept, KeptOf

(* Two keys of the same strings are one. *)
LEMMA SameKey ==
  ASSUME NEW t, NEW ents, TableOK(t), EntriesIn(t, ents), NEW a \in Keys, NEW b \in Keys,
         KeyIn(t, Len(ents), a), KeyIn(t, Len(ents), b),
         StringsOf(t, ents, a) = StringsOf(t, ents, b)
  PROVE  a = b
<1>1. \A c, d \in 0..(Len(t.list) - 1) : t.list[c + 1] = t.list[d + 1] => c = d
  <2>1. Len(t.list) \in Nat
    BY DEF TableOK
  <2>2. \A c \in 0..(Len(t.list) - 1) : c + 1 \in 1..Len(t.list) /\ c = (c + 1) - 1
    BY <2>1
  <2>. QED  BY <2>2 DEF TableOK
<1>2. \A p \in t.u16 : p \in 0..(Len(t.list) - 1)
  BY DEF TableOK
<1>3. a.country = b.country /\ a.tz = b.tz /\ a.city = b.city
  BY <1>1, <1>2 DEF StringsOf, KeyIn
<1>4. ents[a.ext + 1] = ents[b.ext + 1]
  BY <1>1 DEF StringsOf, KeyIn, EntriesIn
<1>5. a.ext + 1 = b.ext + 1
  BY <1>4 DEF KeyIn, EntriesIn
<1>6. a.ext = b.ext
  BY <1>5 DEF Keys
<1>7. /\ a = [country |-> a.country, city |-> a.city, tz |-> a.tz, ext |-> a.ext]
      /\ b = [country |-> b.country, city |-> b.city, tz |-> b.tz, ext |-> b.ext]
  BY DEF Keys
<1>. QED  BY <1>3, <1>6, <1>7

(* As the table and the entries grow, a key keeps its strings. *)
LEMMA KeyKept ==
  ASSUME NEW t, NEW w, TableOK(t), TableOK(w), Grows(t, w),
         NEW ents, NEW new, EntriesIn(t, ents), new \in Seq(Nat), Len(ents) <= Len(new),
         \A c \in 1..Len(ents) : new[c] = ents[c],
         NEW key \in Keys, KeyIn(t, Len(ents), key)
  PROVE  KeyIn(w, Len(new), key) /\ StringsOf(w, new, key) = StringsOf(t, ents, key)
<1>1. \A c \in 0..(Len(t.list) - 1) : c \in 0..(Len(w.list) - 1) /\ w.list[c + 1] = t.list[c + 1]
  BY SameId
<1>2. \A p \in t.u16 : p \in w.u16 /\ p \in 0..(Len(t.list) - 1)
  BY DEF TableOK, Grows
<1>3. Len(ents) \in Nat /\ Len(new) \in Nat
  BY DEF EntriesIn
<1>4. key.ext + 1 \in 1..Len(ents) /\ key.ext + 1 \in 1..Len(new)
  BY <1>3 DEF KeyIn
<1>5. /\ key.country \in t.u16 /\ key.tz \in t.u16 /\ key.city \in 0..(Len(t.list) - 1)
      /\ ents[key.ext + 1] \in 0..(Len(t.list) - 1) /\ new[key.ext + 1] = ents[key.ext + 1]
  BY <1>4 DEF KeyIn, EntriesIn
<1>6. /\ key.country \in w.u16 /\ key.tz \in w.u16 /\ key.city \in 0..(Len(w.list) - 1)
  BY <1>1, <1>2, <1>5
<1>7. /\ w.list[key.country + 1] = t.list[key.country + 1]
      /\ w.list[key.city + 1] = t.list[key.city + 1]
      /\ w.list[key.tz + 1] = t.list[key.tz + 1]
      /\ w.list[new[key.ext + 1] + 1] = t.list[ents[key.ext + 1] + 1]
  <2>1. key.country \in 0..(Len(t.list) - 1) /\ key.tz \in 0..(Len(t.list) - 1)
    BY <1>2, <1>5
  <2>2. w.list[ents[key.ext + 1] + 1] = t.list[ents[key.ext + 1] + 1]
    BY <1>1, <1>5, Zenon
  <2>3. w.list[new[key.ext + 1] + 1] = t.list[ents[key.ext + 1] + 1]
    BY <1>5, <2>2, Zenon
  <2>. QED  BY <1>1, <1>5, <2>1, <2>3, Zenon
<1>. QED  BY <1>4, <1>6, <1>7 DEF KeyIn, StringsOf

(* The keys after a record: record 0 first, and key where its id says. *)
LEMMA KeyAdded ==
  ASSUME NEW S, NEW s \in Seq(S), s # <<>>, NEW key \in S,
         \A c, d \in 2..Len(s) : s[c] = s[d] => c = d
  PROVE  LET w  == <<s[1]>> \o Added(Tail(s), key)
             id == PlaceIn(Tail(s), key)
         IN  /\ w \in Seq(S) /\ w # <<>> /\ Len(s) <= Len(w) /\ Len(w) \in Nat
             /\ \A c \in 1..Len(s) : w[c] = s[c]
             /\ id \in 1..(Len(w) - 1) /\ w[id + 1] = key
             /\ \A c, d \in 2..Len(w) : w[c] = w[d] => c = d
             /\ \A c \in 1..Len(w) : c \in 1..Len(s) \/ w[c] = key
<1> DEFINE t  == Tail(s)
           u  == Added(t, key)
           w  == <<s[1]>> \o u
           id == PlaceIn(t, key)
<1>1. /\ Len(s) \in Nat \ {0} /\ t \in Seq(S) /\ Len(t) = Len(s) - 1 /\ s[1] \in S
      /\ \A c \in 1..Len(t) : t[c] = s[c + 1]
  OBVIOUS
<1> HIDE DEF t
<1>2. \A c, d \in 1..Len(t) : t[c] = t[d] => c = d
  <2>1. \A c \in 1..Len(t) : c + 1 \in 2..Len(s) /\ c = (c + 1) - 1
    BY <1>1
  <2>. QED  BY <1>1, <2>1
<1>3. /\ u \in Seq(S) /\ Len(t) <= Len(u) /\ Len(u) \in Nat
      /\ \A c \in 1..Len(t) : u[c] = t[c]
      /\ id \in 1..Len(u) /\ u[id] = key
      /\ \A c, d \in 1..Len(u) : u[c] = u[d] => c = d
      /\ \A c \in 1..Len(u) : c \in 1..Len(t) \/ u[c] = key
  <2>1. t \in Seq(S)
    BY <1>1
  <2>. QED  BY <1>2, <2>1, Adds
<1> HIDE DEF u, id
<1>4. /\ w \in Seq(S) /\ Len(w) = Len(u) + 1 /\ w[1] = s[1]
      /\ \A c \in 1..Len(u) : w[c + 1] = u[c]
  BY <1>1, <1>3
<1> HIDE DEF w
<1>5. \A c \in 2..Len(w) : c - 1 \in 1..Len(u) /\ w[c] = u[c - 1]
  <2>1. ASSUME NEW c \in 2..Len(w) PROVE c - 1 \in 1..Len(u) /\ w[c] = u[c - 1]
    <3>1. c - 1 \in 1..Len(u) /\ (c - 1) + 1 = c
      BY <1>3, <1>4
    <3>. QED  BY <1>4, <3>1
  <2>. QED  BY <2>1
<1>6. \A c \in 1..Len(s) : w[c] = s[c]
  <2>1. ASSUME NEW c \in 2..Len(s) PROVE w[c] = s[c]
    <3>1. c \in 2..Len(w) /\ c - 1 \in 1..Len(t) /\ (c - 1) + 1 = c
      BY <1>1, <1>3, <1>4
    <3>. QED  BY <1>1, <1>3, <1>5, <3>1
  <2>. QED  BY <1>1, <1>4, <2>1
<1>7. \A c, d \in 2..Len(w) : w[c] = w[d] => c = d
  <2>1. ASSUME NEW c \in 2..Len(w), NEW d \in 2..Len(w), w[c] = w[d] PROVE c = d
    <3>1. c - 1 = d - 1
      BY <1>3, <1>5, <2>1
    <3>. QED  BY <3>1
  <2>. QED  BY <2>1
<1>8. \A c \in 1..Len(w) : c \in 1..Len(s) \/ w[c] = key
  <2>1. ASSUME NEW c \in 1..Len(w), c \notin 1..Len(s) PROVE w[c] = key
    <3>1. c \in 2..Len(w) /\ c - 1 \notin 1..Len(t)
      BY <1>1, <2>1
    <3>. QED  BY <1>3, <1>5, <3>1
  <2>. QED  BY <2>1
<1>9. id \in 1..(Len(w) - 1) /\ w[id + 1] = key /\ w # <<>> /\ Len(s) <= Len(w) /\ Len(w) \in Nat
  BY <1>1, <1>3, <1>4
<1>. QED  BY <1>4, <1>6, <1>7, <1>8, <1>9 DEF w, u, t, id

-----------------------------------------------------------------------------
LEMMA StringsInitInv == StringsInit => SInv
<1>1. SUFFICES ASSUME StringsInit PROVE SInv
  OBVIOUS
<1>2. metaGiven \in Seq(AnyString) /\ table = Interned(metaGiven)
  BY <1>1, SourceAssumption DEF StringsInit
<1>3. /\ TableOK(table) /\ table.u16 = {0}
      /\ \A x : Has(table, x) <=> x = Empty \/ \E c \in 1..Len(metaGiven) : metaGiven[c] = x
  BY <1>2, InternedIs
<1> DEFINE k0 == [country |-> 0, city |-> 0, tz |-> 0, ext |-> 0]
<1>4. /\ pc = "building" /\ recs = <<k0>> /\ entries = <<0>> /\ given = <<>>
      /\ profile \in {"asn", "country", "city"} /\ hasX \in BOOLEAN
      /\ file.records = <<>>
  BY <1>1 DEF StringsInit, MayHaveX, EmptyXTable
<1>5. Len(table.list) \in Nat \ {0} /\ table.list[1] = Empty
  BY <1>3 DEF TableOK
<1>6. ASSUME NEW c \in 1..Len(metaGiven)
      PROVE  /\ IdOf(table, metaGiven[c]) \in 0..(Len(table.list) - 1)
             /\ table.list[IdOf(table, metaGiven[c]) + 1] = metaGiven[c]
  <2>1. Has(table, metaGiven[c])
    BY <1>3
  <2>2. PICK d \in 1..Len(table.list) : table.list[d] = metaGiven[c]
    BY <2>1 DEF Has
  <2>3. IdOf(table, metaGiven[c]) = d - 1
    BY <1>3, <2>2, IdIs
  <2>. QED  BY <1>5, <2>2, <2>3
<1>7. meta \in Seq(Nat) /\ MetaRight
  <2>1. meta = [c \in 1..Len(metaGiven) |-> IdOf(table, metaGiven[c])]
    BY <1>1, <1>2 DEF StringsInit
  <2>2. \A c \in 1..Len(metaGiven) : IdOf(table, metaGiven[c]) \in Nat
    BY <1>6
  <2>3. meta \in Seq(Nat) /\ Len(meta) = Len(metaGiven)
    BY <1>2, <2>1, <2>2
  <2>. QED  BY <1>6, <2>1, <2>3 DEF MetaRight
<1>8. Types
  <2>1. k0 \in Keys
    BY DEF Keys
  <2> HIDE DEF k0
  <2>2. <<k0>> \in Seq(Keys) /\ <<k0>> # <<>> /\ <<0>> \in Seq(Nat)
    BY <2>1
  <2>. QED  BY <1>2, <1>3, <1>4, <1>7, <2>2 DEF Types
<1>9. KeysRight
  <2>1. Len(recs) = 1 /\ recs[1] = k0 /\ Len(entries) = 1
    BY <1>4
  <2>2. KeyIn(table, 1, k0)
    BY <1>3, <1>5 DEF KeyIn
  <2>. QED  BY <2>1, <2>2 DEF KeysRight
<1>10. EntriesRight
  BY <1>4, <1>5 DEF EntriesRight, EntriesIn
<1>11. GivenRight
  BY <1>4 DEF GivenRight
<1>12. UsesRight
  <2>1. \A c \in 1..Len(given) : FALSE
    BY <1>4
  <2>2. \A s : Narrow(table, s) <=> s = Empty
    BY <1>3, <1>5 DEF Narrow
  <2>. QED  BY <1>3, <2>1, <2>2 DEF UsesRight, Use, NarrowUse
<1>13. FileRight
  BY <1>4 DEF FileRight
<1>. QED  BY <1>7, <1>8, <1>9, <1>10, <1>11, <1>12, <1>13 DEF SInv

LEMMA RecordInv ==
  ASSUME SInv, NEW r \in SourceRecords, Record(r)
  PROVE  SInv'
<1> DEFINE k   == KeptOf(profile, hasX, r)
           w   == Stored(k)
           e   == IdOf(w, k.alt)
           ents == Added(entries, e)
           ext == PlaceIn(entries, e) - 1
           key == [country |-> IdOf(w, k.country), city |-> IdOf(w, k.city),
                   tz |-> IdOf(w, k.tz), ext |-> ext]
           keys == <<recs[1]>> \o Added(Tail(recs), key)
           id   == PlaceIn(Tail(recs), key)
           g    == [rec |-> r, id |-> id]
<1>1. /\ pc = "building" /\ table' = w /\ entries' = ents /\ recs' = keys
      /\ given' = Append(given, g)
      /\ profile' = profile /\ hasX' = hasX /\ pc' = pc /\ meta' = meta /\ file' = file
      /\ metaGiven' = metaGiven
  <2>1. Kept(r) = k
    BY KeptSame
  <2> HIDE DEF k
  <2>. QED  BY <2>1 DEF Record, AddEntry, Stored, options
<1>2. k \in KeptRecords /\ (~hasX => k.alt = Empty)
  BY KeptIs
<1>3. Types /\ KeysRight /\ EntriesRight /\ GivenRight /\ MetaRight /\ UsesRight /\ FileRight
  BY DEF SInv
<1> HIDE DEF k
<1>4. /\ TableOK(w) /\ Grows(table, w) /\ TableOK(table)
      /\ w.u16 = table.u16 \union {IdOf(w, k.country), IdOf(w, k.tz)}
      /\ Holds(w, k.country) /\ Holds(w, k.city) /\ Holds(w, k.tz) /\ Holds(w, k.alt)
      /\ \A x : Has(w, x) <=> \/ Has(table, x) \/ x = k.country \/ x = k.city
                              \/ x = k.tz \/ x = k.alt
  BY <1>2, <1>3, StoredIs DEF Types
<1> HIDE DEF w
<1>5. /\ IdOf(w, k.country) \in w.u16 /\ IdOf(w, k.tz) \in w.u16
      /\ IdOf(w, k.country) \in Nat /\ IdOf(w, k.tz) \in Nat
      /\ IdOf(w, k.city) \in 0..(Len(w.list) - 1)
      /\ e \in 0..(Len(w.list) - 1) /\ w.list[e + 1] = k.alt
      /\ Len(table.list) \in Nat /\ Len(w.list) \in Nat /\ Len(table.list) <= Len(w.list)
  <2>1. IdOf(w, k.country) \in w.u16 /\ IdOf(w, k.tz) \in w.u16
    BY <1>4
  <2>2. Len(table.list) \in Nat /\ Len(w.list) \in Nat /\ Len(table.list) <= Len(w.list)
    BY <1>4 DEF TableOK, Grows
  <2>3. \A s : Holds(w, s) => /\ IdOf(w, s) \in 0..(Len(w.list) - 1) /\ IdOf(w, s) \in Nat
                             /\ w.list[IdOf(w, s) + 1] = s
    BY <2>2 DEF Holds
  <2>. QED  BY <1>4, <2>1, <2>2, <2>3
<1>21. \A c \in 0..(Len(table.list) - 1) :
         c \in 0..(Len(w.list) - 1) /\ w.list[c + 1] = table.list[c + 1]
  <2>1. TableOK(table) /\ TableOK(w) /\ Grows(table, w)
    BY <1>4
  <2>. QED  BY <2>1, SameId
<1> HIDE DEF e
<1>6. /\ ents \in Seq(Nat) /\ Len(entries) <= Len(ents) /\ Len(ents) \in Nat
      /\ \A c \in 1..Len(entries) : ents[c] = entries[c]
      /\ ext + 1 \in 1..Len(ents) /\ ents[ext + 1] = e
      /\ \A c, d \in 1..Len(ents) : ents[c] = ents[d] => c = d
      /\ \A c \in 1..Len(ents) : c \in 1..Len(entries) \/ ents[c] = e
      /\ ext \in Nat
  <2>1. entries \in Seq(Nat) /\ e \in Nat
    BY <1>3, <1>5 DEF Types
  <2>2. \A c, d \in 1..Len(entries) : entries[c] = entries[d] => c = d
    BY <1>3 DEF EntriesRight, EntriesIn
  <2> DEFINE at == PlaceIn(entries, e)
  <2>3. /\ ents \in Seq(Nat) /\ Len(entries) <= Len(ents) /\ Len(ents) \in Nat
        /\ \A c \in 1..Len(entries) : ents[c] = entries[c]
        /\ at \in 1..Len(ents) /\ ents[at] = e
        /\ \A c, d \in 1..Len(ents) : ents[c] = ents[d] => c = d
        /\ \A c \in 1..Len(ents) : c \in 1..Len(entries) \/ ents[c] = e
    BY <2>1, <2>2, Adds
  <2>4. ext = at - 1
    OBVIOUS
  <2> HIDE DEF at, ents, ext
  <2>5. ext + 1 = at /\ ext \in Nat
    BY <2>3, <2>4
  <2>. QED  BY <2>3, <2>5
<1> HIDE DEF ents, ext
<1>7. key \in Keys /\ KeyIn(w, Len(ents), key)
  BY <1>5, <1>6 DEF Keys, KeyIn
<1>8. StringsOf(w, ents, key) = k
  <2>1. k = [country |-> k.country, city |-> k.city, tz |-> k.tz, alt |-> k.alt]
    BY <1>2 DEF KeptRecords
  <2>2. /\ w.list[key.country + 1] = k.country /\ w.list[key.city + 1] = k.city
        /\ w.list[key.tz + 1] = k.tz /\ w.list[ents[key.ext + 1] + 1] = k.alt
    BY <1>4, <1>5, <1>6 DEF Holds
  <2> HIDE DEF key
  <2>. QED  BY <2>1, <2>2 DEF StringsOf
<1> HIDE DEF key
<1>9. /\ keys \in Seq(Keys) /\ keys # <<>> /\ Len(recs) <= Len(keys) /\ Len(keys) \in Nat
      /\ \A c \in 1..Len(recs) : keys[c] = recs[c]
      /\ id \in 1..(Len(keys) - 1) /\ keys[id + 1] = key
      /\ \A c, d \in 2..Len(keys) : keys[c] = keys[d] => c = d
      /\ \A c \in 1..Len(keys) : c \in 1..Len(recs) \/ keys[c] = key
  <2>1. recs \in Seq(Keys) /\ recs # <<>> /\ \A c, d \in 2..Len(recs) : recs[c] = recs[d] => c = d
    BY <1>3 DEF Types, KeysRight
  <2>. QED  BY <1>7, <2>1, KeyAdded
<1> HIDE DEF keys, id
<1>10. EntriesIn(w, ents)
  <2>1. ents # <<>>
    BY <1>6
  <2>2. ASSUME NEW c \in 1..Len(ents) PROVE ents[c] \in 0..(Len(w.list) - 1)
    <3>1. CASE c \in 1..Len(entries)
      <4>1. entries[c] \in 0..(Len(table.list) - 1) /\ ents[c] = entries[c]
        BY <1>3, <1>6, <3>1 DEF EntriesRight, EntriesIn
      <4>. QED  BY <1>21, <4>1
    <3>. QED  BY <1>5, <1>6, <3>1
  <2>. QED  BY <1>6, <2>1, <2>2 DEF EntriesIn
<1>11. \A q \in Keys : KeyIn(table, Len(entries), q) =>
         KeyIn(w, Len(ents), q) /\ StringsOf(w, ents, q) = StringsOf(table, entries, q)
  BY <1>3, <1>4, <1>6, KeyKept DEF EntriesRight
<1>12. \A c \in 1..Len(recs) : recs[c] \in Keys /\ KeyIn(table, Len(entries), recs[c])
  BY <1>3, Element DEF Types, KeysRight
<1>13. /\ given \in Seq([rec : SourceRecords, id : Nat]) /\ Len(given) \in Nat
       /\ given' \in Seq([rec : SourceRecords, id : Nat]) /\ Len(given') = Len(given) + 1
       /\ given'[Len(given) + 1] = g
       /\ \A c \in 1..Len(given) : given'[c] = given[c]
  <2>1. given \in Seq([rec : SourceRecords, id : Nat]) /\ g \in [rec : SourceRecords, id : Nat]
    BY <1>3, <1>9 DEF Types
  <2> HIDE DEF g
  <2>2. Len(given) \in Nat
    BY <2>1
  <2>. QED  BY <1>1, <2>1, <2>2, Appended
<1>14. Types'
  BY <1>1, <1>3, <1>4, <1>6, <1>9, <1>13 DEF Types
<1>15. KeysRight'
  <2>1. \A c \in 1..Len(keys) : KeyIn(w, Len(ents), keys[c])
    BY <1>7, <1>9, <1>11, <1>12
  <2>. QED  BY <1>1, <1>9, <2>1 DEF KeysRight
<1>16. EntriesRight'
  <2>1. ents[1] = 0
    BY <1>3, <1>6 DEF EntriesRight, EntriesIn
  <2>2. ASSUME ~hasX PROVE ents = <<0>>
    <3>1. k.alt = Empty /\ entries = <<0>> /\ w.list[1] = Empty
      BY <1>2, <1>3, <1>4, <2>2 DEF EntriesRight, TableOK
    <3>2. e = 0
      <4>1. 1 \in 1..Len(w.list) /\ e + 1 \in 1..Len(w.list)
        BY <1>5
      <4>2. e + 1 = 1
        BY <1>4, <1>5, <3>1, <4>1 DEF TableOK
      <4>. QED  BY <1>5, <4>2
    <3>3. \E c \in DOMAIN entries : entries[c] = e
      BY <3>1, <3>2
    <3>. QED  BY <3>1, <3>3 DEF ents, Added
  <2>. QED  BY <1>1, <1>10, <2>1, <2>2 DEF EntriesRight
<1>17. GivenRight'
  <2>1. ASSUME NEW c \in 1..Len(given)
        PROVE  /\ given[c].id \in 1..(Len(keys) - 1)
               /\ StringsOf(w, ents, keys[given[c].id + 1]) = KeptOf(profile, hasX, given[c].rec)
    <3>1. /\ given[c].id \in 1..(Len(recs) - 1)
          /\ StringsOf(table, entries, recs[given[c].id + 1]) = KeptOf(profile, hasX, given[c].rec)
      BY <1>3 DEF GivenRight
    <3>2. PICK n \in 1..(Len(recs) - 1) : n = given[c].id
      BY <3>1
    <3>3. Len(recs) \in Nat
      BY <1>3 DEF Types
    <3>4. n + 1 \in 1..Len(recs) /\ n \in 1..(Len(keys) - 1)
      BY <1>9, <3>3
    <3>5. keys[n + 1] = recs[n + 1]
      BY <1>9, <3>4
    <3>6. StringsOf(w, ents, recs[n + 1]) = StringsOf(table, entries, recs[n + 1])
      BY <1>11, <1>12, <3>4
    <3>. QED  BY <3>1, <3>2, <3>4, <3>5, <3>6
  <2>2. /\ g.id \in 1..(Len(keys) - 1)
        /\ StringsOf(w, ents, keys[g.id + 1]) = KeptOf(profile, hasX, g.rec)
    BY <1>8, <1>9 DEF k
  <2> HIDE DEF g
  <2>3. \A c \in 1..(Len(given) + 1) : c \in 1..Len(given) \/ c = Len(given) + 1
    BY <1>13
  <2>. QED  BY <1>1, <1>13, <2>1, <2>2, <2>3 DEF GivenRight
<1>18. MetaRight'
  BY <1>1, <1>3, <1>21 DEF MetaRight
<1>19. UsesRight'
  <2>1. \A c : c \in 1..Len(given') <=> c \in 1..Len(given) \/ c = Len(given) + 1
    BY <1>13
  <2>2. ASSUME NEW s
        PROVE  NarrowUse(s)' <=> NarrowUse(s) \/ s = k.country \/ s = k.tz
    BY <1>1, <1>13, <2>1 DEF NarrowUse, k
  <2>3. ASSUME NEW s
        PROVE  Use(s)' <=> Use(s) \/ s = k.country \/ s = k.tz \/ s = k.city \/ s = k.alt
    BY <1>1, <1>13, <2>1, <2>2 DEF Use, k
  <2>4. ASSUME NEW s
        PROVE  Narrow(w, s) <=> Narrow(table, s) \/ s = k.country \/ s = k.tz
    <3>1. \A p \in table.u16 : w.list[p + 1] = table.list[p + 1]
      BY <1>4, <1>21 DEF TableOK
    <3>2. w.list[IdOf(w, k.country) + 1] = k.country /\ w.list[IdOf(w, k.tz) + 1] = k.tz
      BY <1>4 DEF Holds
    <3>. QED  BY <1>4, <3>1, <3>2 DEF Narrow
  <2>. QED  BY <1>1, <1>3, <1>4, <2>2, <2>3, <2>4 DEF UsesRight
<1>20. FileRight'
  BY <1>1, <1>3 DEF FileRight
<1>. QED  BY <1>14, <1>15, <1>16, <1>17, <1>18, <1>19, <1>20 DEF SInv

SameRecords ==
  /\ profile' = profile /\ hasX' = hasX /\ table' = table /\ recs' = recs
  /\ entries' = entries /\ meta' = meta /\ given' = given /\ metaGiven' = metaGiven

LEMMA SameRecordsInv ==
  ASSUME SInv, SameRecords, pc' \in {"building", "finished", "failed"}, FileRight'
  PROVE  SInv'
<1> USE DEF SameRecords
<1>1. Types'
  BY DEF SInv, Types
<1>2. KeysRight'
  BY DEF SInv, KeysRight
<1>3. EntriesRight'
  BY DEF SInv, EntriesRight
<1>4. GivenRight'
  BY DEF SInv, GivenRight
<1>5. MetaRight'
  BY DEF SInv, MetaRight
<1>6. UsesRight'
  BY DEF SInv, UsesRight, Use, NarrowUse
<1>. QED  BY <1>1, <1>2, <1>3, <1>4, <1>5, <1>6 DEF SInv

LEMMA SameTooMany ==
  ASSUME SameRecords
  PROVE  /\ TooLong' <=> TooLong
         /\ TooMany' <=> TooMany
         /\ Encoded' = Encoded
<1> USE DEF SameRecords
<1>1. TooLong' <=> TooLong
  BY DEF TooLong
<1>2. TooMany' <=> TooMany
  BY DEF TooMany, NU16, NStrings, Blob
<1>3. Encoded' = Encoded
  BY DEF Encoded, Strs, Packed, AppendEntry, Remap, Ids, NU16, NStrings
<1>. QED  BY <1>1, <1>2, <1>3

LEMMA FinishFailsInv == SInv /\ FinishFails => SInv'
<1>1. SUFFICES ASSUME SInv, FinishFails PROVE SInv'
  OBVIOUS
<1>2. SameRecords /\ pc' = "failed" /\ file' = file /\ pc = "building"
  BY <1>1 DEF SameRecords, FinishFails, options
<1>3. TooLong' \/ TooMany'
  BY <1>1, <1>2, SameTooMany DEF FinishFails
<1>4. FileRight'
  BY <1>1, <1>2, <1>3 DEF SInv, FileRight
<1>. QED  BY <1>1, <1>2, <1>4, SameRecordsInv

LEMMA FinishInv == SInv /\ Finish => SInv'
<1>1. SUFFICES ASSUME SInv, Finish PROVE SInv'
  OBVIOUS
<1>2. SameRecords /\ pc' = "finished" /\ file' = Encoded
  BY <1>1 DEF SameRecords, Finish, options
<1>3. ~TooLong' /\ ~TooMany' /\ file' = Encoded'
  BY <1>1, <1>2, SameTooMany DEF Finish
<1>4. FileRight'
  BY <1>2, <1>3 DEF FileRight
<1>. QED  BY <1>1, <1>2, <1>4, SameRecordsInv

LEMMA StringsStutterInv == SInv /\ UNCHANGED stringVars => SInv'
<1>1. SUFFICES ASSUME SInv, UNCHANGED stringVars PROVE SInv'
  OBVIOUS
<1>2. SameRecords /\ pc' = pc /\ file' = file
  BY <1>1 DEF SameRecords, stringVars, options
<1>3. FileRight' /\ pc' \in {"building", "finished", "failed"}
  BY <1>1, <1>2, SameTooMany DEF SInv, Types, FileRight
<1>. QED  BY <1>1, <1>2, <1>3, SameRecordsInv

LEMMA StringsNextInv == SInv /\ [StringsNext]_stringVars => SInv'
BY RecordInv, FinishFailsInv, FinishInv, StringsStutterInv DEF StringsNext

(* The table holds each string that is used, once and under the id the    *)
(* keys, the entries and META have for it, and nothing else.               *)
THEOREM StringsInvariance == StringsSpec => []SInv
<1>. QED  BY StringsInitInv, StringsNextInv, PTL DEF StringsSpec

-----------------------------------------------------------------------------
(* interner.finish numbers the strings anew, one to one. *)
Below(S, p) == {q \in S : q < p}

LEMMA BelowGrows ==
  ASSUME NEW S \in SUBSET Int, IsFiniteSet(S), NEW p \in S
  PROVE  /\ Cardinality(S) \in Nat /\ Cardinality(Below(S, p)) \in 0..(Cardinality(S) - 1)
         /\ \A q \in S : p < q => Cardinality(Below(S, p)) < Cardinality(Below(S, q))
<1>1. ASSUME NEW T, IsFiniteSet(T), Below(S, p) \subseteq T, p \in T
      PROVE  /\ IsFiniteSet(Below(S, p)) /\ Cardinality(Below(S, p)) \in Nat
             /\ Cardinality(T) \in Nat /\ Cardinality(Below(S, p)) < Cardinality(T)
  <2> DEFINE B == Below(S, p)
  <2>1. p \notin B
    BY DEF Below
  <2> HIDE DEF B
  <2>2. /\ IsFiniteSet(B) /\ Cardinality(B) <= Cardinality(T)
        /\ (Cardinality(T) = Cardinality(B) => T = B)
    <3>1. B \in SUBSET T
      BY <1>1 DEF B
    <3>. QED  BY <1>1, <3>1, FS_Subset
  <2>3. Cardinality(B) \in Nat /\ Cardinality(T) \in Nat
    BY <1>1, <2>2, FS_CardinalityType
  <2>4. Cardinality(B) # Cardinality(T)
    BY <1>1, <2>1, <2>2
  <2>. QED  BY <2>2, <2>3, <2>4 DEF B
<1>2. Below(S, p) \subseteq S
  BY DEF Below
<1>3. /\ Cardinality(Below(S, p)) \in Nat /\ Cardinality(S) \in Nat
      /\ Cardinality(Below(S, p)) < Cardinality(S)
  BY <1>1, <1>2
<1>4. ASSUME NEW q \in S, p < q
      PROVE  Cardinality(Below(S, p)) < Cardinality(Below(S, q))
  <2>1. Below(S, q) \in SUBSET S
    BY DEF Below
  <2>2. IsFiniteSet(Below(S, q))
    BY <2>1, FS_Subset
  <2>3. Below(S, p) \subseteq Below(S, q) /\ p \in Below(S, q)
    <3>1. \A n \in S : n < p => n < q
      <4>1. p \in Int /\ q \in Int /\ \A n \in S : n \in Int
        OBVIOUS
      <4>. QED  BY <1>4, <4>1
    <3>. QED  BY <1>4, <3>1 DEF Below
  <2>. QED  BY <1>1, <2>2, <2>3
<1>. QED  BY <1>3, <1>4

LEMMA BelowDiffers ==
  ASSUME NEW S \in SUBSET Int, IsFiniteSet(S), NEW p \in S, NEW q \in S,
         Cardinality(Below(S, p)) = Cardinality(Below(S, q))
  PROVE  p = q
<1>1. /\ p < q => Cardinality(Below(S, p)) < Cardinality(Below(S, q))
      /\ q < p => Cardinality(Below(S, q)) < Cardinality(Below(S, p))
      /\ Cardinality(Below(S, p)) \in Int /\ Cardinality(Below(S, q)) \in Int
      /\ p \in Int /\ q \in Int
  BY BelowGrows
<1>. QED  BY <1>1

LEMMA RemapIs ==
  ASSUME TableOK(table)
  PROVE  /\ NStrings \in Nat /\ NU16 \in Nat /\ 1 <= NU16 /\ NU16 <= NStrings
         /\ \A p \in Ids : /\ Remap(p) \in Ids
                           /\ p \in table.u16 <=> Remap(p) < NU16
         /\ \A p, q \in Ids : Remap(p) = Remap(q) => p = q
         /\ 0 \in Ids /\ Remap(0) = 0
<1> DEFINE U == table.u16
           V == Ids \ U
<1>1. NStrings \in Nat /\ U \subseteq Ids /\ 0 \in U
  BY DEF TableOK, NStrings, Ids
<1>2. IsFiniteSet(Ids) /\ Cardinality(Ids) = NStrings
  <2>1. /\ IsFiniteSet(0..(NStrings - 1))
        /\ Cardinality(0..(NStrings - 1)) =
             IF 0 > NStrings - 1 THEN 0 ELSE (NStrings - 1) - 0 + 1
    BY <1>1, FS_Interval
  <2>2. (IF 0 > NStrings - 1 THEN 0 ELSE (NStrings - 1) - 0 + 1) = NStrings
    BY <1>1
  <2>. QED  BY <2>1, <2>2 DEF Ids
<1>3. IsFiniteSet(U) /\ IsFiniteSet(V) /\ U \in SUBSET Int /\ V \in SUBSET Int
  <2>1. U \in SUBSET Ids /\ V \in SUBSET Ids
    BY <1>1
  <2>2. IsFiniteSet(U) /\ IsFiniteSet(V)
    BY <1>2, <2>1, FS_Subset
  <2>. QED  BY <1>1, <2>1, <2>2 DEF Ids
<1>4. Cardinality(U) \in Nat /\ Cardinality(V) \in Nat /\ NU16 = Cardinality(U)
  BY <1>3, FS_CardinalityType DEF NU16
<1>5. NStrings = NU16 + Cardinality(V)
  <2>1. U \union V = Ids /\ U \cap V = {}
    BY <1>1
  <2> HIDE DEF U, V
  <2>2. Cardinality(U \union V) = Cardinality(U) + Cardinality(V) - Cardinality(U \cap V)
    BY <1>3, FS_Union
  <2>3. Cardinality({}) = 0
    BY FS_EmptySet
  <2>4. NStrings = Cardinality(U) + Cardinality(V) - 0
    BY <1>2, <2>1, <2>2, <2>3, Zenon
  <2>. QED  BY <1>4, <2>4
<1>6. \A p \in U : Remap(p) = Cardinality(Below(U, p))
  BY DEF Remap, Below
<1>7. \A p \in V : Remap(p) = NU16 + Cardinality(Below(V, p))
  BY DEF Remap, Below
<1> HIDE DEF U, V
<1>8. \A p \in U : Remap(p) \in 0..(NU16 - 1)
  BY <1>3, <1>4, <1>6, BelowGrows
<1>9. \A p \in V : Remap(p) \in NU16..(NStrings - 1)
  <2>1. \A p \in V : Cardinality(Below(V, p)) \in 0..(Cardinality(V) - 1)
    BY <1>3, BelowGrows
  <2>. QED  BY <1>4, <1>5, <1>7, <2>1
<1>10. \A p \in Ids : p \in U \/ p \in V
  BY DEF V
<1>11. ASSUME NEW p \in Ids PROVE Remap(p) \in Ids /\ (p \in U <=> Remap(p) < NU16)
  <2>1. CASE p \in U
    BY <1>1, <1>4, <1>5, <1>8, <2>1 DEF Ids
  <2>2. CASE p \in V
    <3>1. p \notin U
      BY <2>2 DEF V
    <3>2. Remap(p) \in Ids /\ ~(Remap(p) < NU16)
      BY <1>1, <1>4, <1>5, <1>9, <2>2 DEF Ids
    <3>. QED  BY <3>1, <3>2
  <2>. QED  BY <1>10, <2>1, <2>2
<1>12. ASSUME NEW p \in Ids, NEW q \in Ids, Remap(p) = Remap(q) PROVE p = q
  <2>1. CASE p \in U
    <3>1. q \in U
      BY <1>11, <1>12, <2>1
    <3>. QED  BY <1>3, <1>6, <1>12, <2>1, <3>1, BelowDiffers
  <2>2. CASE p \notin U
    <3>1. q \notin U
      BY <1>11, <1>12, <2>2
    <3>2. p \in V /\ q \in V
      BY <1>10, <2>2, <3>1
    <3>3. Cardinality(Below(V, p)) = Cardinality(Below(V, q))
      <4>1. Cardinality(Below(V, p)) \in Int /\ Cardinality(Below(V, q)) \in Int
        BY <1>3, <3>2, BelowGrows
      <4>. QED  BY <1>4, <1>7, <1>12, <3>2, <4>1
    <3>. QED  BY <1>3, <3>2, <3>3, BelowDiffers
  <2>. QED  BY <2>1, <2>2
<1>13. Remap(0) = 0
  <2>1. Below(U, 0) = {}
    <3>1. \A q \in U : q \in Nat /\ ~(q < 0)
      BY <1>1 DEF Ids
    <3>. QED  BY <3>1 DEF Below
  <2>. QED  BY <1>1, <1>6, <2>1, FS_EmptySet
<1>14. 1 <= NU16 /\ NU16 <= NStrings /\ 0 \in Ids
  BY <1>1, <1>4, <1>5, <1>8
<1>. QED  BY <1>1, <1>4, <1>11, <1>12, <1>13, <1>14 DEF U

(* The strings are under their new ids. *)
LEMMA StrsIs ==
  ASSUME TableOK(table), NEW p \in Ids
  PROVE  Strs[Remap(p) + 1] = table.list[p + 1]
<1> DEFINE k == Remap(p) + 1
           q == CHOOSE n \in Ids : Remap(n) = k - 1
<1>1. /\ NStrings \in Nat /\ Remap(p) \in 0..(NStrings - 1)
      /\ \A n \in Ids : Remap(n) = Remap(p) => n = p
  BY RemapIs DEF Ids
<1>2. k \in 1..NStrings /\ k - 1 = Remap(p)
  BY <1>1
<1>3. q = p
  <2> HIDE DEF k
  <2>1. q \in Ids /\ Remap(q) = k - 1
    BY <1>2
  <2>. QED  BY <1>1, <1>2, <2>1
<1>4. Strs[k] = table.list[q + 1]
  <2> HIDE DEF k
  <2>. QED  BY <1>2 DEF Strs
<1>. QED  BY <1>3, <1>4

(* Where the strings fit, no id loses bits. *)
LEMMA PackedIs ==
  ASSUME SInv, ~TooMany, NEW c \in 1..Len(recs)
  PROVE  LET key == recs[c]
         IN  /\ key \in Keys
             /\ key.country \in Ids /\ key.tz \in Ids /\ key.city \in Ids
             /\ key.ext + 1 \in 1..Len(entries) /\ entries[key.ext + 1] \in Ids
             /\ Remap(key.country) \in 0..(NU16 - 1) /\ Remap(key.tz) \in 0..(NU16 - 1)
             /\ Packed(key).country = Remap(key.country) /\ Packed(key).tz = Remap(key.tz)
             /\ Packed(key).city = Remap(key.city)
             /\ AppendEntry(key) = Remap(entries[key.ext + 1])
<1>1. Types /\ KeysRight /\ EntriesRight /\ TableOK(table)
  BY DEF SInv, Types
<1>2. /\ NStrings \in Nat /\ NU16 \in Nat /\ NU16 <= NStrings
      /\ \A p \in Ids : Remap(p) \in Ids /\ (p \in table.u16 <=> Remap(p) < NU16)
  BY <1>1, RemapIs
<1>3. NU16 <= Max16 /\ NStrings <= Max24 /\ Max16 \in Nat /\ Max24 \in Nat
  BY <1>2, LimitsAssumption DEF TooMany
<1>4. PICK key \in Keys : key = recs[c]
  BY <1>1, Element DEF Types
<1>5. /\ key.country \in table.u16 /\ key.tz \in table.u16 /\ key.city \in Ids
      /\ key.ext + 1 \in 1..Len(entries)
  BY <1>1, <1>4 DEF KeysRight, KeyIn, Ids, NStrings
<1>6. table.u16 \subseteq Ids
  BY <1>1 DEF TableOK, Ids, NStrings
<1>7. entries[key.ext + 1] \in Ids
  BY <1>1, <1>5 DEF EntriesRight, EntriesIn, Ids, NStrings
<1>8. \A p \in Ids : Remap(p) \in 0..(NStrings - 1) /\ Remap(p) % Max24 = Remap(p)
  <2>1. \A n \in 0..(NStrings - 1) : n % Max24 = n
    BY <1>2, <1>3
  <2>. QED  BY <1>2, <2>1 DEF Ids
<1>9. \A p \in table.u16 : Remap(p) \in 0..(NU16 - 1) /\ Remap(p) % Max16 = Remap(p)
  <2>1. \A n \in 0..(NU16 - 1) : n % Max16 = n
    BY <1>2, <1>3
  <2>2. \A p \in table.u16 : Remap(p) \in 0..(NU16 - 1)
    <3>1. \A n \in 0..(NStrings - 1) : n < NU16 => n \in 0..(NU16 - 1)
      BY <1>2
    <3>. QED  BY <1>2, <1>6, <1>8, <3>1
  <2>. QED  BY <2>1, <2>2
<1>10. /\ Packed(key).country = Remap(key.country) /\ Packed(key).tz = Remap(key.tz)
       /\ Packed(key).city = Remap(key.city)
  BY <1>5, <1>8, <1>9 DEF Packed
<1>11. AppendEntry(key) = Remap(entries[key.ext + 1])
  BY <1>7, <1>8 DEF AppendEntry
<1>. QED  BY <1>4, <1>5, <1>6, <1>7, <1>9, <1>10, <1>11

LEMMA EncodedIs ==
  ASSUME SInv, pc = "finished"
  PROVE  /\ ~TooMany /\ file.strings = Strs
         /\ DOMAIN file.records = 1..Len(recs)
         /\ \A c \in 1..Len(recs) :
              /\ file.records[c] = Packed(recs[c])
              /\ file.xrecords[c] = IF hasX THEN AppendEntry(recs[c]) ELSE 0
         /\ \A c \in 1..Len(meta) : file.meta[c] = Remap(meta[c])
<1>1. DOMAIN recs = 1..Len(recs) /\ DOMAIN meta = 1..Len(meta)
  BY DEF SInv, Types
<1>2. ~TooMany /\ file = Encoded
  BY DEF SInv, FileRight
<1>3. /\ file.strings = Strs /\ file.records = [k \in DOMAIN recs |-> Packed(recs[k])]
      /\ file.xrecords = [k \in DOMAIN recs |-> IF hasX THEN AppendEntry(recs[k]) ELSE 0]
      /\ file.meta = [k \in DOMAIN meta |-> Remap(meta[k])]
  BY <1>2 DEF Encoded
<1>. QED  BY <1>1, <1>2, <1>3

(* Every id is that of a string, of a record or of an entry; in the file,  *)
(* those of 16-bit fields are "below maxU16Strings" (encode.go:171).       *)
THEOREM StringsTypeCorrect == StringsSpec => []StringsTypeOK
<1>1. SInv => StringsTypeOK
  <2>1. SUFFICES ASSUME SInv PROVE StringsTypeOK
    OBVIOUS
  <2>2. Types /\ KeysRight /\ EntriesRight /\ GivenRight /\ FileRight /\ TableOK(table)
    BY <2>1 DEF SInv, Types
  <2>3. /\ pc \in {"building", "finished", "failed"}
        /\ table.list \in Seq(AnyString) /\ table.u16 \subseteq Ids
    BY <2>2 DEF Types, TableOK, Ids, NStrings
  <2>4. /\ DOMAIN recs = 1..Len(recs) /\ DOMAIN entries = 1..Len(entries)
        /\ DOMAIN given = 1..Len(given)
    BY <2>2 DEF Types
  <2>5. \A k \in DOMAIN recs :
          /\ {recs[k].country, recs[k].tz} \subseteq table.u16 /\ recs[k].city \in Ids
          /\ recs[k].ext + 1 \in DOMAIN entries
    BY <2>2, <2>4 DEF KeysRight, KeyIn, Ids, NStrings
  <2>6. \A k \in DOMAIN entries : entries[k] \in Ids
    BY <2>2, <2>4 DEF EntriesRight, EntriesIn, Ids, NStrings
  <2>7. \A k \in DOMAIN given : given[k].id \in 1..(Len(recs) - 1)
    BY <2>2, <2>4 DEF GivenRight
  <2>8. ASSUME NEW k \in DOMAIN file.records
        PROVE  {file.records[k].country, file.records[k].tz} \subseteq 0..(NU16 - 1)
    <3>1. CASE pc = "finished"
      <4>1. k \in 1..Len(recs) /\ ~TooMany /\ file.records[k] = Packed(recs[k])
        BY <2>1, <3>1, EncodedIs
      <4>2. /\ Packed(recs[k]).country \in 0..(NU16 - 1)
            /\ Packed(recs[k]).tz \in 0..(NU16 - 1)
        BY <2>1, <4>1, PackedIs
      <4>. QED  BY <4>1, <4>2
    <3>2. CASE pc # "finished"
      BY <2>2, <2>3, <3>2 DEF FileRight
    <3>. QED  BY <3>1, <3>2
  <2>. QED  BY <2>3, <2>5, <2>6, <2>7, <2>8 DEF StringsTypeOK
<1>. QED  BY <1>1, StringsInvariance, PTL

(* Records that are equal in what the build keeps get one id, others       *)
(* another, never 0; and the file holds under each id what is kept of the   *)
(* record, and the META and LANGS strings: the numbering that Finish       *)
(* replaces is replaced everywhere, and no id is too wide for its field.   *)
THEOREM RecordsAreKept == StringsSpec => []RecordsKept
<1>1. SInv => RecordsKept
  <2>1. SUFFICES ASSUME SInv PROVE RecordsKept
    OBVIOUS
  <2>2. /\ Types /\ KeysRight /\ EntriesRight /\ GivenRight /\ MetaRight /\ FileRight
        /\ TableOK(table) /\ EntriesIn(table, entries)
    BY <2>1 DEF SInv, Types, EntriesRight
  <2>3. DOMAIN given = 1..Len(given) /\ DOMAIN meta = 1..Len(meta) /\ Len(recs) \in Nat
    BY <2>2 DEF Types
  <2>4. \A q \in 1..(Len(recs) - 1) : q + 1 \in 2..Len(recs) /\ q + 1 \in 1..Len(recs) /\ q # 0
    BY <2>3
  <2>5. ASSUME NEW c \in DOMAIN given
        PROVE  /\ given[c].id \in 1..(Len(recs) - 1)
               /\ recs[given[c].id + 1] \in Keys
               /\ KeyIn(table, Len(entries), recs[given[c].id + 1])
               /\ StringsOf(table, entries, recs[given[c].id + 1]) = Kept(given[c].rec)
    <3>1. PICK q \in 1..(Len(recs) - 1) : q = given[c].id
      BY <2>2, <2>3 DEF GivenRight
    <3>2. recs[q + 1] \in Keys /\ KeyIn(table, Len(entries), recs[q + 1])
      BY <2>2, <2>4, Element DEF Types, KeysRight
    <3>3. StringsOf(table, entries, recs[given[c].id + 1]) = Kept(given[c].rec)
      BY <2>2, <2>3, KeptSame DEF GivenRight
    <3>. QED  BY <3>1, <3>2, <3>3
  <2>6. ASSUME NEW c \in DOMAIN given, NEW d \in DOMAIN given
        PROVE  given[c].id = given[d].id <=> Kept(given[c].rec) = Kept(given[d].rec)
    <3>1. given[c].id = given[d].id => Kept(given[c].rec) = Kept(given[d].rec)
      BY <2>5
    <3>2. ASSUME Kept(given[c].rec) = Kept(given[d].rec) PROVE given[c].id = given[d].id
      <4>1. PICK p, q \in 1..(Len(recs) - 1) : p = given[c].id /\ q = given[d].id
        BY <2>5
      <4>2. /\ recs[p + 1] \in Keys /\ recs[q + 1] \in Keys
            /\ KeyIn(table, Len(entries), recs[p + 1]) /\ KeyIn(table, Len(entries), recs[q + 1])
            /\ StringsOf(table, entries, recs[p + 1]) = StringsOf(table, entries, recs[q + 1])
        BY <2>5, <3>2, <4>1
      <4>3. recs[p + 1] = recs[q + 1]
        BY <2>2, <4>2, SameKey
      <4>4. p + 1 = q + 1
        BY <2>2, <2>4, <4>3 DEF KeysRight
      <4>. QED  BY <4>1, <4>4
    <3>. QED  BY <3>1, <3>2
  <2>7. \A c \in DOMAIN given : given[c].id # 0
    BY <2>4, <2>5
  <2>8. ASSUME pc = "finished", NEW c \in DOMAIN given
        PROVE  Decoded(given[c].id) = Kept(given[c].rec)
    <3>1. PICK p \in 1..(Len(recs) - 1) : p = given[c].id
      BY <2>5
    <3>2. p + 1 \in 1..Len(recs)
      BY <2>4
    <3> DEFINE key == recs[p + 1]
    <3>3. /\ ~TooMany /\ file.strings = Strs /\ file.records[p + 1] = Packed(key)
          /\ file.xrecords[p + 1] = IF hasX THEN AppendEntry(key) ELSE 0
      BY <2>1, <2>8, <3>2, EncodedIs
    <3>4. /\ key.country \in Ids /\ key.tz \in Ids /\ key.city \in Ids
          /\ key.ext + 1 \in 1..Len(entries) /\ entries[key.ext + 1] \in Ids
          /\ Packed(key).country = Remap(key.country) /\ Packed(key).tz = Remap(key.tz)
          /\ Packed(key).city = Remap(key.city)
          /\ AppendEntry(key) = Remap(entries[key.ext + 1])
      BY <2>1, <3>2, <3>3, PackedIs
    <3> HIDE DEF key
    <3>5. /\ Strs[Remap(key.country) + 1] = table.list[key.country + 1]
          /\ Strs[Remap(key.city) + 1] = table.list[key.city + 1]
          /\ Strs[Remap(key.tz) + 1] = table.list[key.tz + 1]
          /\ Strs[Remap(entries[key.ext + 1]) + 1] = table.list[entries[key.ext + 1] + 1]
      BY <2>2, <3>4, StrsIs
    <3>6. Strs[file.xrecords[p + 1] + 1] = table.list[entries[key.ext + 1] + 1]
      <4>1. CASE hasX
        BY <3>3, <3>4, <3>5, <4>1
      <4>2. CASE ~hasX
        <5>1. entries = <<0>>
          BY <2>2, <4>2 DEF EntriesRight
        <5>2. key.ext + 1 = 1 /\ entries[1] = 0
          BY <3>4, <5>1
        <5>3. Remap(0) = 0
          BY <2>2, RemapIs
        <5>. QED  BY <3>3, <3>5, <4>2, <5>2, <5>3
      <4>. QED  BY <4>1, <4>2
    <3>7. Decoded(p) = StringsOf(table, entries, key)
      BY <3>3, <3>4, <3>5, <3>6 DEF Decoded, StringsOf
    <3>. QED  BY <2>5, <3>1, <3>7 DEF key
  <2>9. ASSUME pc = "finished", NEW c \in DOMAIN meta
        PROVE  file.strings[file.meta[c] + 1] = metaGiven[c]
    <3>1. meta[c] \in Ids /\ table.list[meta[c] + 1] = metaGiven[c]
      BY <2>2, <2>3 DEF MetaRight, Ids, NStrings
    <3>2. file.strings = Strs /\ file.meta[c] = Remap(meta[c])
      BY <2>1, <2>3, <2>9, EncodedIs
    <3>3. Strs[Remap(meta[c]) + 1] = table.list[meta[c] + 1]
      BY <2>2, <3>1, StrsIs
    <3>. QED  BY <3>1, <3>2, <3>3
  <2>. QED  BY <2>6, <2>7, <2>8, <2>9 DEF RecordsKept
<1>. QED  BY <1>1, StringsInvariance, PTL

-----------------------------------------------------------------------------
(* The counts that Finish compares are those of the strings in use. *)
LEMMA SameCount ==
  ASSUME NEW S, NEW T, IsFiniteSet(S), NEW f \in [S -> T],
         \A x, y \in S : f[x] = f[y] => x = y, \A y \in T : \E x \in S : f[x] = y
  PROVE  IsFiniteSet(T) /\ Cardinality(T) = Cardinality(S)
<1>1. f \in Bijection(S, T)
  BY DEF Bijection, Injection, Surjection, IsInjective
<1>. QED  BY <1>1, FS_Bijection DEF ExistsBijection

LEMMA UsedCount ==
  ASSUME TableOK(table), NEW narrow, NEW all,
         \A s : s \in narrow <=> Narrow(table, s), \A s : s \in all <=> Has(table, s)
  PROVE  Cardinality(narrow) = NU16 /\ Cardinality(all) = NStrings
<1>1. NStrings \in Nat /\ table.u16 \subseteq 0..(NStrings - 1)
  BY DEF TableOK, NStrings
<1>2. \A c, d \in 1..NStrings : table.list[c] = table.list[d] => c = d
  BY DEF TableOK, NStrings
<1>3. Cardinality(all) = NStrings
  <2> DEFINE f == [c \in 1..NStrings |-> table.list[c]]
  <2>1. f \in [1..NStrings -> all]
    BY DEF Has, NStrings
  <2>2. \A s \in all : \E c \in 1..NStrings : f[c] = s
    BY DEF Has, NStrings
  <2>3. \A c, d \in 1..NStrings : f[c] = f[d] => c = d
    BY <1>2
  <2>4. IsFiniteSet(1..NStrings) /\ Cardinality(1..NStrings) = NStrings
    <3>1. /\ IsFiniteSet(1..NStrings)
          /\ Cardinality(1..NStrings) = IF 1 > NStrings THEN 0 ELSE NStrings - 1 + 1
      BY <1>1, FS_Interval
    <3>2. (IF 1 > NStrings THEN 0 ELSE NStrings - 1 + 1) = NStrings
      BY <1>1
    <3>. QED  BY <3>1, <3>2
  <2> HIDE DEF f
  <2>5. Cardinality(all) = Cardinality(1..NStrings)
    BY <2>1, <2>2, <2>3, <2>4, SameCount
  <2>. QED  BY <2>4, <2>5
<1>4. Cardinality(narrow) = NU16
  <2> DEFINE U == table.u16
             f == [p \in U |-> table.list[p + 1]]
  <2>1. f \in [U -> narrow]
    BY DEF Narrow
  <2>2. \A s \in narrow : \E p \in U : f[p] = s
    BY DEF Narrow
  <2>3. \A p, q \in U : f[p] = f[q] => p = q
    <3>1. \A p \in U : p + 1 \in 1..NStrings /\ p = (p + 1) - 1
      BY <1>1
    <3>. QED  BY <1>2, <3>1
  <2>4. IsFiniteSet(U)
    <3>1. IsFiniteSet(0..(NStrings - 1)) /\ U \in SUBSET (0..(NStrings - 1))
      BY <1>1, FS_Interval
    <3>. QED  BY <3>1, FS_Subset
  <2>5. Cardinality(narrow) = Cardinality(U)
    <3> HIDE DEF f, U
    <3>. QED  BY <2>1, <2>2, <2>3, <2>4, SameCount
  <2>. QED  BY <2>5 DEF NU16
<1>. QED  BY <1>3, <1>4

Cells(s) == {s} \X (1..Size[s])

LEMMA CellsCount ==
  ASSUME NEW s \in AnyString
  PROVE  IsFiniteSet(Cells(s)) /\ Cardinality(Cells(s)) = Size[s] /\ Size[s] \in Nat
<1>1. Size[s] \in Nat
  BY LimitsAssumption DEF AnyString
<1> DEFINE n == Size[s]
           f == [c \in 1..n |-> <<s, c>>]
<1>2. IsFiniteSet(1..n) /\ Cardinality(1..n) = n
  <2>1. IsFiniteSet(1..n) /\ Cardinality(1..n) = IF 1 > n THEN 0 ELSE n - 1 + 1
    BY <1>1, FS_Interval, SMTT(30)
  <2>2. (IF 1 > n THEN 0 ELSE n - 1 + 1) = n
    BY <1>1
  <2>. QED  BY <2>1, <2>2
<1>3. /\ f \in [1..n -> Cells(s)] /\ \A x, y \in 1..n : f[x] = f[y] => x = y
      /\ \A y \in Cells(s) : \E x \in 1..n : f[x] = y
  BY DEF Cells
<1>4. IsFiniteSet(Cells(s)) /\ Cardinality(Cells(s)) = Cardinality(1..n)
  <2> HIDE DEF f, n
  <2>. QED  BY <1>2, <1>3, SameCount
<1>. QED  BY <1>1, <1>2, <1>4

LEMMA BlobIs ==
  ASSUME TableOK(table), NEW all, \A s : s \in all <=> Has(table, s)
  PROVE  Blob = Cardinality(UNION {Cells(s) : s \in all}) /\ Blob \in Nat
<1> DEFINE N == NStrings
           L == table.list
           step == [q \in (1..N) \X Nat |-> q[2] + Size[L[q[1]]]]
           F == CHOOSE f : f = [k \in 0..N |-> IF k = 0 THEN 0 ELSE f[k - 1] + Size[L[k]]]
<1>1. N \in Nat /\ L \in Seq(AnyString) /\ N = Len(L)
  BY DEF TableOK, NStrings
<1>2. \A c \in 1..N : L[c] \in AnyString /\ Size[L[c]] \in Nat
  BY <1>1, Element, CellsCount
<1>3. Blob = F[N]
  BY DEF Blob
<1>4. step \in [(1..N) \X Nat -> Nat]
  BY <1>2
<1>5. PICK G \in [0..N -> Nat] : Recurses(G, 0, step, N)
  <2>1. 0 \in Nat
    OBVIOUS
  <2> HIDE DEF step, N
  <2>. QED  BY <1>1, <1>4, <2>1, Recursion
<1>6. G = [k \in 0..N |-> IF k = 0 THEN 0 ELSE G[k - 1] + Size[L[k]]]
  <2>1. ASSUME NEW m \in 0..N, m # 0
        PROVE  step[<<m, G[m - 1]>>] = G[m - 1] + Size[L[m]]
    <3>1. m \in 1..N /\ m - 1 \in 0..N
      BY <1>1, <2>1
    <3> DEFINE q == <<m, G[m - 1]>>
    <3>2. q \in (1..N) \X Nat
      BY <3>1
    <3>3. step[q] = q[2] + Size[L[q[1]]]
      <4> HIDE DEF q
      <4>. QED  BY <3>2
    <3>. QED  BY <3>3
  <2> HIDE DEF step, N, L
  <2>2. [m \in 0..N |-> IF m = 0 THEN 0 ELSE step[<<m, G[m - 1]>>]]
        = [m \in 0..N |-> IF m = 0 THEN 0 ELSE G[m - 1] + Size[L[m]]]
    BY <2>1
  <2>. QED  BY <1>5, <2>2 DEF Recurses
<1>7. F = [k \in 0..N |-> IF k = 0 THEN 0 ELSE F[k - 1] + Size[L[k]]]
  BY <1>6
<1> HIDE DEF F, step
<1> DEFINE All(k) == UNION {Cells(L[c]) : c \in 1..k}
           Good(b, k) == b \in Nat /\ IsFiniteSet(All(k)) /\ Cardinality(All(k)) = b
           T == {k \in 0..N : Good(F[k], k)}
<1>8. 0 \in T
  <2>1. F[0] = 0
    BY <1>1, <1>7
  <2>2. All(0) = {}
    OBVIOUS
  <2>3. Good(F[0], 0)
    BY <2>1, <2>2, FS_EmptySet
  <2> HIDE DEF Good
  <2>. QED  BY <1>1, <2>3
<1>9. ASSUME NEW k \in 0..(N - 1), k \in T
      PROVE  k + 1 \in T
  <2>1. Good(F[k], k)
    <3> HIDE DEF Good
    <3>. QED  BY <1>9
  <2>2. F[k + 1] = F[k] + Size[L[k + 1]]
    <3>1. k + 1 \in 0..N /\ k + 1 # 0 /\ (k + 1) - 1 = k
      BY <1>1
    <3>. QED  BY <1>7, <3>1
  <2> DEFINE s == L[k + 1]
             A == All(k)
             B == Cells(s)
  <2>3. k + 1 \in 1..N /\ s \in AnyString
    <3>1. k + 1 \in 1..N
      BY <1>1
    <3>. QED  BY <1>2, <3>1
  <2>4. All(k + 1) = A \union B
    <3>1. \A c : c \in 1..(k + 1) <=> c \in 1..k \/ c = k + 1
      OBVIOUS
    <3>. QED  BY <3>1
  <2>5. A \cap B = {}
    <3>1. ASSUME NEW c \in 1..k PROVE L[c] # s
      <4>1. c \in 1..N /\ c # k + 1
        BY <1>1
      <4>. QED  BY <1>1, <2>3, <4>1 DEF TableOK
    <3>2. \A c \in 1..k : Cells(L[c]) \cap Cells(s) = {}
      BY <3>1 DEF Cells
    <3>. QED  BY <3>2
  <2>6. IsFiniteSet(B) /\ Cardinality(B) = Size[s] /\ Size[s] \in Nat
    BY <2>3, CellsCount
  <2>7. IsFiniteSet(A) /\ Cardinality(A) = F[k] /\ F[k] \in Nat
    BY <2>1
  <2>8. Good(F[k + 1], k + 1)
    <3> HIDE DEF A, B, All, s
    <3>1. /\ IsFiniteSet(A \union B)
          /\ Cardinality(A \union B) = Cardinality(A) + Cardinality(B) - Cardinality(A \cap B)
      BY <2>6, <2>7, FS_Union
    <3>2. Cardinality(A \union B) = F[k] + Size[s] - 0
      BY <2>5, <2>6, <2>7, <3>1, FS_EmptySet, Zenon
    <3>3. F[k] + Size[s] - 0 = F[k] + Size[s] /\ F[k] + Size[s] \in Nat
      BY <2>6, <2>7
    <3>4. F[k + 1] = F[k] + Size[s]
      BY <2>2 DEF s
    <3>. QED  BY <2>4, <3>1, <3>2, <3>3, <3>4
  <2> HIDE DEF Good
  <2>. QED  BY <1>1, <2>3, <2>8
<1>10. N \in T
  <2> HIDE DEF T, N
  <2>1. 0..N \subseteq T
    BY <1>1, <1>8, <1>9, UpTo
  <2>. QED  BY <1>1, <2>1
<1>11. All(N) = UNION {Cells(s) : s \in all}
  <2>1. \A s : s \in all <=> \E c \in 1..N : L[c] = s
    BY DEF Has, NStrings
  <2> HIDE DEF N, L
  <2>. QED  BY <2>1
<1>. QED  BY <1>3, <1>10, <1>11

(* A build fails exactly when the strings of its records, of META and      *)
(* LANGS are too many, too long or too many bytes: it counts each string    *)
(* it uses once, in the group of the narrowest field that has it, and no    *)
(* string that no record it keeps, and neither META nor LANGS, has.         *)
THEOREM RefusesOnlyWhatDoesNotFit == StringsSpec => []RefusesOnlyTooMany
<1>1. SInv => RefusesOnlyTooMany
  <2>1. SUFFICES ASSUME SInv PROVE RefusesOnlyTooMany
    OBVIOUS
  <2> DEFINE K      == {Kept(given[c].rec) : c \in DOMAIN given}
             narrow == {Empty} \union (UNION {{k.country, k.tz} : k \in K})
             all    == narrow \union (UNION {{k.city, k.alt} : k \in K})
                       \union {metaGiven[k] : k \in DOMAIN metaGiven}
             bytes  == Cardinality(UNION {{s} \X (1..Size[s]) : s \in all})
             fits   == /\ Cardinality(narrow) <= Max16 /\ Cardinality(all) <= Max24
                       /\ bytes <= MaxBlob /\ \A s \in all : Size[s] <= MaxSize
  <2>2. /\ Types /\ UsesRight /\ FileRight /\ TableOK(table)
        /\ DOMAIN given = 1..Len(given) /\ DOMAIN metaGiven = 1..Len(metaGiven)
        /\ DOMAIN table.list = 1..Len(table.list)
    BY <2>1 DEF SInv, Types, TableOK
  <2>14. \A k : k \in K <=> \E c \in 1..Len(given) : k = KeptOf(profile, hasX, given[c].rec)
    BY <2>2, KeptSame
  <2> HIDE DEF K
  <2>3. ASSUME NEW s PROVE s \in narrow <=> NarrowUse(s)
    <3> DEFINE U == UNION {{k.country, k.tz} : k \in K}
    <3>1. s \in U <=> \E k \in K : s = k.country \/ s = k.tz
      OBVIOUS
    <3>0. narrow = {Empty} \union U
      OBVIOUS
    <3> HIDE DEF U, narrow
    <3>2. s \in narrow <=> s = Empty \/ \E k \in K : s = k.country \/ s = k.tz
      BY <3>0, <3>1
    <3>3. (\E k \in K : s = k.country \/ s = k.tz)
          <=> \E c \in 1..Len(given) : \/ s = KeptOf(profile, hasX, given[c].rec).country
                                       \/ s = KeptOf(profile, hasX, given[c].rec).tz
      BY <2>14, Zenon
    <3>. QED  BY <3>2, <3>3 DEF NarrowUse
  <2>4. ASSUME NEW s PROVE s \in all <=> Use(s)
    <3> DEFINE U == UNION {{k.city, k.alt} : k \in K}
               M == {metaGiven[k] : k \in DOMAIN metaGiven}
    <3>1. s \in U <=> \E k \in K : s = k.city \/ s = k.alt
      OBVIOUS
    <3>2. (\E k \in K : s = k.city \/ s = k.alt)
          <=> \E c \in 1..Len(given) : \/ s = KeptOf(profile, hasX, given[c].rec).city
                                       \/ s = KeptOf(profile, hasX, given[c].rec).alt
      BY <2>14, Zenon
    <3>3. s \in M
          <=> \E c \in 1..Len(metaGiven) : s = metaGiven[c]
      BY <2>2
    <3>0. all = narrow \union U \union M
      OBVIOUS
    <3> HIDE DEF narrow, all, U, M
    <3>4. s \in all <=> s \in narrow \/ s \in U \/ s \in M
      BY <3>0
    <3>. QED  BY <2>3, <3>1, <3>2, <3>3, <3>4 DEF Use
  <2>5. /\ \A s : s \in narrow <=> Narrow(table, s)
        /\ \A s : s \in all <=> Has(table, s)
    <3> HIDE DEF narrow, all
    <3>. QED  BY <2>2, <2>3, <2>4 DEF UsesRight
  <2> HIDE DEF narrow, all
  <2>6. Cardinality(narrow) = NU16 /\ Cardinality(all) = NStrings
    BY <2>2, <2>5, UsedCount
  <2>7. bytes = Blob /\ Blob \in Nat
    BY <2>2, <2>5, BlobIs DEF Cells
  <2>8. NU16 \in Nat /\ NStrings \in Nat
    BY <2>2, RemapIs
  <2>9. TooLong <=> \E s \in all : Size[s] > MaxSize
    BY <2>2, <2>5 DEF TooLong, Has
  <2>10. \A s \in all : Size[s] \in Nat
    <3>1. \A s \in all : s \in AnyString
      BY <2>2, <2>5, Element DEF Has, TableOK
    <3>. QED  BY <3>1, CellsCount
  <2>11. {Max16, Max24, MaxSize, MaxBlob} \subseteq Nat
    BY LimitsAssumption
  <2> HIDE DEF bytes
  <2>12. fits <=> ~TooLong /\ ~TooMany
    BY <2>6, <2>7, <2>8, <2>9, <2>10, <2>11 DEF TooMany
  <2> HIDE DEF fits
  <2>13. pc # "building" => (pc = "finished" <=> fits)
    BY <2>2, <2>12 DEF Types, FileRight
  <2>. QED  BY <2>13 DEF RefusesOnlyTooMany, fits, bytes, all, narrow, K
<1>. QED  BY <1>1, StringsInvariance, PTL
=============================================================================
