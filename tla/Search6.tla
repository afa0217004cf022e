------------------------------ MODULE Search6 -------------------------------
(***************************************************************************)
(* The IPv6 lookup, from the boundaries the builder publishes to the one   *)
(* that answers a key:                                                     *)
(*   appendExcIdx and appendExcLo (internal/build/encode.go) store the low *)
(*   64 bits of the few starts where they are not 0, the exceptions;       *)
(*   buildIndex6 and buildIndex (reader.go) derive the two-level index: a  *)
(*   bucket per value of the top 16 bits, split into 2^k slots by the next *)
(*   k bits, k growing with the starts in the bucket, and a flag on every  *)
(*   slot that holds an exception;                                         *)
(*   search6 (reader.go; index6 in ranges.go) halves the key's slot by the *)
(*   top 64 bits and, in a flagged slot, steps back by the low ones.       *)
(*                                                                         *)
(* An address is a record of its halves, hi and lo; a bucket has 2^HiBits  *)
(* values of hi (2^48 in the code).  Boundaries are counted from 0.        *)
(***************************************************************************)
EXTENDS Tables, FiniteSets

CONSTANTS
  Buckets,     \* top-16 buckets
  HiBits,      \* bits of hi below the bucket's
  LoTop,       \* the greatest low half
  SlotStarts,  \* v6SlotStarts: starts per slot aimed at
  MaxL2Bits,   \* v6MaxL2Bits
  StartLists   \* the lists of starts to look up in

ASSUME SizeAssumption ==
  /\ Buckets \in Nat \ {0} /\ SlotStarts \in Nat \ {0}
  /\ HiBits \in Nat /\ LoTop \in Nat /\ MaxL2Bits \in 0..HiBits

BucketSize == 2^HiBits
Addresses  == [hi : 0..(Buckets * BucketSize - 1), lo : 0..LoTop]

(* less128 *)
Less(a, b) == a.hi < b.hi \/ (a.hi = b.hi /\ a.lo < b.lo)

(* checkIPv6 accepts, and merger6 produces, ascending starts only. *)
ASSUME StartListsAssumption ==
  \A s \in StartLists :
    /\ s \in Seq(Addresses)
    /\ \A a, b \in 1..Len(s) : a < b => Less(s[a], s[b])

VARIABLES
  starts,      \* the boundaries' starts
  dir,         \* v6dir: offset o in l2 and bits k of each bucket sized
  l2,          \* v6l2: first start and flag of each slot filled
  exc,         \* v6exc: the starts known to be exceptions
  pc,          \* size, fill, flag, ready, search6, stepBack, answered
  i, j, g,     \* the builders' loop variables
  key,         \* search6's argument
  l, h, first, \* its bounds, and the first start of the key's slot
  answer       \* how many starts it found at or below key

tables == <<starts, dir, l2, exc>>
build  == <<i, j, g>>
search == <<key, l, h, first, answer>>
vars   == <<tables, pc, build, search>>

n      == Len(starts)
Hi(b)  == starts[b + 1].hi              \* V6STARTS
Top(b) == Hi(b) \div BucketSize

(* appendExcIdx, appendExcLo *)
ExcIdx == ExceptionsOf([b \in 1..n |-> starts[b].lo])
ExcLo  == [e \in DOMAIN ExcIdx |-> starts[ExcIdx[e] + 1].lo]

Dir(b) == dir[b + 1]
L2(s)  == l2[s + 1]

(* v6Slot: the k bits of hi below the bucket's. *)
Slot(hi, k) == (hi % BucketSize) \div 2^(HiBits - k)

(* The place in l2 of the slot of hi. *)
SlotOf(hi) ==
  LET d == Dir(hi \div BucketSize) IN d.o + Slot(hi, d.k)

Init ==
  /\ starts \in StartLists
  /\ dir = <<>> /\ l2 = <<>> /\ exc = {}
  /\ pc = "size"
  /\ i = 0 /\ j = 0 /\ g = 0
  /\ key = [hi |-> 0, lo |-> 0]
  /\ l = 0 /\ h = 0 /\ first = 0 /\ answer = 0

-----------------------------------------------------------------------------
(* buildIndex6, first pass: size each bucket's slots from the starts in it. *)

(* Mutant: a bucket with exactly enough starts for its slots is split, too. *)
L2BitsEager(count) ==
  CHOOSE k \in 0..MaxL2Bits :
    /\ k = MaxL2Bits \/ count < SlotStarts * 2^k
    /\ \A m \in 0..(k - 1) : count >= SlotStarts * 2^m

(* v6L2Bits *)
L2Bits(count) ==
  CHOOSE k \in 0..MaxL2Bits :
    /\ k = MaxL2Bits \/ count <= SlotStarts * 2^k
    /\ \A m \in 0..(k - 1) : count > SlotStarts * 2^m

NextDir == Len(dir)
Slots   == IF dir = <<>> THEN 0
           ELSE Dir(NextDir - 1).o + 2^Dir(NextDir - 1).k

CountStart ==
  /\ pc = "size" /\ NextDir < Buckets
  /\ j < n /\ Top(j) = NextDir
  /\ j' = j + 1
  /\ UNCHANGED <<tables, pc, i, g, search>>

SizeBucket ==
  /\ pc = "size" /\ NextDir < Buckets
  /\ ~(j < n /\ Top(j) = NextDir)
  /\ dir' = Append(dir, [o |-> Slots, k |-> L2Bits(j - i)])
  /\ i' = j
  /\ UNCHANGED <<starts, l2, exc, pc, j, g, search>>

StartFill ==
  /\ pc = "size" /\ NextDir = Buckets
  /\ pc' = "fill"
  /\ i' = 0
  /\ UNCHANGED <<tables, j, g, search>>

-----------------------------------------------------------------------------
(* buildIndex6, second pass: slot S of bucket g begins at the first start   *)
(* of the bucket in that slot or a later one.                               *)
S         == Len(l2) - Dir(g).o
InBucket  == i < n /\ Top(i) = g
SlotsLeft == S < 2^Dir(g).k

BelowSlot == InBucket /\ Slot(Hi(i), Dir(g).k) < S

SkipStart ==
  /\ pc = "fill" /\ g < Buckets
  /\ IF SlotsLeft THEN BelowSlot ELSE InBucket
  /\ i' = i + 1
  /\ UNCHANGED <<tables, pc, j, g, search>>

FillSlot ==
  /\ pc = "fill" /\ g < Buckets
  /\ SlotsLeft /\ ~BelowSlot
  /\ l2' = Append(l2, [at |-> i, exc |-> FALSE])
  /\ UNCHANGED <<starts, dir, exc, pc, build, search>>

NextBucket ==
  /\ pc = "fill" /\ g < Buckets
  /\ ~SlotsLeft /\ ~InBucket
  /\ g' = g + 1
  /\ UNCHANGED <<tables, pc, i, j, search>>

LastEntry == n

EndFill ==
  /\ pc = "fill" /\ g = Buckets
  /\ l2' = Append(l2, [at |-> LastEntry, exc |-> FALSE])
  /\ pc' = "flag"
  /\ j' = 0
  /\ UNCHANGED <<starts, dir, exc, i, g, search>>

-----------------------------------------------------------------------------
(* buildIndex: flag the slots that hold an exception. *)

(* Mutant: the exceptions of a bucket flag its first slot. *)
FlagFirstSlot ==
  /\ pc = "flag" /\ j < Len(ExcIdx)
  /\ exc' = exc \union {ExcIdx[j + 1]}
  /\ l2' = [l2 EXCEPT ![Dir(Top(ExcIdx[j + 1])).o + 1].exc = TRUE]
  /\ j' = j + 1
  /\ UNCHANGED <<starts, dir, pc, i, g, search>>

FlagException ==
  /\ pc = "flag" /\ j < Len(ExcIdx)
  /\ exc' = exc \union {ExcIdx[j + 1]}
  /\ l2' = [l2 EXCEPT ![SlotOf(Hi(ExcIdx[j + 1])) + 1].exc = TRUE]
  /\ j' = j + 1
  /\ UNCHANGED <<starts, dir, pc, i, g, search>>

EndFlag ==
  /\ pc = "flag" /\ j = Len(ExcIdx)
  /\ pc' = "ready"
  /\ UNCHANGED <<tables, build, search>>

-----------------------------------------------------------------------------
(* search6 *)
Lookup(a) ==
  LET s == SlotOf(a.hi) IN
  /\ pc \in {"ready", "answered"}
  /\ pc' = "search6"
  /\ key' = a
  /\ l' = L2(s).at
  /\ h' = L2(s + 1).at
  /\ first' = L2(s).at
  /\ UNCHANGED <<tables, build, answer>>

mid == (l + h) \div 2

Above(b) == Hi(b) > key.hi

HalveDown ==
  /\ pc = "search6" /\ l < h
  /\ Above(mid)
  /\ h' = mid
  /\ UNCHANGED <<tables, pc, build, key, l, first, answer>>

(* Mutant: mid stays in the window. *)
HalveUpToMid ==
  /\ pc = "search6" /\ l < h
  /\ ~Above(mid)
  /\ l' = mid
  /\ UNCHANGED <<tables, pc, build, key, h, first, answer>>

HalveUp ==
  /\ pc = "search6" /\ l < h
  /\ ~Above(mid)
  /\ l' = mid + 1
  /\ UNCHANGED <<tables, pc, build, key, h, first, answer>>

EndHalving ==
  /\ pc = "search6" /\ l >= h
  /\ answer' = l
  /\ pc' = IF L2(SlotOf(key.hi)).exc /\ l > first
           THEN "stepBack" ELSE "answered"
  /\ UNCHANGED <<tables, build, key, l, h, first>>

(* v6ExcLo: the low half of start b, an exception. *)
LowHalf(b) ==
  LET Reached == [e \in 0..(Len(ExcIdx) - 1) |-> ExcIdx[e + 1] >= b]
  IN  ExcLo[FirstTrue(Reached, 0, Len(ExcIdx)) + 1]

(* v6StepBack: start b has the key's top half and a low half above its. *)
StepsBackOver(b) ==
  b >= 0 /\ Hi(b) = key.hi /\ b \in exc /\ LowHalf(b) > key.lo

(* Mutant: one step at most. *)
StepBackOnce ==
  /\ pc = "stepBack"
  /\ StepsBackOver(answer - 1)
  /\ answer' = answer - 1
  /\ pc' = "answered"
  /\ UNCHANGED <<tables, build, key, l, h, first>>

StepBack ==
  /\ pc = "stepBack"
  /\ StepsBackOver(answer - 1)
  /\ answer' = answer - 1
  /\ UNCHANGED <<tables, pc, build, key, l, h, first>>

EndStepBack ==
  /\ pc = "stepBack"
  /\ ~StepsBackOver(answer - 1)
  /\ pc' = "answered"
  /\ UNCHANGED <<tables, build, search>>

Next ==
  \/ CountStart \/ SizeBucket \/ StartFill
  \/ SkipStart \/ FillSlot \/ NextBucket \/ EndFill
  \/ FlagException \/ EndFlag
  \/ \E a \in Addresses : Lookup(a)
  \/ HalveDown \/ HalveUp \/ EndHalving \/ StepBack \/ EndStepBack

Spec == Init /\ [][Next]_vars

(* search6 is a loop in one goroutine: it runs once it was called. *)
Search   == HalveDown \/ HalveUp \/ EndHalving \/ StepBack \/ EndStepBack
FairSpec == Spec /\ WF_vars(Search)

-----------------------------------------------------------------------------
(* Properties *)

(* Every index the builders and the search compute stays inside its table. *)
TypeOK ==
  /\ Len(dir) <= Buckets /\ \A b \in DOMAIN dir : dir[b].k \in 0..MaxL2Bits
  /\ \A s \in DOMAIN l2 : l2[s].at \in 0..n /\ l2[s].exc \in BOOLEAN
  /\ exc \subseteq 0..(n - 1)
  /\ pc \in {"size", "fill", "flag", "ready", "search6", "stepBack",
             "answered"}
  /\ i \in 0..n /\ j \in 0..n /\ g \in 0..Buckets
  /\ key \in Addresses
  /\ {l, h, first, answer} \subseteq 0..n

(* "A bucket of c > v6SlotStarts starts gets fewer than c/4 slots"         *)
(* (reader.go:342), twice as many as SlotStarts asks for: that keeps the   *)
(* offsets within the bits a directory entry has for them.                 *)
FewSlots ==
  \A b \in 0..(Len(dir) - 1) :
    LET c == Cardinality({a \in 0..(n - 1) : Top(a) = b})
    IN  c > SlotStarts => 2^Dir(b).k * SlotStarts < 2 * c

(* Every entry of l2 splits the starts at its slot's first hi. *)
SlotsSplit ==
  \A b \in 0..(Len(dir) - 1) : \A s \in 0..(2^Dir(b).k - 1) :
    Dir(b).o + s < Len(l2) =>
      LET at    == L2(Dir(b).o + s).at
          slot  == b * BucketSize + s * 2^(HiBits - Dir(b).k)
      IN  /\ \A a \in 0..(at - 1) : Hi(a) < slot
          /\ \A a \in at..(n - 1) : Hi(a) >= slot

(* Exactly the slots that hold an exception are flagged. *)
FlagsRight ==
  pc \notin {"size", "fill", "flag"} =>
    \A s \in 0..(Len(l2) - 2) :
      L2(s).exc <=>
        \E b \in L2(s).at..(L2(s + 1).at - 1) : starts[b + 1].lo # 0

(* "v6l2[o+s]&v6SlotIdxMask is the index of the first start in slot s ...   *)
(* so a slot's starts run from its entry to the next one" (reader.go:65),   *)
(* in every bucket, however many slots it has; and once the index is built, *)
(* the search steps back in the slots with an exception and in no other.    *)
IndexRight == SlotsSplit /\ FlagsRight

(* search6 answers with the last start at or below the key by all its 128   *)
(* bits, and with none below the first.                                     *)
LastAtOrBelow ==
  pc = "answered" =>
    /\ \A b \in 0..(answer - 1) : ~Less(key, starts[b + 1])
    /\ \A b \in answer..(n - 1) : Less(key, starts[b + 1])

(* Every lookup is answered. *)
SearchEnds == pc \in {"search6", "stepBack"} ~> pc = "answered"
=============================================================================
