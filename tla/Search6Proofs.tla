--------------------------- MODULE Search6Proofs ---------------------------
(***************************************************************************)
(* Proofs about Search6, for every number and size of buckets, every aim   *)
(* of starts per slot and every list of ascending starts: the directory    *)
(* and the slots are built right whatever k each bucket gets, the flags    *)
(* say where the exceptions are, and the search over them ends with the    *)
(* last start at or below the key, without an index out of range.          *)
(*                                                                         *)
(* IInv says what holds while the passes run: the buckets sized lie one    *)
(* after the other (DirRight), the counting and the filling have seen what *)
(* lies below the bucket or slot they are at (SizeRight, FillRight), the   *)
(* flags are those of the exceptions seen (FlagRight), and the search's    *)
(* bounds enclose the answer (SearchRight).  A start is in the slot its hi *)
(* computes exactly when it lies between that slot's entry and the next    *)
(* (SlotHolds): the flag of one slot then says all the search needs.       *)
(***************************************************************************)
EXTENDS Search6, TableProofs

(* The slots of bucket b, the width of one, and where slot t begins. *)
SlotCount(b)    == 2^Dir(b).k
Width(b)        == 2^(HiBits - Dir(b).k)
SlotStart(b, t) == b * BucketSize + t * Width(b)

(* Start at is the first at or above x. *)
Splits(at, x) ==
  /\ at \in 0..n
  /\ \A a \in 0..(at - 1) : Hi(a) < x
  /\ \A a \in at..(n - 1) : Hi(a) >= x

Types ==
  /\ starts \in StartLists
  /\ dir \in Seq([o : Nat, k : 0..MaxL2Bits]) /\ Len(dir) <= Buckets
  /\ l2 \in Seq([at : 0..n, exc : BOOLEAN])
  /\ exc \subseteq 0..(n - 1)
  /\ pc \in {"size", "fill", "flag", "ready", "search6", "stepBack",
             "answered"}
  /\ i \in 0..n /\ j \in 0..n /\ g \in 0..Buckets
  /\ key \in Addresses
  /\ l \in 0..n /\ h \in 0..n /\ first \in 0..n /\ answer \in 0..n

(* The buckets sized lie one after the other and cover the slots. *)
DirRight ==
  /\ dir # <<>> => Dir(0).o = 0
  /\ \A b, c \in 0..(NextDir - 1) : c = b + 1 => Dir(c).o = Dir(b).o + SlotCount(b)
  /\ \A b, c \in 0..(NextDir - 1) : b < c => Dir(b).o + SlotCount(b) <= Dir(c).o
  /\ \A s \in 0..(Slots - 1) :
       \E b \in 0..(NextDir - 1) : s \in Dir(b).o..(Dir(b).o + SlotCount(b) - 1)

SizeRight ==
  /\ pc # "size" => NextDir = Buckets
  /\ pc = "size" =>
       /\ i <= j /\ g = 0 /\ l2 = <<>> /\ exc = {}
       /\ \A a \in 0..(i - 1) : Top(a) < NextDir
       /\ \A a \in i..(j - 1) : Top(a) = NextDir
       /\ \A a \in j..(n - 1) : Top(a) >= NextDir

FillRight ==
  pc = "fill" =>
    /\ exc = {} /\ \A s \in DOMAIN l2 : ~l2[s].exc
    /\ g = Buckets => Len(l2) = Slots
    /\ g < Buckets =>
         /\ Dir(g).o <= Len(l2) /\ Len(l2) <= Dir(g).o + SlotCount(g)
         /\ \A a \in 0..(i - 1) : Hi(a) < SlotStart(g, Len(l2) - Dir(g).o)
         /\ \A a \in i..(n - 1) : Top(a) >= g

(* The slots of the exceptions seen so far are flagged. *)
FlagRight ==
  pc \notin {"size", "fill"} =>
    /\ Len(l2) = Slots + 1 /\ L2(Slots).at = n
    /\ j \in 0..Len(ExcIdx) /\ (pc # "flag" => j = Len(ExcIdx))
    /\ exc = {ExcIdx[e] : e \in 1..j}
    /\ \A s \in 0..(Slots - 1) :
         L2(s).exc <=> \E e \in 1..j : SlotOf(Hi(ExcIdx[e])) = s

SearchRight ==
  /\ pc = "search6" =>
       /\ first = L2(SlotOf(key.hi)).at
       /\ first <= l /\ l <= h /\ h <= L2(SlotOf(key.hi) + 1).at
       /\ \A b \in 0..(l - 1) : Hi(b) <= key.hi
       /\ \A b \in h..(n - 1) : Hi(b) > key.hi
  /\ pc = "stepBack" =>
       /\ \A b \in 0..(answer - 1) : Hi(b) <= key.hi
       /\ \A b \in answer..(n - 1) : Less(key, starts[b + 1])

IInv ==
  /\ Types /\ DirRight /\ FewSlots /\ SizeRight
  /\ FillRight /\ SlotsSplit /\ FlagRight /\ SearchRight /\ LastAtOrBelow

-----------------------------------------------------------------------------
LEMMA Sizes ==
  /\ HiBits \in Nat /\ MaxL2Bits \in 0..HiBits /\ LoTop \in Nat
  /\ Buckets \in Nat \ {0} /\ SlotStarts \in Nat \ {0}
  /\ BucketSize \in Nat \ {0} /\ Buckets * BucketSize \in Nat \ {0}
<1>1. /\ HiBits \in Nat /\ MaxL2Bits \in 0..HiBits /\ LoTop \in Nat
      /\ Buckets \in Nat \ {0} /\ SlotStarts \in Nat \ {0}
  BY SizeAssumption
<1>2. BucketSize \in Nat \ {0}
  BY <1>1, PowerPositive DEF BucketSize
<1>3. \A x, y \in Nat \ {0} : x * y \in Nat \ {0}
  OBVIOUS
<1>. QED  BY <1>1, <1>2, <1>3

(* The bucket of a top half. *)
LEMMA BucketOf ==
  ASSUME NEW hi \in 0..(Buckets * BucketSize - 1)
  PROVE  LET b == hi \div BucketSize
         IN  /\ b \in 0..(Buckets - 1)
             /\ b * BucketSize <= hi /\ hi < (b + 1) * BucketSize
<1> DEFINE b == hi \div BucketSize
<1>1. BucketSize \in Nat \ {0} /\ Buckets \in Nat \ {0} /\ hi \in Nat
      /\ hi < Buckets * BucketSize
  BY Sizes
<1>2. /\ b \in Int /\ hi % BucketSize \in Int
      /\ hi = BucketSize * b + (hi % BucketSize)
      /\ 0 <= hi % BucketSize /\ hi % BucketSize < BucketSize
  BY <1>1, DivMod
<1> HIDE DEF b
<1>3. BucketSize * b = b * BucketSize /\ (b + 1) * BucketSize = b * BucketSize + BucketSize
      /\ b * BucketSize \in Int
  BY <1>1, <1>2
<1>4. b * BucketSize <= hi /\ hi < (b + 1) * BucketSize
  BY <1>1, <1>2, <1>3
<1>5. 0 <= b
  <2>1. SUFFICES ASSUME b + 1 <= 0 PROVE FALSE
    BY <1>2
  <2>2. (b + 1) * BucketSize <= 0 * BucketSize
    BY <1>1, <1>2, <2>1, MulMono
  <2>. QED  BY <1>1, <1>3, <1>4, <2>2
<1>6. b < Buckets
  <2>1. SUFFICES ASSUME Buckets <= b PROVE FALSE
    BY <1>1, <1>2
  <2>2. Buckets * BucketSize <= b * BucketSize
    BY <1>1, <1>2, <2>1, MulMono
  <2>. QED  BY <1>1, <1>3, <1>4, <2>2
<1>. QED  BY <1>1, <1>2, <1>4, <1>5, <1>6 DEF b

LEMMA StartFacts ==
  ASSUME starts \in StartLists
  PROVE  /\ n \in Nat /\ starts \in Seq(Addresses)
         /\ \A a \in 0..(n - 1) :
              /\ starts[a + 1] \in Addresses
              /\ Hi(a) \in 0..(Buckets * BucketSize - 1)
              /\ Top(a) \in 0..(Buckets - 1)
              /\ Top(a) * BucketSize <= Hi(a)
              /\ Hi(a) < (Top(a) + 1) * BucketSize
         /\ \A a, b \in 0..(n - 1) : a < b =>
              Less(starts[a + 1], starts[b + 1])
         /\ \A a, b \in 0..(n - 1) : a <= b => Hi(a) <= Hi(b)
<1>1. /\ starts \in Seq(Addresses)
      /\ \A a, b \in 1..Len(starts) : a < b => Less(starts[a], starts[b])
  BY StartListsAssumption
<1>2. n \in Nat /\ \A a \in 0..(n - 1) : a + 1 \in 1..Len(starts)
  BY <1>1 DEF n
<1>3. ASSUME NEW a \in 0..(n - 1)
      PROVE  starts[a + 1] \in Addresses /\ Hi(a) \in 0..(Buckets * BucketSize - 1)
  <2>1. a + 1 \in 1..Len(starts) /\ starts[a + 1] \in Addresses
    BY <1>1, <1>2
  <2>2. starts[a + 1].hi \in 0..(Buckets * BucketSize - 1)
    BY <2>1, Zenon DEF Addresses
  <2>. QED  BY <2>1, <2>2 DEF Hi
<1>4. ASSUME NEW a \in 0..(n - 1)
      PROVE  /\ Top(a) \in 0..(Buckets - 1)
             /\ Top(a) * BucketSize <= Hi(a)
             /\ Hi(a) < (Top(a) + 1) * BucketSize
  BY <1>3, BucketOf DEF Top
<1>5. ASSUME NEW a \in 0..(n - 1), NEW b \in 0..(n - 1), a < b
      PROVE  Less(starts[a + 1], starts[b + 1])
  BY <1>1, <1>2, <1>5
<1>6. ASSUME NEW a \in 0..(n - 1), NEW b \in 0..(n - 1), a <= b
      PROVE  Hi(a) <= Hi(b)
  <2>1. Hi(a) \in Int /\ Hi(b) \in Int
    BY <1>3
  <2>2. CASE a = b
    BY <2>1, <2>2
  <2>3. CASE a < b
    BY <1>5, <2>1, <2>3 DEF Less, Hi
  <2>. QED  BY <1>6, <2>2, <2>3
<1>. QED  BY <1>1, <1>2, <1>3, <1>4, <1>5, <1>6

(* The starts of a bucket follow those of the buckets below. *)
LEMMA TopMono ==
  ASSUME starts \in StartLists, NEW a \in 0..(n - 1), NEW b \in 0..(n - 1), a <= b
  PROVE  Top(a) <= Top(b)
<1>1. /\ Hi(a) <= Hi(b) /\ Hi(a) \in Nat /\ Hi(b) \in Nat
      /\ Top(a) \in Nat /\ Top(b) \in Nat
      /\ Top(a) * BucketSize <= Hi(a) /\ Hi(b) < (Top(b) + 1) * BucketSize
  BY StartFacts
<1>2. BucketSize \in Nat \ {0}
  BY Sizes
<1>3. SUFFICES ASSUME Top(b) + 1 <= Top(a) PROVE FALSE
  BY <1>1
<1>4. (Top(b) + 1) * BucketSize <= Top(a) * BucketSize
  BY <1>1, <1>2, <1>3, MulMono
<1>5. (Top(b) + 1) * BucketSize \in Int /\ Top(a) * BucketSize \in Int
  BY <1>1, <1>2
<1>. QED  BY <1>1, <1>4, <1>5

-----------------------------------------------------------------------------
(* The slots of a bucket are of one width and fill it. *)
LEMMA SlotFacts ==
  ASSUME Types, NEW b \in 0..(NextDir - 1)
  PROVE  /\ NextDir \in Nat /\ b \in Nat
         /\ Dir(b).o \in Nat /\ Dir(b).k \in 0..MaxL2Bits
         /\ SlotCount(b) \in Nat \ {0} /\ Width(b) \in Nat \ {0}
         /\ BucketSize = SlotCount(b) * Width(b)
<1>1. NextDir \in Nat /\ b \in Nat /\ b + 1 \in 1..Len(dir)
  BY DEF Types, NextDir
<1>2. Dir(b).o \in Nat /\ Dir(b).k \in 0..MaxL2Bits
  <2>1. dir \in Seq([o : Nat, k : 0..MaxL2Bits])
    BY DEF Types
  <2>2. dir[b + 1] \in [o : Nat, k : 0..MaxL2Bits]
    BY <1>1, <2>1, Element
  <2>. QED  BY <2>2 DEF Dir
<1>3. Dir(b).k \in Nat /\ HiBits - Dir(b).k \in Nat
      /\ Dir(b).k + (HiBits - Dir(b).k) = HiBits
  BY <1>2, Sizes
<1>4. SlotCount(b) \in Nat \ {0} /\ Width(b) \in Nat \ {0}
  BY <1>3, PowerPositive DEF SlotCount, Width
<1>5. 2^(Dir(b).k + (HiBits - Dir(b).k)) = SlotCount(b) * Width(b)
  BY <1>3, PowerSum DEF SlotCount, Width
<1>6. BucketSize = SlotCount(b) * Width(b)
  BY <1>3, <1>5 DEF BucketSize
<1>. QED  BY <1>1, <1>2, <1>4, <1>6

LEMMA SlotStartFacts ==
  ASSUME Types, NEW b \in 0..(NextDir - 1)
  PROVE  /\ SlotStart(b, 0) = b * BucketSize
         /\ SlotStart(b, SlotCount(b)) = (b + 1) * BucketSize
         /\ b * BucketSize \in Nat
         /\ \A t \in Nat : /\ SlotStart(b, t) \in Nat
                           /\ SlotStart(b, t + 1) = SlotStart(b, t) + Width(b)
         /\ \A t, u \in Nat : t <= u => SlotStart(b, t) <= SlotStart(b, u)
<1>1. /\ b \in Nat /\ SlotCount(b) \in Nat /\ Width(b) \in Nat
      /\ BucketSize = SlotCount(b) * Width(b)
  BY SlotFacts
<1>2. BucketSize \in Nat
  BY Sizes
<1>3. SlotStart(b, 0) = b * BucketSize
  BY <1>1, <1>2 DEF SlotStart
<1>4. SlotStart(b, SlotCount(b)) = (b + 1) * BucketSize
  BY <1>1, <1>2 DEF SlotStart
<1>5. ASSUME NEW t \in Nat
      PROVE  /\ SlotStart(b, t) \in Nat
             /\ SlotStart(b, t + 1) = SlotStart(b, t) + Width(b)
  BY <1>1, <1>2 DEF SlotStart
<1>6. ASSUME NEW t \in Nat, NEW u \in Nat, t <= u
      PROVE  SlotStart(b, t) <= SlotStart(b, u)
  <2>1. t * Width(b) <= u * Width(b)
    BY <1>1, <1>6, MulMono
  <2>2. t * Width(b) \in Int /\ u * Width(b) \in Int /\ b * BucketSize \in Int
    BY <1>1, <1>2
  <2>. QED  BY <2>1, <2>2 DEF SlotStart
<1>7. b * BucketSize \in Nat
  BY <1>1, <1>2
<1>. QED  BY <1>3, <1>4, <1>5, <1>6, <1>7

(* v6Slot finds the slot of hi in its bucket. *)
LEMMA InSlot ==
  ASSUME Types, NEW b \in 0..(NextDir - 1), NEW hi \in Nat,
         b * BucketSize <= hi, hi < (b + 1) * BucketSize
  PROVE  LET t == Slot(hi, Dir(b).k)
         IN  /\ hi \div BucketSize = b
             /\ t \in 0..(SlotCount(b) - 1)
             /\ SlotStart(b, t) <= hi /\ hi < SlotStart(b, t + 1)
<1> DEFINE t == Slot(hi, Dir(b).k)
           r == hi % BucketSize
<1>1. /\ b \in Nat /\ SlotCount(b) \in Nat \ {0} /\ Width(b) \in Nat \ {0}
      /\ BucketSize = SlotCount(b) * Width(b) /\ BucketSize \in Nat \ {0}
  BY SlotFacts, Sizes
<1>2. hi \div BucketSize = b /\ r = hi - b * BucketSize
  <2>1. hi \in Int /\ b \in Int
    BY <1>1
  <2>. QED  BY <1>1, <2>1, DivUnique
<1>3. b * BucketSize \in Nat /\ (b + 1) * BucketSize = b * BucketSize + BucketSize
  BY <1>1
<1>4. r \in Nat /\ r < BucketSize
  BY <1>1, <1>2, <1>3
<1>5. t = r \div Width(b)
  BY DEF Slot, Width
<1> HIDE DEF r, t
<1>6. /\ t \in Int /\ r = Width(b) * t + (r % Width(b)) /\ r % Width(b) \in Int
      /\ 0 <= r % Width(b) /\ r % Width(b) < Width(b)
  <2>1. r \in Int
    BY <1>4
  <2>. QED  BY <1>1, <1>5, <2>1, DivMod
<1>7. Width(b) * t = t * Width(b) /\ (t + 1) * Width(b) = t * Width(b) + Width(b)
      /\ t * Width(b) \in Int
  BY <1>1, <1>6
<1>8. t * Width(b) <= r /\ r < (t + 1) * Width(b)
  BY <1>1, <1>4, <1>6, <1>7
<1>9. 0 <= t
  <2>1. SUFFICES ASSUME t + 1 <= 0 PROVE FALSE
    BY <1>6
  <2>2. (t + 1) * Width(b) <= 0 * Width(b)
    BY <1>1, <1>6, <2>1, MulMono
  <2>. QED  BY <1>1, <1>4, <1>7, <1>8, <2>2
<1>10. t < SlotCount(b)
  <2>1. SUFFICES ASSUME SlotCount(b) <= t PROVE FALSE
    BY <1>1, <1>6
  <2>2. SlotCount(b) * Width(b) <= t * Width(b)
    BY <1>1, <1>6, <2>1, MulMono
  <2>. QED  BY <1>1, <1>4, <1>7, <1>8, <2>2
<1>11. SlotStart(b, t) <= hi /\ hi < SlotStart(b, t + 1)
  BY <1>1, <1>2, <1>3, <1>4, <1>7, <1>8 DEF SlotStart
<1>. QED  BY <1>1, <1>2, <1>6, <1>9, <1>10, <1>11 DEF t

(* And no other slot does. *)
LEMMA OnlySlot ==
  ASSUME Types, NEW b \in 0..(NextDir - 1), NEW t \in 0..(SlotCount(b) - 1),
         NEW hi \in Nat, SlotStart(b, t) <= hi, hi < SlotStart(b, t + 1)
  PROVE  SlotOf(hi) = Dir(b).o + t
<1>1. /\ b \in Nat /\ SlotCount(b) \in Nat \ {0} /\ Width(b) \in Nat \ {0}
      /\ t \in Nat /\ t + 1 \in Nat /\ t + 1 <= SlotCount(b)
  BY SlotFacts
<1>2. /\ SlotStart(b, 0) = b * BucketSize
      /\ SlotStart(b, SlotCount(b)) = (b + 1) * BucketSize
      /\ SlotStart(b, 0) <= SlotStart(b, t)
      /\ SlotStart(b, t + 1) <= SlotStart(b, SlotCount(b))
      /\ SlotStart(b, 0) \in Nat /\ SlotStart(b, t) \in Nat
      /\ SlotStart(b, t + 1) \in Nat /\ SlotStart(b, SlotCount(b)) \in Nat
  BY <1>1, SlotStartFacts
<1>3. b * BucketSize <= hi /\ hi < (b + 1) * BucketSize
  BY <1>2
<1> DEFINE u == Slot(hi, Dir(b).k)
<1>4. /\ hi \div BucketSize = b /\ u \in 0..(SlotCount(b) - 1)
      /\ SlotStart(b, u) <= hi /\ hi < SlotStart(b, u + 1)
  BY <1>3, InSlot
<1>5. u = t
  <2> HIDE DEF u
  <2>1. u \in Nat /\ u + 1 \in Nat /\ SlotStart(b, u) \in Nat /\ SlotStart(b, u + 1) \in Nat
    BY <1>4, SlotStartFacts
  <2>2. ~(u + 1 <= t)
    <3>1. u + 1 <= t => SlotStart(b, u + 1) <= SlotStart(b, t)
      BY <1>1, <2>1, SlotStartFacts
    <3>. QED  BY <1>2, <1>4, <2>1, <3>1
  <2>3. ~(t + 1 <= u)
    <3>1. t + 1 <= u => SlotStart(b, t + 1) <= SlotStart(b, u)
      BY <1>1, <2>1, SlotStartFacts
    <3>. QED  BY <1>2, <1>4, <2>1, <3>1
  <2>. QED  BY <1>1, <2>1, <2>2, <2>3
<1>. QED  BY <1>4, <1>5 DEF SlotOf

(* The slots of the buckets sized so far. *)
LEMMA DirFacts ==
  ASSUME Types, DirRight
  PROVE  /\ Slots \in Nat
         /\ NextDir > 0 => Slots = Dir(NextDir - 1).o + SlotCount(NextDir - 1)
         /\ \A b \in 0..(NextDir - 1) : Dir(b).o + SlotCount(b) <= Slots
<1>1. NextDir \in Nat /\ (dir = <<>> <=> NextDir = 0)
  BY DEF Types, NextDir
<1>2. CASE NextDir = 0
  BY <1>1, <1>2 DEF Slots
<1>3. CASE NextDir > 0
  <2>1. NextDir - 1 \in 0..(NextDir - 1)
    BY <1>1, <1>3
  <2>2. Slots = Dir(NextDir - 1).o + SlotCount(NextDir - 1)
    BY <1>1, <1>3 DEF Slots, SlotCount
  <2>3. Slots \in Nat
    BY <2>1, <2>2, SlotFacts
  <2>4. ASSUME NEW b \in 0..(NextDir - 1)
        PROVE  Dir(b).o + SlotCount(b) <= Slots
    <3>1. CASE b = NextDir - 1
      BY <2>2, <2>3, <3>1
    <3>2. CASE b < NextDir - 1
      <4>1. Dir(b).o + SlotCount(b) <= Dir(NextDir - 1).o
        BY <2>1, <3>2 DEF DirRight
      <4>. QED  BY <2>1, <2>2, <4>1, SlotFacts
    <3>. QED  BY <1>1, <3>1, <3>2
  <2>. QED  BY <2>2, <2>3, <2>4
<1>. QED  BY <1>1, <1>2, <1>3

(* The table is filled: an entry splits the starts where its slot begins,  *)
(* and the one after a bucket's last slot where the bucket ends.           *)
Filled ==
  /\ Types /\ DirRight /\ SlotsSplit /\ NextDir = Buckets
  /\ Len(l2) = Slots + 1 /\ L2(Slots).at = n

LEMMA EntrySplits ==
  ASSUME Filled, NEW b \in 0..(Buckets - 1), NEW t \in 0..SlotCount(b)
  PROVE  /\ Dir(b).o + t \in 0..Slots
         /\ L2(Dir(b).o + t) \in [at : 0..n, exc : BOOLEAN]
         /\ Splits(L2(Dir(b).o + t).at, SlotStart(b, t))
<1>1. /\ Types /\ DirRight /\ SlotsSplit /\ NextDir = Buckets
      /\ Len(l2) = Slots + 1 /\ L2(Slots).at = n /\ b \in 0..(NextDir - 1)
  BY DEF Filled
<1>2. /\ Dir(b).o \in Nat /\ SlotCount(b) \in Nat \ {0} /\ b \in Nat
      /\ NextDir \in Nat /\ Slots \in Nat /\ Dir(b).o + SlotCount(b) <= Slots
  BY <1>1, SlotFacts, DirFacts
<1>3. n \in Nat /\ starts \in StartLists
  BY <1>1, StartFacts DEF Types
<1>4. ASSUME NEW s \in 0..Slots
      PROVE  L2(s) \in [at : 0..n, exc : BOOLEAN] /\ L2(s).at \in 0..n
  <2>1. l2 \in Seq([at : 0..n, exc : BOOLEAN]) /\ s + 1 \in 1..Len(l2)
    BY <1>1, <1>2 DEF Types
  <2>2. l2[s + 1] \in [at : 0..n, exc : BOOLEAN]
    BY <2>1, Element
  <2>. QED  BY <2>2 DEF L2
<1>5. Dir(b).o + t \in 0..Slots
  BY <1>2
<1>6. CASE t < SlotCount(b)
  <2>1. t \in 0..(2^Dir(b).k - 1) /\ Dir(b).o + t < Len(l2)
    BY <1>1, <1>2, <1>6 DEF SlotCount
  <2>2. b \in 0..(Len(dir) - 1)
    BY <1>1 DEF NextDir
  <2>. QED  BY <1>4, <1>5, <2>1, <2>2, <1>1 DEF SlotsSplit, Splits, SlotStart, Width
<1>7. CASE t = SlotCount(b)
  <2>1. SlotStart(b, t) = (b + 1) * BucketSize
    BY <1>1, <1>7, SlotStartFacts
  <2>2. CASE b + 1 = Buckets
    <3>1. Dir(b).o + t = Slots
      BY <1>1, <1>2, <1>7, <2>2, DirFacts
    <3>2. SlotStart(b, t) = Buckets * BucketSize
      BY <2>1, <2>2
    <3>3. \A a \in 0..(n - 1) : Hi(a) < Buckets * BucketSize
      BY <1>3, StartFacts, Sizes
    <3>4. Splits(n, SlotStart(b, t))
      BY <1>3, <3>2, <3>3 DEF Splits
    <3>. QED  BY <1>1, <1>4, <1>5, <3>1, <3>4
  <2>3. CASE b + 1 # Buckets
    <3>1. b + 1 \in 0..(NextDir - 1)
      BY <1>1, <1>2, <2>3
    <3>2. Dir(b + 1).o = Dir(b).o + t
      BY <1>1, <1>7, <3>1 DEF DirRight
    <3>3. SlotCount(b + 1) \in Nat \ {0} /\ SlotStart(b + 1, 0) = (b + 1) * BucketSize
      BY <1>1, <3>1, SlotFacts, SlotStartFacts
    <3>4. 0 \in 0..(2^Dir(b + 1).k - 1)
      BY <3>3 DEF SlotCount
    <3>5. Dir(b + 1).o + 0 = Dir(b).o + t /\ Dir(b + 1).o + 0 < Len(l2)
      BY <1>1, <1>2, <1>5, <3>2
    <3>6. b + 1 \in 0..(Len(dir) - 1)
      BY <3>1 DEF NextDir
    <3>7. Splits(L2(Dir(b + 1).o + 0).at, SlotStart(b + 1, 0))
      BY <1>1, <1>4, <1>5, <3>4, <3>5, <3>6 DEF SlotsSplit, Splits, SlotStart, Width
    <3>. QED  BY <1>4, <1>5, <2>1, <3>3, <3>5, <3>7
  <2>. QED  BY <2>2, <2>3
<1>. QED  BY <1>2, <1>6, <1>7

(* The starts outside the slot of a top half are below it or above it. *)
LEMMA SlotOfFacts ==
  ASSUME Filled, NEW hi \in 0..(Buckets * BucketSize - 1)
  PROVE  LET s == SlotOf(hi)
         IN  /\ s \in 0..(Slots - 1)
             /\ L2(s) \in [at : 0..n, exc : BOOLEAN]
             /\ L2(s).at \in 0..n /\ L2(s + 1).at \in 0..n
             /\ \A a \in 0..(L2(s).at - 1) : Hi(a) < hi
             /\ \A a \in L2(s + 1).at..(n - 1) : Hi(a) > hi
<1> DEFINE b == hi \div BucketSize
           t == Slot(hi, Dir(b).k)
           s == SlotOf(hi)
<1>1. Types /\ DirRight /\ NextDir = Buckets /\ starts \in StartLists
  BY DEF Filled, Types
<1>2. b \in 0..(NextDir - 1) /\ b * BucketSize <= hi /\ hi < (b + 1) * BucketSize
  BY <1>1, BucketOf
<1>3. s = Dir(b).o + t
  BY DEF SlotOf
<1>4. hi \in Nat
  BY Sizes
<1> HIDE DEF b
<1>5. /\ t \in 0..(SlotCount(b) - 1) /\ SlotStart(b, t) <= hi
      /\ hi < SlotStart(b, t + 1)
  BY <1>1, <1>2, <1>4, InSlot
<1> HIDE DEF t, s
<1>6. /\ Dir(b).o \in Nat /\ SlotCount(b) \in Nat \ {0}
      /\ Dir(b).o + SlotCount(b) <= Slots /\ Slots \in Nat
  BY <1>1, <1>2, SlotFacts, DirFacts
<1>7. s \in 0..(Slots - 1) /\ Dir(b).o + (t + 1) = s + 1
      /\ t \in 0..SlotCount(b) /\ t + 1 \in 0..SlotCount(b) /\ t \in Nat /\ t + 1 \in Nat
  BY <1>3, <1>5, <1>6
<1>8. /\ L2(s) \in [at : 0..n, exc : BOOLEAN]
      /\ Splits(L2(s).at, SlotStart(b, t)) /\ Splits(L2(s + 1).at, SlotStart(b, t + 1))
  BY <1>1, <1>2, <1>3, <1>7, EntrySplits
<1>9. SlotStart(b, t) \in Nat /\ SlotStart(b, t + 1) \in Nat /\ n \in Nat
      /\ \A a \in 0..(n - 1) : Hi(a) \in Int
  BY <1>1, <1>2, <1>7, SlotStartFacts, StartFacts
<1>10. ASSUME NEW a \in 0..(L2(s).at - 1) PROVE Hi(a) < hi
  <2>1. a \in 0..(n - 1)
    BY <1>8, <1>9 DEF Splits
  <2>2. Hi(a) < SlotStart(b, t)
    BY <1>8 DEF Splits
  <2>. QED  BY <1>4, <1>5, <1>9, <2>1, <2>2
<1>11. ASSUME NEW a \in L2(s + 1).at..(n - 1) PROVE Hi(a) > hi
  <2>1. a \in 0..(n - 1)
    BY <1>8, <1>9 DEF Splits
  <2>2. Hi(a) >= SlotStart(b, t + 1)
    BY <1>8 DEF Splits
  <2>. QED  BY <1>4, <1>5, <1>9, <2>1, <2>2
<1>12. L2(s).at \in 0..n /\ L2(s + 1).at \in 0..n
  BY <1>8 DEF Splits
<1>. QED  BY <1>7, <1>8, <1>10, <1>11, <1>12 DEF s

(* The starts of a slot run from its entry to the next one. *)
LEMMA SlotHolds ==
  ASSUME Filled, NEW a \in 0..(n - 1), NEW s \in 0..(Slots - 1)
  PROVE  SlotOf(Hi(a)) = s <=> L2(s).at <= a /\ a < L2(s + 1).at
<1>1. Types /\ DirRight /\ NextDir = Buckets /\ starts \in StartLists
  BY DEF Filled, Types
<1>2. n \in Nat /\ Hi(a) \in 0..(Buckets * BucketSize - 1) /\ Hi(a) \in Nat
  BY <1>1, StartFacts
<1>3. ASSUME SlotOf(Hi(a)) = s
      PROVE  L2(s).at <= a /\ a < L2(s + 1).at
  <2>1. /\ L2(s).at \in 0..n /\ L2(s + 1).at \in 0..n
        /\ \A c \in 0..(L2(s).at - 1) : Hi(c) < Hi(a)
        /\ \A c \in L2(s + 1).at..(n - 1) : Hi(c) > Hi(a)
    BY <1>2, <1>3, SlotOfFacts
  <2>2. ~(Hi(a) < Hi(a))
    BY <1>2
  <2>. QED  BY <1>2, <2>1, <2>2
<1>4. ASSUME L2(s).at <= a, a < L2(s + 1).at
      PROVE  SlotOf(Hi(a)) = s
  <2>1. PICK b \in 0..(NextDir - 1) : s \in Dir(b).o..(Dir(b).o + SlotCount(b) - 1)
    BY <1>1 DEF DirRight
  <2>2. /\ Dir(b).o \in Nat /\ SlotCount(b) \in Nat \ {0} /\ b \in 0..(Buckets - 1)
        /\ NextDir \in Nat
    BY <1>1, <2>1, SlotFacts
  <2> DEFINE t == s - Dir(b).o
  <2>3. /\ t \in 0..(SlotCount(b) - 1) /\ t \in 0..SlotCount(b) /\ t + 1 \in 0..SlotCount(b)
        /\ t \in Nat /\ t + 1 \in Nat
        /\ Dir(b).o + t = s /\ Dir(b).o + (t + 1) = s + 1
    BY <1>1, <2>1, <2>2, DirFacts
  <2> HIDE DEF t
  <2>4. Splits(L2(s).at, SlotStart(b, t)) /\ Splits(L2(s + 1).at, SlotStart(b, t + 1))
    BY <2>2, <2>3, EntrySplits
  <2>5. SlotStart(b, t) <= Hi(a)
    <3>1. a \in L2(s).at..(n - 1)
      BY <1>2, <1>4, <2>4 DEF Splits
    <3>. QED  BY <1>1, <1>2, <2>1, <2>3, <2>4, <3>1, SlotStartFacts DEF Splits
  <2>6. Hi(a) < SlotStart(b, t + 1)
    <3>1. a \in 0..(L2(s + 1).at - 1)
      BY <1>2, <1>4, <2>4 DEF Splits
    <3>. QED  BY <2>4, <3>1 DEF Splits
  <2>7. SlotOf(Hi(a)) = Dir(b).o + t
    BY <1>1, <1>2, <2>1, <2>3, <2>5, <2>6, OnlySlot
  <2>. QED  BY <2>3, <2>7
<1>. QED  BY <1>3, <1>4

-----------------------------------------------------------------------------
(* The exceptions, in order, and their low halves. *)
LEMMA Exceptions ==
  ASSUME starts \in StartLists
  PROVE  /\ ExcIdx \in Seq(0..(n - 1)) /\ Len(ExcIdx) <= n
         /\ \A c, d \in 1..Len(ExcIdx) : c < d => ExcIdx[c] < ExcIdx[d]
         /\ \A b \in 0..(n - 1) :
              starts[b + 1].lo # 0 <=> \E e \in 1..Len(ExcIdx) : ExcIdx[e] = b
<1> DEFINE low == [b \in 1..n |-> starts[b].lo]
<1>1. n \in Nat /\ n = Len(starts) /\ \A b \in 0..(n - 1) : starts[b + 1] \in Addresses
  BY StartFacts DEF n
<1>2. ASSUME NEW b \in 1..n PROVE starts[b].lo \in Nat
  <2>1. b - 1 \in 0..(n - 1) /\ (b - 1) + 1 = b
    BY <1>1
  <2>2. starts[b] \in Addresses
    BY <1>1, <2>1
  <2>. QED  BY <2>2, Sizes DEF Addresses
<1>3. low \in Seq(Nat) /\ Len(low) = n
  BY <1>1, <1>2
<1>4. ExcIdx = ExceptionsOf(low)
  BY DEF ExcIdx
<1>5. \A b \in 0..(n - 1) : low[b + 1] = starts[b + 1].lo
  BY <1>1
<1> HIDE DEF low
<1>6. /\ ExcIdx \in Seq(0..(n - 1)) /\ Len(ExcIdx) <= n
      /\ \A c, d \in DOMAIN ExcIdx : c < d => ExcIdx[c] < ExcIdx[d]
      /\ \A b \in 0..(n - 1) :
           low[b + 1] # 0 <=> \E e \in DOMAIN ExcIdx : ExcIdx[e] = b
  BY <1>3, <1>4, ExceptionFacts
<1>7. DOMAIN ExcIdx = 1..Len(ExcIdx)
  BY <1>6
<1>. QED  BY <1>5, <1>6, <1>7

(* v6ExcLo finds the low half of an exception. *)
LEMMA LowHalfIs ==
  ASSUME starts \in StartLists, NEW e \in 1..Len(ExcIdx)
  PROVE  LowHalf(ExcIdx[e]) = starts[ExcIdx[e] + 1].lo
<1> DEFINE N == Len(ExcIdx)
           b == ExcIdx[e]
           Reached == [m \in 0..(N - 1) |-> ExcIdx[m + 1] >= b]
           p == FirstTrue(Reached, 0, N)
<1>1. /\ ExcIdx \in Seq(0..(n - 1)) /\ N \in Nat /\ n \in Nat
      /\ \A c, d \in 1..N : c < d => ExcIdx[c] < ExcIdx[d]
      /\ e \in 1..N /\ b = ExcIdx[e]
  BY Exceptions, StartFacts
<1>2. ASSUME NEW m \in 1..N PROVE ExcIdx[m] \in Int
  <2>1. ExcIdx[m] \in 0..(n - 1)
    BY <1>1, Element
  <2>. QED  BY <2>1
<1>3. LowHalf(b) = ExcLo[p + 1]
  BY DEF LowHalf
<1>4. \A m \in 0..(N - 1) : Reached[m] <=> ExcIdx[m + 1] >= b
  OBVIOUS
<1>5. ASSUME NEW m \in 1..N PROVE ExcLo[m] = starts[ExcIdx[m] + 1].lo
  <2>1. m \in DOMAIN ExcIdx
    BY <1>1
  <2>. QED  BY <2>1 DEF ExcLo
<1> HIDE DEF N, b, Reached
<1>6. GoesOn(Reached, 0, N)
  <2>1. ASSUME NEW c \in 0..(N - 1), NEW d \in 0..(N - 1), Reached[c], c <= d
        PROVE  Reached[d]
    <3>1. c + 1 \in 1..N /\ d + 1 \in 1..N /\ (c = d \/ c + 1 < d + 1)
      BY <1>1, <2>1
    <3>2. ExcIdx[c + 1] <= ExcIdx[d + 1]
      BY <1>1, <1>2, <3>1
    <3>3. ExcIdx[c + 1] >= b
      BY <1>4, <2>1
    <3>4. ExcIdx[d + 1] >= b
      BY <1>1, <1>2, <3>1, <3>2, <3>3, SMTT(30)
    <3>. QED  BY <1>4, <3>4
  <2>. QED  BY <2>1 DEF GoesOn
<1>7. Begins(Reached, 0, N, p)
  BY <1>1, <1>6, FirstTrueBegins
<1> HIDE DEF p
<1>8. e - 1 \in 0..(N - 1) /\ Reached[e - 1]
  <2>1. e - 1 \in 0..(N - 1) /\ (e - 1) + 1 = e
    BY <1>1
  <2>. QED  BY <1>1, <1>2, <1>4, <2>1
<1>9. p \in 0..N
  BY <1>7 DEF Begins
<1>10. p <= e - 1
  <2>1. SUFFICES ASSUME e - 1 < p PROVE FALSE
    BY <1>8, <1>9
  <2>2. e - 1 \in 0..(p - 1)
    BY <1>8, <1>9, <2>1
  <2>. QED  BY <1>7, <1>8, <2>2 DEF Begins
<1>11. ~(p < e - 1)
  <2>1. SUFFICES ASSUME p < e - 1 PROVE FALSE
    OBVIOUS
  <2>2. p \in p..(N - 1) /\ p \in 0..(N - 1) /\ p + 1 \in 1..N /\ p + 1 < e
    BY <1>1, <1>8, <1>9, <2>1
  <2>3. ExcIdx[p + 1] >= b
    BY <1>4, <1>7, <2>2 DEF Begins
  <2>. QED  BY <1>1, <1>2, <2>2, <2>3
<1>12. p + 1 = e
  BY <1>1, <1>8, <1>9, <1>10, <1>11
<1>. QED  BY <1>1, <1>3, <1>5, <1>12

(* The index is built. *)
Built ==
  /\ Filled /\ FlagRight /\ pc \notin {"size", "fill", "flag"}

(* The exceptions are the starts known to be, and flag their slots. *)
LEMMA Flags ==
  ASSUME Built
  PROVE  /\ \A b \in 0..(n - 1) : b \in exc <=> starts[b + 1].lo # 0
         /\ \A b \in exc : LowHalf(b) = starts[b + 1].lo
         /\ \A s \in 0..(Slots - 1) :
              L2(s).exc <=> \E b \in 0..(n - 1) :
                              SlotOf(Hi(b)) = s /\ starts[b + 1].lo # 0
<1>1. /\ starts \in StartLists /\ j = Len(ExcIdx)
      /\ exc = {ExcIdx[e] : e \in 1..j}
      /\ \A s \in 0..(Slots - 1) :
           L2(s).exc <=> \E e \in 1..j : SlotOf(Hi(ExcIdx[e])) = s
  BY DEF Built, Filled, FlagRight, Types
<1>2. /\ ExcIdx \in Seq(0..(n - 1))
      /\ \A b \in 0..(n - 1) :
           starts[b + 1].lo # 0 <=> \E e \in 1..j : ExcIdx[e] = b
  BY <1>1, Exceptions
<1>3. ASSUME NEW b \in 0..(n - 1) PROVE b \in exc <=> starts[b + 1].lo # 0
  BY <1>1, <1>2
<1>4. ASSUME NEW b \in exc PROVE LowHalf(b) = starts[b + 1].lo
  BY <1>1, <1>4, LowHalfIs
<1>5. ASSUME NEW s \in 0..(Slots - 1)
      PROVE  L2(s).exc <=> \E b \in 0..(n - 1) :
                             SlotOf(Hi(b)) = s /\ starts[b + 1].lo # 0
  <2>1. ASSUME NEW e \in 1..j, SlotOf(Hi(ExcIdx[e])) = s
        PROVE  \E b \in 0..(n - 1) : SlotOf(Hi(b)) = s /\ starts[b + 1].lo # 0
    <3>1. ExcIdx[e] \in 0..(n - 1)
      BY <1>1, <1>2, Element
    <3>. QED  BY <1>2, <2>1, <3>1
  <2>2. ASSUME NEW b \in 0..(n - 1), SlotOf(Hi(b)) = s, starts[b + 1].lo # 0
        PROVE  \E e \in 1..j : SlotOf(Hi(ExcIdx[e])) = s
    <3>1. PICK e \in 1..j : ExcIdx[e] = b
      BY <1>2, <2>2
    <3>. QED  BY <2>2, <3>1
  <2>. QED  BY <1>1, <2>1, <2>2
<1>. QED  BY <1>3, <1>4, <1>5

(* So a slot is flagged exactly when a start of it is an exception. *)
LEMMA FlagsAreRight ==
  ASSUME Types, DirRight, SlotsSplit, SizeRight, FlagRight
  PROVE  FlagsRight
<1>1. SUFFICES ASSUME pc \notin {"size", "fill", "flag"}, NEW s \in 0..(Len(l2) - 2)
               PROVE  L2(s).exc <=>
                        \E b \in L2(s).at..(L2(s + 1).at - 1) : starts[b + 1].lo # 0
  BY DEF FlagsRight
<1>2. Built /\ Filled
  BY <1>1 DEF Built, Filled, SizeRight, FlagRight
<1>3. s \in 0..(Slots - 1) /\ Slots \in Nat /\ n \in Nat
  <2>1. starts \in StartLists /\ Len(l2) = Slots + 1
    BY <1>2 DEF Filled, Types
  <2>2. Slots \in Nat /\ n \in Nat
    BY <2>1, DirFacts, StartFacts
  <2>. QED  BY <1>1, <2>1, <2>2
<1>4. L2(s).at \in 0..n /\ L2(s + 1).at \in 0..n
  <2>1. ASSUME NEW u \in 0..Slots PROVE L2(u).at \in 0..n
    <3>1. l2 \in Seq([at : 0..n, exc : BOOLEAN]) /\ u + 1 \in 1..Len(l2)
      BY <1>2, <1>3 DEF Filled, Types
    <3>2. l2[u + 1] \in [at : 0..n, exc : BOOLEAN]
      BY <3>1, Element
    <3>. QED  BY <3>2 DEF L2
  <2>. QED  BY <1>3, <2>1
<1>5. \A b \in 0..(n - 1) :
        SlotOf(Hi(b)) = s <=> L2(s).at <= b /\ b < L2(s + 1).at
  BY <1>2, <1>3, SlotHolds
<1>6. L2(s).exc <=> \E b \in 0..(n - 1) :
                      SlotOf(Hi(b)) = s /\ starts[b + 1].lo # 0
  BY <1>2, <1>3, Flags
<1>7. \A b \in L2(s).at..(L2(s + 1).at - 1) :
        b \in 0..(n - 1) /\ L2(s).at <= b /\ b < L2(s + 1).at
  BY <1>3, <1>4
<1>8. \A b \in 0..(n - 1) : L2(s).at <= b /\ b < L2(s + 1).at =>
        b \in L2(s).at..(L2(s + 1).at - 1)
  BY <1>3, <1>4
<1>. QED  BY <1>5, <1>6, <1>7, <1>8

-----------------------------------------------------------------------------
(* The search leaves the tables as they are. *)
LEMMA TablesKept ==
  ASSUME IInv, UNCHANGED <<tables, build>>,
         pc \notin {"size", "fill", "flag"}, pc' \notin {"size", "fill", "flag"}
  PROVE  /\ (DirRight /\ FewSlots /\ SizeRight /\ FillRight)'
         /\ (SlotsSplit /\ FlagRight)'
         /\ n' = n /\ \A b : Hi(b)' = Hi(b)
         /\ \A s : L2(s)' = L2(s)
         /\ \A hi : SlotOf(hi)' = SlotOf(hi)
<1>1. /\ starts' = starts /\ dir' = dir /\ l2' = l2 /\ exc' = exc
      /\ i' = i /\ j' = j /\ g' = g
  BY DEF tables, build
<1>2. DirRight'
  BY <1>1 DEF IInv, DirRight, NextDir, Slots, Dir, SlotCount
<1>3. FewSlots'
  BY <1>1 DEF IInv, FewSlots, Dir, Top, Hi, n
<1>4. SizeRight'
  BY <1>1 DEF IInv, SizeRight, NextDir
<1>5. FillRight'
  BY DEF FillRight
<1>6. SlotsSplit'
  BY <1>1 DEF IInv, SlotsSplit, Dir, Hi, n, L2
<1>7. ExcIdx' = ExcIdx
  BY <1>1 DEF ExcIdx, n
<1>8. n' = n /\ (\A b : Hi(b)' = Hi(b)) /\ (\A s : L2(s)' = L2(s))
  BY <1>1 DEF n, Hi, L2
<1>9. \A hi : SlotOf(hi)' = SlotOf(hi)
  BY <1>1 DEF SlotOf, Dir
<1>10. Slots' = Slots
  BY <1>1 DEF Slots, Dir, NextDir
<1>11. FlagRight'
  <2>1. FlagRight /\ (pc # "flag" /\ pc' # "flag")
    BY DEF IInv
  <2>. QED  BY <1>1, <1>7, <1>8, <1>9, <1>10, <2>1 DEF FlagRight
<1>. QED  BY <1>2, <1>3, <1>4, <1>5, <1>6, <1>8, <1>9, <1>11

LEMMA BuiltInSearch ==
  ASSUME IInv, pc \notin {"size", "fill", "flag"}
  PROVE  Built /\ Filled /\ starts \in StartLists /\ n \in Nat
<1>1. Built /\ Filled /\ starts \in StartLists
  BY DEF IInv, Built, Filled, SizeRight, FlagRight, Types
<1>. QED  BY <1>1, StartFacts

(* The key has a slot. *)
LEMMA KeySlot ==
  ASSUME IInv, pc \notin {"size", "fill", "flag"}, NEW a \in Addresses
  PROVE  LET s == SlotOf(a.hi)
         IN  /\ a.hi \in Nat /\ a.lo \in Nat
             /\ s \in 0..(Slots - 1)
             /\ L2(s) \in [at : 0..n, exc : BOOLEAN]
             /\ L2(s).at \in 0..n /\ L2(s + 1).at \in 0..n
             /\ \A b \in 0..(L2(s).at - 1) : Hi(b) < a.hi
             /\ \A b \in L2(s + 1).at..(n - 1) : Hi(b) > a.hi
             /\ L2(s).at <= L2(s + 1).at
<1>1. Filled /\ n \in Nat /\ starts \in StartLists
  BY BuiltInSearch
<1>2. a.hi \in 0..(Buckets * BucketSize - 1) /\ a.hi \in Nat /\ a.lo \in Nat
  BY Sizes DEF Addresses
<1> DEFINE s == SlotOf(a.hi)
<1>3. /\ s \in 0..(Slots - 1)
      /\ L2(s) \in [at : 0..n, exc : BOOLEAN]
      /\ L2(s).at \in 0..n /\ L2(s + 1).at \in 0..n
      /\ \A b \in 0..(L2(s).at - 1) : Hi(b) < a.hi
      /\ \A b \in L2(s + 1).at..(n - 1) : Hi(b) > a.hi
  BY <1>1, <1>2, SlotOfFacts
<1> HIDE DEF s
<1>4. L2(s).at <= L2(s + 1).at
  <2>1. SUFFICES ASSUME L2(s + 1).at < L2(s).at PROVE FALSE
    BY <1>3
  <2> DEFINE b == L2(s + 1).at
  <2>2. b \in 0..(n - 1) /\ b \in 0..(L2(s).at - 1) /\ b \in L2(s + 1).at..(n - 1)
    BY <1>1, <1>3, <2>1
  <2>3. Hi(b) \in Nat
    BY <1>1, <2>2, StartFacts
  <2>. QED  BY <1>2, <1>3, <2>2, <2>3
<1>. QED  BY <1>2, <1>3, <1>4 DEF s

LEMMA LookupStep ==
  ASSUME IInv, NEW a \in Addresses, Lookup(a)
  PROVE  IInv'
<1>1. /\ pc \in {"ready", "answered"} /\ pc' = "search6" /\ key' = a
      /\ l' = L2(SlotOf(a.hi)).at /\ h' = L2(SlotOf(a.hi) + 1).at
      /\ first' = L2(SlotOf(a.hi)).at
      /\ UNCHANGED <<tables, build>> /\ answer' = answer
  BY DEF Lookup
<1>2. /\ (DirRight /\ FewSlots /\ SizeRight /\ FillRight)'
      /\ (SlotsSplit /\ FlagRight)'
      /\ n' = n /\ (\A b : Hi(b)' = Hi(b)) /\ (\A s : L2(s)' = L2(s))
      /\ (\A hi : SlotOf(hi)' = SlotOf(hi))
  BY <1>1, TablesKept
<1> DEFINE s == SlotOf(a.hi)
<1>3. /\ a.hi \in Nat /\ L2(s).at \in 0..n /\ L2(s + 1).at \in 0..n
      /\ \A b \in 0..(L2(s).at - 1) : Hi(b) < a.hi
      /\ \A b \in L2(s + 1).at..(n - 1) : Hi(b) > a.hi
      /\ L2(s).at <= L2(s + 1).at
  BY <1>1, KeySlot
<1>4. starts \in StartLists /\ n \in Nat /\ \A b \in 0..(n - 1) : Hi(b) \in Nat
  BY <1>1, BuiltInSearch, StartFacts
<1> HIDE DEF s
<1>5. Types'
  BY <1>1, <1>2, <1>3 DEF IInv, Types, tables, build, s
<1>6. SearchRight'
  <2>1. /\ first' = L2(SlotOf(key'.hi)).at /\ first' <= l' /\ l' <= h'
        /\ h' <= L2(SlotOf(key'.hi) + 1).at
    BY <1>1, <1>3 DEF s
  <2>2. \A b \in 0..(l' - 1) : Hi(b) <= key'.hi
    <3>1. \A b \in 0..(L2(s).at - 1) : Hi(b) <= a.hi
      BY <1>3, <1>4
    <3>. QED  BY <1>1, <3>1 DEF s
  <2>3. \A b \in h'..(n - 1) : Hi(b) > key'.hi
    BY <1>1, <1>3 DEF s
  <2>. QED  BY <1>1, <1>2, <2>1, <2>2, <2>3 DEF SearchRight
<1>7. LastAtOrBelow'
  BY <1>1 DEF LastAtOrBelow
<1>. QED  BY <1>2, <1>5, <1>6, <1>7 DEF IInv

(* What holds while the halving runs. *)
LEMMA Halving ==
  ASSUME IInv, pc = "search6"
  PROVE  /\ Types /\ n \in Nat /\ l \in 0..n /\ h \in 0..n
         /\ key \in Addresses /\ key.hi \in Nat
         /\ first = L2(SlotOf(key.hi)).at /\ first <= l /\ l <= h
         /\ h <= L2(SlotOf(key.hi) + 1).at
         /\ \A b \in 0..(l - 1) : Hi(b) <= key.hi
         /\ \A b \in h..(n - 1) : Hi(b) > key.hi
         /\ L2(SlotOf(key.hi) + 1).at \in 0..n
         /\ \A b \in 0..(n - 1) : Hi(b) \in Nat
         /\ \A a, b \in 0..(n - 1) : a <= b => Hi(a) <= Hi(b)
         /\ first \in 0..n
         /\ l < h => mid \in l..(h - 1)
<1>1. /\ Types /\ l \in 0..n /\ h \in 0..n /\ first \in 0..n
      /\ key \in Addresses /\ starts \in StartLists
  BY DEF IInv, Types
<1>2. /\ n \in Nat /\ \A b \in 0..(n - 1) : Hi(b) \in Nat
      /\ \A a, b \in 0..(n - 1) : a <= b => Hi(a) <= Hi(b)
  BY <1>1, StartFacts
<1>3. key.hi \in Nat /\ L2(SlotOf(key.hi) + 1).at \in 0..n
  BY <1>1, KeySlot
<1>4. l < h => mid \in l..(h - 1)
  BY <1>1, <1>2 DEF mid
<1>5. /\ first = L2(SlotOf(key.hi)).at /\ first <= l /\ l <= h
      /\ h <= L2(SlotOf(key.hi) + 1).at
      /\ \A b \in 0..(l - 1) : Hi(b) <= key.hi
      /\ \A b \in h..(n - 1) : Hi(b) > key.hi
  BY DEF IInv, SearchRight
<1>. QED  BY <1>1, <1>2, <1>3, <1>4, <1>5

LEMMA HalveDownStep ==
  ASSUME IInv, HalveDown
  PROVE  IInv'
<1>1. /\ pc = "search6" /\ l < h /\ Hi(mid) > key.hi /\ h' = mid /\ pc' = pc
      /\ UNCHANGED <<tables, build>> /\ key' = key /\ l' = l /\ first' = first
      /\ answer' = answer
  BY DEF HalveDown, Above
<1>2. /\ (DirRight /\ FewSlots /\ SizeRight /\ FillRight)'
      /\ (SlotsSplit /\ FlagRight)'
      /\ n' = n /\ (\A b : Hi(b)' = Hi(b)) /\ (\A s : L2(s)' = L2(s))
      /\ (\A hi : SlotOf(hi)' = SlotOf(hi))
  BY <1>1, TablesKept
<1>3. /\ n \in Nat /\ l \in 0..n /\ h \in 0..n /\ mid \in l..(h - 1)
      /\ key.hi \in Nat /\ h <= L2(SlotOf(key.hi) + 1).at
      /\ L2(SlotOf(key.hi) + 1).at \in 0..n
      /\ \A b \in 0..(n - 1) : Hi(b) \in Nat
      /\ \A a, b \in 0..(n - 1) : a <= b => Hi(a) <= Hi(b)
      /\ first = L2(SlotOf(key.hi)).at /\ first <= l
      /\ \A b \in 0..(l - 1) : Hi(b) <= key.hi
  BY <1>1, Halving
<1>4. Types'
  <2>1. mid \in 0..n
    BY <1>3
  <2>. QED  BY <1>1, <1>2, <2>1 DEF IInv, Types, tables, build
<1>5. SearchRight'
  <2>1. l <= mid /\ mid <= L2(SlotOf(key.hi) + 1).at
    BY <1>3
  <2>2. ASSUME NEW b \in mid..(n - 1) PROVE Hi(b) > key.hi
    <3>1. mid \in 0..(n - 1) /\ b \in 0..(n - 1) /\ mid <= b
      BY <1>3
    <3>. QED  BY <1>1, <1>3, <3>1
  <2>. QED  BY <1>1, <1>2, <1>3, <2>1, <2>2 DEF SearchRight
<1>6. LastAtOrBelow'
  BY <1>1 DEF LastAtOrBelow
<1>. QED  BY <1>2, <1>4, <1>5, <1>6 DEF IInv

LEMMA HalveUpStep ==
  ASSUME IInv, HalveUp
  PROVE  IInv'
<1>1. /\ pc = "search6" /\ l < h /\ ~(Hi(mid) > key.hi) /\ l' = mid + 1 /\ pc' = pc
      /\ UNCHANGED <<tables, build>> /\ key' = key /\ h' = h /\ first' = first
      /\ answer' = answer
  BY DEF HalveUp, Above
<1>2. /\ (DirRight /\ FewSlots /\ SizeRight /\ FillRight)'
      /\ (SlotsSplit /\ FlagRight)'
      /\ n' = n /\ (\A b : Hi(b)' = Hi(b)) /\ (\A s : L2(s)' = L2(s))
      /\ (\A hi : SlotOf(hi)' = SlotOf(hi))
  BY <1>1, TablesKept
<1>3. /\ n \in Nat /\ l \in 0..n /\ h \in 0..n /\ mid \in l..(h - 1)
      /\ key.hi \in Nat /\ h <= L2(SlotOf(key.hi) + 1).at
      /\ \A b \in 0..(n - 1) : Hi(b) \in Nat
      /\ \A a, b \in 0..(n - 1) : a <= b => Hi(a) <= Hi(b)
      /\ first = L2(SlotOf(key.hi)).at /\ first <= l /\ first \in 0..n
      /\ \A b \in h..(n - 1) : Hi(b) > key.hi
  BY <1>1, Halving
<1>4. Types'
  <2>1. mid + 1 \in 0..n
    BY <1>3
  <2>. QED  BY <1>1, <1>2, <2>1 DEF IInv, Types, tables, build
<1>5. SearchRight'
  <2>1. first <= mid + 1 /\ mid + 1 <= h
    BY <1>3
  <2>2. ASSUME NEW b \in 0..((mid + 1) - 1) PROVE Hi(b) <= key.hi
    <3>1. mid \in 0..(n - 1) /\ b \in 0..(n - 1) /\ b <= mid
      BY <1>3
    <3>. QED  BY <1>1, <1>3, <3>1
  <2>. QED  BY <1>1, <1>2, <1>3, <2>1, <2>2 DEF SearchRight
<1>6. LastAtOrBelow'
  BY <1>1 DEF LastAtOrBelow
<1>. QED  BY <1>2, <1>4, <1>5, <1>6 DEF IInv

(* Comparing the key with a start, by its halves. *)
LEMMA Comparing ==
  ASSUME starts \in StartLists, NEW a \in Addresses, NEW b \in 0..(n - 1)
  PROVE  /\ a.hi \in Nat /\ a.lo \in Nat /\ Hi(b) \in Nat /\ starts[b + 1].lo \in Nat
         /\ Less(a, starts[b + 1]) <=>
              a.hi < Hi(b) \/ (a.hi = Hi(b) /\ a.lo < starts[b + 1].lo)
<1>1. starts[b + 1] \in Addresses
  BY StartFacts
<1>2. ASSUME NEW c \in Addresses PROVE c.hi \in Nat /\ c.lo \in Nat
  BY Sizes DEF Addresses
<1>. QED  BY <1>1, <1>2 DEF Hi, Less

(* Below the search's answer the starts of the key's top half, if the slot *)
(* is not flagged or begins there, have no low half.                       *)
LEMMA EndHalvingStep ==
  ASSUME IInv, EndHalving
  PROVE  IInv'
<1>1. /\ pc = "search6" /\ l >= h /\ answer' = l
      /\ pc' = IF L2(SlotOf(key.hi)).exc /\ l > first THEN "stepBack" ELSE "answered"
      /\ UNCHANGED <<tables, build>> /\ key' = key /\ h' = h /\ first' = first
      /\ l' = l
  BY DEF EndHalving
<1>0. pc' \in {"stepBack", "answered"}
  BY <1>1
<1>2. /\ (DirRight /\ FewSlots /\ SizeRight /\ FillRight)'
      /\ (SlotsSplit /\ FlagRight)'
      /\ n' = n /\ (\A b : Hi(b)' = Hi(b)) /\ (\A s : L2(s)' = L2(s))
      /\ (\A hi : SlotOf(hi)' = SlotOf(hi))
  BY <1>0, <1>1, TablesKept
<1>3. /\ n \in Nat /\ l \in 0..n /\ h \in 0..n /\ l <= h /\ key \in Addresses
      /\ key.hi \in Nat /\ h <= L2(SlotOf(key.hi) + 1).at
      /\ first = L2(SlotOf(key.hi)).at /\ first \in 0..n /\ first <= l
      /\ \A b \in 0..(l - 1) : Hi(b) <= key.hi
      /\ \A b \in h..(n - 1) : Hi(b) > key.hi
  BY <1>1, Halving
<1>4. l = h /\ starts \in StartLists /\ starts' = starts
  BY <1>1, <1>3 DEF IInv, Types, tables
<1>5. Types'
  BY <1>0, <1>1, <1>2, <1>3 DEF IInv, Types, tables, build
<1>6. ASSUME NEW b \in l..(n - 1) PROVE Less(key, starts[b + 1])
  <2>1. b \in 0..(n - 1) /\ Hi(b) > key.hi
    BY <1>3, <1>4
  <2>. QED  BY <1>3, <1>4, <2>1, Comparing
<1>7. CASE pc' = "stepBack"
  <2>1. SearchRight'
    BY <1>1, <1>2, <1>3, <1>4, <1>6, <1>7 DEF SearchRight
  <2>2. LastAtOrBelow'
    BY <1>7 DEF LastAtOrBelow
  <2>. QED  BY <1>2, <1>5, <2>1, <2>2 DEF IInv
<1>8. CASE pc' = "answered"
  <2>1. SearchRight'
    BY <1>8 DEF SearchRight
  <2>2. ASSUME NEW b \in 0..(l - 1) PROVE ~Less(key, starts[b + 1])
    <3>1. b \in 0..(n - 1) /\ Hi(b) <= key.hi
      BY <1>3
    <3>2. CASE Hi(b) < key.hi
      BY <1>3, <1>4, <3>1, <3>2, Comparing
    <3>3. CASE Hi(b) = key.hi
      <4> DEFINE s == SlotOf(key.hi)
      <4>1. Built /\ Filled
        BY <1>1, BuiltInSearch
      <4>2. s \in 0..(Slots - 1)
        BY <1>1, <1>3, KeySlot
      <4>3. SlotOf(Hi(b)) = s
        BY <3>3
      <4> HIDE DEF s
      <4>4. L2(s).at <= b /\ b < L2(s + 1).at
        BY <3>1, <4>1, <4>2, <4>3, SlotHolds
      <4>5. l > first
        BY <1>3, <4>4 DEF s
      <4>6. ~L2(s).exc
        BY <1>1, <1>8, <4>5 DEF s
      <4>7. starts[b + 1].lo = 0
        BY <3>1, <4>1, <4>2, <4>3, <4>6, Flags
      <4>8. ~(key.lo < 0) /\ ~(key.hi < Hi(b))
        BY <1>3, <1>4, <3>1, <3>3, Comparing
      <4>. QED  BY <1>3, <1>4, <3>1, <4>7, <4>8, Comparing
    <3>. QED  BY <1>3, <1>4, <3>1, <3>2, <3>3, Comparing
  <2>3. LastAtOrBelow'
    BY <1>1, <1>2, <1>4, <1>6, <2>2 DEF LastAtOrBelow
  <2>. QED  BY <1>2, <1>5, <2>1, <2>3 DEF IInv
<1>. QED  BY <1>0, <1>7, <1>8

(* What holds while the search steps back. *)
LEMMA SteppingBack ==
  ASSUME IInv, pc = "stepBack"
  PROVE  /\ n \in Nat /\ answer \in 0..n /\ key \in Addresses /\ starts \in StartLists
         /\ \A b \in 0..(answer - 1) : Hi(b) <= key.hi
         /\ \A b \in answer..(n - 1) : Less(key, starts[b + 1])
         /\ \A b \in 0..(n - 1) : b \in exc <=> starts[b + 1].lo # 0
         /\ \A b \in exc : LowHalf(b) = starts[b + 1].lo
<1>1. answer \in 0..n /\ key \in Addresses
  BY DEF IInv, Types
<1>2. /\ \A b \in 0..(answer - 1) : Hi(b) <= key.hi
      /\ \A b \in answer..(n - 1) : Less(key, starts[b + 1])
  BY DEF IInv, SearchRight
<1>3. Built /\ n \in Nat /\ starts \in StartLists
  BY BuiltInSearch
<1>4. /\ \A b \in 0..(n - 1) : b \in exc <=> starts[b + 1].lo # 0
      /\ \A b \in exc : LowHalf(b) = starts[b + 1].lo
  BY <1>3, Flags
<1>. QED  BY <1>1, <1>2, <1>3, <1>4

LEMMA StepBackStep ==
  ASSUME IInv, StepBack
  PROVE  IInv'
<1>1. /\ pc = "stepBack" /\ StepsBackOver(answer - 1) /\ answer' = answer - 1
      /\ pc' = pc /\ UNCHANGED <<tables, build>> /\ key' = key /\ l' = l
      /\ h' = h /\ first' = first
  BY DEF StepBack
<1>2. /\ (DirRight /\ FewSlots /\ SizeRight /\ FillRight)'
      /\ (SlotsSplit /\ FlagRight)'
      /\ n' = n /\ (\A b : Hi(b)' = Hi(b))
  BY <1>1, TablesKept
<1>3. /\ n \in Nat /\ answer \in 0..n /\ key \in Addresses /\ starts \in StartLists
      /\ \A b \in 0..(answer - 1) : Hi(b) <= key.hi
      /\ \A b \in answer..(n - 1) : Less(key, starts[b + 1])
      /\ \A b \in exc : LowHalf(b) = starts[b + 1].lo
  BY <1>1, SteppingBack
<1>4. starts' = starts
  BY <1>1 DEF tables
<1> DEFINE c == answer - 1
<1>5. c >= 0 /\ Hi(c) = key.hi /\ c \in exc /\ LowHalf(c) > key.lo
  BY <1>1 DEF StepsBackOver
<1>6. c \in 0..(n - 1)
  BY <1>3, <1>5
<1>7. Less(key, starts[c + 1])
  BY <1>3, <1>5, <1>6, Comparing
<1>8. Types'
  <2>1. answer - 1 \in 0..n
    BY <1>3, <1>6
  <2>. QED  BY <1>1, <1>2, <2>1 DEF IInv, Types, tables, build
<1>9. SearchRight'
  <2>1. ASSUME NEW b \in c..(n - 1) PROVE Less(key, starts[b + 1])
    <3>1. b = c \/ b \in answer..(n - 1)
      BY <1>3, <1>6
    <3>. QED  BY <1>3, <1>7, <3>1
  <2>2. ASSUME NEW b \in 0..(c - 1) PROVE Hi(b) <= key.hi
    BY <1>3, <1>6
  <2>. QED  BY <1>1, <1>2, <1>4, <2>1, <2>2 DEF SearchRight
<1>10. LastAtOrBelow'
  BY <1>1 DEF LastAtOrBelow
<1>. QED  BY <1>2, <1>8, <1>9, <1>10 DEF IInv

LEMMA EndStepBackStep ==
  ASSUME IInv, EndStepBack
  PROVE  IInv'
<1>1. /\ pc = "stepBack" /\ ~StepsBackOver(answer - 1)
      /\ pc' = "answered" /\ UNCHANGED <<tables, build>> /\ UNCHANGED search
  BY DEF EndStepBack
<1>2. /\ (DirRight /\ FewSlots /\ SizeRight /\ FillRight)'
      /\ (SlotsSplit /\ FlagRight)'
      /\ n' = n
  BY <1>1, TablesKept
<1>3. /\ n \in Nat /\ answer \in 0..n /\ key \in Addresses /\ starts \in StartLists
      /\ \A b \in 0..(answer - 1) : Hi(b) <= key.hi
      /\ \A b \in answer..(n - 1) : Less(key, starts[b + 1])
      /\ \A b \in 0..(n - 1) : b \in exc <=> starts[b + 1].lo # 0
      /\ \A b \in exc : LowHalf(b) = starts[b + 1].lo
  BY <1>1, SteppingBack
<1>4. starts' = starts /\ key' = key /\ answer' = answer
  BY <1>1 DEF tables, search
<1>5. Types'
  BY <1>1, <1>2 DEF IInv, Types, tables, build, search
<1>6. SearchRight'
  BY <1>1 DEF SearchRight
<1>7. ASSUME NEW b \in 0..(answer - 1) PROVE ~Less(key, starts[b + 1])
  <2> DEFINE c == answer - 1
  <2>1. c \in 0..(n - 1) /\ b \in 0..(n - 1) /\ b <= c /\ c >= 0
    BY <1>3
  <2>2. /\ key.hi \in Nat /\ key.lo \in Nat /\ Hi(c) \in Nat /\ starts[c + 1].lo \in Nat
        /\ Hi(b) \in Nat /\ starts[b + 1].lo \in Nat
        /\ Less(key, starts[c + 1]) <=>
             key.hi < Hi(c) \/ (key.hi = Hi(c) /\ key.lo < starts[c + 1].lo)
        /\ Less(key, starts[b + 1]) <=>
             key.hi < Hi(b) \/ (key.hi = Hi(b) /\ key.lo < starts[b + 1].lo)
    BY <1>3, <2>1, Comparing
  <2>3. Hi(c) # key.hi \/ c \notin exc \/ ~(LowHalf(c) > key.lo)
    BY <1>1, <2>1 DEF StepsBackOver
  <2>4. ~Less(key, starts[c + 1])
    <3>1. Hi(c) <= key.hi
      BY <1>3, <2>1
    <3>2. c \notin exc => starts[c + 1].lo = 0
      BY <1>3, <2>1
    <3>3. c \in exc => LowHalf(c) = starts[c + 1].lo
      BY <1>3
    <3>. QED  BY <2>2, <2>3, <3>1, <3>2, <3>3
  <2>5. b = c \/ Less(starts[b + 1], starts[c + 1])
    <3>1. b = c \/ b < c
      BY <1>3, <2>1
    <3>. QED  BY <1>3, <2>1, <3>1, StartFacts
  <2>6. CASE b = c
    BY <2>4, <2>6
  <2>7. CASE Less(starts[b + 1], starts[c + 1])
    <3>1. Hi(b) < Hi(c) \/ (Hi(b) = Hi(c) /\ starts[b + 1].lo < starts[c + 1].lo)
      BY <2>7 DEF Less, Hi
    <3>. QED  BY <2>2, <2>4, <3>1
  <2>. QED  BY <2>5, <2>6, <2>7
<1>8. LastAtOrBelow'
  BY <1>2, <1>3, <1>4, <1>7 DEF LastAtOrBelow
<1>. QED  BY <1>2, <1>5, <1>6, <1>8 DEF IInv

-----------------------------------------------------------------------------
(* The passes after the first leave the directory as it is. *)
LEMMA DirKept ==
  ASSUME IInv, starts' = starts, dir' = dir
  PROVE  /\ DirRight' /\ FewSlots'
         /\ n' = n /\ (\A b : Hi(b)' = Hi(b)) /\ (\A b : Top(b)' = Top(b))
         /\ (\A b : Dir(b)' = Dir(b)) /\ (\A b : SlotCount(b)' = SlotCount(b))
         /\ (\A b, t : SlotStart(b, t)' = SlotStart(b, t))
         /\ (\A hi : SlotOf(hi)' = SlotOf(hi))
         /\ ExcIdx' = ExcIdx /\ NextDir' = NextDir /\ Slots' = Slots
<1>1. DirRight'
  BY DEF IInv, DirRight, NextDir, Slots, Dir, SlotCount
<1>2. FewSlots'
  BY DEF IInv, FewSlots, Dir, Top, Hi, n
<1>3. n' = n /\ (\A b : Hi(b)' = Hi(b)) /\ ExcIdx' = ExcIdx
  BY DEF n, Hi, ExcIdx
<1>4. /\ (\A b : Dir(b)' = Dir(b)) /\ (\A b : SlotCount(b)' = SlotCount(b))
      /\ (\A hi : SlotOf(hi)' = SlotOf(hi)) /\ NextDir' = NextDir /\ Slots' = Slots
  BY DEF Dir, SlotCount, SlotOf, NextDir, Slots
<1>5. \A b, t : SlotStart(b, t)' = SlotStart(b, t)
  BY DEF SlotStart, Width, Dir
<1>6. \A b : Top(b)' = Top(b)
  BY DEF Top, Hi
<1>. QED  BY <1>1, <1>2, <1>3, <1>4, <1>5, <1>6

(* What SlotsSplit says, in the proofs' words. *)
LEMMA SplitsAre ==
  ASSUME Types
  PROVE  SlotsSplit <=>
           \A b \in 0..(NextDir - 1) : \A t \in 0..(SlotCount(b) - 1) :
             Dir(b).o + t < Len(l2) =>
               LET at == L2(Dir(b).o + t).at
               IN  /\ \A a \in 0..(at - 1) : Hi(a) < SlotStart(b, t)
                   /\ \A a \in at..(n - 1) : Hi(a) >= SlotStart(b, t)
BY DEF SlotsSplit, SlotStart, SlotCount, Width, NextDir

(* The slots split the boundaries after a step that changes only the slots. *)
LEMMA SplitsNext ==
  ASSUME starts' = starts, dir' = dir,
         \A b \in 0..(NextDir - 1) : \A t \in 0..(SlotCount(b) - 1) :
           Dir(b).o + t < Len(l2') =>
             /\ \A a \in 0..(l2'[Dir(b).o + t + 1].at - 1) : Hi(a) < SlotStart(b, t)
             /\ \A a \in l2'[Dir(b).o + t + 1].at..(n - 1) : Hi(a) >= SlotStart(b, t)
  PROVE  SlotsSplit'
<1>1. /\ NextDir' = NextDir /\ n' = n
      /\ \A b : Dir(b)' = Dir(b) /\ Hi(b)' = Hi(b)
  BY DEF NextDir, Dir, Hi, n
<1>2. /\ \A b : SlotCount(b) = 2^Dir(b).k
      /\ \A b, t : SlotStart(b, t) = b * BucketSize + t * 2^(HiBits - Dir(b).k)
  BY DEF SlotCount, SlotStart, Width
<1>3. ASSUME NEW b \in (0..(NextDir - 1))', NEW t \in (0..(2^Dir(b).k - 1))',
             (Dir(b).o + t < Len(l2))'
      PROVE  /\ \A a \in 0..(l2'[Dir(b).o + t + 1].at - 1) :
                   Hi(a) < b * BucketSize + t * 2^(HiBits - Dir(b).k)
             /\ \A a \in l2'[Dir(b).o + t + 1].at..(n - 1) :
                   Hi(a) >= b * BucketSize + t * 2^(HiBits - Dir(b).k)
  <2>1. b \in 0..(NextDir - 1) /\ t \in 0..(SlotCount(b) - 1) /\ Dir(b).o + t < Len(l2')
    BY <1>1, <1>2, <1>3
  <2>. QED  BY <1>2, <2>1
<1>. SUFFICES ASSUME NEW b \in (0..(NextDir - 1))', NEW t \in (0..(2^Dir(b).k - 1))',
                     (Dir(b).o + t < Len(l2))'
              PROVE  (/\ \A a \in 0..(L2(Dir(b).o + t).at - 1) :
                           Hi(a) < b * BucketSize + t * 2^(HiBits - Dir(b).k)
                      /\ \A a \in L2(Dir(b).o + t).at..(n - 1) :
                           Hi(a) >= b * BucketSize + t * 2^(HiBits - Dir(b).k))'
  BY DEF SlotsSplit, NextDir, Dir, L2, Hi, n
<1>. QED  BY <1>1, <1>3 DEF L2

(* What holds while the slots of a bucket are filled. *)
LEMMA Filling ==
  ASSUME IInv, pc = "fill", g < Buckets
  PROVE  /\ Types /\ DirRight /\ n \in Nat /\ starts \in StartLists /\ i \in 0..n
         /\ NextDir = Buckets /\ Buckets \in Nat \ {0}
         /\ g \in 0..(Buckets - 1) /\ g \in 0..(NextDir - 1)
         /\ Dir(g).o \in Nat /\ SlotCount(g) \in Nat \ {0}
         /\ S = Len(l2) - Dir(g).o /\ S \in 0..SlotCount(g) /\ S \in Nat
         /\ Len(l2) = Dir(g).o + S
         /\ SlotsLeft <=> S < SlotCount(g)
         /\ \A a \in 0..(i - 1) : Hi(a) < SlotStart(g, S)
         /\ \A a \in i..(n - 1) : Top(a) >= g
         /\ exc = {} /\ \A s \in DOMAIN l2 : ~l2[s].exc
<1>1. /\ Types /\ DirRight /\ starts \in StartLists /\ i \in 0..n /\ g \in 0..Buckets
      /\ l2 \in Seq([at : 0..n, exc : BOOLEAN])
  BY DEF IInv, Types
<1>2. n \in Nat /\ Buckets \in Nat \ {0}
  BY <1>1, StartFacts, Sizes
<1>3. NextDir = Buckets
  BY DEF IInv, SizeRight
<1>4. g \in 0..(Buckets - 1) /\ g \in 0..(NextDir - 1)
  BY <1>1, <1>2, <1>3
<1>5. Dir(g).o \in Nat /\ SlotCount(g) \in Nat \ {0}
  BY <1>1, <1>4, SlotFacts
<1>6. /\ Dir(g).o <= Len(l2) /\ Len(l2) <= Dir(g).o + SlotCount(g)
      /\ \A a \in 0..(i - 1) : Hi(a) < SlotStart(g, Len(l2) - Dir(g).o)
      /\ \A a \in i..(n - 1) : Top(a) >= g
      /\ exc = {} /\ \A s \in DOMAIN l2 : ~l2[s].exc
  BY DEF IInv, FillRight
<1>7. S = Len(l2) - Dir(g).o /\ (SlotsLeft <=> S < SlotCount(g))
  BY DEF S, SlotsLeft, SlotCount
<1>8. S \in 0..SlotCount(g) /\ S \in Nat /\ Len(l2) = Dir(g).o + S
  BY <1>1, <1>5, <1>6, <1>7
<1>. QED  BY <1>1, <1>2, <1>3, <1>4, <1>5, <1>6, <1>7, <1>8

LEMMA SkipStartStep ==
  ASSUME IInv, SkipStart
  PROVE  IInv'
<1>1. /\ pc = "fill" /\ g < Buckets
      /\ IF SlotsLeft THEN BelowSlot ELSE InBucket
      /\ i' = i + 1 /\ UNCHANGED tables /\ pc' = pc /\ j' = j /\ g' = g
      /\ UNCHANGED search
  BY DEF SkipStart
<1>2. /\ starts' = starts /\ dir' = dir /\ l2' = l2 /\ exc' = exc
  BY <1>1 DEF tables
<1>3. /\ Types /\ n \in Nat /\ starts \in StartLists /\ i \in 0..n
      /\ NextDir = Buckets /\ g \in 0..(NextDir - 1) /\ g \in Nat
      /\ Dir(g).o \in Nat /\ SlotCount(g) \in Nat \ {0}
      /\ S = Len(l2) - Dir(g).o /\ S \in 0..SlotCount(g) /\ S \in Nat
      /\ SlotsLeft <=> S < SlotCount(g)
      /\ \A a \in 0..(i - 1) : Hi(a) < SlotStart(g, S)
      /\ \A a \in i..(n - 1) : Top(a) >= g
  BY <1>1, Filling
<1>4. /\ DirRight' /\ FewSlots'
      /\ n' = n /\ (\A b : Hi(b)' = Hi(b)) /\ (\A b : Top(b)' = Top(b))
      /\ (\A b : Dir(b)' = Dir(b)) /\ (\A b : SlotCount(b)' = SlotCount(b))
      /\ (\A b, t : SlotStart(b, t)' = SlotStart(b, t))
      /\ NextDir' = NextDir /\ Slots' = Slots
  BY <1>2, DirKept
<1>5. InBucket /\ (SlotsLeft => Slot(Hi(i), Dir(g).k) < S)
  BY <1>1 DEF BelowSlot
<1>6. i < n /\ Top(i) = g /\ i \in 0..(n - 1)
  BY <1>3, <1>5 DEF InBucket
<1>7. Hi(i) \in Nat /\ g * BucketSize <= Hi(i) /\ Hi(i) < (g + 1) * BucketSize
  BY <1>3, <1>6, StartFacts
<1>8. Hi(i) < SlotStart(g, S)
  <2>1. CASE SlotsLeft
    <3> DEFINE t == Slot(Hi(i), Dir(g).k)
    <3>1. t \in 0..(SlotCount(g) - 1) /\ Hi(i) < SlotStart(g, t + 1) /\ t < S
      BY <1>3, <1>5, <1>7, <2>1, InSlot
    <3> HIDE DEF t
    <3>2. t + 1 \in Nat /\ t + 1 <= S
      BY <1>3, <3>1
    <3>3. /\ SlotStart(g, t + 1) \in Nat /\ SlotStart(g, S) \in Nat
          /\ SlotStart(g, t + 1) <= SlotStart(g, S)
      BY <1>3, <3>2, SlotStartFacts
    <3>. QED  BY <1>7, <3>1, <3>3
  <2>2. CASE ~SlotsLeft
    <3>1. S = SlotCount(g)
      BY <1>3, <2>2
    <3>. QED  BY <1>3, <1>7, <3>1, SlotStartFacts
  <2>. QED  BY <2>1, <2>2
<1>9. Types'
  <2>1. i + 1 \in 0..n
    BY <1>3, <1>6
  <2>. QED  BY <1>1, <1>2, <1>3, <1>4, <2>1 DEF Types, search
<1>10. SizeRight'
  BY <1>1, <1>3, <1>4 DEF SizeRight
<1>11. FillRight'
  <2>1. ASSUME NEW a \in 0..((i + 1) - 1) PROVE Hi(a) < SlotStart(g, S)
    <3>1. a = i \/ a \in 0..(i - 1)
      BY <1>3
    <3>. QED  BY <1>3, <1>8, <3>1
  <2>2. \A a \in (i + 1)..(n - 1) : Top(a) >= g
    BY <1>3
  <2>3. FillRight
    BY DEF IInv
  <2>. QED  BY <1>1, <1>2, <1>3, <1>4, <2>1, <2>2, <2>3 DEF FillRight
<1>12. SlotsSplit'
  BY <1>2 DEF IInv, SlotsSplit, Dir, Hi, n, L2
<1>13. (FlagRight /\ SearchRight /\ LastAtOrBelow)'
  BY <1>1 DEF FlagRight, SearchRight, LastAtOrBelow
<1>. QED  BY <1>4, <1>9, <1>10, <1>11, <1>12, <1>13 DEF IInv

LEMMA FillSlotStep ==
  ASSUME IInv, FillSlot
  PROVE  IInv'
<1> DEFINE e == [at |-> i, exc |-> FALSE]
<1>1. /\ pc = "fill" /\ g < Buckets /\ SlotsLeft /\ ~BelowSlot
      /\ l2' = Append(l2, e) /\ starts' = starts /\ dir' = dir /\ exc' = exc
      /\ pc' = pc /\ UNCHANGED build /\ UNCHANGED search
  BY DEF FillSlot
<1>2. i' = i /\ j' = j /\ g' = g
  BY <1>1 DEF build
<1>3. /\ Types /\ DirRight /\ n \in Nat /\ starts \in StartLists /\ i \in 0..n
      /\ NextDir = Buckets /\ g \in 0..(NextDir - 1) /\ g \in Nat
  BY <1>1, Filling
<1>14. /\ Dir(g).o \in Nat /\ SlotCount(g) \in Nat \ {0}
       /\ S \in Nat /\ Len(l2) = Dir(g).o + S /\ Len(l2) \in Nat
       /\ S + 1 \in Nat /\ S + 1 <= SlotCount(g) /\ S <= SlotCount(g)
       /\ S <= S + 1 /\ g # Buckets
  <2>1. /\ Dir(g).o \in Nat /\ SlotCount(g) \in Nat \ {0}
        /\ S \in Nat /\ Len(l2) = Dir(g).o + S /\ S < SlotCount(g)
    BY <1>1, Filling
  <2>. QED  BY <1>1, <1>3, <2>1
<1>15. /\ \A a \in 0..(i - 1) : Hi(a) < SlotStart(g, S)
       /\ \A a \in i..(n - 1) : Top(a) >= g
       /\ exc = {} /\ \A s \in DOMAIN l2 : ~l2[s].exc
  BY <1>1, Filling
<1>4. /\ DirRight' /\ FewSlots'
      /\ n' = n /\ (\A b : Hi(b)' = Hi(b)) /\ (\A b : Top(b)' = Top(b))
      /\ (\A b : Dir(b)' = Dir(b)) /\ (\A b : SlotCount(b)' = SlotCount(b))
      /\ (\A b, t : SlotStart(b, t)' = SlotStart(b, t))
      /\ NextDir' = NextDir /\ Slots' = Slots
  BY <1>1, DirKept
<1>5. l2 \in Seq([at : 0..n, exc : BOOLEAN]) /\ e \in [at : 0..n, exc : BOOLEAN]
  BY <1>3 DEF Types
<1>6. /\ l2' \in Seq([at : 0..n, exc : BOOLEAN]) /\ Len(l2') = Len(l2) + 1
      /\ l2'[Len(l2) + 1] = e /\ \A x \in 1..Len(l2) : l2'[x] = l2[x]
  BY <1>1, <1>5, Appended
<1>7. \A s \in 0..(Len(l2) - 1) : l2'[s + 1] = L2(s)
  <2>1. \A s \in 0..(Len(l2) - 1) : s + 1 \in 1..Len(l2)
    BY <1>14
  <2>. QED  BY <1>6, <2>1 DEF L2
<1>8. Types'
  BY <1>1, <1>2, <1>3, <1>4, <1>6 DEF Types, search
<1>9. SizeRight'
  BY <1>1, <1>3, <1>4 DEF SizeRight
(* Every start still ahead is at or above the slot. *)
<1>10. ASSUME NEW a \in i..(n - 1) PROVE Hi(a) >= SlotStart(g, S)
  <2>1. i \in 0..(n - 1) /\ a \in 0..(n - 1) /\ i <= a /\ i < n /\ i \in i..(n - 1)
    BY <1>3
  <2>2. /\ Hi(i) <= Hi(a) /\ Hi(i) \in Nat /\ Hi(a) \in Nat /\ Top(i) \in Nat
        /\ Top(i) * BucketSize <= Hi(i) /\ Hi(i) < (Top(i) + 1) * BucketSize
    BY <1>3, <2>1, StartFacts
  <2>3. SlotStart(g, S) \in Nat
    BY <1>3, <1>14, SlotStartFacts
  <2>4. CASE Top(i) = g
    <3> DEFINE t == Slot(Hi(i), Dir(g).k)
    <3>1. t \in 0..(SlotCount(g) - 1) /\ SlotStart(g, t) <= Hi(i)
      BY <1>3, <2>2, <2>4, InSlot
    <3>2. ~(t < S)
      BY <1>1, <2>1, <2>4 DEF BelowSlot, InBucket
    <3> HIDE DEF t
    <3>3. t \in Nat /\ S <= t
      BY <1>14, <3>1, <3>2
    <3>4. SlotStart(g, t) \in Nat /\ SlotStart(g, S) <= SlotStart(g, t)
      BY <1>3, <1>14, <3>3, SlotStartFacts
    <3>. QED  BY <2>2, <2>3, <3>1, <3>4
  <2>5. CASE Top(i) # g
    <3>1. g + 1 <= Top(i)
      <4>1. Top(i) >= g
        BY <1>15, <2>1
      <4>. QED  BY <1>3, <2>2, <2>5, <4>1
    <3>2. BucketSize \in Nat \ {0} /\ g + 1 \in Int /\ Top(i) \in Int
      BY <1>3, <2>2, Sizes
    <3>3. (g + 1) * BucketSize <= Top(i) * BucketSize
      BY <3>1, <3>2, MulMono
    <3>4. SlotStart(g, S) <= SlotStart(g, SlotCount(g))
      BY <1>3, <1>14, SlotStartFacts
    <3>5. SlotStart(g, SlotCount(g)) = (g + 1) * BucketSize
      BY <1>3, SlotStartFacts
    <3>6. (g + 1) * BucketSize \in Int /\ Top(i) * BucketSize \in Int
      BY <3>2
    <3>. QED  BY <2>2, <2>3, <3>3, <3>4, <3>5, <3>6
  <2>. QED  BY <2>4, <2>5
<1>11. FillRight'
  <2>0. SlotStart(g, S) <= SlotStart(g, S + 1)
    BY <1>3, <1>14, SlotStartFacts
  <2>1. SlotStart(g, S) \in Nat /\ SlotStart(g, S + 1) \in Nat
    BY <1>3, <1>14, SlotStartFacts
  <2>2. ASSUME NEW a \in 0..(i - 1) PROVE Hi(a) < SlotStart(g, S + 1)
    <3>1. a \in 0..(n - 1)
      BY <1>3
    <3>2. Hi(a) \in Nat
      BY <1>3, <3>1, StartFacts
    <3>3. Hi(a) < SlotStart(g, S)
      BY <1>15
    <3>. QED  BY <2>0, <2>1, <3>2, <3>3
  <2>3. Len(l2') - Dir(g).o = S + 1 /\ Dir(g).o <= Len(l2')
        /\ Len(l2') <= Dir(g).o + SlotCount(g)
    <3>1. Len(l2') = Len(l2) + 1
      BY <1>6
    <3>. QED  BY <1>14, <3>1
  <2>4. ASSUME NEW s \in DOMAIN l2' PROVE ~l2'[s].exc
    <3>1. s = Len(l2) + 1 \/ (s \in 1..Len(l2) /\ s \in DOMAIN l2)
      BY <1>5, <1>6
    <3>2. CASE s = Len(l2) + 1
      BY <1>6, <3>2
    <3>3. CASE s \in 1..Len(l2) /\ s \in DOMAIN l2
      <4>1. l2'[s] = l2[s]
        BY <1>6, <3>3
      <4>. QED  BY <1>15, <3>3, <4>1
    <3>. QED  BY <3>1, <3>2, <3>3
  <2>. QED  BY <1>1, <1>2, <1>4, <1>14, <1>15, <2>2, <2>3, <2>4 DEF FillRight
<1>12. SlotsSplit'
  <2>1. ASSUME NEW b \in 0..(NextDir - 1), NEW t \in 0..(SlotCount(b) - 1),
               Dir(b).o + t < Len(l2')
        PROVE  /\ \A a \in 0..(l2'[Dir(b).o + t + 1].at - 1) : Hi(a) < SlotStart(b, t)
               /\ \A a \in l2'[Dir(b).o + t + 1].at..(n - 1) : Hi(a) >= SlotStart(b, t)
    <3>1. Dir(b).o \in Nat /\ SlotCount(b) \in Nat \ {0} /\ t \in Nat /\ b \in Nat
      BY <1>3, SlotFacts
    <3>2. CASE Dir(b).o + t < Len(l2)
      <4>1. l2'[Dir(b).o + t + 1] = L2(Dir(b).o + t)
        <5>1. Dir(b).o + t \in 0..(Len(l2) - 1)
          BY <1>14, <3>1, <3>2, SMTT(30)
        <5>. QED  BY <1>7, <5>1
      <4>2. SlotsSplit
        BY DEF IInv
      <4>. QED  BY <1>3, <3>2, <4>1, <4>2, SplitsAre
    <3>3. CASE Dir(b).o + t = Len(l2)
      <4>1. ~(b < g)
        <5>1. b < g => Dir(b).o + SlotCount(b) <= Dir(g).o
          BY <1>3 DEF DirRight
        <5>. QED  BY <1>14, <3>1, <3>3, <5>1
      <4>2. ~(g < b)
        <5>1. g < b => Dir(g).o + SlotCount(g) <= Dir(b).o
          BY <1>3 DEF DirRight
        <5>. QED  BY <1>14, <3>1, <3>3, <5>1
      <4>3. b = g
        BY <1>3, <3>1, <4>1, <4>2
      <4>4. t = S
        BY <1>14, <3>1, <3>3, <4>3
      <4>5. l2'[Dir(b).o + t + 1].at = i
        BY <1>6, <3>3
      <4>. QED  BY <1>10, <1>15, <4>3, <4>4, <4>5
    <3>4. Len(l2') = Len(l2) + 1
      BY <1>6
    <3>5. Dir(b).o + t < Len(l2) \/ Dir(b).o + t = Len(l2)
      <4>1. \A x, y \in Int : x < y + 1 => x < y \/ x = y
        OBVIOUS
      <4>2. Dir(b).o + t \in Int /\ Len(l2) \in Int
        BY <1>14, <3>1
      <4>3. Dir(b).o + t < Len(l2) + 1
        BY <2>1, <3>4, Zenon
      <4>. QED  BY <4>1, <4>2, <4>3
    <3>. QED  BY <3>2, <3>3, <3>5
  <2>. QED  BY <1>1, <2>1, SplitsNext
<1>13. (FlagRight /\ SearchRight /\ LastAtOrBelow)'
  BY <1>1 DEF FlagRight, SearchRight, LastAtOrBelow
<1>. QED  BY <1>4, <1>8, <1>9, <1>11, <1>12, <1>13 DEF IInv

LEMMA NextBucketStep ==
  ASSUME IInv, NextBucket
  PROVE  IInv'
<1>1. /\ pc = "fill" /\ g < Buckets /\ ~SlotsLeft /\ ~InBucket
      /\ g' = g + 1 /\ UNCHANGED tables /\ pc' = pc /\ i' = i /\ j' = j
      /\ UNCHANGED search
  BY DEF NextBucket
<1>2. /\ starts' = starts /\ dir' = dir /\ l2' = l2 /\ exc' = exc
  BY <1>1 DEF tables
<1>3. /\ Types /\ DirRight /\ n \in Nat /\ starts \in StartLists /\ i \in 0..n
      /\ NextDir = Buckets /\ g \in 0..(NextDir - 1) /\ g \in 0..(Buckets - 1)
      /\ Buckets \in Nat
  BY <1>1, Filling
<1>14. /\ Dir(g).o \in Nat /\ SlotCount(g) \in Nat \ {0}
       /\ S = SlotCount(g) /\ Len(l2) = Dir(g).o + SlotCount(g) /\ Len(l2) \in Nat
  <2>1. /\ Dir(g).o \in Nat /\ SlotCount(g) \in Nat \ {0} /\ S \in 0..SlotCount(g)
        /\ S \in Nat /\ Len(l2) = Dir(g).o + S /\ ~(S < SlotCount(g))
    BY <1>1, Filling
  <2>. QED  BY <2>1
<1>15. /\ \A a \in 0..(i - 1) : Hi(a) < SlotStart(g, S)
       /\ \A a \in i..(n - 1) : Top(a) >= g
       /\ exc = {} /\ \A s \in DOMAIN l2 : ~l2[s].exc
  BY <1>1, Filling
<1>4. /\ DirRight' /\ FewSlots'
      /\ n' = n /\ (\A b : Hi(b)' = Hi(b)) /\ (\A b : Top(b)' = Top(b))
      /\ (\A b : Dir(b)' = Dir(b)) /\ (\A b : SlotCount(b)' = SlotCount(b))
      /\ (\A b, t : SlotStart(b, t)' = SlotStart(b, t))
      /\ NextDir' = NextDir /\ Slots' = Slots
  BY <1>2, DirKept
<1>5. Types'
  <2>1. g + 1 \in 0..Buckets
    BY <1>3
  <2>. QED  BY <1>1, <1>2, <1>3, <1>4, <2>1 DEF Types, search
<1>6. SizeRight'
  BY <1>1, <1>3, <1>4 DEF SizeRight
<1>7. SlotStart(g, S) = (g + 1) * BucketSize
  BY <1>3, <1>14, SlotStartFacts
<1>8. ASSUME g + 1 = Buckets PROVE Len(l2) = Slots
  <2>1. g = NextDir - 1 /\ NextDir > 0
    BY <1>3, <1>8
  <2>. QED  BY <1>3, <1>14, <2>1, DirFacts
<1>9. ASSUME g + 1 < Buckets
      PROVE  /\ Dir(g + 1).o <= Len(l2) /\ Len(l2) <= Dir(g + 1).o + SlotCount(g + 1)
             /\ \A a \in 0..(i - 1) : Hi(a) < SlotStart(g + 1, Len(l2) - Dir(g + 1).o)
             /\ \A a \in i..(n - 1) : Top(a) >= g + 1
  <2>1. g + 1 \in 0..(NextDir - 1)
    BY <1>3, <1>9
  <2>2. Dir(g + 1).o = Len(l2)
    BY <1>3, <1>14, <2>1 DEF DirRight
  <2>3. /\ SlotCount(g + 1) \in Nat \ {0}
        /\ SlotStart(g + 1, 0) = (g + 1) * BucketSize
    BY <1>3, <2>1, SlotFacts, SlotStartFacts
  <2>4. Len(l2) - Dir(g + 1).o = 0
    BY <1>14, <2>2
  <2>5. \A a \in 0..(i - 1) : Hi(a) < SlotStart(g + 1, Len(l2) - Dir(g + 1).o)
    BY <1>7, <1>15, <2>3, <2>4
  <2>6. ASSUME NEW a \in i..(n - 1) PROVE Top(a) >= g + 1
    <3>1. i \in 0..(n - 1) /\ a \in 0..(n - 1) /\ i <= a /\ i < n /\ i \in i..(n - 1)
      BY <1>3
    <3>2. Top(i) \in Nat /\ Top(a) \in Nat /\ Top(i) <= Top(a)
      BY <1>3, <3>1, StartFacts, TopMono
    <3>3. Top(i) # g /\ Top(i) >= g
      BY <1>1, <1>15, <3>1 DEF InBucket
    <3>. QED  BY <1>3, <3>2, <3>3
  <2>. QED  BY <1>14, <2>2, <2>3, <2>5, <2>6
<1>10. FillRight'
  <2>1. g + 1 = Buckets \/ g + 1 < Buckets
    BY <1>3
  <2>2. CASE g + 1 = Buckets
    <3>1. ~(g + 1 < Buckets)
      BY <1>3, <2>2
    <3>. QED  BY <1>1, <1>2, <1>4, <1>8, <1>15, <2>2, <3>1 DEF FillRight
  <2>3. CASE g + 1 < Buckets
    <3>1. g + 1 # Buckets
      BY <1>3, <2>3
    <3>. QED  BY <1>1, <1>2, <1>4, <1>9, <1>15, <2>3, <3>1 DEF FillRight
  <2>. QED  BY <2>1, <2>2, <2>3
<1>11. SlotsSplit'
  BY <1>2 DEF IInv, SlotsSplit, Dir, Hi, n, L2
<1>12. (FlagRight /\ SearchRight /\ LastAtOrBelow)'
  BY <1>1 DEF FlagRight, SearchRight, LastAtOrBelow
<1>. QED  BY <1>4, <1>5, <1>6, <1>10, <1>11, <1>12 DEF IInv

LEMMA EndFillStep ==
  ASSUME IInv, EndFill
  PROVE  IInv'
<1> DEFINE e == [at |-> n, exc |-> FALSE]
<1>1. /\ pc = "fill" /\ g = Buckets
      /\ l2' = Append(l2, e) /\ pc' = "flag" /\ j' = 0
      /\ starts' = starts /\ dir' = dir /\ exc' = exc /\ i' = i /\ g' = g
      /\ UNCHANGED search
  BY DEF EndFill, LastEntry
<1>2. /\ Types /\ DirRight /\ starts \in StartLists /\ NextDir = Buckets
      /\ Len(l2) = Slots /\ exc = {} /\ \A s \in DOMAIN l2 : ~l2[s].exc
  BY <1>1 DEF IInv, Types, SizeRight, FillRight
<1>3. n \in Nat /\ Slots \in Nat
  BY <1>2, StartFacts, DirFacts
<1>4. /\ DirRight' /\ FewSlots'
      /\ n' = n /\ (\A b : Hi(b)' = Hi(b))
      /\ NextDir' = NextDir /\ Slots' = Slots /\ ExcIdx' = ExcIdx
  BY <1>1, DirKept
<1>5. l2 \in Seq([at : 0..n, exc : BOOLEAN]) /\ e \in [at : 0..n, exc : BOOLEAN]
  BY <1>2, <1>3 DEF Types
<1>6. /\ l2' \in Seq([at : 0..n, exc : BOOLEAN]) /\ Len(l2') = Len(l2) + 1
      /\ l2'[Len(l2) + 1] = e /\ \A x \in 1..Len(l2) : l2'[x] = l2[x]
  BY <1>1, <1>5, Appended
<1>7. Types'
  <2>1. 0 \in 0..n
    BY <1>3
  <2>. QED  BY <1>1, <1>2, <1>4, <1>6, <2>1 DEF Types, search
<1>8. SizeRight'
  BY <1>1, <1>2, <1>4 DEF SizeRight
<1>9. FillRight'
  BY <1>1 DEF FillRight
<1>10. SlotsSplit'
  <2>1. ASSUME NEW b \in 0..(NextDir - 1), NEW t \in 0..(SlotCount(b) - 1)
        PROVE  /\ Dir(b).o + t < Len(l2)
               /\ l2'[Dir(b).o + t + 1] = L2(Dir(b).o + t)
    <3>1. Dir(b).o \in Nat /\ SlotCount(b) \in Nat \ {0} /\ t \in Nat
      BY <1>2, SlotFacts
    <3>2. Dir(b).o + SlotCount(b) <= Slots
      BY <1>2, DirFacts
    <3>3. Dir(b).o + t < Len(l2) /\ Dir(b).o + t + 1 \in 1..Len(l2)
      BY <1>2, <1>3, <3>1, <3>2
    <3>. QED  BY <1>6, <3>3 DEF L2
  <2>2. SlotsSplit
    BY DEF IInv
  <2>3. ASSUME NEW b \in 0..(NextDir - 1), NEW t \in 0..(SlotCount(b) - 1)
        PROVE  /\ \A a \in 0..(l2'[Dir(b).o + t + 1].at - 1) : Hi(a) < SlotStart(b, t)
               /\ \A a \in l2'[Dir(b).o + t + 1].at..(n - 1) : Hi(a) >= SlotStart(b, t)
    BY <1>2, <2>1, <2>2, SplitsAre
  <2>. QED  BY <1>1, <2>3, SplitsNext
<1>11. FlagRight'
  <2>1. Len(l2') = Slots + 1 /\ l2'[Slots + 1].at = n
    BY <1>2, <1>6
  <2>2. 0 \in 0..Len(ExcIdx)
    BY <1>2, Exceptions
  <2>3. exc = {ExcIdx[x] : x \in 1..0}
    BY <1>2
  <2>4. ASSUME NEW s \in 0..(Slots - 1) PROVE ~l2'[s + 1].exc
    <3>1. s + 1 \in 1..Len(l2) /\ s + 1 \in DOMAIN l2
      BY <1>2, <1>3, <1>5
    <3>. QED  BY <1>2, <1>6, <3>1
  <2>5. ASSUME NEW s \in 0..(Slots - 1) PROVE ~(\E x \in 1..0 : (SlotOf(Hi(ExcIdx[x])) = s)')
    OBVIOUS
  <2>. QED  BY <1>1, <1>4, <2>1, <2>2, <2>3, <2>4, <2>5 DEF FlagRight, L2
<1>12. (SearchRight /\ LastAtOrBelow)'
  BY <1>1 DEF SearchRight, LastAtOrBelow
<1>. QED  BY <1>4, <1>7, <1>8, <1>9, <1>10, <1>11, <1>12 DEF IInv

LEMMA FlagExceptionStep ==
  ASSUME IInv, FlagException
  PROVE  IInv'
<1> DEFINE c == ExcIdx[j + 1]
           s == SlotOf(Hi(c))
<1>1. /\ pc = "flag" /\ j < Len(ExcIdx) /\ exc' = exc \union {c}
      /\ l2' = [l2 EXCEPT ![s + 1].exc = TRUE] /\ j' = j + 1
      /\ starts' = starts /\ dir' = dir /\ pc' = pc /\ i' = i /\ g' = g
      /\ UNCHANGED search
  BY DEF FlagException
<1>2. /\ Types /\ DirRight /\ starts \in StartLists /\ NextDir = Buckets
      /\ Len(l2) = Slots + 1 /\ L2(Slots).at = n /\ SlotsSplit
      /\ j \in 0..Len(ExcIdx) /\ exc = {ExcIdx[e] : e \in 1..j}
      /\ \A u \in 0..(Slots - 1) :
           L2(u).exc <=> \E e \in 1..j : SlotOf(Hi(ExcIdx[e])) = u
  BY <1>1 DEF IInv, Types, SizeRight, FlagRight
<1>3. /\ n \in Nat /\ Slots \in Nat
      /\ ExcIdx \in Seq(0..(n - 1)) /\ Len(ExcIdx) <= n /\ Len(ExcIdx) \in Nat
  BY <1>2, StartFacts, DirFacts, Exceptions
<1>4. /\ DirRight' /\ FewSlots'
      /\ n' = n /\ (\A b : Hi(b)' = Hi(b))
      /\ (\A hi : SlotOf(hi)' = SlotOf(hi))
      /\ NextDir' = NextDir /\ Slots' = Slots /\ ExcIdx' = ExcIdx
  BY <1>1, DirKept
<1>5. j + 1 \in 1..Len(ExcIdx) /\ j + 1 \in 0..Len(ExcIdx) /\ j + 1 \in 0..n /\ j \in Nat
  BY <1>1, <1>2, <1>3
<1>6. c \in 0..(n - 1)
  BY <1>3, <1>5, Element
<1> HIDE DEF c
<1>7. s \in 0..(Slots - 1)
  <2>1. Hi(c) \in 0..(Buckets * BucketSize - 1)
    BY <1>2, <1>6, StartFacts
  <2>2. Filled
    BY <1>2 DEF Filled
  <2>. QED  BY <2>1, <2>2, SlotOfFacts
<1> HIDE DEF s
<1>8. l2 \in Seq([at : 0..n, exc : BOOLEAN]) /\ s + 1 \in 1..Len(l2)
  BY <1>2, <1>3, <1>7 DEF Types
<1>9. /\ l2' \in Seq([at : 0..n, exc : BOOLEAN]) /\ Len(l2') = Len(l2)
      /\ \A x \in 1..Len(l2) : /\ l2'[x].at = l2[x].at
                               /\ l2'[x].exc <=> x = s + 1 \/ l2[x].exc
  <2> DEFINE e == [l2[s + 1] EXCEPT !.exc = TRUE]
  <2>1. \A x \in 1..Len(l2) : l2[x] \in [at : 0..n, exc : BOOLEAN]
    BY <1>8, Element
  <2>2. /\ e \in [at : 0..n, exc : BOOLEAN] /\ e.at = l2[s + 1].at /\ e.exc = TRUE
        /\ l2' = [l2 EXCEPT ![s + 1] = e]
    BY <1>1, <1>8, <2>1
  <2> HIDE DEF e
  <2>3. /\ l2' \in Seq([at : 0..n, exc : BOOLEAN]) /\ Len(l2') = Len(l2)
        /\ l2'[s + 1] = e /\ \A x \in 1..Len(l2) : x # s + 1 => l2'[x] = l2[x]
    BY <1>8, <2>2, Replaced
  <2>4. ASSUME NEW x \in 1..Len(l2)
        PROVE  /\ l2'[x].at = l2[x].at
               /\ l2'[x].exc <=> x = s + 1 \/ l2[x].exc
    <3>1. CASE x = s + 1
      BY <2>2, <2>3, <3>1
    <3>2. CASE x # s + 1
      BY <2>3, <3>2
    <3>. QED  BY <3>1, <3>2
  <2>. QED  BY <2>3, <2>4
<1>10. Types'
  <2>1. exc' \subseteq 0..(n - 1)
    BY <1>1, <1>2, <1>6 DEF Types
  <2>. QED  BY <1>1, <1>2, <1>4, <1>5, <1>9, <2>1 DEF Types, search
<1>11. SizeRight' /\ FillRight'
  BY <1>1, <1>2, <1>4 DEF SizeRight, FillRight
<1>12. SlotsSplit'
  <2>1. ASSUME NEW b \in 0..(NextDir - 1), NEW t \in 0..(SlotCount(b) - 1)
        PROVE  /\ Dir(b).o + t < Len(l2)
               /\ l2'[Dir(b).o + t + 1].at = L2(Dir(b).o + t).at
    <3>1. Dir(b).o \in Nat /\ SlotCount(b) \in Nat \ {0} /\ t \in Nat
      BY <1>2, SlotFacts
    <3>2. Dir(b).o + SlotCount(b) <= Slots
      BY <1>2, DirFacts
    <3>3. Dir(b).o + t < Len(l2) /\ Dir(b).o + t + 1 \in 1..Len(l2)
      BY <1>2, <1>3, <3>1, <3>2, SMTT(30)
    <3>. QED  BY <1>9, <3>3 DEF L2
  <2>2. ASSUME NEW b \in 0..(NextDir - 1), NEW t \in 0..(SlotCount(b) - 1)
        PROVE  /\ \A a \in 0..(l2'[Dir(b).o + t + 1].at - 1) : Hi(a) < SlotStart(b, t)
               /\ \A a \in l2'[Dir(b).o + t + 1].at..(n - 1) : Hi(a) >= SlotStart(b, t)
    BY <1>2, <2>1, SplitsAre
  <2>. QED  BY <1>1, <2>2, SplitsNext
<1>13. FlagRight'
  <2>1. Len(l2') = Slots + 1 /\ l2'[Slots + 1].at = n
    <3>1. Slots + 1 \in 1..Len(l2)
      BY <1>2, <1>3
    <3>. QED  BY <1>2, <1>9, <3>1 DEF L2
  <2>2. exc' = {ExcIdx[e] : e \in 1..(j + 1)}
    <3>1. 1..(j + 1) = (1..j) \union {j + 1}
      BY <1>5
    <3>. QED  BY <1>1, <1>2, <3>1 DEF c
  <2>3. ASSUME NEW u \in 0..(Slots - 1)
        PROVE  l2'[u + 1].exc <=> \E e \in 1..(j + 1) : SlotOf(Hi(ExcIdx[e])) = u
    <3>1. u + 1 \in 1..Len(l2) /\ (u + 1 = s + 1 <=> u = s)
      BY <1>2, <1>3, <1>7
    <3>2. l2'[u + 1].exc <=> u = s \/ L2(u).exc
      BY <1>9, <3>1 DEF L2
    <3>3. \A e \in 1..(j + 1) : e \in 1..j \/ e = j + 1
      BY <1>5
    <3>4. \A e \in 1..j : e \in 1..(j + 1)
      BY <1>5
    <3>5. j + 1 \in 1..(j + 1)
      BY <1>5
    <3>. QED  BY <1>2, <3>2, <3>3, <3>4, <3>5 DEF s, c
  <2>. QED  BY <1>1, <1>4, <1>5, <2>1, <2>2, <2>3 DEF FlagRight, L2
<1>14. (SearchRight /\ LastAtOrBelow)'
  BY <1>1 DEF SearchRight, LastAtOrBelow
<1>. QED  BY <1>4, <1>10, <1>11, <1>12, <1>13, <1>14 DEF IInv

LEMMA EndFlagStep ==
  ASSUME IInv, EndFlag
  PROVE  IInv'
<1>1. /\ pc = "flag" /\ j = Len(ExcIdx) /\ pc' = "ready"
      /\ UNCHANGED tables /\ UNCHANGED build /\ UNCHANGED search
  BY DEF EndFlag
<1>2. /\ starts' = starts /\ dir' = dir /\ l2' = l2 /\ exc' = exc
      /\ i' = i /\ j' = j /\ g' = g
  BY <1>1 DEF tables, build
<1>3. /\ DirRight' /\ FewSlots'
      /\ n' = n /\ (\A b : Hi(b)' = Hi(b))
      /\ (\A hi : SlotOf(hi)' = SlotOf(hi))
      /\ NextDir' = NextDir /\ Slots' = Slots /\ ExcIdx' = ExcIdx
  BY <1>2, DirKept
<1>4. Types'
  BY <1>1, <1>2, <1>3 DEF IInv, Types, search
<1>5. SizeRight' /\ FillRight'
  BY <1>1, <1>3 DEF IInv, SizeRight, FillRight
<1>6. SlotsSplit'
  BY <1>2 DEF IInv, SlotsSplit, Dir, Hi, n, L2
<1>7. FlagRight'
  <2>1. FlagRight
    BY DEF IInv
  <2>. QED  BY <1>1, <1>2, <1>3, <2>1 DEF FlagRight, L2
<1>8. (SearchRight /\ LastAtOrBelow)'
  BY <1>1 DEF SearchRight, LastAtOrBelow
<1>. QED  BY <1>3, <1>4, <1>5, <1>6, <1>7, <1>8 DEF IInv

-----------------------------------------------------------------------------
(* v6L2Bits gives a bucket with more starts than one slot is for fewer     *)
(* than twice the slots asked for.                                         *)
LEMMA L2BitsFacts ==
  ASSUME NEW count \in Nat
  PROVE  /\ L2Bits(count) \in 0..MaxL2Bits
         /\ count > SlotStarts => 2^L2Bits(count) * SlotStarts < 2 * count
<1> DEFINE Enough(k) == k = MaxL2Bits \/ count <= SlotStarts * 2^k
           T == {k \in 0..MaxL2Bits : Enough(k)}
           k == L2Bits(count)
<1>1. MaxL2Bits \in Nat /\ SlotStarts \in Nat \ {0}
  BY Sizes
<1>2. \E x \in T : \A y \in T : x <= y
  <2>1. T \in SUBSET Nat /\ MaxL2Bits \in T
    BY <1>1
  <2> HIDE DEF T
  <2>. QED  BY <2>1, LeastNumber
<1>3. PICK x \in T : \A y \in T : x <= y
  BY <1>2
<1>4. ASSUME NEW m \in 0..(x - 1) PROVE count > SlotStarts * 2^m
  <2>1. x \in 0..MaxL2Bits /\ m \in 0..MaxL2Bits /\ m # MaxL2Bits /\ ~(x <= m) /\ m \in Nat
    BY <1>1
  <2>2. m \notin T
    BY <1>3, <2>1
  <2>3. ~(count <= SlotStarts * 2^m)
    BY <2>1, <2>2
  <2>4. 2^m \in Nat
    BY <2>1, PowerPositive
  <2>5. SlotStarts * 2^m \in Nat
    BY <1>1, <2>4
  <2>. QED  BY <2>3, <2>5
<1>5. /\ k \in 0..MaxL2Bits
      /\ \A m \in 0..(k - 1) : count > SlotStarts * 2^m
  <2>1. x \in 0..MaxL2Bits /\ (x = MaxL2Bits \/ count <= SlotStarts * 2^x)
    OBVIOUS
  <2>. QED  BY <1>4, <2>1 DEF L2Bits
<1> HIDE DEF k
<1>6. ASSUME count > SlotStarts PROVE 2^k * SlotStarts < 2 * count
  <2>1. CASE k = 0
    <3>1. 2^k = 1
      BY <2>1, PowerZero
    <3>. QED  BY <1>1, <1>6, <3>1
  <2>2. CASE k # 0
    <3>1. k - 1 \in 0..(k - 1) /\ k - 1 \in Nat /\ (k - 1) + 1 = k
      BY <1>1, <1>5, <2>2
    <3>2. count > SlotStarts * 2^(k - 1)
      BY <1>5, <3>1
    <3>3. 2^k = 2 * 2^(k - 1) /\ 2^(k - 1) \in Nat
      <4>1. 2^((k - 1) + 1) = 2 * 2^(k - 1)
        BY <3>1, PowerDoubles
      <4>2. 2^(k - 1) \in Nat
        BY <3>1, PowerPositive
      <4>. QED  BY <3>1, <4>1, <4>2
    <3>4. \A p \in Nat : (2 * p) * SlotStarts = 2 * (SlotStarts * p) /\ SlotStarts * p \in Nat
      BY <1>1
    <3>5. 2^k * SlotStarts = 2 * (SlotStarts * 2^(k - 1)) /\ SlotStarts * 2^(k - 1) \in Nat
      BY <3>3, <3>4
    <3>. QED  BY <3>2, <3>5
  <2>. QED  BY <2>1, <2>2
<1>. QED  BY <1>5, <1>6 DEF k

LEMMA CountStartStep ==
  ASSUME IInv, CountStart
  PROVE  IInv'
<1>1. /\ pc = "size" /\ NextDir < Buckets /\ j < n /\ Top(j) = NextDir
      /\ j' = j + 1 /\ UNCHANGED tables /\ pc' = pc /\ i' = i /\ g' = g
      /\ UNCHANGED search
  BY DEF CountStart
<1>2. /\ starts' = starts /\ dir' = dir /\ l2' = l2 /\ exc' = exc
  BY <1>1 DEF tables
<1>3. /\ Types /\ starts \in StartLists /\ i \in 0..n /\ j \in 0..n
      /\ i <= j /\ g = 0 /\ l2 = <<>> /\ exc = {}
  BY <1>1 DEF IInv, Types, SizeRight
<1>4. /\ \A a \in 0..(i - 1) : Top(a) < NextDir
      /\ \A a \in i..(j - 1) : Top(a) = NextDir
      /\ \A a \in j..(n - 1) : Top(a) >= NextDir
  BY <1>1 DEF IInv, SizeRight
<1>5. n \in Nat
  BY <1>3, StartFacts
<1>6. /\ DirRight' /\ FewSlots'
      /\ n' = n /\ (\A b : Top(b)' = Top(b)) /\ NextDir' = NextDir
  BY <1>2, DirKept
<1>7. Types'
  <2>1. j + 1 \in 0..n
    BY <1>1, <1>3, <1>5
  <2>. QED  BY <1>1, <1>2, <1>3, <1>6, <2>1 DEF Types, search
<1>8. SizeRight'
  <2>1. ASSUME NEW a \in i..((j + 1) - 1) PROVE Top(a) = NextDir
    <3>1. a = j \/ a \in i..(j - 1)
      BY <1>3, <1>5
    <3>. QED  BY <1>1, <1>4, <3>1
  <2>2. \A a \in (j + 1)..(n - 1) : Top(a) >= NextDir
    BY <1>3, <1>4, <1>5
  <2>3. i <= j + 1
    BY <1>3, <1>5
  <2>. QED  BY <1>1, <1>2, <1>3, <1>4, <1>6, <2>1, <2>2, <2>3 DEF SizeRight
<1>9. SlotsSplit'
  BY <1>2 DEF IInv, SlotsSplit, Dir, Hi, n, L2
<1>10. (FillRight /\ FlagRight /\ SearchRight /\ LastAtOrBelow)'
  BY <1>1 DEF FillRight, FlagRight, SearchRight, LastAtOrBelow
<1>. QED  BY <1>6, <1>7, <1>8, <1>9, <1>10 DEF IInv

LEMMA SizeBucketStep ==
  ASSUME IInv, SizeBucket
  PROVE  IInv'
<1>1. /\ pc = "size" /\ NextDir < Buckets /\ ~(j < n /\ Top(j) = NextDir)
      /\ dir' = Append(dir, [o |-> Slots, k |-> L2Bits(j - i)])
      /\ i' = j /\ starts' = starts /\ l2' = l2 /\ exc' = exc /\ pc' = pc
      /\ j' = j /\ g' = g /\ UNCHANGED search
  BY DEF SizeBucket
<1>2. /\ Types /\ DirRight /\ FewSlots /\ starts \in StartLists
      /\ i \in 0..n /\ j \in 0..n /\ i <= j /\ g = 0 /\ l2 = <<>> /\ exc = {}
  BY <1>1 DEF IInv, Types, SizeRight
<1>3. /\ \A a \in 0..(i - 1) : Top(a) < NextDir
      /\ \A a \in i..(j - 1) : Top(a) = NextDir
      /\ \A a \in j..(n - 1) : Top(a) >= NextDir
  BY <1>1 DEF IInv, SizeRight
<1>4. /\ n \in Nat /\ Slots \in Nat /\ NextDir \in Nat /\ Buckets \in Nat
      /\ dir \in Seq([o : Nat, k : 0..MaxL2Bits]) /\ NextDir = Len(dir)
      /\ (dir = <<>> <=> NextDir = 0)
  BY <1>2, StartFacts, DirFacts, Sizes DEF Types, NextDir
<1>5. PICK N \in Nat : N = NextDir
  BY <1>4
<1>6. PICK from \in Nat : from = Slots
  BY <1>4
<1>7. PICK k \in 0..MaxL2Bits :
        /\ k = L2Bits(j - i)
        /\ j - i > SlotStarts => 2^k * SlotStarts < 2 * (j - i)
  <2>1. j - i \in Nat
    BY <1>2, <1>4
  <2>. QED  BY <2>1, L2BitsFacts
<1> DEFINE d == [o |-> from, k |-> k]
<1>8. d \in [o : Nat, k : 0..MaxL2Bits] /\ dir' = Append(dir, d)
  BY <1>1, <1>6, <1>7
<1>9. /\ dir' \in Seq([o : Nat, k : 0..MaxL2Bits]) /\ Len(dir') = N + 1
      /\ dir'[N + 1] = d /\ \A x \in 1..N : dir'[x] = dir[x]
  <2> HIDE DEF d
  <2>. QED  BY <1>4, <1>5, <1>8, Appended
<1>10. /\ NextDir' = N + 1 /\ dir' # <<>>
       /\ Dir(N)'.o = from /\ Dir(N)'.k = k
       /\ \A b \in 0..(N - 1) : Dir(b)' = Dir(b) /\ SlotCount(b)' = SlotCount(b)
       /\ SlotCount(N)' = 2^k
  <2>1. \A b \in 0..(N - 1) : b + 1 \in 1..N
    BY <1>5
  <2>2. \A b \in 0..(N - 1) : Dir(b)' = Dir(b)
    BY <1>9, <2>1 DEF Dir
  <2>3. Dir(N)'.o = from /\ Dir(N)'.k = k
    BY <1>9 DEF Dir
  <2>4. dir' # <<>>
    BY <1>9
  <2>. QED  BY <1>9, <2>2, <2>3, <2>4 DEF SlotCount, NextDir
<1>11. Slots' = from + 2^k /\ 2^k \in Nat \ {0}
  <2>1. (N + 1) - 1 = N /\ k \in Nat
    BY <1>7, Sizes
  <2>2. Slots' = Dir(N)'.o + 2^Dir(N)'.k
    BY <1>9, <1>10, <2>1 DEF Slots, NextDir, Dir
  <2>. QED  BY <1>10, <2>1, <2>2, PowerPositive
<1>12. /\ \A b \in 0..(N - 1) : /\ Dir(b).o \in Nat /\ SlotCount(b) \in Nat \ {0}
                                /\ Dir(b).o + SlotCount(b) <= from
       /\ N > 0 => from = Dir(N - 1).o + SlotCount(N - 1)
       /\ N = 0 => from = 0
  <2>1. N = 0 => from = 0
    BY <1>4, <1>5, <1>6 DEF Slots
  <2>2. \A b \in 0..(N - 1) : Dir(b).o \in Nat /\ SlotCount(b) \in Nat \ {0}
    BY <1>2, <1>5, SlotFacts
  <2>3. /\ \A b \in 0..(N - 1) : Dir(b).o + SlotCount(b) <= from
        /\ N > 0 => from = Dir(N - 1).o + SlotCount(N - 1)
    BY <1>2, <1>5, <1>6, DirFacts
  <2>. QED  BY <2>1, <2>2, <2>3
<1>13. n' = n /\ (\A b : Top(b)' = Top(b))
  BY <1>1 DEF n, Top, Hi
<1>14. DirRight'
  <2>1. Dir(0)'.o = 0
    <3>1. CASE N = 0
      BY <1>10, <1>12, <3>1
    <3>2. CASE N # 0
      <4>1. 0 \in 0..(N - 1)
        BY <3>2
      <4>2. Dir(0).o = 0
        BY <1>2, <1>4, <1>5, <3>2 DEF DirRight
      <4>. QED  BY <1>10, <4>1, <4>2
    <3>. QED  BY <3>1, <3>2
  <2>2. ASSUME NEW b \in 0..N, NEW c \in 0..N, b < c
        PROVE  /\ c = b + 1 => Dir(c)'.o = Dir(b)'.o + SlotCount(b)'
               /\ Dir(b)'.o + SlotCount(b)' <= Dir(c)'.o
    <3>1. b \in 0..(N - 1) /\ (c = N \/ c \in 0..(N - 1))
      BY <2>2
    <3>2. CASE c = N
      <4>1. c = b + 1 => b = N - 1 /\ N > 0
        BY <3>1, <3>2
      <4>2. Dir(b)' = Dir(b) /\ SlotCount(b)' = SlotCount(b) /\ Dir(c)'.o = from
        BY <1>10, <3>1, <3>2
      <4>3. Dir(b).o + SlotCount(b) <= from
        BY <1>12, <3>1
      <4>4. N > 0 => from = Dir(N - 1).o + SlotCount(N - 1)
        BY <1>12
      <4>. QED  BY <4>1, <4>2, <4>3, <4>4
    <3>3. CASE c \in 0..(N - 1)
      <4>1. /\ c = b + 1 => Dir(c).o = Dir(b).o + SlotCount(b)
            /\ Dir(b).o + SlotCount(b) <= Dir(c).o
        BY <1>2, <1>5, <2>2, <3>1, <3>3 DEF DirRight
      <4>. QED  BY <1>10, <3>1, <3>3, <4>1
    <3>. QED  BY <3>1, <3>2, <3>3
  <2>3. ASSUME NEW s \in 0..(from + 2^k - 1)
        PROVE  \E b \in 0..N : s \in Dir(b)'.o..(Dir(b)'.o + SlotCount(b)' - 1)
    <3>1. CASE s < from
      <4>1. s \in 0..(Slots - 1)
        BY <1>6, <1>11, <3>1
      <4>2. PICK b \in 0..(NextDir - 1) : s \in Dir(b).o..(Dir(b).o + SlotCount(b) - 1)
        BY <1>2, <4>1 DEF DirRight
      <4>3. b \in 0..N /\ b \in 0..(N - 1)
        BY <1>5
      <4>. QED  BY <1>10, <4>2, <4>3
    <3>2. CASE ~(s < from)
      <4>1. N \in 0..N /\ s \in from..(from + 2^k - 1)
        BY <1>11, <3>2
      <4>. QED  BY <1>10, <4>1
    <3>. QED  BY <3>1, <3>2
  <2>4. (N + 1) - 1 = N
    OBVIOUS
  <2>5. \A b, c \in 0..N : c = b + 1 => b < c
    OBVIOUS
  <2>6. /\ \A b, c \in 0..(NextDir' - 1) : c = b + 1 => Dir(c)'.o = Dir(b)'.o + SlotCount(b)'
        /\ \A b, c \in 0..(NextDir' - 1) : b < c => Dir(b)'.o + SlotCount(b)' <= Dir(c)'.o
    BY <1>10, <2>2, <2>4, <2>5
  <2>7. \A s \in 0..(Slots' - 1) :
          \E b \in 0..(NextDir' - 1) : s \in Dir(b)'.o..(Dir(b)'.o + SlotCount(b)' - 1)
    BY <1>10, <1>11, <2>3, <2>4
  <2>. QED  BY <2>1, <2>6, <2>7 DEF DirRight
<1>15. ASSUME NEW a \in j..(n - 1) PROVE Top(a) >= NextDir + 1
  <2>1. j \in 0..(n - 1) /\ a \in 0..(n - 1) /\ j <= a /\ j \in j..(n - 1) /\ j < n
    BY <1>2, <1>4
  <2>2. Top(j) \in Nat /\ Top(a) \in Nat /\ Top(j) <= Top(a)
    BY <1>2, <2>1, StartFacts, TopMono
  <2>3. Top(j) >= NextDir /\ Top(j) # NextDir
    BY <1>1, <1>3, <2>1
  <2>. QED  BY <1>4, <2>2, <2>3
<1>16. {a \in 0..(n - 1) : Top(a) = N} = i..(j - 1)
  <2>1. ASSUME NEW a \in 0..(n - 1), Top(a) = N PROVE a \in i..(j - 1)
    <3>1. ~(a \in 0..(i - 1))
      BY <1>3, <1>4, <1>5, <2>1
    <3>2. ~(a \in j..(n - 1))
      BY <1>4, <1>5, <1>15, <2>1
    <3>. QED  BY <1>2, <1>4, <3>1, <3>2
  <2>2. ASSUME NEW a \in i..(j - 1) PROVE a \in 0..(n - 1) /\ Top(a) = N
    BY <1>2, <1>3, <1>4, <1>5
  <2>. QED  BY <2>1, <2>2
<1>17. Cardinality(i..(j - 1)) = j - i
  <2>1. i \in Int /\ j - 1 \in Int
    BY <1>2, <1>4
  <2>2. Cardinality(i..(j - 1)) = IF i > j - 1 THEN 0 ELSE (j - 1) - i + 1
    BY <2>1, FS_Interval
  <2>. QED  BY <1>2, <1>4, <2>2
<1>18. FewSlots'
  <2>1. ASSUME NEW b \in 0..N
        PROVE  LET c == Cardinality({a \in 0..(n - 1) : Top(a) = b})
               IN  c > SlotStarts => 2^Dir(b)'.k * SlotStarts < 2 * c
    <3>1. CASE b = N
      BY <1>7, <1>10, <1>16, <1>17, <3>1
    <3>2. CASE b # N
      <4>1. b \in 0..(N - 1) /\ b \in 0..(Len(dir) - 1)
        BY <1>4, <1>5, <3>2
      <4>. QED  BY <1>2, <1>10, <4>1 DEF FewSlots
    <3>. QED  BY <3>1, <3>2
  <2>2. Len(dir') - 1 = N
    BY <1>9
  <2>. QED  BY <1>1, <2>1, <2>2 DEF FewSlots, n, Top, Hi
<1>19. Types'
  <2>1. N + 1 <= Buckets
    BY <1>1, <1>4, <1>5
  <2>. QED  BY <1>1, <1>2, <1>9, <1>13, <2>1 DEF Types, search
<1>20. SizeRight'
  <2>1. ASSUME NEW a \in 0..(j - 1) PROVE Top(a) < N + 1
    <3>1. a \in 0..(i - 1) \/ a \in i..(j - 1)
      BY <1>2, <1>4
    <3>2. Top(a) = N \/ Top(a) < N
      BY <1>3, <1>5, <3>1
    <3>3. Top(a) \in Nat
      BY <1>2, <1>4, StartFacts
    <3>. QED  BY <3>2, <3>3
  <2>2. \A a \in j..(j - 1) : FALSE
    BY <1>2, <1>4
  <2>3. \A a \in j..(n - 1) : Top(a) >= N + 1
    BY <1>5, <1>15
  <2>4. j <= j
    BY <1>2, <1>4
  <2>. QED  BY <1>1, <1>2, <1>10, <1>13, <2>1, <2>2, <2>3, <2>4 DEF SizeRight
<1>21. SlotsSplit'
  <2>1. ASSUME NEW b \in 0..N, NEW s \in 0..(2^Dir(b)'.k - 1)
        PROVE  ~(Dir(b)'.o + s < Len(l2'))
    <3>1. Dir(b)'.o \in Nat /\ s \in Nat
      <4>1. CASE b = N
        BY <1>10, <1>11, <4>1
      <4>2. CASE b # N
        <5>1. b \in 0..(N - 1)
          BY <4>2
        <5>2. 2^Dir(b)'.k = SlotCount(b)
          BY <1>10, <5>1 DEF SlotCount
        <5>. QED  BY <1>10, <1>12, <5>1, <5>2, SMTT(30)
      <4>. QED  BY <4>1, <4>2
    <3>2. Len(l2') = 0
      BY <1>1, <1>2
    <3>. QED  BY <3>1, <3>2
  <2>2. Len(dir') - 1 = N
    BY <1>9
  <2>. QED  BY <2>1, <2>2 DEF SlotsSplit
<1>22. (FillRight /\ FlagRight /\ SearchRight /\ LastAtOrBelow)'
  BY <1>1 DEF FillRight, FlagRight, SearchRight, LastAtOrBelow
<1>. QED  BY <1>14, <1>18, <1>19, <1>20, <1>21, <1>22 DEF IInv

LEMMA StartFillStep ==
  ASSUME IInv, StartFill
  PROVE  IInv'
<1>1. /\ pc = "size" /\ NextDir = Buckets /\ pc' = "fill" /\ i' = 0
      /\ UNCHANGED tables /\ j' = j /\ g' = g /\ UNCHANGED search
  BY DEF StartFill
<1>2. /\ starts' = starts /\ dir' = dir /\ l2' = l2 /\ exc' = exc
  BY <1>1 DEF tables
<1>3. /\ Types /\ DirRight /\ starts \in StartLists
      /\ g = 0 /\ l2 = <<>> /\ exc = {}
  BY <1>1 DEF IInv, Types, SizeRight
<1>4. n \in Nat /\ Buckets \in Nat \ {0} /\ dir # <<>>
  BY <1>1, <1>3, StartFacts, Sizes DEF NextDir
<1>5. /\ DirRight' /\ FewSlots'
      /\ n' = n /\ (\A b : Hi(b)' = Hi(b)) /\ (\A b : Top(b)' = Top(b))
      /\ (\A b : Dir(b)' = Dir(b)) /\ (\A b : SlotCount(b)' = SlotCount(b))
      /\ NextDir' = NextDir
  BY <1>2, DirKept
<1>6. Types'
  <2>1. 0 \in 0..n
    BY <1>4
  <2>. QED  BY <1>1, <1>2, <1>3, <1>5, <2>1 DEF Types, search
<1>7. SizeRight'
  BY <1>1, <1>5 DEF SizeRight
<1>8. FillRight'
  <2>1. Dir(0).o = 0 /\ 0 \in 0..(NextDir - 1)
    BY <1>1, <1>3, <1>4 DEF DirRight
  <2>2. SlotCount(0) \in Nat
    BY <1>3, <2>1, SlotFacts
  <2>3. \A a \in 0..(n - 1) : Top(a) >= 0
    BY <1>3, StartFacts
  <2>4. Len(l2) = 0 /\ DOMAIN l2 = {} /\ 0 # Buckets
    BY <1>3, <1>4
  <2>. QED  BY <1>1, <1>2, <1>3, <1>5, <2>1, <2>2, <2>3, <2>4 DEF FillRight
<1>9. SlotsSplit'
  BY <1>2 DEF IInv, SlotsSplit, Dir, Hi, n, L2
<1>10. (FlagRight /\ SearchRight /\ LastAtOrBelow)'
  BY <1>1 DEF FlagRight, SearchRight, LastAtOrBelow
<1>. QED  BY <1>5, <1>6, <1>7, <1>8, <1>9, <1>10 DEF IInv

-----------------------------------------------------------------------------
LEMMA InitInv == Init => IInv
<1> SUFFICES ASSUME Init PROVE IInv
  OBVIOUS
<1>1. /\ starts \in StartLists /\ dir = <<>> /\ l2 = <<>> /\ exc = {} /\ pc = "size"
      /\ i = 0 /\ j = 0 /\ g = 0 /\ key = [hi |-> 0, lo |-> 0]
      /\ l = 0 /\ h = 0 /\ first = 0 /\ answer = 0
  BY DEF Init
<1>2. n \in Nat /\ NextDir = 0 /\ Slots = 0 /\ Len(dir) = 0 /\ 0 \in 0..n
  BY <1>1, StartFacts DEF NextDir, Slots
<1>3. Buckets \in Nat /\ 0 \in 0..Buckets /\ 0 <= Buckets
  BY Sizes
<1>4. key \in Addresses
  BY <1>1, Sizes DEF Addresses
<1>5. Types
  BY <1>1, <1>2, <1>3, <1>4 DEF Types
<1>6. DirRight
  BY <1>1, <1>2 DEF DirRight
<1>7. FewSlots /\ SlotsSplit
  BY <1>2 DEF FewSlots, SlotsSplit
<1>8. SizeRight
  <2>1. \A a \in 0..(n - 1) : Top(a) >= 0
    BY <1>1, StartFacts
  <2>. QED  BY <1>1, <1>2, <2>1 DEF SizeRight
<1>9. FillRight /\ FlagRight /\ SearchRight /\ LastAtOrBelow
  BY <1>1 DEF FillRight, FlagRight, SearchRight, LastAtOrBelow
<1>. QED  BY <1>5, <1>6, <1>7, <1>8, <1>9 DEF IInv

LEMMA NextInv == IInv /\ [Next]_vars => IInv'
<1> SUFFICES ASSUME IInv, [Next]_vars PROVE IInv'
  OBVIOUS
<1>1. CASE CountStart
  BY <1>1, CountStartStep
<1>2. CASE SizeBucket
  BY <1>2, SizeBucketStep
<1>3. CASE StartFill
  BY <1>3, StartFillStep
<1>4. CASE SkipStart
  BY <1>4, SkipStartStep
<1>5. CASE FillSlot
  BY <1>5, FillSlotStep
<1>6. CASE NextBucket
  BY <1>6, NextBucketStep
<1>7. CASE EndFill
  BY <1>7, EndFillStep
<1>8. CASE FlagException
  BY <1>8, FlagExceptionStep
<1>9. CASE EndFlag
  BY <1>9, EndFlagStep
<1>10. CASE \E a \in Addresses : Lookup(a)
  BY <1>10, LookupStep
<1>11. CASE HalveDown
  BY <1>11, HalveDownStep
<1>12. CASE HalveUp
  BY <1>12, HalveUpStep
<1>13. CASE EndHalving
  BY <1>13, EndHalvingStep
<1>14. CASE StepBack
  BY <1>14, StepBackStep
<1>15. CASE EndStepBack
  BY <1>15, EndStepBackStep
<1>16. CASE UNCHANGED vars
  <2>1. UNCHANGED <<starts, dir, l2, exc, pc, i, j, g, key, l, h, first, answer>>
    BY <1>16 DEF vars, tables, build, search
  <2>2. /\ DirRight' /\ FewSlots' /\ n' = n /\ (\A b : Hi(b)' = Hi(b))
        /\ (\A b : Top(b)' = Top(b)) /\ (\A b : Dir(b)' = Dir(b))
        /\ (\A b : SlotCount(b)' = SlotCount(b))
        /\ (\A b, t : SlotStart(b, t)' = SlotStart(b, t))
        /\ (\A hi : SlotOf(hi)' = SlotOf(hi))
        /\ ExcIdx' = ExcIdx /\ NextDir' = NextDir /\ Slots' = Slots
    BY <2>1, DirKept
  <2>3. Types' /\ SizeRight'
    BY <2>1, <2>2 DEF IInv, Types, SizeRight
  <2>4. FillRight'
    BY <2>1, <2>2 DEF IInv, FillRight
  <2>5. SlotsSplit'
    BY <2>1 DEF IInv, SlotsSplit, Dir, Hi, n, L2
  <2>6. FlagRight'
    BY <2>1, <2>2 DEF IInv, FlagRight, L2
  <2>7. SearchRight' /\ LastAtOrBelow'
    BY <2>1, <2>2 DEF IInv, SearchRight, LastAtOrBelow, L2
  <2>. QED  BY <2>2, <2>3, <2>4, <2>5, <2>6, <2>7 DEF IInv
<1>. QED  BY <1>1, <1>2, <1>3, <1>4, <1>5, <1>6, <1>7, <1>8, <1>9, <1>10, <1>11,
             <1>12, <1>13, <1>14, <1>15, <1>16 DEF Next

-----------------------------------------------------------------------------
(* In every state the directory, the slots, the flags and the search are   *)
(* as far as the index is built and the key is looked up                   *)
(* (reader.go:217-394).                                                    *)
THEOREM Invariance == Spec => []IInv
<1>. QED  BY InitInv, NextInv, PTL DEF Spec

(* Every index that buildIndex6, buildIndex and search6 compute stays      *)
(* inside its table.                                                       *)
THEOREM IndexesInRange == Spec => []TypeOK
<1>1. IInv => TypeOK
  <2> SUFFICES ASSUME IInv PROVE TypeOK
    OBVIOUS
  <2>1. Types
    BY DEF IInv
  <2>2. ASSUME NEW b \in DOMAIN dir PROVE dir[b].k \in 0..MaxL2Bits
    <3>1. dir \in Seq([o : Nat, k : 0..MaxL2Bits])
      BY <2>1 DEF Types
    <3>2. b \in 1..Len(dir)
      BY <3>1
    <3>3. dir[b] \in [o : Nat, k : 0..MaxL2Bits]
      BY <3>1, <3>2, Element
    <3>. QED  BY <3>3
  <2>3. ASSUME NEW s \in DOMAIN l2 PROVE l2[s].at \in 0..n /\ l2[s].exc \in BOOLEAN
    <3>1. l2 \in Seq([at : 0..n, exc : BOOLEAN])
      BY <2>1 DEF Types
    <3>2. s \in 1..Len(l2)
      BY <3>1
    <3>3. l2[s] \in [at : 0..n, exc : BOOLEAN]
      BY <3>1, <3>2, Element
    <3>. QED  BY <3>3
  <2>. QED  BY <2>1, <2>2, <2>3 DEF Types, TypeOK
<1>. QED  BY <1>1, Invariance, PTL

(* A bucket with more starts than a slot is for gets fewer than twice the  *)
(* slots asked for (reader.go:342).                                        *)
THEOREM SlotsAreFew == Spec => []FewSlots
<1>1. IInv => FewSlots
  BY DEF IInv
<1>. QED  BY <1>1, Invariance, PTL

(* Every slot's entry is the first start in it or after it, and exactly    *)
(* the slots with an exception are flagged (reader.go:65).                 *)
THEOREM IndexIsRight == Spec => []IndexRight
<1>1. IInv => IndexRight
  BY FlagsAreRight DEF IInv, IndexRight
<1>. QED  BY <1>1, Invariance, PTL

(* search6 answers with the last start at or below the key by all its 128  *)
(* bits, whatever the number of starts, slots and exceptions.              *)
THEOREM SearchAnswers == Spec => []LastAtOrBelow
<1>1. IInv => LastAtOrBelow
  BY DEF IInv
<1>. QED  BY <1>1, Invariance, PTL

(* From every state the loops reach, a pass of search6's halving shrinks   *)
(* its window, and a step back leaves fewer starts to step back over:      *)
(* both loops have a variant, so a lookup ends.                            *)
THEOREM PassShrinks ==
  ASSUME IInv, HalveDown \/ HalveUp \/ StepBack
  PROVE  IF StepBack THEN answer' \in 0..n /\ answer' < answer
         ELSE l' \in 0..n /\ h' \in 0..n /\ l' <= h' /\ h' - l' < h - l
<1>1. CASE StepBack
  <2>1. pc = "stepBack" /\ answer - 1 >= 0 /\ answer' = answer - 1
    BY <1>1 DEF StepBack, StepsBackOver
  <2>2. n \in Nat /\ answer \in 0..n
    BY <2>1, SteppingBack
  <2>. QED  BY <1>1, <2>1, <2>2
<1>2. CASE ~StepBack /\ HalveDown
  <2>1. pc = "search6" /\ l < h /\ h' = mid /\ l' = l
    BY <1>2 DEF HalveDown
  <2>2. mid \in l..(h - 1) /\ l \in 0..n /\ h \in 0..n /\ n \in Nat
    BY <2>1, Halving
  <2>. QED  BY <1>2, <2>1, <2>2
<1>3. CASE ~StepBack /\ HalveUp
  <2>1. pc = "search6" /\ l < h /\ l' = mid + 1 /\ h' = h
    BY <1>3 DEF HalveUp
  <2>2. mid \in l..(h - 1) /\ l \in 0..n /\ h \in 0..n /\ n \in Nat
    BY <2>1, Halving
  <2>. QED  BY <1>3, <2>1, <2>2
<1>. QED  BY <1>1, <1>2, <1>3
=============================================================================
