--------------------------- MODULE Search4Proofs ----------------------------
(***************************************************************************)
(* Proofs about Search4, for every number and size of buckets and windows  *)
(* and every list of ascending starts: the tables built at open split the  *)
(* boundaries where they should, and the search over them ends with the    *)
(* last boundary at or below the key, without an index out of range.       *)
(***************************************************************************)
EXTENDS Search4, TableProofs

(* Window w of bucket g = w \div Subs starts K windows into the bucket. *)
LEMMA WindowInBucket ==
  ASSUME NEW w \in Nat
  PROVE  LET g == w \div Subs
             k == w % Subs
         IN  /\ g \in Nat /\ k \in 0..(Subs - 1)
             /\ BucketSize \in Nat \ {0}
             /\ w * SubSize = g * BucketSize + k * SubSize
             /\ g * BucketSize <= w * SubSize
             /\ (w + 1) * SubSize <= (g + 1) * BucketSize
             /\ k = Subs - 1 => (w + 1) * SubSize = (g + 1) * BucketSize
             /\ \A m \in Nat : w < m * Subs => g < m
<1> DEFINE g == w \div Subs  k == w % Subs
<1>1. Subs \in Nat \ {0} /\ SubSize \in Nat \ {0} /\ Subs \in Int
  BY SizeAssumption
<1>2. /\ g \in Int /\ k \in Int /\ w = Subs * g + k /\ 0 <= k /\ k < Subs
  BY <1>1, DivMod
<1> HIDE DEF g, k
<1>3. g \in Nat
  <2>1. SUFFICES ASSUME g <= -1 PROVE FALSE
    BY <1>2
  <2>2. g * Subs <= (-1) * Subs
    BY <1>1, <1>2, <2>1, MulMono
  <2>3. Subs * g = g * Subs /\ Subs * g \in Int
    BY <1>1, <1>2
  <2>. QED  BY <1>1, <1>2, <2>2, <2>3
<1>4. BucketSize \in Nat \ {0} /\ BucketSize = Subs * SubSize
  BY <1>1 DEF BucketSize
<1>5. w * SubSize = g * BucketSize + k * SubSize
  <2>1. (Subs * g + k) * SubSize = g * (Subs * SubSize) + k * SubSize
    BY <1>1, <1>2
  <2>. QED  BY <1>2, <1>4, <2>1
<1>6. 0 <= k * SubSize /\ k * SubSize \in Int /\ g * BucketSize \in Int
      /\ w * SubSize \in Int
  BY <1>1, <1>2, <1>3, <1>4
<1>7. (k + 1) * SubSize <= Subs * SubSize
  BY <1>1, <1>2, MulMono
<1>8. /\ (k + 1) * SubSize = k * SubSize + SubSize
      /\ (w + 1) * SubSize = w * SubSize + SubSize
      /\ (g + 1) * BucketSize = g * BucketSize + BucketSize
  BY <1>1, <1>2, <1>3, <1>4
<1>9. k = Subs - 1 => (k + 1) * SubSize = BucketSize
  BY <1>1, <1>4
<1>10. ASSUME NEW m \in Nat, w < m * Subs PROVE g < m
  <2>1. SUFFICES ASSUME m <= g PROVE FALSE
    BY <1>3
  <2>2. m * Subs <= g * Subs
    BY <1>1, <1>3, <2>1, MulMono
  <2>3. Subs * g = g * Subs /\ Subs * g \in Int /\ m * Subs \in Int
    BY <1>1, <1>3
  <2>. QED  BY <1>2, <1>10, <2>2, <2>3
<1>11. g * BucketSize <= w * SubSize
  BY <1>5, <1>6
<1>12. (w + 1) * SubSize = g * BucketSize + (k + 1) * SubSize
  <2>1. SubSize \in Int
    BY <1>1
  <2>2. (w + 1) * SubSize = (g * BucketSize + k * SubSize) + SubSize
    BY <1>5, <1>8
  <2>3. \A x, y, z \in Int : (x + y) + z = x + (y + z)
    OBVIOUS
  <2>. QED  BY <1>6, <1>8, <2>1, <2>2, <2>3
<1>13. (w + 1) * SubSize <= (g + 1) * BucketSize
  <2>1. (k + 1) * SubSize \in Int /\ BucketSize \in Int
    BY <1>1, <1>2, <1>4
  <2>. QED  BY <1>4, <1>6, <1>7, <1>8, <1>12, <2>1
<1>14. k = Subs - 1 => (w + 1) * SubSize = (g + 1) * BucketSize
  BY <1>8, <1>9, <1>12
<1>15. k \in 0..(Subs - 1)
  BY <1>1, <1>2
<1>16. \A m \in Nat : w < m * Subs => g < m
  BY <1>10
<1>. QED
  BY <1>3, <1>4, <1>5, <1>11, <1>13, <1>14, <1>15, <1>16 DEF g, k

-----------------------------------------------------------------------------
(* The inductive invariant *)

(* appendV4Idx has passed only boundaries of the buckets it has entries for. *)
AppendInv ==
  /\ pc = "appendV4Idx" =>
       /\ lo4 = <<>>
       /\ \A b \in 0..(i - 1) : Start(b) < NextBucket * BucketSize
  /\ pc # "appendV4Idx" => Len(v4idx) = Buckets + 1

(* buildIndex4 is in the bucket of its next window, and has passed only    *)
(* boundaries below that window.                                           *)
InWindow ==
  /\ V4Idx(G) <= i /\ i <= V4Idx(G + 1)
  /\ \A b \in 0..(i - 1) : Start(b) < NextWindow * SubSize

BuildInv ==
  /\ pc = "buildIndex4" =>
       /\ NextWindow <= Buckets * Subs
       /\ NextWindow < Buckets * Subs => InWindow
  /\ pc \in {"ready", "search4", "answered"} => Len(lo4) = Buckets * Subs + 1

(* The bounds of the search stay in the key's window. *)
SearchInv ==
  pc = "search4" => Lo4(Window(key)) <= l /\ h <= Lo4(Window(key) + 1)

IInv ==
  /\ TypeOK /\ TablesSplit /\ AppendInv /\ BuildInv /\ SearchInv
  /\ BoundsEnclose /\ LastAtOrBelow

(* The starts are addresses, and ascend. *)
LEMMA Starts ==
  ASSUME TypeOK
  PROVE  /\ n \in Nat
         /\ \A b \in 0..(n - 1) : Start(b) \in Addresses /\ Start(b) \in Nat
         /\ \A b, c \in 0..(n - 1) : b <= c => Start(b) <= Start(c)
<1>1. /\ starts \in Seq(Addresses)
      /\ \A x, y \in 1..Len(starts) : x < y => starts[x] < starts[y]
  BY StartListsAssumption DEF TypeOK
<1>2. n \in Nat
  BY <1>1 DEF n
<1>3. ASSUME NEW b \in 0..(n - 1)
      PROVE  Start(b) \in Addresses /\ Start(b) \in Nat
  <2>1. b + 1 \in 1..Len(starts)
    BY <1>2 DEF n
  <2>2. starts[b + 1] \in Addresses
    BY <1>1, <2>1
  <2>3. Addresses \subseteq Nat
    BY DEF Addresses
  <2>. QED  BY <2>2, <2>3 DEF Start
<1>4. ASSUME NEW b \in 0..(n - 1), NEW c \in 0..(n - 1), b <= c
      PROVE  Start(b) <= Start(c)
  <2>1. CASE b = c
    BY <1>3, <2>1
  <2>2. CASE b < c
    <3>1. b + 1 \in 1..Len(starts) /\ c + 1 \in 1..Len(starts) /\ b + 1 < c + 1
      BY <1>2, <2>2 DEF n
    <3>2. starts[b + 1] < starts[c + 1]
      BY <1>1, <3>1
    <3>. QED  BY <1>3, <3>2 DEF Start
  <2>. QED  BY <1>4, <2>1, <2>2
<1>. QED  BY <1>2, <1>3, <1>4

(* One boundary at or above a, and all before it below: they split at a. *)
LEMMA SplitHere ==
  ASSUME TypeOK, NEW c \in 0..n, NEW a \in Int,
         \A b \in 0..(c - 1) : Start(b) < a,
         c < n => Start(c) >= a
  PROVE  SplitsAt(c, a)
<1>1. ASSUME NEW b \in c..(n - 1) PROVE Start(b) >= a
  <2>1. n \in Nat /\ c < n /\ c \in 0..(n - 1) /\ b \in 0..(n - 1) /\ c <= b
    BY <1>1, Starts
  <2>2. Start(b) \in Nat /\ Start(c) \in Nat /\ Start(c) <= Start(b)
    BY <2>1, Starts
  <2>. QED  BY <2>1, <2>2
<1>. QED  BY <1>1 DEF SplitsAt

(* Fewer boundaries are below a smaller address. *)
LEMMA SplitMono ==
  ASSUME TypeOK, NEW c \in 0..n, NEW d \in 0..n, NEW a \in Int, NEW e \in Int,
         SplitsAt(c, a), SplitsAt(d, e), a <= e
  PROVE  c <= d
<1>1. SUFFICES ASSUME d < c PROVE FALSE
  BY Starts
<1>2. d \in 0..(n - 1) /\ d \in 0..(c - 1) /\ d \in d..(n - 1)
  BY <1>1, Starts
<1>3. Start(d) < a /\ Start(d) >= e /\ Start(d) \in Nat
  BY <1>2, Starts DEF SplitsAt
<1>. QED  BY <1>3

(* The table entries are boundary counts, and split where they should. *)
LEMMA V4IdxEntry ==
  ASSUME TypeOK, TablesSplit, NEW g \in 0..(Len(v4idx) - 1)
  PROVE  V4Idx(g) \in 0..n /\ SplitsAt(V4Idx(g), g * BucketSize)
<1>1. v4idx \in Seq(0..n)
  BY DEF TypeOK
<1>2. g + 1 \in 1..Len(v4idx)
  BY <1>1
<1>3. v4idx[g + 1] \in 0..n
  BY <1>1, <1>2, Element
<1>. QED  BY <1>3 DEF V4Idx, TablesSplit

LEMMA Lo4Entry ==
  ASSUME TypeOK, TablesSplit, NEW w \in 0..(Len(lo4) - 1)
  PROVE  Lo4(w) \in 0..n /\ SplitsAt(Lo4(w), w * SubSize)
<1>1. lo4 \in Seq(0..n)
  BY DEF TypeOK
<1>2. w + 1 \in 1..Len(lo4)
  BY <1>1
<1>3. lo4[w + 1] \in 0..n
  BY <1>1, <1>2, Element
<1>. QED  BY <1>3 DEF Lo4, TablesSplit

LEMMA Sizes ==
  /\ Buckets \in Nat \ {0} /\ Subs \in Nat \ {0} /\ SubSize \in Nat \ {0}
  /\ BucketSize \in Nat \ {0} /\ Buckets * Subs \in Nat \ {0}
  /\ (Buckets * Subs) * SubSize = Buckets * BucketSize
  /\ Addresses = 0..(Buckets * BucketSize - 1)
  /\ Buckets * BucketSize \in Nat \ {0}
<1>1. Buckets \in Nat \ {0} /\ Subs \in Nat \ {0} /\ SubSize \in Nat \ {0}
  BY SizeAssumption
<1>2. Subs * SubSize \in Nat \ {0} /\ Buckets * Subs \in Nat \ {0}
  BY <1>1
<1>3. (Buckets * Subs) * SubSize = Buckets * (Subs * SubSize)
  BY <1>1
<1>4. Buckets * (Subs * SubSize) \in Nat \ {0}
  BY <1>1, <1>2
<1>. QED  BY <1>1, <1>2, <1>3, <1>4 DEF BucketSize, Addresses

(* The bucket that holds an address. *)
LEMMA BucketOf ==
  ASSUME NEW a \in Nat, NEW g \in Nat
  PROVE  /\ g <= Bucket(a) <=> g * BucketSize <= a
         /\ Bucket(a) \in Int
<1> DEFINE q == a \div BucketSize
<1>1. /\ q \in Int /\ a % BucketSize \in Int
      /\ a = BucketSize * q + (a % BucketSize)
      /\ 0 <= a % BucketSize /\ a % BucketSize < BucketSize
      /\ BucketSize \in Nat /\ BucketSize * q = q * BucketSize
  BY DivMod, Sizes
<1>2. Bucket(a) = q
  BY DEF Bucket
<1> HIDE DEF q
<1>3. ASSUME g <= q PROVE g * BucketSize <= a
  <2>1. g * BucketSize <= q * BucketSize
    BY <1>1, <1>3, MulMono
  <2>2. g * BucketSize \in Int /\ q * BucketSize \in Int
    BY <1>1
  <2>. QED  BY <1>1, <2>1, <2>2
<1>4. ASSUME q < g PROVE a < g * BucketSize
  <2>1. (q + 1) * BucketSize <= g * BucketSize
    BY <1>1, <1>4, MulMono
  <2>2. /\ g * BucketSize \in Int /\ q * BucketSize \in Int
        /\ (q + 1) * BucketSize = q * BucketSize + BucketSize
    BY <1>1
  <2>. QED  BY <1>1, <2>1, <2>2
<1>5. g * BucketSize \in Int
  BY <1>1
<1>. QED  BY <1>1, <1>2, <1>3, <1>4, <1>5

(* An address of bucket g: its low bits are what is left of it. *)
LEMMA LowOf ==
  ASSUME NEW a \in Nat, NEW g \in Nat,
         g * BucketSize <= a, a < (g + 1) * BucketSize
  PROVE  Low(a) = a - g * BucketSize
<1>1. BucketSize \in Nat \ {0} /\ a \in Int /\ g \in Int
  BY Sizes
<1>2. a % BucketSize = a - g * BucketSize
  BY <1>1, DivUnique, Zenon
<1>. QED  BY <1>2 DEF Low

(* In one window, low bits order addresses as the addresses do. *)
LEMMA LowInWindow ==
  ASSUME NEW w \in Nat, NEW a \in Nat, NEW c \in Nat,
         w * SubSize <= a, a < (w + 1) * SubSize,
         w * SubSize <= c, c < (w + 1) * SubSize
  PROVE  Low(a) > Low(c) <=> a > c
<1> DEFINE g == w \div Subs
<1>1. /\ g \in Nat
      /\ g * BucketSize <= w * SubSize
      /\ (w + 1) * SubSize <= (g + 1) * BucketSize
  BY WindowInBucket
<1> HIDE DEF g
<1>2. /\ w * SubSize \in Int /\ (w + 1) * SubSize \in Int
      /\ g * BucketSize \in Int /\ (g + 1) * BucketSize \in Int
  BY <1>1, Sizes
<1>3. /\ g * BucketSize <= a /\ a < (g + 1) * BucketSize
      /\ g * BucketSize <= c /\ c < (g + 1) * BucketSize
  BY <1>1, <1>2
<1>4. Low(a) = a - g * BucketSize /\ Low(c) = c - g * BucketSize
  BY <1>1, <1>3, LowOf
<1>. QED  BY <1>2, <1>4

(* The window of a key. *)
LEMMA WindowOf ==
  ASSUME NEW k \in Addresses
  PROVE  /\ Window(k) \in 0..(Buckets * Subs - 1)
         /\ Window(k) * SubSize <= k /\ k < (Window(k) + 1) * SubSize
<1> DEFINE w == k \div SubSize
<1>1. /\ w \in Int /\ k % SubSize \in Int
      /\ k = SubSize * w + (k % SubSize)
      /\ 0 <= k % SubSize /\ k % SubSize < SubSize
      /\ SubSize \in Nat /\ k \in Nat /\ k < (Buckets * Subs) * SubSize
  BY DivMod, Sizes
<1>2. Window(k) = w
  BY DEF Window
<1> HIDE DEF w
<1>3. /\ SubSize * w = w * SubSize /\ w * SubSize \in Int
      /\ (w + 1) * SubSize = w * SubSize + SubSize
  BY <1>1
<1>4. w * SubSize <= k /\ k < (w + 1) * SubSize
  BY <1>1, <1>3
<1>5. 0 <= w
  <2>1. SUFFICES ASSUME w + 1 <= 0 PROVE FALSE
    BY <1>1
  <2>2. (w + 1) * SubSize <= 0 * SubSize
    BY <1>1, <2>1, MulMono
  <2>. QED  BY <1>1, <1>3, <1>4, <2>2
<1>6. w < Buckets * Subs
  <2>1. SUFFICES ASSUME Buckets * Subs <= w PROVE FALSE
    BY <1>1, Sizes
  <2>2. (Buckets * Subs) * SubSize <= w * SubSize
    BY <1>1, <2>1, MulMono, Sizes
  <2>3. (Buckets * Subs) * SubSize \in Int
    BY Sizes
  <2>. QED  BY <1>1, <1>3, <1>4, <2>2, <2>3
<1>. QED  BY <1>1, <1>2, <1>4, <1>5, <1>6, Sizes

-----------------------------------------------------------------------------
(* The steps of appendV4Idx preserve the invariant. *)
LEMMA AppendEntryStep ==
  ASSUME IInv, AppendEntry
  PROVE  IInv'
<1> DEFINE g == NextBucket
<1>1. /\ pc = "appendV4Idx" /\ g <= Buckets
      /\ i < n => g <= Bucket(Start(i))
      /\ v4idx' = Append(v4idx, i)
      /\ UNCHANGED <<starts, lo4, pc, i, key, l, h, answer>>
      /\ lo4 = <<>> /\ g \in Nat /\ i \in 0..n /\ v4idx \in Seq(0..n)
      /\ Len(v4idx) = g
  BY DEF IInv, AppendInv, AppendEntry, TypeOK, NextBucket
<1>2. TypeOK'
  <2>1. v4idx' \in Seq(0..n) /\ Len(v4idx') = g + 1
    BY <1>1
  <2>. QED  BY <1>1, <2>1, Sizes DEF IInv, TypeOK, n
<1>3. SplitsAt(i, g * BucketSize)
  <2>1. \A b \in 0..(i - 1) : Start(b) < g * BucketSize
    BY <1>1 DEF IInv, AppendInv
  <2>2. i < n => Start(i) >= g * BucketSize
    <3>1. SUFFICES ASSUME i < n PROVE Start(i) >= g * BucketSize
      OBVIOUS
    <3>2. Start(i) \in Nat
      BY <1>1, <3>1, Starts DEF IInv
    <3>3. g * BucketSize <= Start(i)
      BY <1>1, <3>1, <3>2, BucketOf
    <3>4. g * BucketSize \in Int
      BY <1>1, Sizes
    <3>. QED  BY <3>2, <3>3, <3>4
  <2>3. g * BucketSize \in Int
    BY <1>1, Sizes
  <2>. QED  BY <1>1, <2>1, <2>2, <2>3, SplitHere DEF IInv
<1>4. TablesSplit'
  <2>1. ASSUME NEW m \in 0..g
        PROVE  SplitsAt(v4idx'[m + 1], m * BucketSize)
    <3>1. CASE m = g
      <4>1. v4idx'[m + 1] = i
        BY <1>1, <3>1
      <4>. QED  BY <1>3, <3>1, <4>1
    <3>2. CASE m < g
      <4>1. m \in 0..(Len(v4idx) - 1) /\ v4idx'[m + 1] = v4idx[m + 1]
        BY <1>1, <3>2
      <4>. QED  BY <4>1 DEF IInv, TablesSplit, V4Idx
    <3>. QED  BY <1>1, <3>1, <3>2
  <2>2. Len(v4idx') = g + 1 /\ lo4' = <<>> /\ starts' = starts
    BY <1>1
  <2>3. \A c, a : SplitsAt(c, a) => SplitsAt(c, a)'
    BY <2>2 DEF SplitsAt, Start, n
  <2>. QED  BY <1>1, <2>1, <2>2, <2>3 DEF TablesSplit, V4Idx, Lo4
<1>5. AppendInv'
  <2>1. ASSUME NEW b \in 0..(i - 1)
        PROVE  Start(b) < (g + 1) * BucketSize
    <3>1. Start(b) < g * BucketSize /\ Start(b) \in Nat
      BY <1>1, <2>1, Starts DEF IInv, AppendInv
    <3>2. g * BucketSize \in Int /\ (g + 1) * BucketSize = g * BucketSize + BucketSize
          /\ BucketSize \in Nat
      BY <1>1, Sizes
    <3>. QED  BY <3>1, <3>2
  <2>2. NextBucket' = g + 1
    BY <1>1 DEF NextBucket
  <2>. QED  BY <1>1, <2>1, <2>2 DEF AppendInv, Start
<1>. QED
  BY <1>1, <1>2, <1>4, <1>5
     DEF IInv, BuildInv, SearchInv, BoundsEnclose, LastAtOrBelow

LEMMA NextBoundaryStep ==
  ASSUME IInv, NextBoundary
  PROVE  IInv'
<1> DEFINE g == NextBucket
<1>1. /\ pc = "appendV4Idx" /\ i < n /\ g > Bucket(Start(i)) /\ i' = i + 1
      /\ UNCHANGED <<starts, v4idx, lo4, pc, key, l, h, answer>>
      /\ lo4 = <<>> /\ g \in Nat /\ i \in 0..n /\ n \in Nat
      /\ Len(v4idx) = g
  BY Starts DEF IInv, AppendInv, NextBoundary, TypeOK, NextBucket, tables
<1>2. TypeOK'
  BY <1>1 DEF IInv, TypeOK, n
<1>3. TablesSplit'
  BY <1>1 DEF IInv, TablesSplit, SplitsAt, V4Idx, Lo4, Start, n
<1>4. AppendInv'
  <2>1. Start(i) < g * BucketSize
    <3>1. Start(i) \in Nat
      BY <1>1, Starts DEF IInv
    <3>2. g * BucketSize \in Int
      BY <1>1, Sizes
    <3>. QED  BY <1>1, <3>1, <3>2, BucketOf
  <2>2. \A b \in 0..(i - 1) : Start(b) < g * BucketSize
    BY <1>1 DEF IInv, AppendInv
  <2>3. \A b \in 0..(i' - 1) : Start(b) < g * BucketSize
    BY <1>1, <2>1, <2>2
  <2>. QED  BY <1>1, <2>3 DEF AppendInv, Start, NextBucket
<1>. QED
  BY <1>1, <1>2, <1>3, <1>4
     DEF IInv, BuildInv, SearchInv, BoundsEnclose, LastAtOrBelow

LEMMA StartBuildStep ==
  ASSUME IInv, StartBuild
  PROVE  IInv'
<1>1. /\ pc = "appendV4Idx" /\ pc' = "buildIndex4" /\ i' = V4Idx(0)
      /\ UNCHANGED <<starts, v4idx, lo4, key, l, h, answer>>
      /\ lo4 = <<>> /\ Len(v4idx) = Buckets + 1
  BY Sizes DEF IInv, AppendInv, StartBuild, TypeOK, NextBucket, tables
<1>2. /\ V4Idx(0) \in 0..n /\ SplitsAt(V4Idx(0), 0 * BucketSize)
      /\ V4Idx(1) \in 0..n /\ SplitsAt(V4Idx(1), 1 * BucketSize)
  <2>1. 0 \in 0..(Len(v4idx) - 1) /\ 1 \in 0..(Len(v4idx) - 1)
    BY <1>1, Sizes
  <2>. QED  BY <2>1, V4IdxEntry DEF IInv
<1>3. 0 * BucketSize = 0 /\ 0 * SubSize = 0 /\ 1 * BucketSize = BucketSize
      /\ BucketSize \in Nat
  BY Sizes
<1>4. V4Idx(0) <= V4Idx(1)
  BY <1>2, <1>3, SplitMono DEF IInv
<1>5. TypeOK'
  BY <1>1, <1>2 DEF IInv, TypeOK, n
<1>6. TablesSplit'
  BY <1>1 DEF IInv, TablesSplit, SplitsAt, V4Idx, Lo4, Start, n
<1>7. BuildInv'
  <2>1. NextWindow' = 0 /\ G' = 0
    <3>1. NextWindow' = 0
      BY <1>1 DEF NextWindow
    <3>2. 0 \div Subs = 0
      <4>1. 0 * Subs <= 0 /\ 0 < (0 + 1) * Subs
        BY Sizes
      <4>. QED  BY <4>1, DivUnique, Sizes
    <3>. QED  BY <3>1, <3>2 DEF G
  <2>2. \A b \in 0..(i' - 1) : Start(b) < 0 * SubSize
    BY <1>1, <1>2, <1>3 DEF SplitsAt
  <2>3. V4Idx(0)' = V4Idx(0) /\ V4Idx(1)' = V4Idx(1)
    BY <1>1 DEF V4Idx
  <2>4. V4Idx(G)' = V4Idx(0) /\ V4Idx(G + 1)' = V4Idx(1)
    BY <1>1, <2>1 DEF V4Idx
  <2>5. InWindow'
    <3>1. \A b \in 0..(i' - 1) : Start(b)' < NextWindow' * SubSize
      BY <1>1, <2>1, <2>2 DEF Start
    <3>. QED  BY <1>1, <1>2, <1>4, <2>4, <3>1 DEF InWindow
  <2>. QED  BY <1>1, <2>1, <2>5, Sizes DEF BuildInv
<1>. QED
  BY <1>1, <1>5, <1>6, <1>7
     DEF IInv, AppendInv, SearchInv, BoundsEnclose, LastAtOrBelow

-----------------------------------------------------------------------------
(* The steps of buildIndex4 preserve the invariant. *)

(* While a window is left, buildIndex4 is in bucket G, at its window K. *)
LEMMA Building ==
  ASSUME IInv, pc = "buildIndex4", NextWindow < Buckets * Subs
  PROVE  /\ NextWindow \in Nat /\ G \in 0..(Buckets - 1) /\ K \in 0..(Subs - 1)
         /\ NextWindow * SubSize = G * BucketSize + K * SubSize
         /\ (NextWindow + 1) * SubSize <= (G + 1) * BucketSize
         /\ K = Subs - 1 =>
              (NextWindow + 1) * SubSize = (G + 1) * BucketSize
         /\ NextWindow = Subs * G + K
         /\ InWindow /\ Len(v4idx) = Buckets + 1
         /\ V4Idx(G) \in 0..n /\ V4Idx(G + 1) \in 0..n
         /\ SplitsAt(V4Idx(G), G * BucketSize)
         /\ SplitsAt(V4Idx(G + 1), (G + 1) * BucketSize)
<1>1. NextWindow \in Nat
  BY DEF IInv, TypeOK, NextWindow
<1>2. /\ G \in Nat /\ K \in 0..(Subs - 1)
      /\ NextWindow * SubSize = G * BucketSize + K * SubSize
      /\ (NextWindow + 1) * SubSize <= (G + 1) * BucketSize
      /\ K = Subs - 1 => (NextWindow + 1) * SubSize = (G + 1) * BucketSize
      /\ \A m \in Nat : NextWindow < m * Subs => G < m
  BY <1>1, WindowInBucket DEF G, K
<1>3. G \in 0..(Buckets - 1)
  BY <1>2, Sizes
<1>4. NextWindow = Subs * G + K
  BY <1>1, DivMod, Sizes DEF G, K
<1>5. InWindow /\ Len(v4idx) = Buckets + 1
  BY DEF IInv, BuildInv, AppendInv
<1>6. G \in 0..(Len(v4idx) - 1) /\ G + 1 \in 0..(Len(v4idx) - 1)
  BY <1>3, <1>5, Sizes
<1>7. /\ V4Idx(G) \in 0..n /\ SplitsAt(V4Idx(G), G * BucketSize)
      /\ V4Idx(G + 1) \in 0..n /\ SplitsAt(V4Idx(G + 1), (G + 1) * BucketSize)
  BY <1>6, V4IdxEntry DEF IInv
<1>. QED  BY <1>1, <1>2, <1>3, <1>4, <1>5, <1>7

(* In bucket G the low bits of a start tell its window. *)
LEMMA LowOfStart ==
  ASSUME IInv, pc = "buildIndex4", NextWindow < Buckets * Subs,
         i < V4Idx(G + 1)
  PROVE  /\ Start(i) \in Nat /\ i \in 0..(n - 1)
         /\ Low(Start(i)) < K * SubSize <=> Start(i) < NextWindow * SubSize
<1>1. /\ NextWindow \in Nat /\ G \in Nat /\ K \in Nat
      /\ NextWindow * SubSize = G * BucketSize + K * SubSize
      /\ InWindow
      /\ V4Idx(G) \in 0..n /\ V4Idx(G + 1) \in 0..n
      /\ SplitsAt(V4Idx(G), G * BucketSize)
      /\ SplitsAt(V4Idx(G + 1), (G + 1) * BucketSize)
  BY Building
<1>2. i \in 0..(n - 1) /\ i \in V4Idx(G)..(n - 1)
      /\ i \in 0..(V4Idx(G + 1) - 1)
  BY <1>1, Starts DEF IInv, TypeOK, InWindow
<1>3. Start(i) \in Nat
  BY <1>2, Starts DEF IInv
<1>4. G * BucketSize <= Start(i) /\ Start(i) < (G + 1) * BucketSize
  <2>1. Start(i) >= G * BucketSize /\ Start(i) < (G + 1) * BucketSize
    BY <1>1, <1>2 DEF SplitsAt
  <2>2. G * BucketSize \in Int
    BY <1>1, Sizes
  <2>. QED  BY <1>3, <2>1, <2>2
<1>5. Low(Start(i)) = Start(i) - G * BucketSize
  BY <1>1, <1>3, <1>4, LowOf
<1>6. G * BucketSize \in Int /\ K * SubSize \in Int
  BY <1>1, Sizes
<1>. QED  BY <1>1, <1>2, <1>3, <1>5, <1>6

LEMMA SkipBoundaryStep ==
  ASSUME IInv, SkipBoundary
  PROVE  IInv'
<1>1. /\ pc = "buildIndex4" /\ NextWindow < Buckets * Subs
      /\ i < V4Idx(G + 1) /\ Low(Start(i)) < K * SubSize
      /\ i' = i + 1
      /\ UNCHANGED <<starts, v4idx, lo4, pc, key, l, h, answer>>
      /\ i \in 0..n
  BY DEF IInv, SkipBoundary, BelowWindow, TypeOK, tables
<1>2. Start(i) < NextWindow * SubSize /\ i \in 0..(n - 1) /\ n \in Nat
  BY <1>1, LowOfStart, Starts DEF IInv
<1>3. TypeOK'
  BY <1>1, <1>2 DEF IInv, TypeOK, n
<1>4. TablesSplit'
  BY <1>1 DEF IInv, TablesSplit, SplitsAt, V4Idx, Lo4, Start, n
<1>5. BuildInv'
  <2>1. InWindow /\ V4Idx(G) \in 0..n /\ V4Idx(G + 1) \in 0..n
    BY <1>1, Building
  <2>2. \A b \in 0..(i' - 1) : Start(b) < NextWindow * SubSize
    BY <1>1, <1>2, <2>1 DEF InWindow
  <2>3. V4Idx(G) <= i' /\ i' <= V4Idx(G + 1)
    BY <1>1, <1>2, <2>1 DEF InWindow
  <2>4. InWindow'
    BY <1>1, <2>2, <2>3 DEF InWindow, V4Idx, G, NextWindow, Start
  <2>5. NextWindow' = NextWindow
    BY <1>1 DEF NextWindow
  <2>. QED  BY <1>1, <2>4, <2>5 DEF IInv, BuildInv
<1>. QED
  BY <1>1, <1>3, <1>4, <1>5
     DEF IInv, AppendInv, SearchInv, BoundsEnclose, LastAtOrBelow

(* Appending an entry that splits at its window keeps the tables right. *)
LEMMA AppendLo4 ==
  ASSUME TypeOK, TablesSplit, NEW c \in 0..n,
         SplitsAt(c, Len(lo4) * SubSize),
         lo4' = Append(lo4, c), starts' = starts, v4idx' = v4idx
  PROVE  /\ TablesSplit'
         /\ lo4' \in Seq(0..n) /\ Len(lo4') = Len(lo4) + 1
<1> DEFINE w == Len(lo4)
<1>1. lo4 \in Seq(0..n) /\ w \in Nat
  BY DEF TypeOK
<1>2. lo4' \in Seq(0..n) /\ Len(lo4') = w + 1
  BY <1>1
<1>3. ASSUME NEW m \in 0..w
      PROVE  SplitsAt(lo4'[m + 1], m * SubSize)
  <2>1. CASE m = w
    <3>1. lo4'[m + 1] = c
      BY <1>1, <2>1
    <3>. QED  BY <2>1, <3>1
  <2>2. CASE m < w
    <3>1. m \in 0..(Len(lo4) - 1) /\ lo4'[m + 1] = lo4[m + 1]
      BY <1>1, <2>2
    <3>. QED  BY <3>1 DEF TablesSplit, Lo4
  <2>. QED  BY <1>1, <2>1, <2>2
<1>4. \A d, a : SplitsAt(d, a) => SplitsAt(d, a)'
  BY DEF SplitsAt, Start, n
<1>. QED  BY <1>1, <1>2, <1>3, <1>4 DEF TablesSplit, Lo4, V4Idx

LEMMA FillEntryStep ==
  ASSUME IInv, FillEntry
  PROVE  IInv'
<1> DEFINE w == NextWindow
<1>1. /\ pc = "buildIndex4" /\ w < Buckets * Subs
      /\ i < V4Idx(G + 1) => ~(Low(Start(i)) < K * SubSize)
      /\ lo4' = Append(lo4, i)
      /\ i' = IF K = Subs - 1 THEN V4Idx(G + 1) ELSE i
      /\ UNCHANGED <<starts, v4idx, pc, key, l, h, answer>>
      /\ i \in 0..n /\ w = Len(lo4)
  BY DEF IInv, FillEntry, BelowWindow, TypeOK, NextWindow
<1>2. /\ w \in Nat /\ G \in 0..(Buckets - 1) /\ K \in 0..(Subs - 1)
      /\ (w + 1) * SubSize <= (G + 1) * BucketSize
      /\ K = Subs - 1 => (w + 1) * SubSize = (G + 1) * BucketSize
      /\ w = Subs * G + K
      /\ InWindow /\ Len(v4idx) = Buckets + 1
      /\ V4Idx(G) \in 0..n /\ V4Idx(G + 1) \in 0..n
      /\ SplitsAt(V4Idx(G + 1), (G + 1) * BucketSize)
  BY <1>1, Building
<1>3. /\ w * SubSize \in Int /\ (w + 1) * SubSize = w * SubSize + SubSize
      /\ SubSize \in Nat /\ (G + 1) * BucketSize \in Int /\ n \in Nat
  BY <1>2, Sizes, Starts DEF IInv
<1>4. SplitsAt(i, w * SubSize)
  <2>1. \A b \in 0..(i - 1) : Start(b) < w * SubSize
    BY <1>2 DEF InWindow
  <2>2. ASSUME i < n PROVE Start(i) >= w * SubSize
    <3>1. CASE i < V4Idx(G + 1)
      BY <1>1, <1>3, <3>1, LowOfStart
    <3>2. CASE i = V4Idx(G + 1)
      <4>1. Start(i) >= (G + 1) * BucketSize /\ Start(i) \in Nat
        BY <1>1, <1>2, <1>3, <2>2, <3>2, Starts DEF SplitsAt, IInv
      <4>. QED  BY <1>2, <1>3, <4>1, SMTT(30)
    <3>3. i <= V4Idx(G + 1)
      BY <1>2 DEF InWindow
    <3>. QED  BY <1>1, <1>2, <1>3, <3>1, <3>2, <3>3, SMTT(30)
  <2>. QED  BY <1>1, <1>3, <2>1, <2>2, SplitHere DEF IInv
<1>5. TablesSplit' /\ lo4' \in Seq(0..n) /\ Len(lo4') = w + 1
  BY <1>1, <1>4, AppendLo4 DEF IInv
<1>6. i' \in 0..n
  BY <1>1, <1>2
<1>7. TypeOK'
  BY <1>1, <1>2, <1>5, <1>6, Sizes DEF IInv, TypeOK, n
<1>8. NextWindow' = w + 1
  BY <1>5 DEF NextWindow
<1>9. ASSUME w + 1 < Buckets * Subs PROVE InWindow'
  <2>1. CASE K = Subs - 1
    <3>1. w + 1 = (G + 1) * Subs /\ G + 1 \in Nat
      BY <1>2, <2>1, Sizes
    <3>2. (w + 1) \div Subs = G + 1
      <4>1. w + 1 < ((G + 1) + 1) * Subs /\ w + 1 \in Int /\ G + 1 \in Int
        BY <1>2, <3>1, Sizes
      <4>. QED  BY <3>1, <4>1, DivUnique, Sizes
    <3>3. G' = G + 1 /\ i' = V4Idx(G + 1)
      BY <1>1, <1>8, <2>1, <3>2 DEF G
    <3>4. G + 1 < Buckets
      <4>1. SUFFICES ASSUME Buckets <= G + 1 PROVE FALSE
        BY <1>2, Sizes
      <4>2. Buckets * Subs <= (G + 1) * Subs
        BY <1>2, <4>1, MulMono, Sizes
      <4>. QED  BY <1>2, <1>9, <3>1, <4>2, Sizes
    <3>5. /\ V4Idx((G + 1) + 1) \in 0..n
          /\ SplitsAt(V4Idx((G + 1) + 1), ((G + 1) + 1) * BucketSize)
      <4>1. (G + 1) + 1 \in 0..(Len(v4idx) - 1)
        BY <1>2, <3>4, Sizes
      <4>. QED  BY <4>1, V4IdxEntry DEF IInv
    <3>6. V4Idx(G + 1) <= V4Idx((G + 1) + 1)
      <4>1. (G + 1) * BucketSize <= ((G + 1) + 1) * BucketSize
            /\ ((G + 1) + 1) * BucketSize \in Int
        BY <1>2, Sizes
      <4>. QED  BY <1>2, <1>3, <3>5, <4>1, SplitMono DEF IInv
    <3>7. \A b \in 0..(i' - 1) : Start(b) < (w + 1) * SubSize
      BY <1>2, <2>1, <3>3 DEF SplitsAt
    <3>8. V4Idx(G)' = V4Idx(G + 1) /\ V4Idx(G + 1)' = V4Idx((G + 1) + 1)
      BY <1>1, <3>3 DEF V4Idx
    <3>9. \A b \in 0..(i' - 1) : Start(b)' < NextWindow' * SubSize
      BY <1>1, <1>8, <3>7 DEF Start
    <3>. QED  BY <1>6, <3>3, <3>6, <3>8, <3>9, <1>2 DEF InWindow
  <2>2. CASE K # Subs - 1
    <3>1. (w + 1) \div Subs = G
      <4>1. G * Subs <= w + 1 /\ w + 1 < (G + 1) * Subs
            /\ w + 1 \in Int /\ G \in Int
        <5>1. G * Subs = Subs * G /\ (G + 1) * Subs = Subs * G + Subs
              /\ Subs * G \in Int
          BY <1>2, Sizes
        <5>. QED  BY <1>2, <2>2, <5>1, Sizes
      <4>. QED  BY <4>1, DivUnique, Sizes
    <3>2. G' = G /\ i' = i
      BY <1>1, <1>8, <2>2, <3>1 DEF G
    <3>3. V4Idx(G)' = V4Idx(G) /\ V4Idx(G + 1)' = V4Idx(G + 1)
      BY <1>1, <3>2 DEF V4Idx
    <3>4. \A b \in 0..(i' - 1) : Start(b) < (w + 1) * SubSize
      <4>1. SUFFICES ASSUME NEW b \in 0..(i - 1)
                     PROVE  Start(b) < (w + 1) * SubSize
        BY <3>2
      <4>2. Start(b) < w * SubSize /\ Start(b) \in Nat
        <5>1. b \in 0..(n - 1)
          BY <1>1, <1>3, <4>1
        <5>2. Start(b) \in Nat
          BY <5>1, Starts DEF IInv
        <5>3. Start(b) < w * SubSize
          BY <1>2, <4>1 DEF InWindow
        <5>. QED  BY <5>2, <5>3
      <4>. QED  BY <1>3, <4>2
    <3>5. \A b \in 0..(i' - 1) : Start(b)' < NextWindow' * SubSize
      BY <1>1, <1>8, <3>4 DEF Start
    <3>. QED  BY <1>2, <3>2, <3>3, <3>5 DEF InWindow
  <2>. QED  BY <2>1, <2>2
<1>10. BuildInv'
  BY <1>1, <1>2, <1>8, <1>9, Sizes DEF BuildInv
<1>. QED
  BY <1>1, <1>5, <1>7, <1>10
     DEF IInv, AppendInv, SearchInv, BoundsEnclose, LastAtOrBelow

LEMMA EndBuildStep ==
  ASSUME IInv, EndBuild
  PROVE  IInv'
<1>1. /\ pc = "buildIndex4" /\ Len(lo4) = Buckets * Subs
      /\ lo4' = Append(lo4, n) /\ pc' = "ready"
      /\ UNCHANGED <<starts, v4idx, i, key, l, h, answer>>
      /\ n \in Nat /\ n \in 0..n
  BY Starts DEF IInv, EndBuild, LastEntry, NextWindow
<1>2. SplitsAt(n, Len(lo4) * SubSize)
  <2>1. ASSUME NEW b \in 0..(n - 1)
        PROVE  Start(b) < Len(lo4) * SubSize
    <3>1. Start(b) \in Addresses
      BY Starts DEF IInv
    <3>. QED  BY <1>1, <3>1, Sizes
  <2>. QED  BY <1>1, <2>1 DEF SplitsAt
<1>3. TablesSplit' /\ lo4' \in Seq(0..n) /\ Len(lo4') = Len(lo4) + 1
  BY <1>1, <1>2, AppendLo4 DEF IInv
<1>4. TypeOK'
  BY <1>1, <1>3, Sizes DEF IInv, TypeOK, n
<1>. QED
  BY <1>1, <1>3, <1>4
     DEF IInv, AppendInv, BuildInv, SearchInv, BoundsEnclose, LastAtOrBelow

-----------------------------------------------------------------------------
(* The steps of search4 preserve the invariant. *)
LEMMA LookupStep ==
  ASSUME IInv, NEW k \in Addresses, Lookup(k)
  PROVE  IInv'
<1> DEFINE w == Window(k)
<1>1. /\ pc \in {"ready", "answered"} /\ pc' = "search4" /\ key' = k
      /\ l' = Lo4(w) /\ h' = Lo4(w + 1)
      /\ UNCHANGED <<starts, v4idx, lo4, i, answer>>
      /\ Len(lo4) = Buckets * Subs + 1
  BY DEF IInv, BuildInv, Lookup, tables
<1>2. /\ w \in 0..(Buckets * Subs - 1)
      /\ w * SubSize <= k /\ k < (w + 1) * SubSize
  BY WindowOf
<1>3. w \in 0..(Len(lo4) - 1) /\ w + 1 \in 0..(Len(lo4) - 1)
  BY <1>1, <1>2, Sizes
<1>4. /\ Lo4(w) \in 0..n /\ SplitsAt(Lo4(w), w * SubSize)
      /\ Lo4(w + 1) \in 0..n /\ SplitsAt(Lo4(w + 1), (w + 1) * SubSize)
  BY <1>3, Lo4Entry DEF IInv
<1>5. TypeOK'
  BY <1>1, <1>4 DEF IInv, TypeOK, n
<1>6. TablesSplit'
  BY <1>1 DEF IInv, TablesSplit, SplitsAt, V4Idx, Lo4, Start, n
<1>7. BoundsEnclose'
  <2>1. /\ w * SubSize \in Int /\ (w + 1) * SubSize \in Int
        /\ n \in Nat /\ k \in Nat
    BY <1>2, Sizes, Starts DEF IInv
  <2>2. ASSUME NEW b \in 0..(Lo4(w) - 1) PROVE Start(b) <= k
    <3>1. b \in 0..(n - 1)
      BY <1>4, <2>1
    <3>2. Start(b) \in Nat /\ Start(b) < w * SubSize
      BY <1>4, <3>1, Starts DEF SplitsAt, IInv
    <3>. QED  BY <1>2, <2>1, <3>2
  <2>3. ASSUME NEW b \in Lo4(w + 1)..(n - 1) PROVE Start(b) > k
    <3>1. b \in 0..(n - 1)
      BY <1>4, <2>1
    <3>2. Start(b) \in Nat /\ Start(b) >= (w + 1) * SubSize
      BY <1>4, <3>1, Starts DEF SplitsAt, IInv
    <3>. QED  BY <1>2, <2>1, <3>2
  <2>. QED  BY <1>1, <2>2, <2>3 DEF BoundsEnclose, Start, n
<1>8. SearchInv'
  BY <1>1, <1>4, Starts DEF IInv, SearchInv, Lo4, Window
<1>. QED
  BY <1>1, <1>5, <1>6, <1>7, <1>8
     DEF IInv, AppendInv, BuildInv, LastAtOrBelow

(* The boundary in the middle of the bounds lies in the key's window, so   *)
(* its low bits and the key's tell which is above.                         *)
LEMMA Middle ==
  ASSUME IInv, pc = "search4", l < h
  PROVE  /\ mid \in l..(h - 1) /\ mid \in 0..(n - 1) /\ n \in Nat
         /\ l \in 0..n /\ h \in 0..n
         /\ Above(mid) <=> Start(mid) > key
<1> DEFINE w == Window(key)
<1>1. /\ Len(lo4) = Buckets * Subs + 1 /\ l \in 0..n /\ h \in 0..n
      /\ Lo4(w) <= l /\ h <= Lo4(w + 1) /\ key \in Addresses /\ n \in Nat
      /\ key \in Nat
  BY Starts, Sizes DEF IInv, BuildInv, SearchInv, TypeOK
<1>2. mid \in l..(h - 1) /\ mid \in 0..(n - 1)
  BY <1>1 DEF mid
<1>3. /\ w \in 0..(Buckets * Subs - 1)
      /\ w * SubSize <= key /\ key < (w + 1) * SubSize
  BY <1>1, WindowOf
<1>4. w \in 0..(Len(lo4) - 1) /\ w + 1 \in 0..(Len(lo4) - 1)
  BY <1>1, <1>3, Sizes
<1>5. /\ Lo4(w) \in 0..n /\ SplitsAt(Lo4(w), w * SubSize)
      /\ Lo4(w + 1) \in 0..n /\ SplitsAt(Lo4(w + 1), (w + 1) * SubSize)
  BY <1>4, Lo4Entry DEF IInv
<1>6. /\ Start(mid) \in Nat
      /\ w * SubSize <= Start(mid) /\ Start(mid) < (w + 1) * SubSize
  <2>1. mid \in Lo4(w)..(n - 1) /\ mid \in 0..(Lo4(w + 1) - 1)
    BY <1>1, <1>2, <1>5
  <2>2. Start(mid) >= w * SubSize /\ Start(mid) < (w + 1) * SubSize
    BY <1>5, <2>1 DEF SplitsAt
  <2>3. Start(mid) \in Nat /\ w * SubSize \in Int
    BY <1>2, <1>3, Starts, Sizes DEF IInv
  <2>. QED  BY <2>2, <2>3
<1>7. Low(Start(mid)) > Low(key) <=> Start(mid) > key
  <2>1. w \in Nat
    BY <1>3
  <2>. QED  BY <1>1, <1>3, <1>6, <2>1, LowInWindow
<1>. QED  BY <1>1, <1>2, <1>7 DEF Above

LEMMA HalveDownStep ==
  ASSUME IInv, HalveDown
  PROVE  IInv'
<1>1. /\ pc = "search4" /\ l < h /\ h' = mid
      /\ UNCHANGED <<starts, v4idx, lo4, pc, i, key, l, answer>>
      /\ Above(mid)
  BY DEF HalveDown, tables
<1>2. /\ mid \in l..(h - 1) /\ mid \in 0..(n - 1) /\ n \in Nat
      /\ l \in 0..n /\ h \in 0..n /\ Start(mid) > key /\ key \in Nat
  BY <1>1, Middle, Sizes DEF IInv, TypeOK
<1>3. TypeOK'
  BY <1>1, <1>2 DEF IInv, TypeOK, n
<1>4. TablesSplit'
  BY <1>1 DEF IInv, TablesSplit, SplitsAt, V4Idx, Lo4, Start, n
<1>5. BoundsEnclose'
  <2>1. \A b \in 0..(l - 1) : Start(b) <= key
    BY <1>1 DEF IInv, BoundsEnclose
  <2>2. ASSUME NEW b \in mid..(n - 1) PROVE Start(b) > key
    <3>1. /\ b \in 0..(n - 1) /\ mid <= b
          /\ Start(b) \in Nat /\ Start(mid) \in Nat /\ Start(mid) <= Start(b)
      BY <1>2, Starts DEF IInv
    <3>. QED  BY <1>2, <3>1
  <2>. QED  BY <1>1, <2>1, <2>2 DEF BoundsEnclose, Start, n
<1>6. SearchInv'
  <2>1. /\ Lo4(Window(key)) <= l /\ h <= Lo4(Window(key) + 1)
        /\ Lo4(Window(key) + 1) \in Int
    <3>1. Window(key) + 1 \in 0..(Len(lo4) - 1)
      BY <1>1, WindowOf, Sizes, SMTT(30) DEF IInv, TypeOK, BuildInv
    <3>. QED  BY <1>1, <3>1, Lo4Entry, Starts DEF IInv, SearchInv
  <2>. QED  BY <1>1, <1>2, <2>1 DEF SearchInv, Lo4, Window
<1>. QED
  BY <1>1, <1>3, <1>4, <1>5, <1>6
     DEF IInv, AppendInv, BuildInv, LastAtOrBelow

LEMMA HalveUpStep ==
  ASSUME IInv, HalveUp
  PROVE  IInv'
<1>1. /\ pc = "search4" /\ l < h /\ l' = mid + 1
      /\ UNCHANGED <<starts, v4idx, lo4, pc, i, key, h, answer>>
      /\ ~Above(mid)
  BY DEF HalveUp, tables
<1>2. /\ mid \in l..(h - 1) /\ mid \in 0..(n - 1) /\ n \in Nat
      /\ l \in 0..n /\ h \in 0..n /\ ~(Start(mid) > key) /\ key \in Nat
  BY <1>1, Middle, Sizes DEF IInv, TypeOK
<1>3. TypeOK'
  BY <1>1, <1>2 DEF IInv, TypeOK, n
<1>4. TablesSplit'
  BY <1>1 DEF IInv, TablesSplit, SplitsAt, V4Idx, Lo4, Start, n
<1>5. BoundsEnclose'
  <2>1. ASSUME NEW b \in 0..mid PROVE Start(b) <= key
    <3>1. /\ b \in 0..(n - 1) /\ b <= mid
          /\ Start(b) \in Nat /\ Start(mid) \in Nat /\ Start(b) <= Start(mid)
      BY <1>2, Starts DEF IInv
    <3>. QED  BY <1>2, <3>1
  <2>2. \A b \in h..(n - 1) : Start(b) > key
    BY <1>1 DEF IInv, BoundsEnclose
  <2>3. \A b \in 0..(l' - 1) : Start(b) <= key
    BY <1>1, <1>2, <2>1
  <2>. QED  BY <1>1, <2>2, <2>3 DEF BoundsEnclose, Start, n
<1>6. SearchInv'
  <2>1. /\ Lo4(Window(key)) <= l /\ h <= Lo4(Window(key) + 1)
        /\ Lo4(Window(key)) \in Int
    <3>1. Window(key) \in 0..(Len(lo4) - 1)
      BY <1>1, WindowOf, Sizes DEF IInv, TypeOK, BuildInv
    <3>. QED  BY <1>1, <3>1, Lo4Entry, Starts DEF IInv, SearchInv
  <2>. QED  BY <1>1, <1>2, <2>1 DEF SearchInv, Lo4, Window
<1>. QED
  BY <1>1, <1>3, <1>4, <1>5, <1>6
     DEF IInv, AppendInv, BuildInv, LastAtOrBelow

LEMMA AnswerStep ==
  ASSUME IInv, Answer
  PROVE  IInv'
<1>1. /\ pc = "search4" /\ l >= h /\ pc' = "answered" /\ answer' = l
      /\ UNCHANGED <<starts, v4idx, lo4, i, key, l, h>>
      /\ l \in 0..n /\ h \in 0..n /\ key \in Nat /\ n \in Nat
  BY Sizes, Starts DEF IInv, TypeOK, Answer, Found, tables
<1>2. TypeOK'
  BY <1>1 DEF IInv, TypeOK, n
<1>3. TablesSplit'
  BY <1>1 DEF IInv, TablesSplit, SplitsAt, V4Idx, Lo4, Start, n
<1>4. LastAtOrBelow'
  <2>1. ASSUME NEW b \in 0..(l - 1) PROVE Start(b) < key + 1
    <3>1. b \in 0..(n - 1)
      BY <1>1
    <3>2. Start(b) \in Nat /\ Start(b) <= key
      BY <1>1, <3>1, Starts DEF IInv, BoundsEnclose
    <3>. QED  BY <1>1, <3>2
  <2>2. ASSUME NEW b \in l..(n - 1) PROVE Start(b) >= key + 1
    <3>1. b \in 0..(n - 1) /\ b \in h..(n - 1)
      BY <1>1
    <3>2. Start(b) \in Nat /\ Start(b) > key
      BY <1>1, <3>1, Starts DEF IInv, BoundsEnclose
    <3>. QED  BY <1>1, <3>2
  <2>. QED  BY <1>1, <2>1, <2>2 DEF LastAtOrBelow, SplitsAt, Start, n
<1>. QED
  BY <1>1, <1>2, <1>3, <1>4
     DEF IInv, AppendInv, BuildInv, SearchInv, BoundsEnclose

-----------------------------------------------------------------------------
(* Before anything is built the invariant holds. *)
LEMMA InitInv ==
  ASSUME Init
  PROVE  IInv
<1>1. /\ starts \in StartLists /\ starts \in Seq(Addresses)
      /\ v4idx = <<>> /\ lo4 = <<>> /\ pc = "appendV4Idx"
      /\ i = 0 /\ key = 0 /\ l = 0 /\ h = 0 /\ answer = 0
  BY StartListsAssumption DEF Init
<1>2. n \in Nat
  BY <1>1 DEF n
<1>3. /\ v4idx \in Seq(0..n) /\ Len(v4idx) = 0
      /\ lo4 \in Seq(0..n) /\ Len(lo4) = 0
  BY <1>1
<1>4. TypeOK
  BY <1>1, <1>2, <1>3, Sizes DEF TypeOK
<1>5. TablesSplit
  BY <1>3 DEF TablesSplit
<1>6. AppendInv
  BY <1>1 DEF AppendInv
<1>. QED
  BY <1>1, <1>4, <1>5, <1>6
     DEF IInv, BuildInv, SearchInv, BoundsEnclose, LastAtOrBelow

LEMMA NextInv ==
  ASSUME IInv, [Next]_vars
  PROVE  IInv'
<1>1. CASE AppendEntry
  BY <1>1, AppendEntryStep
<1>2. CASE NextBoundary
  BY <1>2, NextBoundaryStep
<1>3. CASE StartBuild
  BY <1>3, StartBuildStep
<1>4. CASE SkipBoundary
  BY <1>4, SkipBoundaryStep
<1>5. CASE FillEntry
  BY <1>5, FillEntryStep
<1>6. CASE EndBuild
  BY <1>6, EndBuildStep
<1>7. ASSUME NEW k \in Addresses, Lookup(k) PROVE IInv'
  BY <1>7, LookupStep
<1>8. CASE HalveDown
  BY <1>8, HalveDownStep
<1>9. CASE HalveUp
  BY <1>9, HalveUpStep
<1>10. CASE Answer
  BY <1>10, AnswerStep
<1>11. CASE UNCHANGED vars
  <2>1. UNCHANGED <<starts, v4idx, lo4, pc, i, key, l, h, answer>>
    BY <1>11 DEF vars, tables
  <2>2. TypeOK' /\ TablesSplit'
    BY <2>1 DEF IInv, TypeOK, TablesSplit, SplitsAt, V4Idx, Lo4, Start, n
  <2>3. AppendInv'
    BY <2>1 DEF IInv, AppendInv, Start, NextBucket
  <2>4. BuildInv'
    BY <2>1 DEF IInv, BuildInv, InWindow, NextWindow, G, V4Idx, Start
  <2>5. SearchInv' /\ BoundsEnclose' /\ LastAtOrBelow'
    BY <2>1 DEF IInv, SearchInv, BoundsEnclose, LastAtOrBelow, SplitsAt,
                Lo4, Window, Start, n
  <2>. QED  BY <2>2, <2>3, <2>4, <2>5 DEF IInv
<1>. QED
  BY <1>1, <1>2, <1>3, <1>4, <1>5, <1>6, <1>7, <1>8, <1>9, <1>10, <1>11
     DEF Next

(* The invariant holds in every state the loops reach. *)
THEOREM Invariance == Spec => []IInv
<1>. QED  BY InitInv, NextInv, PTL DEF Spec

(* No index the loops compute leaves the table it is used on, whatever the *)
(* starts: the searches need no further checks (reader.go:44-45).          *)
THEOREM IndexesInRange == Spec => []TypeOK
<1>1. IInv => TypeOK
  BY DEF IInv
<1>. QED  BY Invariance, <1>1, PTL

(* Every entry of V4IDX and of lo4 splits the boundaries at its address,   *)
(* although buildIndex4 sees the low bits of the starts only.              *)
THEOREM TablesRight == Spec => []TablesSplit
<1>1. IInv => TablesSplit
  BY DEF IInv
<1>. QED  BY Invariance, <1>1, PTL

(* The loop invariant of search4. *)
THEOREM SearchEncloses == Spec => []BoundsEnclose
<1>1. IInv => BoundsEnclose
  BY DEF IInv
<1>. QED  BY Invariance, <1>1, PTL

(* search4 answers every key with the last boundary at or below it.        *)
THEOREM SearchRight == Spec => []LastAtOrBelow
<1>1. IInv => LastAtOrBelow
  BY DEF IInv
<1>. QED  BY Invariance, <1>1, PTL

(* From every state the loops reach, a pass of search4's loop shrinks the  *)
(* bounds and keeps them in order: the halving has a variant, so it ends.  *)
THEOREM PassShrinks ==
  ASSUME IInv, HalveDown \/ HalveUp
  PROVE  l' \in 0..n /\ h' \in 0..n /\ l' <= h' /\ h' - l' < h - l
<1>1. CASE HalveDown
  <2>1. /\ mid \in l..(h - 1) /\ l \in 0..n /\ h \in 0..n /\ n \in Nat
        /\ h' = mid /\ l' = l
    BY <1>1, Middle DEF HalveDown
  <2>. QED  BY <2>1
<1>2. CASE HalveUp
  <2>1. /\ mid \in l..(h - 1) /\ l \in 0..n /\ h \in 0..n /\ n \in Nat
        /\ l' = mid + 1 /\ h' = h
    BY <1>2, Middle DEF HalveUp
  <2>. QED  BY <2>1
<1>. QED  BY <1>1, <1>2
=============================================================================
