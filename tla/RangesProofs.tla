---------------------------- MODULE RangesProofs ----------------------------
(***************************************************************************)
(* Proofs about Ranges, for addresses of any width, any ascending alias    *)
(* prefixes and every file: what Ranges yields ascends and is complete,    *)
(* what LookupRange finds has one answer, and both agree.                  *)
(***************************************************************************)
EXTENDS Ranges, TableProofs

(* The number of addresses below an IPv6 address. *)
Rank(x) == x.hi * (LoTop + 1) + x.lo

LEMMA RankFacts ==
  ASSUME NEW x \in Addresses6
  PROVE  /\ Rank(x) \in Nat /\ x.hi \in 0..HiTop /\ x.lo \in 0..LoTop
         /\ x = [hi |-> x.hi, lo |-> x.lo]
         /\ LoTop \in Nat /\ HiTop \in Nat
<1>1. LoTop \in Nat /\ HiTop \in Nat
  BY SizeAssumption
<1>2. /\ x.hi \in 0..HiTop /\ x.lo \in 0..LoTop
      /\ x = [hi |-> x.hi, lo |-> x.lo]
  BY DEF Addresses6
<1>3. Rank(x) \in Nat
  BY <1>1, <1>2 DEF Rank
<1>. QED  BY <1>1, <1>2, <1>3

(* The order of addresses is that of their ranks. *)
LEMMA LessRank ==
  ASSUME NEW x \in Addresses6, NEW y \in Addresses6
  PROVE  /\ Less(x, y) <=> Rank(x) < Rank(y)
         /\ x = y <=> Rank(x) = Rank(y)
<1> DEFINE L == LoTop + 1
<1>1. /\ x.hi \in Nat /\ y.hi \in Nat /\ x.lo \in 0..LoTop /\ y.lo \in 0..LoTop
      /\ x = [hi |-> x.hi, lo |-> x.lo] /\ y = [hi |-> y.hi, lo |-> y.lo]
      /\ LoTop \in Nat
  BY RankFacts
<1>2. ASSUME NEW e \in Nat, NEW b \in Nat, e < b, NEW c \in 0..LoTop, NEW d \in 0..LoTop
      PROVE  e * L + c < b * L + d
  <2>0. e + 1 \in Int /\ b \in Int /\ e + 1 <= b /\ L \in Nat
    BY <1>1, <1>2
  <2>1. (e + 1) * L <= b * L
    <3> HIDE DEF L
    <3>. QED  BY <2>0, MulMono
  <2>2. (e + 1) * L = e * L + L /\ e * L \in Int /\ b * L \in Int
    BY <1>1
  <2>. QED  BY <1>1, <2>1, <2>2
<1>3. Rank(x) = x.hi * L + x.lo /\ Rank(y) = y.hi * L + y.lo
  BY DEF Rank
<1>4. CASE x.hi < y.hi
  <2>1. Rank(x) < Rank(y)
    BY <1>1, <1>2, <1>3, <1>4
  <2>2. Rank(x) \in Nat /\ Rank(y) \in Nat
    BY RankFacts
  <2>. QED  BY <1>1, <1>4, <2>1, <2>2 DEF Less
<1>5. CASE y.hi < x.hi
  <2>1. Rank(y) < Rank(x)
    BY <1>1, <1>2, <1>3, <1>5
  <2>2. Rank(x) \in Nat /\ Rank(y) \in Nat
    BY RankFacts
  <2>. QED  BY <1>1, <1>5, <2>1, <2>2 DEF Less
<1>6. CASE x.hi = y.hi
  <2>1. PICK h \in Int : h = x.hi * L /\ h = y.hi * L
    BY <1>1, <1>6
  <2>. QED  BY <1>1, <1>3, <1>6, <2>1 DEF Less
<1>. QED  BY <1>1, <1>4, <1>5, <1>6

LEMMA EndRanks ==
  /\ Zero6 \in Addresses6 /\ Rank(Zero6) = 0
  /\ Top6 \in Addresses6
  /\ \A x \in Addresses6 : Rank(x) <= Rank(Top6)
<1>1. LoTop \in Nat /\ HiTop \in Nat
  BY SizeAssumption
<1>2. Zero6 \in Addresses6 /\ Top6 \in Addresses6
  BY <1>1 DEF Zero6, Top6, Addresses6
<1>3. Rank(Zero6) = 0
  BY <1>1 DEF Zero6, Rank
<1>4. ASSUME NEW x \in Addresses6 PROVE Rank(x) <= Rank(Top6)
  <2>1. ~Less(Top6, x)
    BY <1>1, RankFacts DEF Less, Top6
  <2>2. ~(Rank(Top6) < Rank(x))
    BY <1>2, <2>1, LessRank
  <2>. QED  BY <1>2, <2>2, RankFacts
<1>. QED  BY <1>2, <1>3, <1>4

(* inc128 and dec128 go to the next address and to the one before. *)
LEMMA IncRank ==
  ASSUME NEW x \in Addresses6, NEW y \in Addresses6, Rank(x) < Rank(y)
  PROVE  Inc128(x) \in Addresses6 /\ Rank(Inc128(x)) = Rank(x) + 1
<1> DEFINE L == LoTop + 1
<1>1. /\ x.hi \in 0..HiTop /\ y.hi \in 0..HiTop /\ x.lo \in 0..LoTop /\ y.lo \in 0..LoTop
      /\ LoTop \in Nat /\ HiTop \in Nat
  BY RankFacts
<1>2. CASE x.lo = LoTop
  <2>1. Less(x, y)
    BY LessRank
  <2>2. x.hi + 1 \in 0..HiTop
    BY <1>1, <1>2, <2>1 DEF Less
  <2>3. (x.lo + 1) % L = 0
    <3>1. 1 * L <= x.lo + 1 /\ x.lo + 1 < (1 + 1) * L /\ L \in Nat \ {0} /\ 1 * L = L
      BY <1>1, <1>2
    <3>2. (x.lo + 1) % L = (x.lo + 1) - 1 * L
      <4>1. x.lo + 1 \in Int /\ 1 \in Int
        BY <1>1
      <4> HIDE DEF L
      <4>. QED  BY <3>1, <4>1, DivUnique
    <3>. QED  BY <1>1, <1>2, <3>1, <3>2
  <2>4. Inc128(x) = [hi |-> x.hi + 1, lo |-> 0]
    BY <1>2, <2>3 DEF Inc128
  <2>5. Inc128(x) \in Addresses6
    BY <1>1, <2>2, <2>4 DEF Addresses6
  <2>6. (x.hi + 1) * L = x.hi * L + L /\ x.hi * L \in Int
    BY <1>1
  <2>. QED  BY <1>1, <1>2, <2>4, <2>5, <2>6 DEF Rank
<1>3. CASE x.lo # LoTop
  <2>1. (x.lo + 1) % L = x.lo + 1
    <3>1. 0 * L <= x.lo + 1 /\ x.lo + 1 < (0 + 1) * L /\ L \in Nat \ {0} /\ 0 * L = 0
      BY <1>1, <1>3
    <3>2. (x.lo + 1) % L = (x.lo + 1) - 0 * L
      BY <1>1, <3>1, DivUnique
    <3>. QED  BY <1>1, <3>1, <3>2
  <2>2. Inc128(x) = [hi |-> x.hi, lo |-> x.lo + 1]
    BY <1>3, <2>1 DEF Inc128
  <2>3. x.hi * L \in Int
    BY <1>1
  <2>. QED  BY <1>1, <1>3, <2>2, <2>3 DEF Rank, Addresses6
<1>. QED  BY <1>2, <1>3

LEMMA DecRank ==
  ASSUME NEW x \in Addresses6, Rank(x) > 0
  PROVE  Dec128(x) \in Addresses6 /\ Rank(Dec128(x)) = Rank(x) - 1
<1> DEFINE L == LoTop + 1
<1>1. x.hi \in 0..HiTop /\ x.lo \in 0..LoTop /\ LoTop \in Nat /\ HiTop \in Nat
  BY RankFacts
<1>2. CASE x.lo = 0
  <2>1. x.hi # 0
    <3>1. x.hi = 0 => Rank(x) = 0
      BY <1>1, <1>2 DEF Rank
    <3>. QED  BY <3>1
  <2>2. (x.lo - 1) % L = LoTop
    <3>1. /\ (-1) * L <= x.lo - 1 /\ x.lo - 1 < ((-1) + 1) * L
          /\ L \in Nat \ {0} /\ (-1) * L = -L
      BY <1>1, <1>2
    <3>2. (x.lo - 1) % L = (x.lo - 1) - (-1) * L
      BY <1>1, <3>1, DivUnique
    <3>. QED  BY <1>1, <1>2, <3>1, <3>2
  <2>3. Dec128(x) = [hi |-> x.hi - 1, lo |-> LoTop]
    BY <1>2, <2>2 DEF Dec128
  <2>4. x.hi - 1 \in 0..HiTop
    BY <1>1, <2>1
  <2>5. Dec128(x) \in Addresses6
    BY <1>1, <2>3, <2>4 DEF Addresses6
  <2>6. (x.hi - 1) * L = x.hi * L - L /\ x.hi * L \in Int
    BY <1>1
  <2>. QED  BY <1>1, <1>2, <2>3, <2>5, <2>6 DEF Rank
<1>3. CASE x.lo # 0
  <2>1. (x.lo - 1) % L = x.lo - 1
    <3>1. 0 * L <= x.lo - 1 /\ x.lo - 1 < (0 + 1) * L /\ L \in Nat \ {0} /\ 0 * L = 0
      BY <1>1, <1>3
    <3>2. (x.lo - 1) % L = (x.lo - 1) - 0 * L
      BY <1>1, <3>1, DivUnique
    <3>. QED  BY <1>1, <3>1, <3>2
  <2>2. Dec128(x) = [hi |-> x.hi, lo |-> x.lo - 1]
    BY <1>3, <2>1 DEF Dec128
  <2>3. x.hi * L \in Int
    BY <1>1
  <2>. QED  BY <1>1, <1>3, <2>2, <2>3 DEF Rank, Addresses6
<1>. QED  BY <1>2, <1>3

-----------------------------------------------------------------------------
(* A set of positions without gaps reaches as far as it has elements. *)
LEMMA PrefixCount ==
  ASSUME NEW N \in Nat, NEW T \in SUBSET (1..N),
         \A k \in T : \A m \in 1..N : m < k => m \in T
  PROVE  /\ Cardinality(T) \in 0..N
         /\ \A k \in 1..N : k \in T <=> k <= Cardinality(T)
<1> DEFINE U == {m \in 0..N : m = N \/ m + 1 \notin T}
<1>1. PICK m \in U : \A k \in U : m <= k
  <2>1. U \in SUBSET Nat /\ N \in U
    OBVIOUS
  <2> HIDE DEF U
  <2>. QED  BY <2>1, LeastNumber
<1>2. m \in 0..N /\ (m = N \/ m + 1 \notin T)
  OBVIOUS
<1>3. ASSUME NEW k \in 1..N PROVE k \in T <=> k <= m
  <2>1. CASE k <= m
    <3>1. k - 1 \in 0..N /\ ~(m <= k - 1) /\ (k - 1) + 1 = k
      BY <1>2, <2>1
    <3>2. k - 1 \notin U
      BY <1>1, <3>1
    <3>. QED  BY <2>1, <3>1, <3>2
  <2>2. CASE m < k
    <3>1. m + 1 \in 1..N /\ m # N /\ (m + 1 < k \/ m + 1 = k)
      BY <1>2, <2>2
    <3>. QED  BY <1>2, <2>2, <3>1
  <2>. QED  BY <1>2, <2>1, <2>2
<1>4. T = 1..m
  <2>1. 1..m \subseteq 1..N /\ \A k \in 1..N : k \in 1..m <=> k <= m
    BY <1>2
  <2>. QED  BY <1>3, <2>1
<1>5. Cardinality(1..m) = m
  <2>1. Cardinality(1..m) = IF 1 > m THEN 0 ELSE m - 1 + 1
    BY <1>2, FS_Interval
  <2>2. (IF 1 > m THEN 0 ELSE m - 1 + 1) = m
    BY <1>2
  <2>. QED  BY <2>1, <2>2
<1> HIDE DEF U
<1>. QED  BY <1>2, <1>3, <1>4, <1>5

-----------------------------------------------------------------------------
(* The boundaries of a file, and the last address of each one's range. *)
S4(b) == file.v4[b + 1].start
S6(b) == file.v6[b + 1].start
E4(b) == IF b + 1 < n4 THEN S4(b + 1) - 1 ELSE Top4
E6(b) == IF b + 1 < n6 THEN Dec128(S6(b + 1)) ELSE Top6

LEMMA Facts4 ==
  ASSUME file \in Files
  PROVE  /\ n4 \in Nat /\ DOMAIN file.v4 = 1..n4 /\ Top4 \in Nat
         /\ \A b \in 0..(n4 - 1) : S4(b) \in 0..Top4 /\ Id4(b) \in Nat
         /\ \A b, c \in 0..(n4 - 1) : b < c => S4(b) < S4(c)
<1>1. file.v4 \in Seq([start : Addresses4, id : Nat])
  BY FilesAssumption
<1>2. n4 \in Nat /\ DOMAIN file.v4 = 1..n4
  BY <1>1 DEF n4
<1>3. Top4 \in Nat
  <2>1. Buckets * BucketSize \in Nat /\ Buckets * BucketSize # 0
    BY SizeAssumption
  <2>. QED  BY <2>1 DEF Top4
<1>4. ASSUME NEW b \in 0..(n4 - 1) PROVE S4(b) \in 0..Top4 /\ Id4(b) \in Nat
  <2>1. b + 1 \in 1..Len(file.v4)
    BY <1>2 DEF n4
  <2>2. file.v4[b + 1] \in [start : Addresses4, id : Nat]
    BY <1>1, <2>1, Element
  <2>. QED  BY <2>2 DEF S4, Id4, Addresses4
<1>5. ASSUME NEW b \in 0..(n4 - 1), NEW c \in 0..(n4 - 1), b < c PROVE S4(b) < S4(c)
  <2>1. b + 1 \in DOMAIN file.v4 /\ c + 1 \in DOMAIN file.v4 /\ b + 1 < c + 1
    BY <1>2, <1>5
  <2>. QED  BY <2>1, FilesAssumption DEF S4
<1>. QED  BY <1>2, <1>3, <1>4, <1>5

LEMMA Facts6 ==
  ASSUME file \in Files
  PROVE  /\ n6 \in Nat /\ DOMAIN file.v6 = 1..n6
         /\ \A b \in 0..(n6 - 1) : S6(b) \in Addresses6 /\ Id6(b) \in Nat
         /\ \A b, c \in 0..(n6 - 1) : b < c => Rank(S6(b)) < Rank(S6(c))
<1>1. file.v6 \in Seq([start : Addresses6, id : Nat])
  BY FilesAssumption
<1>2. n6 \in Nat /\ DOMAIN file.v6 = 1..n6
  BY <1>1 DEF n6
<1>4. ASSUME NEW b \in 0..(n6 - 1) PROVE S6(b) \in Addresses6 /\ Id6(b) \in Nat
  <2>1. b + 1 \in 1..Len(file.v6)
    BY <1>2 DEF n6
  <2>2. file.v6[b + 1] \in [start : Addresses6, id : Nat]
    BY <1>1, <2>1, Element
  <2>. QED  BY <2>2 DEF S6, Id6
<1>5. ASSUME NEW b \in 0..(n6 - 1), NEW c \in 0..(n6 - 1), b < c
      PROVE  Rank(S6(b)) < Rank(S6(c))
  <2>1. b + 1 \in DOMAIN file.v6 /\ c + 1 \in DOMAIN file.v6 /\ b + 1 < c + 1
    BY <1>2, <1>5
  <2>2. Less(S6(b), S6(c))
    BY <2>1, FilesAssumption DEF S6
  <2>. QED  BY <1>4, <2>2, LessRank
<1>. QED  BY <1>2, <1>4, <1>5

(* index4 finds the boundary whose range an address is in. *)
LEMMA Index4Finds ==
  ASSUME file \in Files, NEW x \in 0..Top4
  PROVE  /\ Index4(x) \in -1..(n4 - 1)
         /\ \A b \in 0..(n4 - 1) : S4(b) <= x <=> b <= Index4(x)
         /\ \A b \in 0..(n4 - 1) : b = Index4(x) <=> S4(b) <= x /\ x <= E4(b)
<1> DEFINE T == {k \in DOMAIN file.v4 : file.v4[k].start <= x}
<1>1. /\ n4 \in Nat /\ DOMAIN file.v4 = 1..n4 /\ Top4 \in Nat
      /\ \A b \in 0..(n4 - 1) : S4(b) \in 0..Top4
      /\ \A b, c \in 0..(n4 - 1) : b < c => S4(b) < S4(c)
  BY Facts4
<1>2. \A k \in 1..n4 : k \in T <=> S4(k - 1) <= x
  BY <1>1 DEF S4
<1>3. Index4(x) = Cardinality(T) - 1
  BY DEF Index4
<1>4. T \in SUBSET (1..n4)
  BY <1>1
<1> HIDE DEF T
<1>5. ASSUME NEW k \in T, NEW m \in 1..n4, m < k PROVE m \in T
  <2>1. k \in 1..n4 /\ k - 1 \in 0..(n4 - 1) /\ m - 1 \in 0..(n4 - 1) /\ m - 1 < k - 1
    BY <1>1, <1>4, <1>5
  <2>2. S4(m - 1) < S4(k - 1) /\ S4(m - 1) \in 0..Top4 /\ S4(k - 1) \in 0..Top4
    BY <1>1, <2>1
  <2>3. S4(k - 1) <= x
    BY <1>2, <2>1
  <2>. QED  BY <1>1, <1>2, <2>2, <2>3
<1>6. /\ Cardinality(T) \in 0..n4
      /\ \A k \in 1..n4 : k \in T <=> k <= Cardinality(T)
  BY <1>1, <1>4, <1>5, PrefixCount
<1>7. ASSUME NEW b \in 0..(n4 - 1) PROVE S4(b) <= x <=> b <= Index4(x)
  <2>1. b + 1 \in 1..n4 /\ (b + 1) - 1 = b
    BY <1>1
  <2>. QED  BY <1>2, <1>3, <1>6, <2>1
<1>8. Index4(x) \in -1..(n4 - 1)
  BY <1>1, <1>3, <1>6
<1>9. ASSUME NEW b \in 0..(n4 - 1)
      PROVE  b = Index4(x) <=> S4(b) <= x /\ x <= E4(b)
  <2>1. CASE b + 1 < n4
    <3>1. b + 1 \in 0..(n4 - 1) /\ E4(b) = S4(b + 1) - 1
      BY <1>1, <2>1 DEF E4
    <3>2. S4(b + 1) \in 0..Top4
      BY <1>1, <3>1
    <3>3. x <= E4(b) <=> ~(S4(b + 1) <= x)
      BY <1>1, <3>1, <3>2
    <3>. QED  BY <1>7, <1>8, <3>1, <3>3
  <2>2. CASE ~(b + 1 < n4)
    <3>1. b = n4 - 1 /\ E4(b) = Top4
      BY <1>1, <2>2 DEF E4
    <3>. QED  BY <1>1, <1>7, <1>8, <3>1
  <2>. QED  BY <2>1, <2>2
<1>. QED  BY <1>7, <1>8, <1>9

(* index6 likewise. *)
LEMMA Index6Finds ==
  ASSUME file \in Files, NEW x \in Addresses6
  PROVE  /\ Index6(x) \in -1..(n6 - 1)
         /\ \A b \in 0..(n6 - 1) : Rank(S6(b)) <= Rank(x) <=> b <= Index6(x)
<1> DEFINE T == {k \in DOMAIN file.v6 : ~Less(x, file.v6[k].start)}
<1>1. /\ n6 \in Nat /\ DOMAIN file.v6 = 1..n6
      /\ \A b \in 0..(n6 - 1) : S6(b) \in Addresses6 /\ Rank(S6(b)) \in Nat
      /\ \A b, c \in 0..(n6 - 1) : b < c => Rank(S6(b)) < Rank(S6(c))
  BY Facts6, RankFacts
<1>0. Rank(x) \in Nat
  BY RankFacts
<1>2. ASSUME NEW k \in 1..n6 PROVE k \in T <=> Rank(S6(k - 1)) <= Rank(x)
  <2>1. k - 1 \in 0..(n6 - 1) /\ (k - 1) + 1 = k
    BY <1>1
  <2>2. k \in T <=> ~Less(x, S6(k - 1))
    BY <1>1, <2>1 DEF S6
  <2>3. S6(k - 1) \in Addresses6 /\ Rank(S6(k - 1)) \in Nat
    BY <1>1, <2>1
  <2> HIDE DEF T
  <2>. QED  BY <1>0, <2>2, <2>3, LessRank
<1>3. Index6(x) = Cardinality(T) - 1
  BY DEF Index6
<1>4. T \in SUBSET (1..n6)
  BY <1>1
<1> HIDE DEF T
<1>5. ASSUME NEW k \in T, NEW m \in 1..n6, m < k PROVE m \in T
  <2>1. k \in 1..n6 /\ k - 1 \in 0..(n6 - 1) /\ m - 1 \in 0..(n6 - 1) /\ m - 1 < k - 1
    BY <1>1, <1>4, <1>5
  <2>2. Rank(S6(m - 1)) < Rank(S6(k - 1)) /\ Rank(S6(m - 1)) \in Nat /\ Rank(S6(k - 1)) \in Nat
    BY <1>1, <2>1
  <2>3. Rank(S6(k - 1)) <= Rank(x)
    BY <1>2, <2>1
  <2>. QED  BY <1>0, <1>2, <2>2, <2>3
<1>6. /\ Cardinality(T) \in 0..n6
      /\ \A k \in 1..n6 : k \in T <=> k <= Cardinality(T)
  BY <1>1, <1>4, <1>5, PrefixCount
<1>7. ASSUME NEW b \in 0..(n6 - 1) PROVE Rank(S6(b)) <= Rank(x) <=> b <= Index6(x)
  <2>1. b + 1 \in 1..n6 /\ (b + 1) - 1 = b
    BY <1>1
  <2>. QED  BY <1>2, <1>3, <1>6, <2>1
<1>8. Index6(x) \in -1..(n6 - 1)
  BY <1>1, <1>3, <1>6
<1>. QED  BY <1>7, <1>8

(* The last address of a boundary's range. *)
LEMMA EndOf6 ==
  ASSUME file \in Files, NEW b \in 0..(n6 - 1)
  PROVE  /\ E6(b) \in Addresses6
         /\ Rank(S6(b)) <= Rank(E6(b))
         /\ b + 1 < n6 => Rank(S6(b + 1)) = Rank(E6(b)) + 1
         /\ ~(b + 1 < n6) => E6(b) = Top6
<1>1. /\ n6 \in Nat /\ S6(b) \in Addresses6 /\ Rank(S6(b)) \in Nat
      /\ Rank(S6(b)) <= Rank(Top6) /\ Top6 \in Addresses6
  BY Facts6, RankFacts, EndRanks
<1>2. CASE b + 1 < n6
  <2>1. b + 1 \in 0..(n6 - 1) /\ b < b + 1
    BY <1>1, <1>2
  <2>2. S6(b + 1) \in Addresses6 /\ Rank(S6(b)) < Rank(S6(b + 1))
    BY <2>1, Facts6
  <2>3. Rank(S6(b + 1)) \in Nat
    BY <2>2, RankFacts
  <2>4. Dec128(S6(b + 1)) \in Addresses6 /\ Rank(Dec128(S6(b + 1))) = Rank(S6(b + 1)) - 1
    BY <1>1, <2>2, <2>3, DecRank
  <2>5. E6(b) = Dec128(S6(b + 1))
    BY <1>2 DEF E6
  <2>. QED  BY <1>1, <1>2, <2>2, <2>3, <2>4, <2>5
<1>3. CASE ~(b + 1 < n6)
  BY <1>1, <1>3 DEF E6
<1>. QED  BY <1>2, <1>3

LEMMA InRange6 ==
  ASSUME file \in Files, NEW x \in Addresses6, NEW b \in 0..(n6 - 1)
  PROVE  b = Index6(x) <=> Rank(S6(b)) <= Rank(x) /\ Rank(x) <= Rank(E6(b))
<1>1. /\ n6 \in Nat /\ S6(b) \in Addresses6 /\ Rank(S6(b)) \in Nat /\ Rank(x) \in Nat
      /\ Rank(x) <= Rank(Top6)
  BY Facts6, RankFacts, EndRanks
<1>2. /\ Index6(x) \in -1..(n6 - 1)
      /\ \A c \in 0..(n6 - 1) : Rank(S6(c)) <= Rank(x) <=> c <= Index6(x)
  BY Index6Finds
<1>3. CASE b + 1 < n6
  <2>1. b + 1 \in 0..(n6 - 1) /\ Rank(S6(b + 1)) = Rank(E6(b)) + 1 /\ E6(b) \in Addresses6
    BY <1>1, <1>3, EndOf6
  <2>2. Rank(E6(b)) \in Nat
    BY <2>1, RankFacts
  <2>3. Rank(x) <= Rank(E6(b)) <=> ~(b + 1 <= Index6(x))
    BY <1>1, <1>2, <2>1, <2>2
  <2>. QED  BY <1>2, <2>3
<1>4. CASE ~(b + 1 < n6)
  <2>1. E6(b) = Top6 /\ b = n6 - 1
    BY <1>1, <1>4, EndOf6
  <2>. QED  BY <1>1, <1>2, <2>1
<1>. QED  BY <1>3, <1>4

-----------------------------------------------------------------------------
(* The bucket of an IPv4 boundary. *)
BucketOf(b) == S4(b) \div BucketSize

LEMMA BucketFacts ==
  ASSUME file \in Files, NEW b \in 0..(n4 - 1)
  PROVE  /\ BucketOf(b) \in 0..(Buckets - 1) /\ Buckets \in Nat \ {0}
         /\ S4(b) = BucketOf(b) * BucketSize + Low(b)
         /\ \A d \in 0..Buckets : S4(b) < d * BucketSize <=> BucketOf(b) < d
<1>1. /\ Buckets \in Nat \ {0} /\ BucketSize \in Nat \ {0}
      /\ S4(b) \in 0..Top4 /\ S4(b) \in Int /\ n4 \in Nat
  BY SizeAssumption, Facts4
<1> DEFINE q == BucketOf(b)
<1>2. /\ q \in Int /\ Low(b) \in Int /\ S4(b) = BucketSize * q + Low(b)
      /\ 0 <= Low(b) /\ Low(b) < BucketSize
  <2>1. Low(b) = S4(b) % BucketSize
    BY DEF Low, S4
  <2>. QED  BY <1>1, <2>1, DivMod DEF BucketOf
<1> HIDE DEF q
<1>3. /\ BucketSize * q = q * BucketSize /\ q * BucketSize \in Int
      /\ (q + 1) * BucketSize = q * BucketSize + BucketSize
  BY <1>1, <1>2
<1>4. ASSUME NEW d \in 0..Buckets PROVE S4(b) < d * BucketSize <=> q < d
  <2>1. d * BucketSize \in Int /\ d \in Int
    BY <1>1
  <2>2. CASE q < d
    <3>1. (q + 1) * BucketSize <= d * BucketSize
      <4>1. q + 1 <= d /\ q + 1 \in Int /\ BucketSize \in Nat
        BY <1>1, <1>2, <2>1, <2>2
      <4>. QED  BY <2>1, <4>1, MulMono
    <3>. QED  BY <1>1, <1>2, <1>3, <2>1, <2>2, <3>1
  <2>3. CASE ~(q < d)
    <3>1. d * BucketSize <= q * BucketSize
      <4>1. d <= q /\ BucketSize \in Nat
        BY <1>1, <1>2, <2>1, <2>3
      <4>. QED  BY <1>2, <2>1, <4>1, MulMono
    <3>. QED  BY <1>1, <1>2, <1>3, <2>1, <2>3, <3>1
  <2>. QED  BY <2>2, <2>3
<1>5. q < Buckets
  <2>1. S4(b) < Buckets * BucketSize
    BY <1>1 DEF Top4
  <2>. QED  BY <1>1, <1>4, <2>1
<1>6. 0 <= q
  <2>1. ~(S4(b) < 0 * BucketSize) /\ 0 \in 0..Buckets
    BY <1>1
  <2>. QED  BY <1>2, <1>4, <2>1
<1>7. q \in 0..(Buckets - 1)
  BY <1>1, <1>2, <1>5, <1>6
<1>. QED  BY <1>1, <1>2, <1>3, <1>4, <1>7 DEF q

(* V4IDX tells the bucket of a boundary. *)
LEMMA V4IdxSplits ==
  ASSUME file \in Files, NEW d \in 0..Buckets
  PROVE  /\ V4Idx(d) \in 0..n4
         /\ \A b \in 0..(n4 - 1) : b < V4Idx(d) <=> BucketOf(b) < d
<1> DEFINE T == {k \in DOMAIN file.v4 : file.v4[k].start < d * BucketSize}
<1>1. /\ n4 \in Nat /\ DOMAIN file.v4 = 1..n4
      /\ \A b \in 0..(n4 - 1) : S4(b) \in 0..Top4 /\ S4(b) \in Int
      /\ \A b, c \in 0..(n4 - 1) : b < c => S4(b) < S4(c)
  BY Facts4
<1>0. d * BucketSize \in Int
  BY SizeAssumption
<1>2. \A k \in 1..n4 : k \in T <=> S4(k - 1) < d * BucketSize
  BY <1>1 DEF S4
<1>3. V4Idx(d) = Cardinality(T)
  BY DEF V4Idx
<1>4. T \in SUBSET (1..n4)
  BY <1>1
<1> HIDE DEF T
<1>5. ASSUME NEW k \in T, NEW m \in 1..n4, m < k PROVE m \in T
  <2>1. k \in 1..n4 /\ k - 1 \in 0..(n4 - 1) /\ m - 1 \in 0..(n4 - 1) /\ m - 1 < k - 1
    BY <1>1, <1>4, <1>5
  <2>2. S4(m - 1) < S4(k - 1) /\ S4(m - 1) \in Int /\ S4(k - 1) \in Int
    BY <1>1, <2>1
  <2>3. S4(k - 1) < d * BucketSize
    BY <1>2, <2>1
  <2>4. S4(m - 1) < d * BucketSize
    BY <1>0, <2>2, <2>3
  <2>. QED  BY <1>2, <2>4
<1>6. /\ Cardinality(T) \in 0..n4
      /\ \A k \in 1..n4 : k \in T <=> k <= Cardinality(T)
  BY <1>1, <1>4, <1>5, PrefixCount
<1>7. ASSUME NEW b \in 0..(n4 - 1) PROVE b < V4Idx(d) <=> BucketOf(b) < d
  <2>1. b + 1 \in 1..n4 /\ (b + 1) - 1 = b
    BY <1>1
  <2>2. b + 1 \in T <=> S4(b) < d * BucketSize
    BY <1>2, <2>1
  <2>3. S4(b) < d * BucketSize <=> BucketOf(b) < d
    BY BucketFacts
  <2>4. b + 1 \in T <=> b < V4Idx(d)
    BY <1>3, <1>6, <2>1
  <2>. QED  BY <2>2, <2>3, <2>4
<1>. QED  BY <1>3, <1>6, <1>7

(* start4 finds a boundary's start, whatever the hint. *)
LEMMA Start4Right ==
  ASSUME file \in Files, NEW b \in 0..(n4 - 1), NEW hint \in 0..(Buckets - 1)
  PROVE  Start4(b, hint) = S4(b)
<1> DEFINE q == BucketOf(b)
           P == [d \in 1..(Buckets - 1) |-> V4Idx(d) > b]
           p == FirstTrue(P, 1, Buckets)
<1>1. /\ q \in 0..(Buckets - 1) /\ Buckets \in Nat \ {0}
      /\ S4(b) = q * BucketSize + Low(b) /\ n4 \in Nat
  BY BucketFacts, Facts4
<1>2. \A d \in 0..Buckets : V4Idx(d) \in Nat /\ (b < V4Idx(d) <=> q < d)
  <2>1. ASSUME NEW d \in 0..Buckets PROVE V4Idx(d) \in Nat /\ (b < V4Idx(d) <=> q < d)
    BY <1>1, V4IdxSplits
  <2>. QED  BY <2>1
<1>3. Start4(b, hint) = (IF V4Idx(hint) <= b /\ b < V4Idx(hint + 1) THEN hint
                         ELSE p - 1) * BucketSize + Low(b)
  BY DEF Start4
<1> HIDE DEF q
<1>4. ASSUME V4Idx(hint) <= b, b < V4Idx(hint + 1) PROVE hint = q
  <2>1. hint \in 0..Buckets /\ hint + 1 \in 0..Buckets
    BY <1>1
  <2>2. ~(q < hint) /\ q < hint + 1
    BY <1>2, <1>4, <2>1
  <2>. QED  BY <1>1, <2>2
<1>5. p - 1 = q
  <2>1. \A d \in 1..(Buckets - 1) : P[d] <=> q < d
    <3>1. ASSUME NEW d \in 1..(Buckets - 1) PROVE P[d] <=> q < d
      <4>1. d \in 0..Buckets
        BY <1>1
      <4>. QED  BY <1>1, <1>2, <4>1
    <3>. QED  BY <3>1
  <2> HIDE DEF P
  <2>2. GoesOn(P, 1, Buckets)
    BY <1>1, <2>1 DEF GoesOn
  <2>3. Begins(P, 1, Buckets, p)
    <3>1. 1 \in Nat /\ Buckets \in Nat /\ 1 <= Buckets
      BY <1>1
    <3>. QED  BY <2>2, <3>1, FirstTrueBegins
  <2> HIDE DEF p
  <2>4. p \in 1..Buckets
    BY <2>3 DEF Begins
  <2>5. ~(q + 1 < p)
    <3>1. q + 1 < p => q + 1 \in 1..(p - 1) /\ q + 1 \in 1..(Buckets - 1)
      BY <1>1, <2>4
    <3>. QED  BY <1>1, <2>1, <2>3, <3>1 DEF Begins
  <2>6. ~(p <= q)
    <3>1. p <= q => p \in p..(Buckets - 1) /\ p \in 1..(Buckets - 1)
      BY <1>1, <2>4
    <3>. QED  BY <1>1, <2>1, <2>3, <2>4, <3>1 DEF Begins
  <2>. QED  BY <1>1, <2>4, <2>5, <2>6
<1> HIDE DEF p, P
<1>. QED  BY <1>1, <1>3, <1>4, <1>5, Zenon

(* ranges4's start goes on to the bucket of a boundary. *)
LEMMA BucketRight ==
  ASSUME file \in Files, NEW b \in 0..(n4 - 1), NEW c \in 0..BucketOf(b)
  PROVE  Bucket(b, c) = BucketOf(b)
<1> DEFINE q == BucketOf(b)
           Reached(d) == V4Idx(d + 1) > b /\ \A k \in c..(d - 1) : V4Idx(k + 1) <= b
<1>1. q \in 0..(Buckets - 1) /\ Buckets \in Nat \ {0} /\ n4 \in Nat
  BY BucketFacts, Facts4
<1>2. \A d \in 0..(Buckets - 1) : /\ V4Idx(d + 1) > b <=> q <= d
                                  /\ V4Idx(d + 1) <= b <=> ~(q <= d)
  <2>1. ASSUME NEW d \in 0..(Buckets - 1)
        PROVE  (V4Idx(d + 1) > b <=> q <= d) /\ (V4Idx(d + 1) <= b <=> ~(q <= d))
    <3>1. d + 1 \in 0..Buckets
      BY <1>1
    <3>2. V4Idx(d + 1) \in Nat /\ (b < V4Idx(d + 1) <=> q < d + 1)
      BY <1>1, <3>1, V4IdxSplits
    <3>. QED  BY <1>1, <3>2
  <2>. QED  BY <2>1
<1>3. c \in 0..q
  OBVIOUS
<1>4. Bucket(b, c) = CHOOSE d \in c..(Buckets - 1) : Reached(d)
  BY DEF Bucket
<1> HIDE DEF q
<1>5. ASSUME NEW d \in c..(Buckets - 1) PROVE Reached(d) <=> d = q
  <2>1. d \in 0..(Buckets - 1)
    BY <1>1, <1>3
  <2>2. CASE d = q
    <3>1. ASSUME NEW k \in c..(d - 1) PROVE V4Idx(k + 1) <= b
      <4>1. k \in 0..(Buckets - 1) /\ ~(q <= k)
        BY <1>1, <1>3, <2>1, <2>2
      <4>. QED  BY <1>2, <4>1
    <3>. QED  BY <1>1, <1>2, <2>1, <2>2, <3>1
  <2>3. CASE d < q
    BY <1>1, <1>2, <2>1, <2>3
  <2>4. CASE q < d
    <3>1. q \in c..(d - 1)
      BY <1>1, <1>3, <2>1, <2>4
    <3>2. ~(V4Idx(q + 1) <= b)
      BY <1>1, <1>2
    <3>. QED  BY <2>4, <3>1, <3>2
  <2>. QED  BY <1>1, <2>1, <2>2, <2>3, <2>4
<1>6. q \in c..(Buckets - 1)
  BY <1>1, <1>3
<1> HIDE DEF Reached
<1>7. Bucket(b, c) = q
  BY <1>4, <1>5, <1>6
<1>. QED  BY <1>7 DEF q

-----------------------------------------------------------------------------
(* The exceptions of a file. *)
LEMMA Exceptions ==
  ASSUME file \in Files
  PROVE  /\ ExcIdx \in Seq(0..(n6 - 1)) /\ Len(ExcIdx) \in Nat
         /\ DOMAIN ExcIdx = 1..Len(ExcIdx)
         /\ \A e \in DOMAIN ExcIdx : ExcIdx[e] \in 0..(n6 - 1)
         /\ \A c, d \in DOMAIN ExcIdx : c < d => ExcIdx[c] < ExcIdx[d]
         /\ \A b \in 0..(n6 - 1) :
              S6(b).lo # 0 <=> \E e \in DOMAIN ExcIdx : ExcIdx[e] = b
         /\ \A e \in DOMAIN ExcIdx : ExcLo(e) = S6(ExcIdx[e]).lo
<1> DEFINE low == [b \in 1..n6 |-> file.v6[b].start.lo]
<1>1. n6 \in Nat /\ DOMAIN file.v6 = 1..n6
  BY Facts6
<1>2. low \in Seq(Nat) /\ Len(low) = n6
  <2>1. ASSUME NEW b \in 1..n6 PROVE file.v6[b].start.lo \in Nat
    <3>1. b - 1 \in 0..(n6 - 1) /\ (b - 1) + 1 = b
      BY <1>1
    <3>2. S6(b - 1) \in Addresses6 /\ S6(b - 1) = file.v6[b].start
      BY <3>1, Facts6 DEF S6
    <3>3. S6(b - 1).lo \in 0..LoTop
      BY <3>2, RankFacts
    <3>4. \A x \in 0..LoTop : x \in Nat
      OBVIOUS
    <3>. QED  BY <3>2, <3>3, <3>4
  <2>. QED  BY <1>1, <2>1
<1>3. ExcIdx = ExceptionsOf(low)
  BY DEF ExcIdx
<1>4. \A b \in 0..(n6 - 1) : low[b + 1] = S6(b).lo
  BY <1>1 DEF S6
<1> HIDE DEF low
<1>5. /\ ExcIdx \in Seq(0..(n6 - 1))
      /\ \A c, d \in DOMAIN ExcIdx : c < d => ExcIdx[c] < ExcIdx[d]
      /\ \A b \in 0..(n6 - 1) : low[b + 1] # 0 <=> \E e \in DOMAIN ExcIdx : ExcIdx[e] = b
  BY <1>2, <1>3, ExceptionFacts
<1>6. /\ Len(ExcIdx) \in Nat /\ DOMAIN ExcIdx = 1..Len(ExcIdx)
      /\ \A e \in DOMAIN ExcIdx : ExcIdx[e] \in 0..(n6 - 1)
  <2>1. Len(ExcIdx) \in Nat /\ DOMAIN ExcIdx = 1..Len(ExcIdx)
    BY <1>5
  <2>. QED  BY <1>5, <2>1, Element
<1>7. \A e \in DOMAIN ExcIdx : ExcLo(e) = S6(ExcIdx[e]).lo
  BY DEF ExcLo, S6
<1>. QED  BY <1>4, <1>5, <1>6, <1>7

LEMMA Start6Right ==
  ASSUME file \in Files, NEW b \in 0..(n6 - 1)
  PROVE  Start6(b) = S6(b)
<1> DEFINE E == {e \in DOMAIN ExcIdx : ExcIdx[e] = b}
           c == CHOOSE e \in E : TRUE
<1>1. /\ S6(b) = [hi |-> S6(b).hi, lo |-> S6(b).lo] /\ S6(b) \in Addresses6
  BY Facts6, RankFacts
<1>2. Hi(b) = S6(b).hi
  BY DEF Hi, S6
<1>3. Start6(b) = [hi |-> Hi(b), lo |-> IF E = {} THEN 0 ELSE ExcLo(c)]
  BY DEF Start6
<1>4. CASE E = {}
  <2>1. S6(b).lo = 0
    BY <1>4, Exceptions
  <2>. QED  BY <1>1, <1>2, <1>3, <1>4, <2>1
<1>5. CASE E # {}
  <2>1. c \in E
    BY <1>5
  <2>2. ExcLo(c) = S6(b).lo
    BY <2>1, Exceptions
  <2> HIDE DEF E, c
  <2>. QED  BY <1>1, <1>2, <1>3, <1>5, <2>2
<1>. QED  BY <1>4, <1>5

(* The exceptions below boundary b are the first e. *)
ExceptionsPassed(b, e) == \A x \in DOMAIN ExcIdx : ExcIdx[x] < b <=> x <= e

(* ranges6's walk meets each exception at its boundary. *)
LEMMA WalkRight ==
  ASSUME file \in Files, NEW b \in 0..(n6 - 1),
         NEW e \in 0..Len(ExcIdx), ExceptionsPassed(b, e)
  PROVE  /\ Walked6(b, e) = S6(b)
         /\ AfterException(b, e) \in 0..Len(ExcIdx)
         /\ ExceptionsPassed(b + 1, AfterException(b, e))
<1>1. /\ S6(b) = [hi |-> S6(b).hi, lo |-> S6(b).lo] /\ S6(b) \in Addresses6
  BY Facts6, RankFacts
<1>2. /\ Len(ExcIdx) \in Nat /\ DOMAIN ExcIdx = 1..Len(ExcIdx)
      /\ \A x \in DOMAIN ExcIdx : ExcIdx[x] \in 0..(n6 - 1)
      /\ \A c, d \in DOMAIN ExcIdx : c < d => ExcIdx[c] < ExcIdx[d]
      /\ S6(b).lo # 0 <=> \E x \in DOMAIN ExcIdx : ExcIdx[x] = b
      /\ \A x \in DOMAIN ExcIdx : ExcLo(x) = S6(ExcIdx[x]).lo
      /\ n6 \in Nat
  BY Exceptions, Facts6
<1>3. Hi(b) = S6(b).hi
  BY DEF Hi, S6
<1>4. ASSUME NEW x \in DOMAIN ExcIdx, ExcIdx[x] = b PROVE x = e + 1
  <2>1. ~(x <= e) /\ x \in Nat /\ x <= Len(ExcIdx)
    BY <1>2, <1>4 DEF ExceptionsPassed
  <2>2. CASE e + 1 < x
    <3>1. e + 1 \in DOMAIN ExcIdx
      BY <1>2, <2>1, <2>2
    <3>2. ExcIdx[e + 1] < b
      BY <1>2, <1>4, <2>2, <3>1
    <3>3. e + 1 <= e
      BY <3>1, <3>2 DEF ExceptionsPassed
    <3>. QED  BY <3>3
  <2>. QED  BY <2>1, <2>2
<1>5. CASE IsException(b, e)
  <2>1. e + 1 \in DOMAIN ExcIdx /\ ExcIdx[e + 1] = b
    BY <1>2, <1>5 DEF IsException
  <2>2. ExcLo(e + 1) = S6(b).lo
    BY <1>2, <2>1
  <2>3. Walked6(b, e) = [hi |-> Hi(b), lo |-> ExcLo(e + 1)] /\ AfterException(b, e) = e + 1
    BY <1>5 DEF Walked6, AfterException
  <2>4. ASSUME NEW x \in DOMAIN ExcIdx PROVE ExcIdx[x] < b + 1 <=> x <= e + 1
    <3>1. /\ ExcIdx[x] \in 0..(n6 - 1) /\ x \in Nat
          /\ ExcIdx[x] < b <=> x <= e
          /\ ExcIdx[x] = b <=> x = e + 1
      BY <1>2, <1>4, <2>1 DEF ExceptionsPassed
    <3>. QED  BY <3>1
  <2>. QED  BY <1>1, <1>2, <1>3, <2>1, <2>2, <2>3, <2>4 DEF ExceptionsPassed
<1>6. CASE ~IsException(b, e)
  <2>1. ~(\E x \in DOMAIN ExcIdx : ExcIdx[x] = b)
    <3>1. ASSUME NEW x \in DOMAIN ExcIdx, ExcIdx[x] = b PROVE FALSE
      <4>1. x = e + 1
        BY <1>4, <3>1
      <4>. QED  BY <1>2, <1>6, <3>1, <4>1 DEF IsException
    <3>. QED  BY <3>1
  <2>2. S6(b).lo = 0
    BY <1>2, <2>1
  <2>3. Walked6(b, e) = [hi |-> Hi(b), lo |-> 0] /\ AfterException(b, e) = e
    BY <1>6 DEF Walked6, AfterException
  <2>4. ASSUME NEW x \in DOMAIN ExcIdx PROVE ExcIdx[x] < b + 1 <=> x <= e
    <3>1. /\ ExcIdx[x] \in 0..(n6 - 1) /\ ExcIdx[x] # b
          /\ ExcIdx[x] < b <=> x <= e
      BY <1>2, <2>1 DEF ExceptionsPassed
    <3>. QED  BY <3>1
  <2>. QED  BY <1>1, <1>3, <2>2, <2>3, <2>4 DEF ExceptionsPassed
<1>. QED  BY <1>5, <1>6

LEMMA NonePassed ==
  ASSUME file \in Files
  PROVE  ExceptionsPassed(0, 0) /\ 0 \in 0..Len(ExcIdx)
<1>1. /\ Len(ExcIdx) \in Nat /\ DOMAIN ExcIdx = 1..Len(ExcIdx)
      /\ \A x \in DOMAIN ExcIdx : ExcIdx[x] \in 0..(n6 - 1)
  BY Exceptions
<1>2. ASSUME NEW x \in DOMAIN ExcIdx PROVE ~(ExcIdx[x] < 0) /\ ~(x <= 0)
  BY <1>1
<1>. QED  BY <1>1, <1>2 DEF ExceptionsPassed

-----------------------------------------------------------------------------
(* The alias prefixes, whose number is finite. *)
Aliases     == 1..Len(v6Aliases)
FirstOf(k)  == Rank(Alias(k).first)
LastOf(k)   == Rank(Alias(k).last)

LEMMA AliasFacts ==
  /\ Len(v6Aliases) \in Nat /\ DOMAIN v6Aliases = Aliases
  /\ \A k \in Aliases : /\ Alias(k).first \in Addresses6 /\ Alias(k).last \in Addresses6
                        /\ FirstOf(k) \in Nat /\ LastOf(k) \in Nat
                        /\ FirstOf(k) <= LastOf(k)
  /\ \A k, m \in Aliases : k < m => LastOf(k) < FirstOf(m)
<1> DEFINE K == Len(v6Aliases)
<1>1. K \in Nat /\ DOMAIN v6Aliases = Aliases
  BY AliasAssumption DEF Aliases
<1>2. ASSUME NEW k \in Aliases
      PROVE  /\ Alias(k).first \in Addresses6 /\ Alias(k).last \in Addresses6
             /\ FirstOf(k) \in Nat /\ LastOf(k) \in Nat
             /\ FirstOf(k) <= LastOf(k)
  <2>1. v6Aliases[k] \in [first : Addresses6, last : Addresses6]
    BY AliasAssumption, Element DEF Aliases
  <2>2. Alias(k).first \in Addresses6 /\ Alias(k).last \in Addresses6
    BY <2>1 DEF Alias
  <2>3. ~Less(Alias(k).last, Alias(k).first)
    BY <1>1, AliasAssumption
  <2>4. FirstOf(k) \in Nat /\ LastOf(k) \in Nat
    BY <2>2, RankFacts DEF FirstOf, LastOf
  <2>5. ~(LastOf(k) < FirstOf(k))
    BY <2>2, <2>3, LessRank DEF FirstOf, LastOf
  <2>. QED  BY <2>2, <2>4, <2>5
<1>3. ASSUME NEW k \in Aliases, k > 1
      PROVE  k - 1 \in Aliases /\ LastOf(k - 1) < FirstOf(k)
  <2>1. k - 1 \in Aliases
    BY <1>1, <1>3 DEF Aliases
  <2>2. Less(Alias(k - 1).last, Alias(k).first)
    BY <1>1, <1>3, AliasAssumption
  <2>. QED  BY <1>2, <2>1, <2>2, LessRank DEF FirstOf, LastOf
<1> DEFINE T == {d \in 0..K : \A k, m \in Aliases : k < m /\ m <= d => LastOf(k) < FirstOf(m)}
<1>4. 0 \in T
  <2>1. \A m \in Aliases : ~(m <= 0)
    BY DEF Aliases
  <2>. QED  BY <1>1, <2>1
<1>5. ASSUME NEW d \in 0..(K - 1), d \in T
      PROVE  d + 1 \in T
  <2>1. ASSUME NEW k \in Aliases, NEW m \in Aliases, k < m, m <= d + 1
        PROVE  LastOf(k) < FirstOf(m)
    <3>0. k \in Nat /\ m \in Nat /\ k >= 1 /\ d \in Nat
      BY DEF Aliases
    <3>1. m - 1 \in Aliases /\ LastOf(m - 1) < FirstOf(m) /\ FirstOf(m - 1) <= LastOf(m - 1)
      BY <1>2, <1>3, <2>1, <3>0
    <3>2. CASE k = m - 1
      BY <3>1, <3>2
    <3>3. CASE k # m - 1
      <4>1. k < m - 1 /\ m - 1 <= d
        BY <2>1, <3>0, <3>3
      <4>2. LastOf(k) < FirstOf(m - 1)
        BY <1>5, <3>1, <4>1
      <4>3. /\ LastOf(k) \in Nat /\ FirstOf(m - 1) \in Nat /\ LastOf(m - 1) \in Nat
            /\ FirstOf(m) \in Nat
        BY <1>2, <3>1
      <4>. QED  BY <3>1, <4>2, <4>3
    <3>. QED  BY <3>2, <3>3
  <2>2. d + 1 \in 0..K
    BY <1>1
  <2>. QED  BY <2>1, <2>2
<1>6. K \in T
  <2> HIDE DEF K, T
  <2>1. 0..K \subseteq T
    BY <1>1, <1>4, <1>5, UpTo
  <2>. QED  BY <1>1, <2>1
<1>7. ASSUME NEW k \in Aliases, NEW m \in Aliases, k < m PROVE LastOf(k) < FirstOf(m)
  <2>1. m <= K
    BY <1>1 DEF Aliases
  <2>. QED  BY <1>6, <1>7, <2>1
<1>. QED  BY <1>1, <1>2, <1>7

LEMMA AliasedRank ==
  ASSUME NEW x \in Addresses6
  PROVE  Aliased(x) <=> \E k \in Aliases : FirstOf(k) <= Rank(x) /\ Rank(x) <= LastOf(k)
<1>1. Rank(x) \in Nat /\ DOMAIN v6Aliases = Aliases
  BY RankFacts, AliasFacts
<1>2. ASSUME NEW k \in Aliases
      PROVE  Within(x, Alias(k).first, Alias(k).last)
               <=> FirstOf(k) <= Rank(x) /\ Rank(x) <= LastOf(k)
  <2>1. /\ Alias(k).first \in Addresses6 /\ Alias(k).last \in Addresses6
        /\ FirstOf(k) \in Nat /\ LastOf(k) \in Nat
    BY AliasFacts
  <2>2. /\ Less(x, Alias(k).first) <=> Rank(x) < FirstOf(k)
        /\ Less(Alias(k).last, x) <=> LastOf(k) < Rank(x)
    BY <2>1, LessRank DEF FirstOf, LastOf
  <2>. QED  BY <1>1, <2>1, <2>2 DEF Within
<1>. QED  BY <1>1, <1>2 DEF Aliased

(* f to l is a part of p to q between aliases: no alias meets it, and it   *)
(* cannot be longer.                                                       *)
Clear(f, l)      == \A k \in Aliases : LastOf(k) < Rank(f) \/ Rank(l) < FirstOf(k)
StartsPart(p, f) == f = p \/ \E k \in Aliases : Rank(f) = LastOf(k) + 1
EndsPart(q, l)   == l = q \/ \E k \in Aliases : Rank(l) + 1 = FirstOf(k)
IsPart(p, q, f, l) ==
  /\ f \in Addresses6 /\ l \in Addresses6
  /\ Rank(p) <= Rank(f) /\ Rank(f) <= Rank(l) /\ Rank(l) <= Rank(q)
  /\ Clear(f, l)
  /\ StartsPart(p, f) /\ EndsPart(q, l)

LEMMA PartOnce ==
  ASSUME NEW p \in Addresses6, NEW q \in Addresses6,
         NEW f, NEW l, IsPart(p, q, f, l),
         NEW g1, NEW m, IsPart(p, q, g1, m),
         NEW x \in Addresses6, Rank(f) <= Rank(x), Rank(x) <= Rank(l),
         Rank(g1) <= Rank(x), Rank(x) <= Rank(m)
  PROVE  f = g1 /\ l = m
<1>1. /\ f \in Addresses6 /\ l \in Addresses6 /\ g1 \in Addresses6 /\ m \in Addresses6
      /\ Rank(f) \in Nat /\ Rank(l) \in Nat /\ Rank(g1) \in Nat /\ Rank(m) \in Nat
      /\ Rank(x) \in Nat /\ Rank(p) \in Nat /\ Rank(q) \in Nat
  BY RankFacts DEF IsPart
<1>2. \A k \in Aliases : FirstOf(k) \in Nat /\ LastOf(k) \in Nat /\ FirstOf(k) <= LastOf(k)
  BY AliasFacts
<1>3. ~(Rank(f) < Rank(g1))
  <2>1. SUFFICES ASSUME Rank(f) < Rank(g1) PROVE FALSE
    OBVIOUS
  <2>2. g1 # p
    BY <1>1, <2>1 DEF IsPart
  <2>3. PICK k \in Aliases : Rank(g1) = LastOf(k) + 1
    BY <2>2 DEF IsPart, StartsPart
  <2>4. LastOf(k) < Rank(f) \/ Rank(l) < FirstOf(k)
    BY DEF IsPart, Clear
  <2>. QED  BY <1>1, <1>2, <2>1, <2>3, <2>4
<1>4. ~(Rank(g1) < Rank(f))
  <2>1. SUFFICES ASSUME Rank(g1) < Rank(f) PROVE FALSE
    OBVIOUS
  <2>2. f # p
    BY <1>1, <2>1 DEF IsPart
  <2>3. PICK k \in Aliases : Rank(f) = LastOf(k) + 1
    BY <2>2 DEF IsPart, StartsPart
  <2>4. LastOf(k) < Rank(g1) \/ Rank(m) < FirstOf(k)
    BY DEF IsPart, Clear
  <2>. QED  BY <1>1, <1>2, <2>1, <2>3, <2>4
<1>5. ~(Rank(l) < Rank(m))
  <2>1. SUFFICES ASSUME Rank(l) < Rank(m) PROVE FALSE
    OBVIOUS
  <2>2. l # q
    BY <1>1, <2>1 DEF IsPart
  <2>3. PICK k \in Aliases : Rank(l) + 1 = FirstOf(k)
    BY <2>2 DEF IsPart, EndsPart
  <2>4. LastOf(k) < Rank(g1) \/ Rank(m) < FirstOf(k)
    BY DEF IsPart, Clear
  <2>. QED  BY <1>1, <1>2, <2>1, <2>3, <2>4
<1>6. ~(Rank(m) < Rank(l))
  <2>1. SUFFICES ASSUME Rank(m) < Rank(l) PROVE FALSE
    OBVIOUS
  <2>2. m # q
    BY <1>1, <2>1 DEF IsPart
  <2>3. PICK k \in Aliases : Rank(m) + 1 = FirstOf(k)
    BY <2>2 DEF IsPart, EndsPart
  <2>4. LastOf(k) < Rank(f) \/ Rank(l) < FirstOf(k)
    BY DEF IsPart, Clear
  <2>. QED  BY <1>1, <1>2, <2>1, <2>3, <2>4
<1>7. Rank(f) = Rank(g1) /\ Rank(l) = Rank(m)
  BY <1>1, <1>3, <1>4, <1>5, <1>6
<1>. QED  BY <1>1, <1>7, LessRank

(* No address of a part is an alias. *)
LEMMA PartClear ==
  ASSUME NEW p, NEW q, NEW f, NEW l, IsPart(p, q, f, l),
         NEW x \in Addresses6, Rank(f) <= Rank(x), Rank(x) <= Rank(l)
  PROVE  ~Aliased(x)
<1>1. Rank(f) \in Nat /\ Rank(l) \in Nat /\ Rank(x) \in Nat
  BY RankFacts DEF IsPart
<1>2. ASSUME NEW k \in Aliases, FirstOf(k) <= Rank(x), Rank(x) <= LastOf(k) PROVE FALSE
  <2>1. FirstOf(k) \in Nat /\ LastOf(k) \in Nat
    BY AliasFacts
  <2>2. LastOf(k) < Rank(f) \/ Rank(l) < FirstOf(k)
    BY DEF IsPart, Clear
  <2>. QED  BY <1>1, <1>2, <2>1, <2>2
<1>. QED  BY <1>2, AliasedRank

-----------------------------------------------------------------------------
(* range6's loop: the recursion defines a function. *)
NextCut(x, k, c) ==
  [first |-> IF Less(Alias(k).last, x) /\ ~Less(Alias(k).last, c.first)
             THEN Inc128(Alias(k).last) ELSE c.first,
   last  |-> IF Less(x, Alias(k).first) /\ ~Less(c.last, Alias(k).first)
             THEN Dec128(Alias(k).first) ELSE c.last]
AreCuts(F, k, x, p, q) ==
  F = [m \in 0..k |-> IF m = 0 THEN [first |-> p, last |-> q]
                      ELSE NextCut(x, m, F[m - 1])]

LEMMA CutsRecursion ==
  ASSUME NEW N \in Nat, NEW x, NEW p, NEW q
  PROVE  \E F : AreCuts(F, N, x, p, q)
<1> USE DEF AreCuts
<1> DEFINE Is(F, k) == AreCuts(F, k, x, p, q)
           T == {k \in 0..N : \E F : Is(F, k)}
<1>1. 0 \in T
  <2> DEFINE F == [m \in 0..0 |-> [first |-> p, last |-> q]]
  <2>1. Is(F, 0)
    OBVIOUS
  <2> HIDE DEF F, Is
  <2>. QED  BY <2>1
<1>2. ASSUME NEW k \in 0..(N - 1), k \in T
      PROVE  k + 1 \in T
  <2>1. PICK F : Is(F, k)
    BY <1>2
  <2> DEFINE v == NextCut(x, k + 1, F[k])
             G == [m \in 0..(k + 1) |-> IF m = k + 1 THEN v ELSE F[m]]
             H == [m \in 0..(k + 1) |-> IF m = 0 THEN [first |-> p, last |-> q]
                                        ELSE NextCut(x, m, G[m - 1])]
  <2>2. ASSUME NEW m \in 0..(k + 1) PROVE G[m] = H[m]
    <3>1. CASE m = k + 1
      <4>1. m # 0 /\ m - 1 = k /\ k \in 0..(k + 1) /\ k # k + 1
        BY <3>1
      <4>2. G[m - 1] = F[k]
        BY <4>1
      <4>. QED  BY <3>1, <4>1, <4>2
    <3>2. CASE m = 0
      <4>1. F[0] = [first |-> p, last |-> q]
        BY <2>1
      <4>. QED  BY <3>2, <4>1
    <3>3. CASE m # k + 1 /\ m # 0
      <4>1. m \in 0..k /\ m - 1 \in 0..(k + 1) /\ m - 1 # k + 1
        BY <3>3
      <4>2. G[m - 1] = F[m - 1] /\ G[m] = F[m]
        BY <3>3, <4>1
      <4>3. F[m] = NextCut(x, m, F[m - 1])
        BY <2>1, <3>3, <4>1
      <4>. QED  BY <3>3, <4>2, <4>3
    <3>. QED  BY <3>1, <3>2, <3>3
  <2>3. Is(G, k + 1)
    <3>1. G = H
      BY <2>2
    <3>. QED  BY <3>1
  <2>4. k + 1 \in 0..N
    OBVIOUS
  <2>. QED  BY <2>3, <2>4
<1>3. N \in T
  <2> HIDE DEF T
  <2>. QED  BY <1>1, <1>2, UpTo
<1>. QED  BY <1>3

(* After k aliases: what is left around x meets none of them. *)
CutTo(k, x, p, q, c) ==
  /\ c.first \in Addresses6 /\ c.last \in Addresses6
  /\ Rank(p) <= Rank(c.first) /\ Rank(c.first) <= Rank(x)
  /\ Rank(x) <= Rank(c.last) /\ Rank(c.last) <= Rank(q)
  /\ \A m \in Aliases : m <= k => LastOf(m) < Rank(c.first) \/ Rank(c.last) < FirstOf(m)
  /\ StartsPart(p, c.first) /\ EndsPart(q, c.last)

LEMMA CutStep ==
  ASSUME NEW x \in Addresses6, NEW p \in Addresses6, NEW q \in Addresses6, ~Aliased(x),
         NEW k \in Nat, k + 1 \in Aliases, NEW c, CutTo(k, x, p, q, c)
  PROVE  CutTo(k + 1, x, p, q, NextCut(x, k + 1, c))
<1> DEFINE n == k + 1
           d == NextCut(x, n, c)
<1>1. /\ Alias(n).first \in Addresses6 /\ Alias(n).last \in Addresses6
      /\ FirstOf(n) \in Nat /\ LastOf(n) \in Nat /\ FirstOf(n) <= LastOf(n)
  BY AliasFacts
<1>2. /\ c.first \in Addresses6 /\ c.last \in Addresses6
      /\ Rank(c.first) \in Nat /\ Rank(c.last) \in Nat
      /\ Rank(p) \in Nat /\ Rank(q) \in Nat /\ Rank(x) \in Nat
  BY RankFacts DEF CutTo
<1>3. /\ Rank(p) <= Rank(c.first) /\ Rank(c.first) <= Rank(x)
      /\ Rank(x) <= Rank(c.last) /\ Rank(c.last) <= Rank(q)
      /\ StartsPart(p, c.first) /\ EndsPart(q, c.last)
      /\ \A m \in Aliases : m <= k => LastOf(m) < Rank(c.first) \/ Rank(c.last) < FirstOf(m)
  BY DEF CutTo
<1>4. LastOf(n) < Rank(x) \/ Rank(x) < FirstOf(n)
  <2>1. ~(FirstOf(n) <= Rank(x) /\ Rank(x) <= LastOf(n))
    BY AliasedRank
  <2>. QED  BY <1>1, <1>2, <2>1
<1>5. /\ Less(Alias(n).last, x) <=> LastOf(n) < Rank(x)
      /\ Less(Alias(n).last, c.first) <=> LastOf(n) < Rank(c.first)
      /\ Less(x, Alias(n).first) <=> Rank(x) < FirstOf(n)
      /\ Less(c.last, Alias(n).first) <=> Rank(c.last) < FirstOf(n)
  BY <1>1, <1>2, LessRank DEF FirstOf, LastOf
<1>6. \A m \in Aliases : m <= n => m <= k \/ m = n
  BY DEF Aliases
<1>7. \A m \in Aliases : FirstOf(m) \in Nat /\ LastOf(m) \in Nat
  BY AliasFacts
<1>8. CASE LastOf(n) < Rank(x) /\ ~(LastOf(n) < Rank(c.first))
  <2>1. Inc128(Alias(n).last) \in Addresses6
        /\ Rank(Inc128(Alias(n).last)) = LastOf(n) + 1
    BY <1>1, <1>8, IncRank DEF LastOf
  <2>2. ~(Rank(x) < FirstOf(n))
    BY <1>1, <1>2, <1>8
  <2>3. d.first = Inc128(Alias(n).last) /\ d.last = c.last
    BY <1>5, <1>8, <2>2 DEF NextCut
  <2> HIDE DEF d
  <2>4. Rank(d.first) = LastOf(n) + 1 /\ d.first \in Addresses6
    BY <2>1, <2>3
  <2>5. StartsPart(p, d.first)
    BY <2>4 DEF StartsPart
  <2>6. Rank(p) <= Rank(d.first) /\ Rank(d.first) <= Rank(x)
    BY <1>1, <1>2, <1>3, <1>8, <2>4
  <2>7. ASSUME NEW m \in Aliases, m <= n
        PROVE  LastOf(m) < Rank(d.first) \/ Rank(d.last) < FirstOf(m)
    <3>1. CASE m <= k
      <4>1. LastOf(m) < Rank(c.first) \/ Rank(c.last) < FirstOf(m)
        BY <1>3, <3>1
      <4>. QED  BY <1>1, <1>2, <1>7, <1>8, <2>3, <2>4, <4>1
    <3>2. CASE m = n
      BY <1>1, <2>4, <3>2
    <3>. QED  BY <1>6, <2>7, <3>1, <3>2
  <2>8. CutTo(n, x, p, q, d)
    BY <1>2, <1>3, <2>3, <2>4, <2>5, <2>6, <2>7 DEF CutTo
  <2>. QED  BY <2>8 DEF d
<1>9. CASE Rank(x) < FirstOf(n) /\ ~(Rank(c.last) < FirstOf(n))
  <2>1. Dec128(Alias(n).first) \in Addresses6
        /\ Rank(Dec128(Alias(n).first)) = FirstOf(n) - 1
    <3>1. FirstOf(n) > 0
      BY <1>1, <1>2, <1>9
    <3>. QED  BY <1>1, <3>1, DecRank DEF FirstOf
  <2>2. ~(LastOf(n) < Rank(x))
    BY <1>1, <1>2, <1>9
  <2>3. d.last = Dec128(Alias(n).first) /\ d.first = c.first
    BY <1>5, <1>9, <2>2 DEF NextCut
  <2> HIDE DEF d
  <2>4. Rank(d.last) = FirstOf(n) - 1 /\ d.last \in Addresses6
    BY <2>1, <2>3
  <2>5. EndsPart(q, d.last)
    <3>1. Rank(d.last) + 1 = FirstOf(n)
      BY <1>1, <2>4
    <3>. QED  BY <3>1 DEF EndsPart
  <2>6. Rank(d.last) <= Rank(q) /\ Rank(x) <= Rank(d.last)
    BY <1>1, <1>2, <1>3, <1>9, <2>4
  <2>7. ASSUME NEW m \in Aliases, m <= n
        PROVE  LastOf(m) < Rank(d.first) \/ Rank(d.last) < FirstOf(m)
    <3>1. CASE m <= k
      <4>1. LastOf(m) < Rank(c.first) \/ Rank(c.last) < FirstOf(m)
        BY <1>3, <3>1
      <4>. QED  BY <1>1, <1>2, <1>7, <1>9, <2>3, <2>4, <4>1
    <3>2. CASE m = n
      BY <1>1, <2>4, <3>2
    <3>. QED  BY <1>6, <2>7, <3>1, <3>2
  <2>8. CutTo(n, x, p, q, d)
    BY <1>2, <1>3, <2>3, <2>4, <2>5, <2>6, <2>7 DEF CutTo
  <2>. QED  BY <2>8 DEF d
<1>10. CASE LastOf(n) < Rank(c.first) \/ Rank(c.last) < FirstOf(n)
  <2>1. d.first = c.first /\ d.last = c.last
    <3>1. ~(LastOf(n) < Rank(x) /\ ~(LastOf(n) < Rank(c.first)))
      BY <1>1, <1>2, <1>3, <1>10
    <3>2. ~(Rank(x) < FirstOf(n) /\ ~(Rank(c.last) < FirstOf(n)))
      BY <1>1, <1>2, <1>3, <1>10
    <3>. QED  BY <1>5, <3>1, <3>2 DEF NextCut
  <2> HIDE DEF d
  <2>2. ASSUME NEW m \in Aliases, m <= n
        PROVE  LastOf(m) < Rank(d.first) \/ Rank(d.last) < FirstOf(m)
    BY <1>3, <1>6, <1>10, <2>1, <2>2
  <2>8. CutTo(n, x, p, q, d)
    BY <1>2, <1>3, <2>1, <2>2 DEF CutTo
  <2>. QED  BY <2>8 DEF d
<1>. QED  BY <1>4, <1>8, <1>9, <1>10

(* LookupRange cuts a range to the part around an address. *)
LEMMA CutShortRight ==
  ASSUME NEW x \in Addresses6, NEW p \in Addresses6, NEW q \in Addresses6, ~Aliased(x),
         Rank(p) <= Rank(x), Rank(x) <= Rank(q)
  PROVE  LET c == CutShort(x, p, q)
         IN  /\ IsPart(p, q, c.first, c.last)
             /\ Rank(c.first) <= Rank(x) /\ Rank(x) <= Rank(c.last)
<1> DEFINE K == Len(v6Aliases)
           F == CHOOSE f : AreCuts(f, K, x, p, q)
<1>0. K \in Nat
  BY AliasFacts
<1>1. CutShort(x, p, q) = F[K]
  BY DEF CutShort, AreCuts, NextCut
<1>2. AreCuts(F, K, x, p, q)
  <2>1. \E f : AreCuts(f, K, x, p, q)
    BY <1>0, CutsRecursion
  <2>. QED  BY <2>1
<1> HIDE DEF F, K
<1>3. F[0] = [first |-> p, last |-> q]
  BY <1>0, <1>2 DEF AreCuts
<1>4. \A k \in 0..(K - 1) : F[k + 1] = NextCut(x, k + 1, F[k])
  <2>1. ASSUME NEW k \in 0..(K - 1) PROVE F[k + 1] = NextCut(x, k + 1, F[k])
    <3>1. k + 1 \in 0..K /\ k + 1 # 0 /\ (k + 1) - 1 = k
      BY <1>0
    <3>. QED  BY <1>2, <3>1 DEF AreCuts
  <2>. QED  BY <2>1
<1> DEFINE T == {k \in 0..K : CutTo(k, x, p, q, F[k])}
<1>5. 0 \in T
  <2>1. \A m \in Aliases : ~(m <= 0)
    BY DEF Aliases
  <2> DEFINE c == F[0]
  <2>2. c.first = p /\ c.last = q
    BY <1>3
  <2> HIDE DEF c
  <2>3. StartsPart(p, c.first) /\ EndsPart(q, c.last)
    BY <2>2 DEF StartsPart, EndsPart
  <2>4. Rank(p) <= Rank(p) /\ Rank(q) <= Rank(q)
    BY RankFacts
  <2>5. CutTo(0, x, p, q, c)
    BY <2>1, <2>2, <2>3, <2>4 DEF CutTo
  <2>. QED  BY <1>0, <2>5 DEF c
<1>6. ASSUME NEW k \in 0..(K - 1), k \in T PROVE k + 1 \in T
  <2>1. k + 1 \in Aliases /\ k + 1 \in 0..K /\ k \in Nat
    BY <1>0 DEF Aliases, K
  <2>2. CutTo(k + 1, x, p, q, NextCut(x, k + 1, F[k]))
    BY <1>6, <2>1, CutStep
  <2>3. CutTo(k + 1, x, p, q, F[k + 1])
    BY <1>4, <2>2
  <2>. QED  BY <2>1, <2>3
<1>7. CutTo(K, x, p, q, F[K])
  <2> HIDE DEF T
  <2>1. 0..K \subseteq T /\ K \in 0..K
    BY <1>0, <1>5, <1>6, UpTo
  <2>. QED  BY <2>1 DEF T
<1>8. \A m \in Aliases : m <= K
  BY <1>0 DEF Aliases, K
<1> DEFINE c == F[K]
<1>9. CutTo(K, x, p, q, c)
  BY <1>7
<1> HIDE DEF c
<1>10. /\ c.first \in Addresses6 /\ c.last \in Addresses6
       /\ Rank(c.first) \in Nat /\ Rank(c.last) \in Nat /\ Rank(x) \in Nat
  BY <1>9, RankFacts DEF CutTo
<1>11. Rank(c.first) <= Rank(c.last)
  BY <1>9, <1>10 DEF CutTo
<1>12. IsPart(p, q, c.first, c.last)
  BY <1>8, <1>9, <1>11 DEF CutTo, IsPart, Clear
<1>. QED  BY <1>1, <1>9, <1>12 DEF c, CutTo

-----------------------------------------------------------------------------
(* LookupRange *)
LEMMA HintBucket ==
  ASSUME NEW x \in 0..Top4
  PROVE  x \div BucketSize \in 0..(Buckets - 1)
<1>1. Buckets \in Nat \ {0} /\ BucketSize \in Nat \ {0}
  BY SizeAssumption
<1>2. PICK n \in Nat : n = Buckets * BucketSize
  BY <1>1
<1>3. x \in Int /\ 0 <= x /\ x < n
  BY <1>2 DEF Top4
<1>4. PICK q \in Int, r \in Int :
        q = x \div BucketSize /\ x = BucketSize * q + r /\ 0 <= r /\ r < BucketSize
  BY <1>1, <1>3, DivMod
<1>5. PICK m \in Int : m = q * BucketSize /\ x = m + r /\ 0 <= r
  BY <1>1, <1>4
<1>6. q < Buckets
  <2>1. SUFFICES ASSUME Buckets <= q PROVE FALSE
    BY <1>1
  <2>2. n <= m
    BY <1>1, <1>2, <1>5, <2>1, MulMono
  <2>3. m <= x
    BY <1>5
  <2>. QED  BY <1>2, <1>3, <1>5, <2>2, <2>3
<1>7. 0 <= q
  <2>1. SUFFICES ASSUME q + 1 <= 0 PROVE FALSE
    OBVIOUS
  <2>2. (q + 1) * BucketSize <= 0 * BucketSize
    BY <1>1, <2>1, MulMono
  <2>3. (q + 1) * BucketSize = m + BucketSize /\ 0 * BucketSize = 0
    BY <1>1, <1>5
  <2>4. m + BucketSize <= 0
    BY <2>2, <2>3
  <2>. QED  BY <1>1, <1>3, <1>4, <1>5, <2>4
<1>. QED  BY <1>1, <1>4, <1>6, <1>7

(* The range of an IPv4 boundary, as Ranges yields it. *)
Whole4(b) == [fam |-> 4, first |-> S4(b), last |-> E4(b), id |-> Id4(b)]

LEMMA End4 ==
  ASSUME file \in Files, NEW b \in 0..(n4 - 1)
  PROVE  /\ E4(b) \in 0..Top4 /\ S4(b) <= E4(b)
         /\ b + 1 < n4 => S4(b + 1) = E4(b) + 1
<1>1. n4 \in Nat /\ Top4 \in Nat /\ S4(b) \in 0..Top4
  BY Facts4
<1>2. CASE b + 1 < n4
  <2>1. b + 1 \in 0..(n4 - 1) /\ b < b + 1
    BY <1>1, <1>2
  <2>2. S4(b + 1) \in 0..Top4 /\ S4(b) < S4(b + 1)
    BY <2>1, Facts4
  <2>. QED  BY <1>1, <1>2, <2>2 DEF E4
<1>3. CASE ~(b + 1 < n4)
  BY <1>1, <1>3 DEF E4
<1>. QED  BY <1>2, <1>3

LEMMA Range4Right ==
  ASSUME file \in Files, NEW x \in 0..Top4
  PROVE  /\ Range4(x).fam = 4 /\ Range4(x).id = Answer4(x)
         /\ Range4(x).first \in 0..Top4 /\ Range4(x).last \in 0..Top4
         /\ Range4(x).first <= x /\ x <= Range4(x).last
         /\ \A y \in 0..Top4 : Range4(x).first <= y /\ y <= Range4(x).last
                                 => Answer4(y) = Answer4(x)
         /\ Index4(x) >= 0 => Range4(x) = Whole4(Index4(x))
<1> DEFINE b == Index4(x)
           G == x \div BucketSize
           f == IF b >= 0 THEN Start4(b, G) ELSE 0
           l == IF b + 1 < n4 THEN Start4(b + 1, G) - 1 ELSE Top4
           r == Range4(x)
<1>1. /\ b \in -1..(n4 - 1) /\ n4 \in Nat /\ Top4 \in Nat
      /\ \A c \in 0..(n4 - 1) : S4(c) <= x <=> c <= b
  BY Index4Finds, Facts4
<1>2. G \in 0..(Buckets - 1)
  BY HintBucket
<1>3. r = [fam |-> 4, first |-> f, last |-> l, id |-> IF b >= 0 THEN Id4(b) ELSE 0]
  BY DEF Range4
<1>4. b >= 0 => b \in 0..(n4 - 1) /\ f = S4(b)
  <2>1. b >= 0 => b \in 0..(n4 - 1)
    BY <1>1
  <2> HIDE DEF b, G
  <2>. QED  BY <1>2, <2>1, Start4Right
<1>5. b + 1 < n4 => b + 1 \in 0..(n4 - 1) /\ l = S4(b + 1) - 1 /\ ~(S4(b + 1) <= x)
  <2>1. b + 1 < n4 => b + 1 \in 0..(n4 - 1) /\ ~(b + 1 <= b)
    BY <1>1
  <2> HIDE DEF b, G
  <2>2. b + 1 < n4 => Start4(b + 1, G) = S4(b + 1)
    BY <1>2, <2>1, Start4Right
  <2>. QED  BY <1>1, <2>1, <2>2
<1>6. Answer4(x) = IF b >= 0 THEN Id4(b) ELSE 0
  BY DEF Answer4
<1>7. ~(b >= 0) => f = 0
  OBVIOUS
<1>8. ~(b + 1 < n4) => l = Top4
  OBVIOUS
<1> HIDE DEF b, f, l, r, G
<1>9. /\ f \in 0..Top4 /\ f <= x
  <2>1. CASE b >= 0
    <3>1. S4(b) \in 0..Top4 /\ S4(b) <= x
      BY <1>1, <1>4, <2>1, Facts4
    <3>. QED  BY <1>4, <2>1, <3>1
  <2>2. CASE ~(b >= 0)
    BY <1>1, <1>7, <2>2
  <2>. QED  BY <2>1, <2>2
<1>10. /\ l \in 0..Top4 /\ x <= l
  <2>1. CASE b + 1 < n4
    <3>1. S4(b + 1) \in 0..Top4 /\ x < S4(b + 1)
      BY <1>5, <2>1, Facts4
    <3>. QED  BY <1>1, <1>5, <2>1, <3>1
  <2>2. CASE ~(b + 1 < n4)
    BY <1>1, <1>8, <2>2
  <2>. QED  BY <2>1, <2>2
<1>11. ASSUME NEW y \in 0..Top4, f <= y, y <= l
       PROVE  Index4(y) = b
  <2>1. /\ Index4(y) \in -1..(n4 - 1)
        /\ \A c \in 0..(n4 - 1) : S4(c) <= y <=> c <= Index4(y)
    BY Index4Finds
  <2>2. b <= Index4(y)
    <3>1. CASE b >= 0
      BY <1>4, <1>11, <2>1, <3>1
    <3>2. CASE ~(b >= 0)
      BY <1>1, <2>1, <3>2
    <3>. QED  BY <3>1, <3>2
  <2>3. ~(b + 1 <= Index4(y))
    <3>1. CASE b + 1 < n4
      <4>1. S4(b + 1) \in 0..Top4 /\ ~(S4(b + 1) <= y)
        BY <1>1, <1>5, <1>11, <3>1, Facts4
      <4>. QED  BY <1>5, <2>1, <3>1, <4>1
    <3>2. CASE ~(b + 1 < n4)
      BY <1>1, <2>1, <3>2
    <3>. QED  BY <3>1, <3>2
  <2>. QED  BY <1>1, <2>1, <2>2, <2>3
<1>12. \A y \in 0..Top4 : f <= y /\ y <= l => Answer4(y) = Answer4(x)
  BY <1>6, <1>11 DEF Answer4
<1>13. b >= 0 => r = Whole4(b)
  <2>1. b >= 0 => l = E4(b)
    BY <1>5, <1>8 DEF E4
  <2>. QED  BY <1>3, <1>4, <2>1 DEF Whole4
<1>14. r.fam = 4 /\ r.first = f /\ r.last = l /\ r.id = Answer4(x)
  BY <1>3, <1>6
<1>. QED  BY <1>9, <1>10, <1>12, <1>13, <1>14 DEF b, r

LEMMA Range6Right ==
  ASSUME file \in Files, NEW x \in Addresses6, ~Aliased(x)
  PROVE  LET r == Range6(x)
         IN  /\ r = [fam |-> 6, first |-> r.first, last |-> r.last, id |-> Answer6(x)]
             /\ r.first \in Addresses6 /\ r.last \in Addresses6
             /\ Rank(r.first) <= Rank(x) /\ Rank(x) <= Rank(r.last)
             /\ \A y \in Addresses6 : Rank(r.first) <= Rank(y) /\ Rank(y) <= Rank(r.last)
                                        => ~Aliased(y) /\ Answer6(y) = Answer6(x)
             /\ Index6(x) >= 0 => IsPart(S6(Index6(x)), E6(Index6(x)), r.first, r.last)
<1> DEFINE b == Index6(x)
           p == IF b >= 0 THEN Start6(b) ELSE Zero6
           q == IF b + 1 < n6 THEN Dec128(Start6(b + 1)) ELSE Top6
           c == CutShort(x, p, q)
           r == Range6(x)
<1>1. /\ b \in -1..(n6 - 1) /\ n6 \in Nat
      /\ \A a0 \in 0..(n6 - 1) : Rank(S6(a0)) <= Rank(x) <=> a0 <= b
  BY Index6Finds, Facts6
<1>2. r = [fam |-> 6, first |-> c.first, last |-> c.last, id |-> IF b >= 0 THEN Id6(b) ELSE 0]
  BY DEF Range6
<1>3. Answer6(x) = IF b >= 0 THEN Id6(b) ELSE 0
  BY DEF Answer6
<1>4. b >= 0 => b \in 0..(n6 - 1) /\ p = S6(b)
  <2>1. b >= 0 => b \in 0..(n6 - 1)
    BY <1>1
  <2> HIDE DEF b
  <2>. QED  BY <2>1, Start6Right
<1>5. b + 1 < n6 => b + 1 \in 0..(n6 - 1) /\ q = Dec128(S6(b + 1)) /\ ~(Rank(S6(b + 1)) <= Rank(x))
  <2>1. b + 1 < n6 => b + 1 \in 0..(n6 - 1) /\ ~(b + 1 <= b)
    BY <1>1
  <2> HIDE DEF b
  <2>. QED  BY <1>1, <2>1, Start6Right
<1>6. ~(b >= 0) => p = Zero6
  OBVIOUS
<1>7. ~(b + 1 < n6) => q = Top6
  OBVIOUS
<1> HIDE DEF b, p, q, r
<1>8. p \in Addresses6 /\ Rank(p) <= Rank(x)
  <2>1. CASE b >= 0
    BY <1>1, <1>4, <2>1, Facts6
  <2>2. CASE ~(b >= 0)
    <3>1. Zero6 \in Addresses6 /\ Rank(Zero6) = 0 /\ Rank(x) \in Nat
      BY EndRanks, RankFacts
    <3>. QED  BY <1>6, <2>2, <3>1
  <2>. QED  BY <2>1, <2>2
<1>9. /\ q \in Addresses6 /\ Rank(x) <= Rank(q)
      /\ b + 1 < n6 => Rank(q) = Rank(S6(b + 1)) - 1
  <2>1. CASE b + 1 < n6
    <3>1. /\ S6(b + 1) \in Addresses6 /\ Rank(S6(b + 1)) \in Nat /\ Rank(x) \in Nat
          /\ Rank(x) < Rank(S6(b + 1))
      BY <1>5, <2>1, Facts6, RankFacts
    <3>2. q \in Addresses6 /\ Rank(q) = Rank(S6(b + 1)) - 1
      BY <1>5, <2>1, <3>1, DecRank
    <3>. QED  BY <3>1, <3>2
  <2>2. CASE ~(b + 1 < n6)
    BY <1>7, <2>2, EndRanks
  <2>. QED  BY <2>1, <2>2
<1>10. /\ IsPart(p, q, c.first, c.last)
       /\ Rank(c.first) <= Rank(x) /\ Rank(x) <= Rank(c.last)
  BY <1>8, <1>9, CutShortRight
<1> HIDE DEF c
<1>11. /\ c.first \in Addresses6 /\ c.last \in Addresses6
       /\ Rank(p) <= Rank(c.first) /\ Rank(c.last) <= Rank(q)
       /\ Rank(p) \in Nat /\ Rank(q) \in Nat /\ Rank(c.first) \in Nat /\ Rank(c.last) \in Nat
  BY <1>8, <1>9, <1>10, RankFacts DEF IsPart
<1>12. ASSUME NEW y \in Addresses6, Rank(c.first) <= Rank(y), Rank(y) <= Rank(c.last)
       PROVE  ~Aliased(y) /\ Index6(y) = b
  <2>0. ~Aliased(y)
    BY <1>10, <1>12, PartClear
  <2>1. /\ Index6(y) \in -1..(n6 - 1) /\ Rank(y) \in Nat
        /\ \A a0 \in 0..(n6 - 1) : Rank(S6(a0)) <= Rank(y) <=> a0 <= Index6(y)
    BY Index6Finds, RankFacts
  <2>2. Rank(p) <= Rank(y) /\ Rank(y) <= Rank(q)
    BY <1>11, <1>12, <2>1
  <2>3. b <= Index6(y)
    <3>1. CASE b >= 0
      BY <1>4, <2>1, <2>2, <3>1
    <3>2. CASE ~(b >= 0)
      BY <1>1, <2>1, <3>2
    <3>. QED  BY <3>1, <3>2
  <2>4. ~(b + 1 <= Index6(y))
    <3>1. CASE b + 1 < n6
      <4>1. S6(b + 1) \in Addresses6 /\ Rank(S6(b + 1)) \in Nat
        BY <1>5, <3>1, Facts6, RankFacts
      <4>2. ~(Rank(S6(b + 1)) <= Rank(y))
        BY <1>9, <1>11, <2>1, <2>2, <3>1, <4>1
      <4>. QED  BY <1>5, <2>1, <3>1, <4>2
    <3>2. CASE ~(b + 1 < n6)
      BY <1>1, <2>1, <3>2
    <3>. QED  BY <3>1, <3>2
  <2>. QED  BY <1>1, <2>0, <2>1, <2>3, <2>4
<1>13. \A y \in Addresses6 : Rank(c.first) <= Rank(y) /\ Rank(y) <= Rank(c.last)
                               => ~Aliased(y) /\ Answer6(y) = Answer6(x)
  BY <1>3, <1>12 DEF Answer6
<1>14. b >= 0 => IsPart(S6(b), E6(b), c.first, c.last)
  <2>1. b >= 0 => q = E6(b)
    BY <1>5, <1>7 DEF E6
  <2>. QED  BY <1>4, <1>10, <2>1
<1>15. r.first = c.first /\ r.last = c.last
       /\ r = [fam |-> 6, first |-> c.first, last |-> c.last, id |-> Answer6(x)]
  BY <1>2, <1>3
<1>. QED  BY <1>10, <1>11, <1>13, <1>14, <1>15 DEF b, r

-----------------------------------------------------------------------------
(* What Ranges may yield: the range of a covered IPv4 boundary, and a part *)
(* of the range of a covered IPv6 one.                                     *)
Yieldable4 == {Whole4(b) : b \in {c \in 0..(n4 - 1) : Id4(c) # 0}}
Yieldable6 ==
  {r \in [fam : {6}, first : Addresses6, last : Addresses6, id : Nat] :
     \E b \in 0..(n6 - 1) : /\ Id6(b) # 0 /\ r.id = Id6(b)
                            /\ IsPart(S6(b), E6(b), r.first, r.last)}
Yieldable  == Yieldable4 \union Yieldable6
Given      == {yielded[k] : k \in DOMAIN yielded}

Types ==
  /\ file \in Files
  /\ pc \in {"ranges4", "ranges6", "parts", "ended"}
  /\ g \in 0..(Buckets - 1) /\ j \in 0..Len(ExcIdx)
  /\ rest \in [first : Addresses6, last : Addresses6]
  /\ a \in 1..(Len(v6Aliases) + 1)
  /\ yielded \in Seq(Yieldable)
  /\ stopped \in BOOLEAN

(* The tables are in step with the boundaries. *)
InStep4 ==
  pc = "ranges4" =>
    /\ i \in 0..n4 /\ j = 0 /\ first \in Addresses4
    /\ i < n4 => g = BucketOf(i) /\ first = S4(i)
InStep6 ==
  pc \in {"ranges6", "parts"} =>
    /\ i \in 0..n6 /\ first \in Addresses6
    /\ i < n6 => first = S6(i) /\ ExceptionsPassed(i + 1, j)
Ended == pc = "ended" => i \in 0..n4 \/ i \in 0..n6

(* rest is the part of the boundary's range above the aliases before a. *)
InParts ==
  pc = "parts" =>
    /\ i < n6 /\ Id6(i) # 0
    /\ rest.last = E6(i)
    /\ Rank(S6(i)) <= Rank(rest.first) /\ Rank(rest.first) <= Rank(rest.last)
    /\ StartsPart(S6(i), rest.first)
    /\ \A k \in Aliases : k < a => LastOf(k) < Rank(rest.first)

(* The range yielded last lies below what is to come. *)
LastBelow ==
  yielded # <<>> =>
    LET p == yielded[Len(yielded)] IN
    /\ pc = "ranges4" => p.fam = 4 /\ (i < n4 => p.last < first)
    /\ (pc = "ranges6" /\ i < n6 /\ p.fam = 6) => Rank(p.last) < Rank(first)
    /\ (pc = "parts" /\ p.fam = 6) => Rank(p.last) < Rank(rest.first)

(* What lies below has been yielded. *)
Past4(b) == IF pc = "ranges4" THEN b < i ELSE ~stopped
Past6(x) ==
  CASE pc = "ranges4" -> FALSE
    [] pc = "ranges6" -> Index6(x) < i
    [] pc = "parts"   -> \/ Index6(x) < i
                         \/ Index6(x) = i /\ Rank(x) < Rank(rest.first)
    [] pc = "ended"   -> ~stopped
Covered4 == \A b \in 0..(n4 - 1) : Id4(b) # 0 /\ Past4(b) => Whole4(b) \in Given
Covered6 ==
  \A x \in Addresses6 :
    ~Aliased(x) /\ Answer6(x) # 0 /\ Past6(x) =>
      \E r \in Given : /\ r.fam = 6
                       /\ Rank(r.first) <= Rank(x) /\ Rank(x) <= Rank(r.last)

StopEnds == stopped => pc = "ended"
LookedUp ==
  /\ asked \in Asked \union {Nothing}
  /\ asked # Nothing => pc = "ended" /\ ~stopped
  /\ \A q \in Asked :
       asked = q => found = IF MeansV4(q) THEN Range4(V4(q)) ELSE Range6(q.x)

IInv ==
  /\ Types /\ InStep4 /\ InStep6 /\ Ended /\ InParts
  /\ Ascending /\ LastBelow /\ Covered4 /\ Covered6
  /\ StopEnds /\ LookedUp

-----------------------------------------------------------------------------
(* The file stays, and with it all that is read from it. *)
LEMMA FileKept ==
  ASSUME file' = file
  PROVE  /\ n4' = n4 /\ n6' = n6 /\ ExcIdx' = ExcIdx /\ Yieldable' = Yieldable
         /\ \A b : /\ S4(b)' = S4(b) /\ Id4(b)' = Id4(b) /\ BucketOf(b)' = BucketOf(b)
                   /\ Whole4(b)' = Whole4(b)
                   /\ S6(b)' = S6(b) /\ E6(b)' = E6(b) /\ Id6(b)' = Id6(b)
         /\ \A x : /\ Index6(x)' = Index6(x) /\ Answer6(x)' = Answer6(x)
                   /\ Range4(x)' = Range4(x) /\ Range6(x)' = Range6(x)
         /\ \A b, e : ExceptionsPassed(b, e)' <=> ExceptionsPassed(b, e)
<1>1. n4' = n4 /\ n6' = n6 /\ ExcIdx' = ExcIdx
  BY DEF n4, n6, ExcIdx
<1>2. \A b : /\ S4(b)' = S4(b) /\ Id4(b)' = Id4(b) /\ BucketOf(b)' = BucketOf(b)
             /\ S6(b)' = S6(b) /\ Id6(b)' = Id6(b)
  BY DEF S4, Id4, BucketOf, S6, Id6
<1>3. \A b : E4(b)' = E4(b) /\ E6(b)' = E6(b)
  BY DEF E4, E6, S4, S6, n4, n6
<1>4. \A b : Whole4(b)' = Whole4(b)
  BY <1>2, <1>3 DEF Whole4
<1>5. Yieldable' = Yieldable
  BY DEF Yieldable, Yieldable4, Yieldable6, Whole4, E4, E6, S4, S6, n4, n6, Id4, Id6
<1>6. \A x : Index6(x)' = Index6(x) /\ Answer6(x)' = Answer6(x)
  BY DEF Index6, Answer6, Id6
<1>7. \A x : Range4(x)' = Range4(x)
  BY DEF Range4, Index4, Start4, V4Idx, Low, Id4, n4
<1>8. \A x : Range6(x)' = Range6(x)
  BY DEF Range6, Index6, Start6, ExcIdx, ExcLo, Hi, Id6, n6
<1>9. \A b, e : ExceptionsPassed(b, e)' <=> ExceptionsPassed(b, e)
  BY DEF ExceptionsPassed, ExcIdx, n6
<1>. QED  BY <1>1, <1>2, <1>3, <1>4, <1>5, <1>6, <1>7, <1>8, <1>9

LEMMA YieldableFacts ==
  ASSUME file \in Files, NEW r \in Yieldable
  PROVE  /\ r.fam \in {4, 6} /\ In(r.first, r) /\ r.id # 0
         /\ r.fam = 4 =>
              /\ r.first \in 0..Top4 /\ r.last \in 0..Top4
              /\ \E b \in 0..(n4 - 1) : Id4(b) # 0 /\ r = Whole4(b)
         /\ r.fam = 6 =>
              /\ r = [fam |-> 6, first |-> r.first, last |-> r.last, id |-> r.id]
              /\ r.first \in Addresses6 /\ r.last \in Addresses6
              /\ Rank(r.first) <= Rank(r.last)
              /\ \E b \in 0..(n6 - 1) : /\ Id6(b) # 0 /\ r.id = Id6(b)
                                        /\ IsPart(S6(b), E6(b), r.first, r.last)
<1>1. CASE r \in Yieldable4
  <2>1. PICK b \in 0..(n4 - 1) : Id4(b) # 0 /\ r = Whole4(b)
    BY <1>1 DEF Yieldable4
  <2>2. S4(b) \in 0..Top4 /\ E4(b) \in 0..Top4 /\ S4(b) <= E4(b) /\ Top4 \in Nat
    BY Facts4, End4
  <2>3. r.fam = 4 /\ r.first = S4(b) /\ r.last = E4(b) /\ r.id = Id4(b)
    BY <2>1 DEF Whole4
  <2>4. S4(b) <= S4(b)
    BY <2>2
  <2>5. In(r.first, r)
    BY <2>2, <2>3, <2>4 DEF In
  <2>6. r.fam \in {4, 6} /\ r.fam # 6
    BY <2>3
  <2>. QED  BY <2>1, <2>2, <2>3, <2>5, <2>6
<1>2. CASE r \in Yieldable6
  <2>1. /\ r \in [fam : {6}, first : Addresses6, last : Addresses6, id : Nat]
        /\ \E b \in 0..(n6 - 1) : /\ Id6(b) # 0 /\ r.id = Id6(b)
                                  /\ IsPart(S6(b), E6(b), r.first, r.last)
    BY <1>2 DEF Yieldable6
  <2>2. /\ r.fam = 6 /\ r.first \in Addresses6 /\ r.last \in Addresses6
        /\ r = [fam |-> 6, first |-> r.first, last |-> r.last, id |-> r.id]
    BY <2>1
  <2>3. Rank(r.first) <= Rank(r.last) /\ r.id # 0
    BY <2>1 DEF IsPart
  <2>4. In(r.first, r)
    <3>1. Rank(r.first) \in Nat /\ Rank(r.last) \in Nat
      BY <2>2, RankFacts
    <3>2. ~Less(r.first, r.first) /\ ~Less(r.last, r.first)
      BY <2>2, <2>3, <3>1, LessRank
    <3>. QED  BY <2>2, <3>2 DEF In, Within
  <2>5. r.fam \in {4, 6} /\ r.fam # 4
    BY <2>2
  <2>. QED  BY <2>1, <2>2, <2>3, <2>4, <2>5
<1>. QED  BY <1>1, <1>2 DEF Yieldable

LEMMA AscendKept ==
  ASSUME Ascending, yielded' = yielded
  PROVE  Ascending'
BY DEF Ascending, In, Within, Less

(* A range above the last one may be yielded. *)
LEMMA YieldStep ==
  ASSUME IInv, NEW r \in Yieldable, Yield(r), file' = file,
         \/ pc = "ranges4" /\ i < n4 /\ r.fam = 4 /\ r.first = first
         \/ pc = "parts" /\ r.fam = 6 /\ r.first = rest.first
  PROVE  /\ yielded' \in Seq(Yieldable) /\ Given' = Given \union {r}
         /\ yielded'[Len(yielded')] = r
         /\ Ascending' /\ stopped' \in BOOLEAN
<1>1. /\ yielded \in Seq(Yieldable) /\ file \in Files /\ Ascending /\ LastBelow
      /\ InParts /\ rest \in [first : Addresses6, last : Addresses6]
  BY DEF IInv, Types
<1>2. yielded' = Append(yielded, r) /\ stopped' \in BOOLEAN
  BY DEF Yield
<1>3. /\ yielded' \in Seq(Yieldable) /\ Len(yielded') = Len(yielded) + 1
      /\ yielded'[Len(yielded) + 1] = r
      /\ \A k \in 1..Len(yielded) : yielded'[k] = yielded[k]
  BY <1>1, <1>2, Appended
<1>4. /\ Len(yielded) \in Nat /\ DOMAIN yielded = 1..Len(yielded)
      /\ DOMAIN yielded' = 1..(Len(yielded) + 1)
  BY <1>1, <1>3
<1>5. Given' = Given \union {r}
  <2>1. \A k \in DOMAIN yielded' : k \in DOMAIN yielded \/ k = Len(yielded) + 1
    BY <1>4
  <2>2. DOMAIN yielded \subseteq DOMAIN yielded' /\ Len(yielded) + 1 \in DOMAIN yielded'
    BY <1>4
  <2>3. \A k \in DOMAIN yielded : yielded'[k] = yielded[k]
    BY <1>3, <1>4
  <2>. QED  BY <1>3, <2>1, <2>2, <2>3 DEF Given
<1> DEFINE After(p) == \/ p.fam = 4 /\ r.fam = 6
                       \/ p.fam = 4 /\ r.fam = 4 /\ p.last < r.first
                       \/ p.fam = 6 /\ r.fam = 6 /\ Less(p.last, r.first)
<1>6. yielded # <<>> => After(yielded[Len(yielded)])
  <2>1. SUFFICES ASSUME yielded # <<>> PROVE After(yielded[Len(yielded)])
    OBVIOUS
  <2>2. Len(yielded) \in 1..Len(yielded)
    BY <1>1, <2>1
  <2>3. PICK p \in Yieldable : p = yielded[Len(yielded)]
    BY <1>1, <2>2, Element
  <2>4. p.fam \in {4, 6} /\ (p.fam = 6 => p.last \in Addresses6)
    BY <1>1, YieldableFacts
  <2>5. CASE pc = "ranges4" /\ i < n4 /\ r.fam = 4 /\ r.first = first
    BY <1>1, <2>1, <2>3, <2>5 DEF LastBelow
  <2>6. CASE pc = "parts" /\ r.fam = 6 /\ r.first = rest.first
    <3>1. p.fam = 6 => Rank(p.last) < Rank(rest.first)
      BY <1>1, <2>1, <2>3, <2>6 DEF LastBelow
    <3>2. p.fam = 6 => Less(p.last, r.first)
      BY <1>1, <2>4, <2>6, <3>1, LessRank
    <3>. QED  BY <2>3, <2>4, <2>6, <3>2
  <2>. QED  BY <2>5, <2>6
<1>7. Ascending'
  <2>1. ASSUME NEW k \in 1..(Len(yielded) + 1)
        PROVE  /\ In(yielded'[k].first, yielded'[k])
               /\ k > 1 => LET p == yielded'[k - 1]
                               s == yielded'[k]
                           IN  \/ p.fam = 4 /\ s.fam = 6
                               \/ p.fam = 4 /\ s.fam = 4 /\ p.last < s.first
                               \/ p.fam = 6 /\ s.fam = 6 /\ Less(p.last, s.first)
    <3>1. CASE k \in 1..Len(yielded)
      <4>1. yielded'[k] = yielded[k] /\ (k > 1 => yielded'[k - 1] = yielded[k - 1])
        <5>1. k > 1 => k - 1 \in 1..Len(yielded)
          BY <1>4, <3>1
        <5>. QED  BY <1>3, <3>1, <5>1
      <4>. QED  BY <1>1, <1>4, <3>1, <4>1 DEF Ascending
    <3>2. CASE k = Len(yielded) + 1
      <4>1. yielded'[k] = r /\ In(r.first, r)
        BY <1>1, <1>3, <3>2, YieldableFacts
      <4>2. k > 1 => yielded # <<>> /\ yielded'[k - 1] = yielded[Len(yielded)]
        <5>1. k > 1 => k - 1 \in 1..Len(yielded) /\ k - 1 = Len(yielded)
          BY <1>4, <3>2
        <5>. QED  BY <1>3, <5>1
      <4>. QED  BY <1>6, <4>1, <4>2
    <3>. QED  BY <1>4, <3>1, <3>2
  <2>. QED  BY <1>4, <2>1 DEF Ascending, In, Within, Less
<1>. QED  BY <1>2, <1>3, <1>5, <1>7

-----------------------------------------------------------------------------
(* The steps of the walk over the boundaries. *)
LEMMA Walk4Right ==
  ASSUME IInv, pc = "ranges4", i < n4
  PROVE  /\ i \in 0..(n4 - 1) /\ n4 \in Nat /\ file \in Files
         /\ g = BucketOf(i) /\ first = S4(i) /\ j = 0
         /\ NextBucket \in 0..(Buckets - 1) /\ NextStart4 \in Addresses4
         /\ i + 1 < n4 => NextBucket = BucketOf(i + 1) /\ NextStart4 = S4(i + 1)
         /\ (IF i + 1 < n4 THEN NextStart4 - 1 ELSE Top4) = E4(i)
<1>1. /\ i \in 0..n4 /\ j = 0 /\ g = BucketOf(i) /\ first = S4(i) /\ file \in Files
      /\ g \in 0..(Buckets - 1)
  BY DEF IInv, InStep4, Types
<1>2. n4 \in Nat /\ Top4 \in Nat /\ i \in 0..(n4 - 1)
  BY <1>1, Facts4
<1>3. CASE i + 1 < n4
  <2>1. i + 1 \in 0..(n4 - 1) /\ i < i + 1
    BY <1>2, <1>3
  <2>2. S4(i) < S4(i + 1) /\ S4(i) \in 0..Top4 /\ S4(i + 1) \in 0..Top4
    BY <1>1, <1>2, <2>1, Facts4
  <2>3. /\ BucketOf(i) \in 0..(Buckets - 1) /\ BucketOf(i + 1) \in 0..(Buckets - 1)
        /\ S4(i + 1) = BucketOf(i + 1) * BucketSize + Low(i + 1)
        /\ Buckets \in Nat \ {0}
        /\ \A d \in 0..Buckets : S4(i) < d * BucketSize <=> BucketOf(i) < d
        /\ \A d \in 0..Buckets : S4(i + 1) < d * BucketSize <=> BucketOf(i + 1) < d
    BY <1>1, <1>2, <2>1, BucketFacts
  <2>4. BucketOf(i) <= BucketOf(i + 1)
    <3>1. BucketOf(i + 1) + 1 \in 0..Buckets
      BY <2>3
    <3>2. PICK m \in Int : m = (BucketOf(i + 1) + 1) * BucketSize
      BY <2>3, SizeAssumption
    <3>3. S4(i + 1) < m
      BY <2>3, <3>1, <3>2
    <3>4. S4(i) < m
      BY <2>2, <3>3
    <3>5. BucketOf(i) < BucketOf(i + 1) + 1
      BY <2>3, <3>1, <3>2, <3>4
    <3>. QED  BY <2>3, <3>5
  <2>5. g \in 0..BucketOf(i + 1)
    BY <1>1, <2>3, <2>4
  <2>6. NextBucket = BucketOf(i + 1)
    BY <1>1, <1>3, <2>1, <2>5, BucketRight DEF NextBucket
  <2>7. NextStart4 = S4(i + 1)
    BY <1>3, <2>3, <2>6 DEF NextStart4
  <2>. QED  BY <1>1, <1>2, <1>3, <2>2, <2>3, <2>6, <2>7 DEF E4, Addresses4
<1>4. CASE ~(i + 1 < n4)
  <2>1. NextBucket = g /\ NextStart4 = 0 /\ E4(i) = Top4
    BY <1>4 DEF NextBucket, NextStart4, E4
  <2>. QED  BY <1>1, <1>2, <1>4, <2>1 DEF Addresses4
<1>. QED  BY <1>3, <1>4

NextException == IF i + 1 < n6 THEN AfterException(i + 1, j) ELSE j

LEMMA Walk6Right ==
  ASSUME IInv, pc \in {"ranges6", "parts"}, i < n6
  PROVE  /\ i \in 0..(n6 - 1) /\ n6 \in Nat /\ file \in Files
         /\ first = S6(i) /\ first \in Addresses6
         /\ NextStart6 \in Addresses6 /\ NextException \in 0..Len(ExcIdx)
         /\ i + 1 < n6 => /\ NextStart6 = S6(i + 1)
                          /\ ExceptionsPassed((i + 1) + 1, NextException)
         /\ Last6 = E6(i)
<1>1. /\ i \in 0..n6 /\ first \in Addresses6 /\ first = S6(i) /\ file \in Files
      /\ ExceptionsPassed(i + 1, j) /\ j \in 0..Len(ExcIdx)
  BY DEF IInv, InStep6, Types
<1>2. n6 \in Nat /\ i \in 0..(n6 - 1)
  BY <1>1, Facts6
<1>3. CASE i + 1 < n6
  <2>1. i + 1 \in 0..(n6 - 1)
    BY <1>2, <1>3
  <2>2. /\ Walked6(i + 1, j) = S6(i + 1)
        /\ AfterException(i + 1, j) \in 0..Len(ExcIdx)
        /\ ExceptionsPassed((i + 1) + 1, AfterException(i + 1, j))
    BY <1>1, <2>1, WalkRight
  <2>3. S6(i + 1) \in Addresses6
    BY <1>1, <2>1, Facts6
  <2>4. NextStart6 = S6(i + 1) /\ NextException = AfterException(i + 1, j)
    BY <1>3, <2>2 DEF NextStart6, NextException
  <2>5. Last6 = E6(i)
    BY <1>3, <2>4 DEF Last6, E6
  <2>. QED  BY <1>1, <1>2, <2>2, <2>3, <2>4, <2>5
<1>4. CASE ~(i + 1 < n6)
  <2>1. NextStart6 = Zero6 /\ NextException = j /\ Last6 = E6(i)
    BY <1>4 DEF NextStart6, NextException, Last6, E6
  <2>. QED  BY <1>1, <1>2, <1>4, <2>1, EndRanks
<1>. QED  BY <1>3, <1>4

LEMMA NotAsked ==
  ASSUME IInv, pc # "ended", UNCHANGED lookup
  PROVE  asked = Nothing /\ ~stopped /\ LookedUp'
<1>1. asked = Nothing /\ ~stopped
  BY DEF IInv, LookedUp, StopEnds
<1>2. asked' = Nothing
  BY <1>1 DEF lookup, Nothing
<1>3. \A q \in Asked : q # Nothing
  BY DEF Asked, Nothing
<1>. QED  BY <1>1, <1>2, <1>3 DEF LookedUp

-----------------------------------------------------------------------------
LEMMA InitRight ==
  ASSUME Init
  PROVE  IInv
<1>1. /\ file \in Files /\ pc = "ranges4" /\ i = 0 /\ j = 0
      /\ rest = [first |-> Zero6, last |-> Zero6] /\ a = 1
      /\ yielded = <<>> /\ stopped = FALSE /\ asked = Nothing
  BY DEF Init
<1>2. n4 \in Nat /\ n6 \in Nat /\ Top4 \in Nat
  BY <1>1, Facts4, Facts6
<1>3. /\ g \in 0..(Buckets - 1) /\ first \in Addresses4
      /\ i < n4 => g = BucketOf(i) /\ first = S4(i)
  <2>1. CASE n4 > 0
    <3>1. 0 \in 0..(n4 - 1)
      BY <1>2, <2>1
    <3>2. /\ BucketOf(0) \in 0..(Buckets - 1)
          /\ S4(0) = BucketOf(0) * BucketSize + Low(0) /\ S4(0) \in 0..Top4
      BY <1>1, <3>1, BucketFacts, Facts4
    <3>3. 0 \in 0..BucketOf(0)
      BY <3>2
    <3>4. g = BucketOf(0)
      BY <1>1, <2>1, <3>1, <3>3, BucketRight DEF Init
    <3>5. first = S4(0)
      BY <2>1, <3>2, <3>4 DEF Init
    <3>. QED  BY <1>1, <3>2, <3>4, <3>5 DEF Addresses4
  <2>2. CASE ~(n4 > 0)
    <3>1. g = 0 /\ first = 0
      BY <2>2 DEF Init
    <3>2. Buckets \in Nat \ {0}
      BY SizeAssumption
    <3>. QED  BY <1>1, <1>2, <2>2, <3>1, <3>2 DEF Addresses4
  <2>. QED  BY <2>1, <2>2
<1>4. Types
  <2>1. 0 \in 0..Len(ExcIdx)
    BY <1>1, NonePassed
  <2>2. rest \in [first : Addresses6, last : Addresses6]
    BY <1>1, EndRanks
  <2>3. yielded \in Seq(Yieldable)
    BY <1>1
  <2>4. 1 \in 1..(Len(v6Aliases) + 1)
    BY AliasFacts
  <2>. QED  BY <1>1, <1>3, <2>1, <2>2, <2>3, <2>4 DEF Types
<1>5. InStep4 /\ InStep6 /\ Ended /\ InParts /\ StopEnds
  BY <1>1, <1>2, <1>3 DEF InStep4, InStep6, Ended, InParts, StopEnds
<1>6. Ascending /\ LastBelow
  BY <1>1 DEF Ascending, LastBelow
<1>7. Covered4 /\ Covered6
  <2>1. \A b \in 0..(n4 - 1) : ~Past4(b)
    BY <1>1 DEF Past4
  <2>2. \A x \in Addresses6 : ~Past6(x)
    BY <1>1 DEF Past6
  <2>. QED  BY <2>1, <2>2 DEF Covered4, Covered6
<1>8. LookedUp
  <2>1. \A q \in Asked : q # Nothing
    BY DEF Asked, Nothing
  <2>. QED  BY <1>1, <2>1 DEF LookedUp
<1>. QED  BY <1>4, <1>5, <1>6, <1>7, <1>8 DEF IInv

LEMMA SkipGap4Step ==
  ASSUME IInv, SkipGap4
  PROVE  IInv'
<1>1. /\ pc = "ranges4" /\ i < n4 /\ Id4(i) = 0
      /\ i' = i + 1 /\ g' = NextBucket /\ first' = NextStart4
      /\ file' = file /\ pc' = pc /\ j' = j /\ rest' = rest /\ a' = a
      /\ yielded' = yielded /\ stopped' = stopped /\ UNCHANGED lookup
  BY DEF SkipGap4, Walk4, parts
<1>2. /\ i \in 0..(n4 - 1) /\ n4 \in Nat /\ file \in Files
      /\ g = BucketOf(i) /\ first = S4(i) /\ j = 0
      /\ NextBucket \in 0..(Buckets - 1) /\ NextStart4 \in Addresses4
      /\ i + 1 < n4 => NextBucket = BucketOf(i + 1) /\ NextStart4 = S4(i + 1)
  BY <1>1, Walk4Right
<1>3. /\ n4' = n4 /\ n6' = n6 /\ ExcIdx' = ExcIdx /\ Yieldable' = Yieldable
      /\ \A b : /\ S4(b)' = S4(b) /\ Id4(b)' = Id4(b) /\ BucketOf(b)' = BucketOf(b)
                /\ Whole4(b)' = Whole4(b)
  BY <1>1, FileKept
<1>4. Types'
  BY <1>1, <1>2, <1>3 DEF IInv, Types
<1>5. InStep4'
  <2>1. i' \in 0..n4 /\ (i' < n4 => g' = BucketOf(i + 1) /\ first' = S4(i + 1))
    BY <1>1, <1>2
  <2>. QED  BY <1>1, <1>2, <1>3, <2>1 DEF InStep4, BucketOf, S4
<1>6. (InStep6 /\ Ended /\ InParts /\ StopEnds)'
  BY <1>1 DEF IInv, InStep6, Ended, InParts, StopEnds
<1>7. Ascending'
  BY <1>1, AscendKept DEF IInv
<1>8. LastBelow'
  <2>1. SUFFICES ASSUME yielded # <<>>
                 PROVE  /\ yielded[Len(yielded)].fam = 4
                        /\ i + 1 < n4 => yielded[Len(yielded)].last < NextStart4
    BY <1>1, <1>3 DEF LastBelow
  <2>2. yielded[Len(yielded)].fam = 4 /\ yielded[Len(yielded)].last < first
    BY <1>1, <2>1 DEF IInv, LastBelow
  <2>3. yielded[Len(yielded)] \in Yieldable
    <3>1. yielded \in Seq(Yieldable) /\ Len(yielded) \in 1..Len(yielded)
      BY <2>1 DEF IInv, Types
    <3>. QED  BY <3>1, Element
  <2>4. yielded[Len(yielded)].last \in Nat
    <3>1. yielded[Len(yielded)].last \in 0..Top4
      BY <1>2, <2>2, <2>3, YieldableFacts
    <3>. QED  BY <3>1
  <2>5. i + 1 < n4 => S4(i) < S4(i + 1) /\ S4(i) \in Nat /\ S4(i + 1) \in Nat
    <3>1. i + 1 < n4 => i + 1 \in 0..(n4 - 1) /\ i < i + 1
      BY <1>2
    <3>. QED  BY <1>2, <3>1, Facts4
  <2>. QED  BY <1>2, <2>2, <2>4, <2>5
<1>9. Covered4'
  <2>1. \A b \in 0..(n4 - 1) : Id4(b) # 0 /\ b < i + 1 => Whole4(b) \in Given
    <3>1. ASSUME NEW b \in 0..(n4 - 1), Id4(b) # 0, b < i + 1
          PROVE  Whole4(b) \in Given
      <4>1. b < i
        BY <1>1, <1>2, <3>1
      <4>. QED  BY <1>1, <3>1, <4>1 DEF IInv, Covered4, Past4
    <3>. QED  BY <3>1
  <2>2. Given' = Given
    BY <1>1 DEF Given
  <2>. QED  BY <1>1, <1>3, <2>1, <2>2 DEF Covered4, Past4
<1>10. Covered6'
  BY <1>1 DEF Covered6, Past6
<1>11. LookedUp'
  BY <1>1, NotAsked
<1>. QED  BY <1>4, <1>5, <1>6, <1>7, <1>8, <1>9, <1>10, <1>11 DEF IInv

LEMMA Yield4Step ==
  ASSUME IInv, Yield4
  PROVE  IInv'
<1> DEFINE r == [fam |-> 4, first |-> first, id |-> Id4(i),
                 last |-> IF i + 1 < n4 THEN NextStart4 - 1 ELSE Top4]
<1>1. /\ pc = "ranges4" /\ i < n4 /\ Id4(i) # 0
      /\ i' = i + 1 /\ g' = NextBucket /\ first' = NextStart4
      /\ file' = file /\ j' = j /\ rest' = rest /\ a' = a
      /\ UNCHANGED lookup
      /\ Yield(r) /\ pc' = IF stopped' THEN "ended" ELSE pc
  BY DEF Yield4, Walk4, parts
<1>2. /\ i \in 0..(n4 - 1) /\ n4 \in Nat /\ file \in Files
      /\ g = BucketOf(i) /\ first = S4(i) /\ j = 0
      /\ NextBucket \in 0..(Buckets - 1) /\ NextStart4 \in Addresses4
      /\ i + 1 < n4 => NextBucket = BucketOf(i + 1) /\ NextStart4 = S4(i + 1)
      /\ (IF i + 1 < n4 THEN NextStart4 - 1 ELSE Top4) = E4(i)
  BY <1>1, Walk4Right
<1>3. /\ n4' = n4 /\ n6' = n6 /\ ExcIdx' = ExcIdx /\ Yieldable' = Yieldable
      /\ \A b : /\ S4(b)' = S4(b) /\ Id4(b)' = Id4(b) /\ BucketOf(b)' = BucketOf(b)
                /\ Whole4(b)' = Whole4(b)
  BY <1>1, FileKept
<1>4. r = Whole4(i) /\ r \in Yieldable
  <2>1. r = Whole4(i)
    BY <1>2 DEF Whole4
  <2> HIDE DEF r
  <2>. QED  BY <1>1, <1>2, <2>1 DEF Yieldable, Yieldable4
<1>5. r.fam = 4 /\ r.first = first
  OBVIOUS
<1> HIDE DEF r
<1>6. /\ yielded' \in Seq(Yieldable) /\ Given' = Given \union {r}
      /\ yielded'[Len(yielded')] = r
      /\ Ascending' /\ stopped' \in BOOLEAN
  BY <1>1, <1>4, <1>5, YieldStep
<1>7. Types'
  BY <1>1, <1>2, <1>3, <1>6 DEF IInv, Types
<1>8. InStep4'
  <2>1. i' \in 0..n4 /\ (i' < n4 => g' = BucketOf(i + 1) /\ first' = S4(i + 1))
    BY <1>1, <1>2
  <2>. QED  BY <1>1, <1>2, <1>3, <2>1 DEF InStep4, BucketOf, S4
<1>9. (InStep6 /\ InParts)' /\ (Ended /\ StopEnds)'
  <2>1. i' \in 0..n4
    BY <1>1, <1>2
  <2>2. ~stopped
    BY <1>1 DEF IInv, StopEnds
  <2>. QED  BY <1>1, <1>3, <1>6, <2>1, <2>2 DEF InStep6, InParts, Ended, StopEnds
<1>10. LastBelow'
  <2>1. i + 1 < n4 => r.last < NextStart4
    <3>1. i + 1 < n4 => i + 1 \in 0..(n4 - 1) /\ r.last = S4(i + 1) - 1
      BY <1>2, <1>4 DEF Whole4, E4
    <3>2. i + 1 < n4 => S4(i + 1) \in 0..Top4 /\ Top4 \in Nat
      BY <1>2, <3>1, Facts4
    <3>. QED  BY <1>2, <3>1, <3>2
  <2>. QED  BY <1>1, <1>3, <1>5, <1>6, <2>1 DEF LastBelow
<1>11. Covered4'
  <2>1. ASSUME NEW b \in 0..(n4 - 1), Id4(b) # 0, Past4(b)'
        PROVE  Whole4(b) \in Given'
    <3>1. pc' = "ranges4" /\ b < i + 1
      BY <1>1, <1>6, <2>1 DEF Past4
    <3>2. CASE b = i
      BY <1>4, <1>6, <3>2
    <3>3. CASE b # i
      <4>1. b < i
        BY <1>2, <3>1, <3>3
      <4>. QED  BY <1>1, <1>6, <2>1, <4>1 DEF IInv, Covered4, Past4
    <3>. QED  BY <3>2, <3>3
  <2>. QED  BY <1>1, <1>3, <2>1 DEF Covered4, Past4
<1>12. Covered6'
  BY <1>1, <1>6 DEF Covered6, Past6
<1>13. LookedUp'
  BY <1>1, NotAsked
<1>. QED  BY <1>6, <1>7, <1>8, <1>9, <1>10, <1>11, <1>12, <1>13 DEF IInv

LEMMA StartRanges6Step ==
  ASSUME IInv, StartRanges6
  PROVE  IInv'
<1>1. /\ pc = "ranges4" /\ i = n4 /\ pc' = "ranges6" /\ i' = 0
      /\ first' = (IF n6 > 0 THEN Walked6(0, j) ELSE Zero6)
      /\ j' = (IF n6 > 0 THEN AfterException(0, j) ELSE j)
      /\ file' = file /\ g' = g /\ rest' = rest /\ a' = a
      /\ yielded' = yielded /\ stopped' = stopped /\ UNCHANGED lookup
  BY DEF StartRanges6, parts
<1>2. file \in Files /\ j = 0 /\ n4 \in Nat /\ n6 \in Nat
  BY <1>1, Facts4, Facts6 DEF IInv, Types, InStep4
<1>3. /\ n4' = n4 /\ n6' = n6 /\ ExcIdx' = ExcIdx /\ Yieldable' = Yieldable
      /\ \A b : Id4(b)' = Id4(b) /\ Whole4(b)' = Whole4(b) /\ S6(b)' = S6(b)
      /\ \A x : Index6(x)' = Index6(x) /\ Answer6(x)' = Answer6(x)
      /\ \A b, e : ExceptionsPassed(b, e)' <=> ExceptionsPassed(b, e)
  BY <1>1, FileKept
<1>4. /\ j' \in 0..Len(ExcIdx) /\ first' \in Addresses6
      /\ 0 < n6 => first' = S6(0) /\ ExceptionsPassed(1, j')
  <2>1. ExceptionsPassed(0, 0) /\ 0 \in 0..Len(ExcIdx)
    BY <1>2, NonePassed
  <2>2. CASE n6 > 0
    <3>1. 0 \in 0..(n6 - 1)
      BY <1>2, <2>2
    <3>2. /\ Walked6(0, 0) = S6(0) /\ AfterException(0, 0) \in 0..Len(ExcIdx)
          /\ ExceptionsPassed(0 + 1, AfterException(0, 0))
      BY <1>2, <2>1, <3>1, WalkRight
    <3>3. S6(0) \in Addresses6 /\ 0 + 1 = 1
      BY <1>2, <3>1, Facts6
    <3>. QED  BY <1>1, <1>2, <2>2, <3>2, <3>3
  <2>3. CASE ~(n6 > 0)
    BY <1>1, <1>2, <2>1, <2>3, EndRanks
  <2>. QED  BY <2>2, <2>3
<1>5. Types'
  BY <1>1, <1>3, <1>4 DEF IInv, Types
<1>6. InStep6'
  <2>1. 0 \in 0..n6 /\ 0 + 1 = 1
    BY <1>2
  <2>. QED  BY <1>1, <1>3, <1>4, <2>1 DEF InStep6, S6, ExceptionsPassed
<1>7. (InStep4 /\ Ended /\ InParts /\ StopEnds)'
  BY <1>1 DEF IInv, InStep4, Ended, InParts, StopEnds
<1>8. Ascending'
  BY <1>1, AscendKept DEF IInv
<1>9. LastBelow'
  BY <1>1 DEF IInv, LastBelow
<1>10. Covered4'
  <2>1. ASSUME NEW b \in 0..(n4 - 1), Id4(b) # 0
        PROVE  Whole4(b) \in Given
    <3>1. b < i
      BY <1>1, <1>2
    <3>. QED  BY <1>1, <2>1, <3>1 DEF IInv, Covered4, Past4
  <2>2. Given' = Given
    BY <1>1 DEF Given
  <2>. QED  BY <1>3, <2>1, <2>2 DEF Covered4
<1>11. Covered6'
  <2>1. ASSUME NEW x \in Addresses6, Index6(x) < 0 PROVE Answer6(x) = 0
    <3>1. Index6(x) \in -1..(n6 - 1)
      BY <1>2, Index6Finds
    <3>. QED  BY <2>1, <3>1 DEF Answer6
  <2>. QED  BY <1>1, <1>3, <2>1 DEF Covered6, Past6
<1>12. LookedUp'
  BY <1>1, NotAsked
<1>. QED  BY <1>5, <1>6, <1>7, <1>8, <1>9, <1>10, <1>11, <1>12 DEF IInv

(* A boundary's range is done: its addresses have been yielded. *)
LEMMA NextBoundary6 ==
  ASSUME IInv, pc \in {"ranges6", "parts"}, i < n6,
         pc' = "ranges6", Walk6, file' = file, UNCHANGED parts, UNCHANGED lookup,
         yielded' \in Seq(Yieldable), stopped' = FALSE, Ascending', Given \subseteq Given',
         \A x \in Addresses6 : ~Aliased(x) /\ Answer6(x) # 0 /\ Index6(x) = i =>
           \E r \in Given' : /\ r.fam = 6
                             /\ Rank(r.first) <= Rank(x) /\ Rank(x) <= Rank(r.last),
         NEW p, p = yielded'[Len(yielded')],
         yielded' # <<>> /\ p.fam = 6 => Rank(p.last) <= Rank(E6(i))
  PROVE  IInv'
<1>1. /\ i' = i + 1 /\ first' = NextStart6 /\ j' = NextException /\ g' = g
      /\ rest' = rest /\ a' = a
  BY DEF Walk6, NextException, parts
<1>2. /\ i \in 0..(n6 - 1) /\ n6 \in Nat /\ file \in Files
      /\ NextStart6 \in Addresses6 /\ NextException \in 0..Len(ExcIdx)
      /\ i + 1 < n6 => /\ NextStart6 = S6(i + 1)
                       /\ ExceptionsPassed((i + 1) + 1, NextException)
  BY Walk6Right
<1>3. /\ n4' = n4 /\ n6' = n6 /\ ExcIdx' = ExcIdx /\ Yieldable' = Yieldable
      /\ \A b : Id4(b)' = Id4(b) /\ Whole4(b)' = Whole4(b)
      /\ \A x : Index6(x)' = Index6(x) /\ Answer6(x)' = Answer6(x)
  BY FileKept
<1>4. Types'
  BY <1>1, <1>2, <1>3 DEF IInv, Types
<1>5. InStep6'
  <2>1. i' \in 0..n6
    BY <1>1, <1>2
  <2>2. ASSUME i + 1 < n6
        PROVE  /\ first' = S6(i + 1)
               /\ \A x \in DOMAIN ExcIdx : ExcIdx[x] < (i + 1) + 1 <=> x <= j'
    BY <1>1, <1>2, <2>2 DEF ExceptionsPassed
  <2>. QED  BY <1>1, <1>2, <1>3, <2>1, <2>2 DEF InStep6, S6, ExceptionsPassed
<1>6. (InStep4 /\ Ended /\ InParts /\ StopEnds)'
  BY DEF InStep4, Ended, InParts, StopEnds
<1>7. LastBelow'
  <2>1. SUFFICES ASSUME yielded' # <<>>, i + 1 < n6, p.fam = 6
                 PROVE  Rank(p.last) < Rank(NextStart6)
    BY <1>1, <1>3 DEF LastBelow
  <2>2. p \in Yieldable
    <3>1. Len(yielded') \in 1..Len(yielded')
      BY <2>1
    <3>. QED  BY <3>1, Element
  <2>3. p.last \in Addresses6 /\ Rank(p.last) \in Nat
    BY <1>2, <2>1, <2>2, YieldableFacts, RankFacts
  <2>4. Rank(S6(i + 1)) = Rank(E6(i)) + 1 /\ E6(i) \in Addresses6 /\ Rank(E6(i)) \in Nat
    BY <1>2, <2>1, EndOf6, RankFacts
  <2>5. Rank(p.last) <= Rank(E6(i))
    BY <2>1
  <2>. QED  BY <1>2, <2>1, <2>3, <2>4, <2>5
<1>8. Covered4'
  <2>1. ASSUME NEW b \in 0..(n4 - 1), Id4(b) # 0
        PROVE  Whole4(b) \in Given
    <3>1. Past4(b)
      BY DEF IInv, Past4, StopEnds
    <3>. QED  BY <2>1, <3>1 DEF IInv, Covered4
  <2>. QED  BY <1>3, <2>1 DEF Covered4
<1>9. Covered6'
  <2>1. ASSUME NEW x \in Addresses6, ~Aliased(x), Answer6(x) # 0, Index6(x) < i + 1
        PROVE  \E r \in Given' : /\ r.fam = 6
                                 /\ Rank(r.first) <= Rank(x) /\ Rank(x) <= Rank(r.last)
    <3>1. CASE Index6(x) = i
      BY <2>1, <3>1
    <3>2. CASE Index6(x) # i
      <4>1. Index6(x) \in -1..(n6 - 1)
        BY <1>2, Index6Finds
      <4>2. Index6(x) < i
        BY <1>2, <2>1, <3>2, <4>1
      <4>3. Past6(x)
        BY <4>2 DEF Past6
      <4>4. \E r \in Given : /\ r.fam = 6
                             /\ Rank(r.first) <= Rank(x) /\ Rank(x) <= Rank(r.last)
        BY <2>1, <4>3 DEF IInv, Covered6
      <4>. QED  BY <4>4
    <3>. QED  BY <3>1, <3>2
  <2>. QED  BY <1>1, <1>3, <2>1 DEF Covered6, Past6
<1>10. LookedUp'
  BY NotAsked
<1>. QED  BY <1>4, <1>5, <1>6, <1>7, <1>8, <1>9, <1>10 DEF IInv

(* The caller has asked for no more. *)
LEMMA StopsHere ==
  ASSUME IInv, pc = "parts", pc' = "ended", stopped' = TRUE,
         UNCHANGED <<file, walk, parts, lookup>>,
         yielded' \in Seq(Yieldable), Ascending'
  PROVE  IInv'
<1>1. /\ file' = file /\ i' = i /\ g' = g /\ j' = j /\ first' = first
      /\ rest' = rest /\ a' = a /\ UNCHANGED lookup
  BY DEF walk, parts
<1>2. /\ n4' = n4 /\ n6' = n6 /\ ExcIdx' = ExcIdx /\ Yieldable' = Yieldable
  BY <1>1, FileKept
<1>3. Types'
  BY <1>1, <1>2 DEF IInv, Types
<1>4. i' \in 0..n6'
  BY <1>1, <1>2 DEF IInv, InStep6
<1>5. (InStep4 /\ InStep6 /\ Ended /\ InParts /\ LastBelow /\ StopEnds)'
  BY <1>4 DEF InStep4, InStep6, Ended, InParts, LastBelow, StopEnds
<1>6. (Covered4 /\ Covered6)'
  BY DEF Covered4, Covered6, Past4, Past6
<1>7. LookedUp'
  BY <1>1, NotAsked
<1>. QED  BY <1>3, <1>5, <1>6, <1>7 DEF IInv

LEMMA SkipGap6Step ==
  ASSUME IInv, SkipGap6
  PROVE  IInv'
<1>1. /\ pc = "ranges6" /\ i < n6 /\ Id6(i) = 0 /\ Walk6
      /\ file' = file /\ pc' = pc /\ UNCHANGED parts
      /\ yielded' = yielded /\ stopped' = stopped /\ UNCHANGED lookup
  BY DEF SkipGap6
<1>2. stopped' = FALSE /\ yielded' \in Seq(Yieldable) /\ Given' = Given /\ Ascending'
  <2>1. Ascending'
    BY <1>1, AscendKept DEF IInv
  <2>2. stopped = FALSE
    BY <1>1 DEF IInv, StopEnds, Types
  <2>. QED  BY <1>1, <2>1, <2>2 DEF IInv, Types, Given
<1>3. ASSUME NEW x \in Addresses6, Index6(x) = i PROVE Answer6(x) = 0
  BY <1>1, <1>3 DEF Answer6
<1>4. PICK p : p = yielded'[Len(yielded')]
  OBVIOUS
<1>5. ASSUME yielded' # <<>>, p.fam = 6 PROVE Rank(p.last) <= Rank(E6(i))
  <2>1. /\ i \in 0..(n6 - 1) /\ n6 \in Nat /\ file \in Files /\ first = S6(i)
        /\ first \in Addresses6
    BY <1>1, Walk6Right
  <2>2. Rank(p.last) < Rank(first)
    BY <1>1, <1>4, <1>5 DEF IInv, LastBelow
  <2>3. Rank(S6(i)) <= Rank(E6(i)) /\ E6(i) \in Addresses6
    BY <2>1, EndOf6
  <2>4. p.last \in Addresses6
    <3>1. yielded \in Seq(Yieldable) /\ Len(yielded) \in 1..Len(yielded)
      BY <1>1, <1>5 DEF IInv, Types
    <3>2. p \in Yieldable
      BY <1>1, <1>4, <3>1, Element
    <3>. QED  BY <1>5, <2>1, <3>2, YieldableFacts
  <2>5. Rank(p.last) \in Nat /\ Rank(first) \in Nat /\ Rank(E6(i)) \in Nat
    BY <2>1, <2>3, <2>4, RankFacts
  <2>. QED  BY <2>1, <2>2, <2>3, <2>5
<1>6. pc \in {"ranges6", "parts"} /\ pc' = "ranges6"
  BY <1>1
<1>. QED  BY <1>1, <1>2, <1>3, <1>4, <1>5, <1>6, NextBoundary6

LEMMA StartPartsStep ==
  ASSUME IInv, StartParts
  PROVE  IInv'
<1>1. /\ pc = "ranges6" /\ i < n6 /\ Id6(i) # 0 /\ pc' = "parts"
      /\ rest' = [first |-> first, last |-> Last6] /\ a' = 1
      /\ file' = file /\ i' = i /\ g' = g /\ j' = j /\ first' = first
      /\ yielded' = yielded /\ stopped' = stopped /\ UNCHANGED lookup
  BY DEF StartParts, walk
<1>2. /\ i \in 0..(n6 - 1) /\ n6 \in Nat /\ file \in Files
      /\ first = S6(i) /\ first \in Addresses6 /\ Last6 = E6(i)
  BY <1>1, Walk6Right
<1>3. /\ n4' = n4 /\ n6' = n6 /\ ExcIdx' = ExcIdx /\ Yieldable' = Yieldable
      /\ \A b : /\ Id4(b)' = Id4(b) /\ Whole4(b)' = Whole4(b)
      /\ \A x : Index6(x)' = Index6(x) /\ Answer6(x)' = Answer6(x)
  BY <1>1, FileKept
<1>4. E6(i) \in Addresses6 /\ Rank(S6(i)) <= Rank(E6(i))
  BY <1>2, EndOf6
<1>5. rest'.first = S6(i) /\ rest'.last = E6(i)
  BY <1>1, <1>2
<1>6. Types'
  <2>1. rest' \in [first : Addresses6, last : Addresses6]
    BY <1>1, <1>2, <1>4
  <2>2. 1 \in 1..(Len(v6Aliases) + 1)
    BY AliasFacts
  <2>. QED  BY <1>1, <1>3, <2>1, <2>2 DEF IInv, Types
<1>7. InStep6'
  BY <1>1, <1>3 DEF IInv, InStep6, S6, ExceptionsPassed
<1>8. InParts'
  <2>1. Rank(S6(i)) <= Rank(S6(i))
    BY <1>2, RankFacts
  <2>2. StartsPart(S6(i), rest'.first)
    BY <1>5 DEF StartsPart
  <2>3. \A k \in Aliases : ~(k < 1)
    BY DEF Aliases
  <2>4. E6(i)' = E6(i) /\ S6(i)' = S6(i) /\ Id6(i)' = Id6(i)
    BY <1>1 DEF E6, S6, Id6, n6
  <2>. QED  BY <1>1, <1>3, <1>4, <1>5, <2>1, <2>2, <2>3, <2>4 DEF InParts
<1>9. (InStep4 /\ Ended /\ StopEnds)'
  BY <1>1 DEF IInv, InStep4, Ended, StopEnds
<1>10. Ascending'
  BY <1>1, AscendKept DEF IInv
<1>11. LastBelow'
  BY <1>1, <1>2, <1>5 DEF IInv, LastBelow
<1>12. Given' = Given
  BY <1>1 DEF Given
<1>13. Covered4'
  BY <1>1, <1>3, <1>12 DEF IInv, Covered4, Past4
<1>14. Covered6'
  <2>1. ASSUME NEW x \in Addresses6, Past6(x)' PROVE Past6(x)
    <3>1. Index6(x) < i \/ (Index6(x) = i /\ Rank(x) < Rank(S6(i)))
      BY <1>1, <1>3, <1>5, <2>1 DEF Past6
    <3>2. Index6(x) = i => Rank(S6(i)) <= Rank(x)
      BY <1>2, InRange6
    <3>3. Rank(x) \in Nat /\ Rank(S6(i)) \in Nat
      BY <1>2, RankFacts
    <3>4. Index6(x) < i
      BY <3>1, <3>2, <3>3
    <3>. QED  BY <1>1, <3>4 DEF Past6
  <2>. QED  BY <1>3, <1>12, <2>1 DEF IInv, Covered6
<1>15. LookedUp'
  BY <1>1, NotAsked
<1>. QED  BY <1>6, <1>7, <1>8, <1>9, <1>10, <1>11, <1>13, <1>14, <1>15 DEF IInv

-----------------------------------------------------------------------------
(* yieldUnaliased's loop. *)
LEMMA PartsFacts ==
  ASSUME IInv, pc = "parts"
  PROVE  /\ i \in 0..(n6 - 1) /\ n6 \in Nat /\ file \in Files /\ i < n6
         /\ Id6(i) # 0 /\ Id6(i) \in Nat
         /\ rest.first \in Addresses6 /\ rest.last \in Addresses6 /\ rest.last = E6(i)
         /\ rest = [first |-> rest.first, last |-> rest.last]
         /\ Rank(rest.first) \in Nat /\ Rank(rest.last) \in Nat /\ Rank(S6(i)) \in Nat
         /\ Rank(S6(i)) <= Rank(rest.first) /\ Rank(rest.first) <= Rank(rest.last)
         /\ StartsPart(S6(i), rest.first)
         /\ a \in 1..(Len(v6Aliases) + 1)
         /\ \A k \in Aliases : k < a => LastOf(k) < Rank(rest.first)
         /\ stopped = FALSE
<1>1. /\ file \in Files /\ rest \in [first : Addresses6, last : Addresses6]
      /\ a \in 1..(Len(v6Aliases) + 1) /\ stopped \in BOOLEAN
      /\ i \in 0..n6 /\ i < n6 /\ Id6(i) # 0 /\ rest.last = E6(i) /\ ~stopped
      /\ Rank(S6(i)) <= Rank(rest.first) /\ Rank(rest.first) <= Rank(rest.last)
      /\ StartsPart(S6(i), rest.first)
      /\ \A k \in Aliases : k < a => LastOf(k) < Rank(rest.first)
  BY DEF IInv, Types, InStep6, InParts, StopEnds
<1>2. i \in 0..(n6 - 1) /\ n6 \in Nat
  BY <1>1, Facts6
<1>3. rest.first \in Addresses6 /\ rest.last \in Addresses6
      /\ rest = [first |-> rest.first, last |-> rest.last]
  BY <1>1
<1>4. /\ Rank(rest.first) \in Nat /\ Rank(rest.last) \in Nat /\ Rank(S6(i)) \in Nat
      /\ Id6(i) \in Nat
  BY <1>1, <1>2, <1>3, Facts6, RankFacts
<1>. QED  BY <1>1, <1>2, <1>3, <1>4

LEMMA PassAliasStep ==
  ASSUME IInv, PassAlias
  PROVE  IInv'
<1>1. /\ pc = "parts" /\ a <= Len(v6Aliases) /\ Less(Alias(a).last, rest.first)
      /\ a' = a + 1 /\ pc' = pc /\ rest' = rest
      /\ file' = file /\ i' = i /\ g' = g /\ j' = j /\ first' = first
      /\ yielded' = yielded /\ stopped' = stopped /\ UNCHANGED lookup
  BY DEF PassAlias, walk
<1>2. /\ i \in 0..(n6 - 1) /\ n6 \in Nat /\ file \in Files
      /\ rest.first \in Addresses6 /\ a \in 1..(Len(v6Aliases) + 1)
      /\ \A k \in Aliases : k < a => LastOf(k) < Rank(rest.first)
  BY <1>1, PartsFacts
<1>3. /\ n4' = n4 /\ n6' = n6 /\ ExcIdx' = ExcIdx /\ Yieldable' = Yieldable
      /\ \A b : /\ Id4(b)' = Id4(b) /\ Whole4(b)' = Whole4(b)
      /\ \A x : Index6(x)' = Index6(x) /\ Answer6(x)' = Answer6(x)
  BY <1>1, FileKept
<1>4. a \in Aliases /\ a + 1 \in 1..(Len(v6Aliases) + 1)
  BY <1>1, <1>2, AliasFacts DEF Aliases
<1>5. LastOf(a) < Rank(rest.first)
  BY <1>1, <1>2, <1>4, AliasFacts, LessRank DEF LastOf
<1>6. ASSUME NEW k \in Aliases, k < a + 1 PROVE LastOf(k) < Rank(rest.first)
  <2>1. k < a \/ k = a
    BY <1>2, <1>6 DEF Aliases
  <2>. QED  BY <1>2, <1>5, <2>1
<1>7. Types'
  BY <1>1, <1>3, <1>4 DEF IInv, Types
<1>8. InStep6'
  BY <1>1, <1>3 DEF IInv, InStep6, S6, ExceptionsPassed
<1>9. InParts'
  <2>1. E6(i)' = E6(i) /\ S6(i)' = S6(i) /\ Id6(i)' = Id6(i)
    BY <1>1 DEF E6, S6, Id6, n6
  <2>. QED  BY <1>1, <1>3, <1>6, <2>1 DEF IInv, InParts
<1>10. (InStep4 /\ Ended /\ StopEnds)'
  BY <1>1 DEF IInv, InStep4, Ended, StopEnds
<1>11. Ascending'
  BY <1>1, AscendKept DEF IInv
<1>12. LastBelow'
  BY <1>1 DEF IInv, LastBelow
<1>13. Given' = Given
  BY <1>1 DEF Given
<1>14. Covered4'
  BY <1>1, <1>3, <1>13 DEF IInv, Covered4, Past4
<1>15. Covered6'
  <2>1. ASSUME NEW x \in Addresses6, Past6(x)' PROVE Past6(x)
    BY <1>1, <1>3, <2>1 DEF Past6
  <2>. QED  BY <1>3, <1>13, <2>1 DEF IInv, Covered6
<1>16. LookedUp'
  BY <1>1, NotAsked
<1>. QED  BY <1>7, <1>8, <1>9, <1>10, <1>11, <1>12, <1>14, <1>15, <1>16 DEF IInv

(* The part from rest's start up to an alias, or up to rest's end. *)
LEMMA PartYieldable ==
  ASSUME IInv, pc = "parts", NEW l \in Addresses6,
         Rank(rest.first) <= Rank(l), Rank(l) <= Rank(rest.last), EndsPart(E6(i), l),
         \A k \in Aliases : k >= a => Rank(l) < FirstOf(k)
  PROVE  /\ Part(rest.first, l) \in Yieldable
         /\ Part(rest.first, l).fam = 6 /\ Part(rest.first, l).first = rest.first
         /\ Part(rest.first, l).last = l
<1> DEFINE r == Part(rest.first, l)
<1>1. /\ i \in 0..(n6 - 1) /\ Id6(i) # 0 /\ Id6(i) \in Nat
      /\ rest.first \in Addresses6 /\ rest.last = E6(i)
      /\ Rank(S6(i)) <= Rank(rest.first)
      /\ StartsPart(S6(i), rest.first) /\ a \in 1..(Len(v6Aliases) + 1)
      /\ \A k \in Aliases : k < a => LastOf(k) < Rank(rest.first)
  BY PartsFacts
<1>2. Clear(rest.first, l)
  <2>1. ASSUME NEW k \in Aliases PROVE k < a \/ k >= a
    BY <1>1 DEF Aliases
  <2>. QED  BY <1>1, <2>1 DEF Clear
<1>3. IsPart(S6(i), E6(i), rest.first, l)
  BY <1>1, <1>2 DEF IsPart
<1>4. r = [fam |-> 6, first |-> rest.first, last |-> l, id |-> Id6(i)]
  BY DEF Part
<1>5. r \in [fam : {6}, first : Addresses6, last : Addresses6, id : Nat]
  BY <1>1, <1>4
<1>6. r.id = Id6(i) /\ r.first = rest.first /\ r.last = l /\ r.fam = 6
  BY <1>4
<1> HIDE DEF r
<1>7. r \in Yieldable
  BY <1>1, <1>3, <1>5, <1>6 DEF Yieldable, Yieldable6
<1>. QED  BY <1>6, <1>7 DEF r

LEMMA YieldRestStep ==
  ASSUME IInv, YieldRest
  PROVE  IInv'
<1> DEFINE r == Part(rest.first, rest.last)
<1>1. /\ pc = "parts" /\ ~AliasesLeft /\ Yield(r)
      /\ pc' = (IF stopped' THEN "ended" ELSE "ranges6")
      /\ IF stopped' THEN UNCHANGED walk ELSE Walk6
      /\ file' = file /\ UNCHANGED parts /\ UNCHANGED lookup
  BY DEF YieldRest
<1>2. /\ i \in 0..(n6 - 1) /\ n6 \in Nat /\ file \in Files /\ i < n6
      /\ rest.first \in Addresses6 /\ rest.last \in Addresses6 /\ rest.last = E6(i)
      /\ Rank(rest.first) \in Nat /\ Rank(rest.last) \in Nat
      /\ Rank(rest.first) <= Rank(rest.last)
      /\ a \in 1..(Len(v6Aliases) + 1)
  BY <1>1, PartsFacts
<1>3. ASSUME NEW k \in Aliases, k >= a PROVE Rank(rest.last) < FirstOf(k)
  <2>1. a \in Aliases
    BY <1>2, <1>3, AliasFacts DEF Aliases
  <2>2. Less(rest.last, Alias(a).first)
    BY <1>1, <2>1 DEF AliasesLeft, Aliases
  <2>3. Rank(rest.last) < FirstOf(a)
    BY <1>2, <2>1, <2>2, AliasFacts, LessRank DEF FirstOf
  <2>4. CASE k = a
    BY <2>3, <2>4
  <2>5. CASE k # a
    <3>1. a < k
      BY <1>2, <1>3, <2>1, <2>5 DEF Aliases
    <3>2. /\ LastOf(a) < FirstOf(k) /\ FirstOf(a) <= LastOf(a)
          /\ FirstOf(a) \in Nat /\ LastOf(a) \in Nat /\ FirstOf(k) \in Nat
      BY <2>1, <3>1, AliasFacts
    <3>. QED  BY <1>2, <2>3, <3>2
  <2>. QED  BY <2>4, <2>5
<1>4. r \in Yieldable /\ r.fam = 6 /\ r.first = rest.first /\ r.last = rest.last
  <2>1. Rank(rest.last) <= Rank(rest.last) /\ EndsPart(E6(i), rest.last)
    BY <1>2 DEF EndsPart
  <2>. QED  BY <1>1, <1>2, <1>3, <2>1, PartYieldable
<1> HIDE DEF r
<1>5. /\ yielded' \in Seq(Yieldable) /\ Given' = Given \union {r}
      /\ yielded'[Len(yielded')] = r
      /\ Ascending' /\ stopped' \in BOOLEAN
  BY <1>1, <1>4, YieldStep
<1>6. CASE stopped'
  <2>1. stopped' = TRUE /\ pc' = "ended" /\ UNCHANGED <<file, walk, parts, lookup>>
    BY <1>1, <1>5, <1>6
  <2>. QED  BY <1>1, <1>5, <2>1, StopsHere
<1>7. CASE ~stopped'
  <2>1. stopped' = FALSE /\ pc' = "ranges6" /\ Walk6
    BY <1>1, <1>5, <1>7
  <2>2. ASSUME NEW x \in Addresses6, ~Aliased(x), Answer6(x) # 0, Index6(x) = i
        PROVE  \E s \in Given' : /\ s.fam = 6
                                 /\ Rank(s.first) <= Rank(x) /\ Rank(x) <= Rank(s.last)
    <3>0. Rank(x) \in Nat /\ Rank(x) <= Rank(rest.last)
      BY <1>2, <2>2, InRange6, RankFacts
    <3>1. CASE Rank(x) < Rank(rest.first)
      <4>1. Past6(x)
        BY <1>1, <2>2, <3>1 DEF Past6
      <4>. QED  BY <1>5, <2>2, <4>1 DEF IInv, Covered6
    <3>2. CASE ~(Rank(x) < Rank(rest.first))
      <4>1. Rank(r.first) <= Rank(x) /\ Rank(x) <= Rank(r.last) /\ r \in Given'
        BY <1>2, <1>4, <1>5, <3>0, <3>2
      <4>. QED  BY <1>4, <4>1
    <3>. QED  BY <3>1, <3>2
  <2>3. PICK p : p = yielded'[Len(yielded')]
    OBVIOUS
  <2>4. Rank(p.last) <= Rank(E6(i))
    BY <1>2, <1>4, <1>5, <2>3
  <2>5. Given \subseteq Given' /\ pc \in {"ranges6", "parts"}
    BY <1>1, <1>5
  <2>. QED  BY <1>1, <1>2, <1>5, <2>1, <2>2, <2>3, <2>4, <2>5, NextBoundary6
<1>. QED  BY <1>6, <1>7

LEMMA AliasMet ==
  ASSUME IInv, CutAlias
  PROVE  /\ pc = "parts" /\ a \in Aliases
         /\ Alias(a).first \in Addresses6 /\ Alias(a).last \in Addresses6
         /\ FirstOf(a) \in Nat /\ LastOf(a) \in Nat /\ FirstOf(a) <= LastOf(a)
         /\ FirstOf(a) <= Rank(rest.last) /\ Rank(rest.first) <= LastOf(a)
         /\ Less(rest.first, Alias(a).first) <=> Rank(rest.first) < FirstOf(a)
         /\ Less(Alias(a).last, rest.last) <=> LastOf(a) < Rank(rest.last)
<1>1. /\ pc = "parts" /\ a <= Len(v6Aliases) /\ ~Less(rest.last, Alias(a).first)
      /\ ~Less(Alias(a).last, rest.first)
  BY DEF CutAlias, AliasesLeft
<1>2. /\ a \in 1..(Len(v6Aliases) + 1) /\ rest.first \in Addresses6 /\ rest.last \in Addresses6
      /\ Rank(rest.first) \in Nat /\ Rank(rest.last) \in Nat
  BY <1>1, PartsFacts
<1>3. a \in Aliases
  BY <1>1, <1>2, AliasFacts DEF Aliases
<1>4. /\ Alias(a).first \in Addresses6 /\ Alias(a).last \in Addresses6
      /\ FirstOf(a) \in Nat /\ LastOf(a) \in Nat /\ FirstOf(a) <= LastOf(a)
  BY <1>3, AliasFacts
<1>5. /\ Less(rest.first, Alias(a).first) <=> Rank(rest.first) < FirstOf(a)
      /\ Less(rest.last, Alias(a).first) <=> Rank(rest.last) < FirstOf(a)
      /\ Less(Alias(a).last, rest.first) <=> LastOf(a) < Rank(rest.first)
      /\ Less(Alias(a).last, rest.last) <=> LastOf(a) < Rank(rest.last)
  BY <1>2, <1>4, LessRank DEF FirstOf, LastOf
<1>. QED  BY <1>1, <1>2, <1>3, <1>4, <1>5

(* What lies below the alias is yielded, if anything does. *)
LEMMA CutYields ==
  ASSUME IInv, CutAlias, NEW p, p = yielded'[Len(yielded')]
  PROVE  /\ yielded' \in Seq(Yieldable) /\ Ascending' /\ stopped' \in BOOLEAN
         /\ Given \subseteq Given'
         /\ \A x \in Addresses6 :
              ~Aliased(x) /\ Answer6(x) # 0 /\ Index6(x) = i /\ Rank(x) <= LastOf(a) =>
                \E s \in Given' : /\ s.fam = 6
                                  /\ Rank(s.first) <= Rank(x) /\ Rank(x) <= Rank(s.last)
         /\ yielded' # <<>> /\ p.fam = 6 =>
              /\ p.last \in Addresses6
              /\ Rank(p.last) <= Rank(E6(i)) /\ Rank(p.last) <= LastOf(a)
<1>1. /\ pc = "parts" /\ file' = file
      /\ IF Less(rest.first, Alias(a).first)
         THEN Yield(Part(rest.first, Dec128(Alias(a).first)))
         ELSE UNCHANGED <<yielded, stopped>>
  BY DEF CutAlias
<1>2. /\ a \in Aliases
      /\ Alias(a).first \in Addresses6
      /\ FirstOf(a) \in Nat /\ LastOf(a) \in Nat /\ FirstOf(a) <= LastOf(a)
      /\ FirstOf(a) <= Rank(rest.last) /\ Rank(rest.first) <= LastOf(a)
      /\ Less(rest.first, Alias(a).first) <=> Rank(rest.first) < FirstOf(a)
  BY AliasMet
<1>3. /\ i \in 0..(n6 - 1) /\ n6 \in Nat /\ file \in Files
      /\ rest.first \in Addresses6 /\ rest.last \in Addresses6 /\ rest.last = E6(i)
      /\ Rank(rest.first) \in Nat /\ Rank(rest.last) \in Nat
      /\ Rank(rest.first) <= Rank(rest.last)
      /\ stopped = FALSE
  BY <1>1, PartsFacts
<1>4. ASSUME NEW x \in Addresses6, ~Aliased(x), Answer6(x) # 0, Index6(x) = i,
             Rank(x) < Rank(rest.first)
      PROVE  \E s \in Given : /\ s.fam = 6
                              /\ Rank(s.first) <= Rank(x) /\ Rank(x) <= Rank(s.last)
  <2>1. Past6(x)
    BY <1>1, <1>4 DEF Past6
  <2>. QED  BY <1>4, <2>1 DEF IInv, Covered6
<1>5. ASSUME NEW x \in Addresses6, ~Aliased(x), Rank(x) <= LastOf(a)
      PROVE  Rank(x) \in Nat /\ Rank(x) < FirstOf(a)
  <2>1. ~(FirstOf(a) <= Rank(x)) /\ Rank(x) \in Nat
    BY <1>2, <1>5, AliasedRank, RankFacts
  <2>. QED  BY <1>2, <2>1
<1>6. CASE Rank(rest.first) < FirstOf(a)
  <2> DEFINE l == Dec128(Alias(a).first)
             r == Part(rest.first, l)
  <2>1. l \in Addresses6 /\ Rank(l) = FirstOf(a) - 1
    <3>1. Rank(Alias(a).first) > 0
      BY <1>2, <1>3, <1>6 DEF FirstOf
    <3>. QED  BY <1>2, <3>1, DecRank DEF FirstOf
  <2>2. Yield(r)
    BY <1>1, <1>2, <1>6
  <2> HIDE DEF l
  <2>3. Rank(rest.first) <= Rank(l) /\ Rank(l) <= Rank(rest.last) /\ Rank(l) + 1 = FirstOf(a)
    BY <1>2, <1>3, <1>6, <2>1
  <2>4. EndsPart(E6(i), l)
    BY <1>2, <2>3 DEF EndsPart
  <2>5. ASSUME NEW k \in Aliases, k >= a PROVE Rank(l) < FirstOf(k)
    <3>1. CASE k = a
      BY <1>2, <2>1, <3>1
    <3>2. CASE k # a
      <4>1. a < k
        BY <1>2, <2>5, <3>2 DEF Aliases
      <4>2. LastOf(a) < FirstOf(k) /\ FirstOf(k) \in Nat
        BY <1>2, <4>1, AliasFacts
      <4>. QED  BY <1>2, <2>1, <4>2
    <3>. QED  BY <3>1, <3>2
  <2>6. r \in Yieldable /\ r.fam = 6 /\ r.first = rest.first /\ r.last = l
    BY <1>1, <2>1, <2>3, <2>4, <2>5, PartYieldable
  <2> HIDE DEF r
  <2>7. /\ yielded' \in Seq(Yieldable) /\ Given' = Given \union {r}
        /\ yielded'[Len(yielded')] = r
        /\ Ascending' /\ stopped' \in BOOLEAN
    BY <1>1, <2>2, <2>6, YieldStep
  <2>8. ASSUME NEW x \in Addresses6, ~Aliased(x), Answer6(x) # 0, Index6(x) = i,
               Rank(x) <= LastOf(a)
        PROVE  \E s \in Given' : /\ s.fam = 6
                                 /\ Rank(s.first) <= Rank(x) /\ Rank(x) <= Rank(s.last)
    <3>1. CASE Rank(x) < Rank(rest.first)
      BY <1>4, <2>7, <2>8, <3>1
    <3>2. CASE ~(Rank(x) < Rank(rest.first))
      <4>1. Rank(r.first) <= Rank(x) /\ Rank(x) <= Rank(r.last) /\ r \in Given'
        BY <1>2, <1>3, <1>5, <2>1, <2>6, <2>7, <2>8, <3>2
      <4>. QED  BY <2>6, <4>1
    <3>. QED  BY <3>1, <3>2
  <2>9. p.last \in Addresses6 /\ Rank(p.last) <= Rank(E6(i)) /\ Rank(p.last) <= LastOf(a)
    BY <1>2, <1>3, <2>1, <2>3, <2>6, <2>7
  <2>. QED  BY <2>7, <2>8, <2>9
<1>7. CASE ~(Rank(rest.first) < FirstOf(a))
  <2>1. yielded' = yielded /\ stopped' = stopped
    BY <1>1, <1>2, <1>7
  <2>2. Given' = Given /\ yielded' \in Seq(Yieldable) /\ Ascending' /\ stopped' \in BOOLEAN
    <3>1. Ascending'
      BY <2>1, AscendKept DEF IInv
    <3>. QED  BY <2>1, <3>1 DEF IInv, Types, Given
  <2>3. ASSUME NEW x \in Addresses6, ~Aliased(x), Answer6(x) # 0, Index6(x) = i,
               Rank(x) <= LastOf(a)
        PROVE  \E s \in Given' : /\ s.fam = 6
                                 /\ Rank(s.first) <= Rank(x) /\ Rank(x) <= Rank(s.last)
    <3>1. Rank(x) < Rank(rest.first)
      BY <1>2, <1>3, <1>5, <1>7, <2>3
    <3>. QED  BY <1>4, <2>2, <2>3, <3>1
  <2>4. ASSUME yielded' # <<>>, p.fam = 6
        PROVE  /\ p.last \in Addresses6
               /\ Rank(p.last) <= Rank(E6(i)) /\ Rank(p.last) <= LastOf(a)
    <3>1. Rank(p.last) < Rank(rest.first)
      BY <1>1, <2>1, <2>4 DEF IInv, LastBelow
    <3>2. p \in Yieldable
      <4>1. Len(yielded') \in 1..Len(yielded')
        BY <2>2, <2>4
      <4>. QED  BY <2>2, <4>1, Element
    <3>3. p.last \in Addresses6 /\ Rank(p.last) \in Nat
      BY <1>3, <2>4, <3>2, YieldableFacts, RankFacts
    <3>. QED  BY <1>2, <1>3, <3>1, <3>3
  <2>. QED  BY <2>2, <2>3, <2>4
<1>. QED  BY <1>6, <1>7

LEMMA CutAliasStep ==
  ASSUME IInv, CutAlias
  PROVE  IInv'
<1>1. /\ pc = "parts" /\ file' = file /\ UNCHANGED lookup
  BY DEF CutAlias
<1>2. /\ a \in Aliases /\ Alias(a).last \in Addresses6
      /\ FirstOf(a) \in Nat /\ LastOf(a) \in Nat
      /\ Rank(rest.first) <= LastOf(a)
      /\ Less(Alias(a).last, rest.last) <=> LastOf(a) < Rank(rest.last)
  BY AliasMet
<1>3. /\ i \in 0..(n6 - 1) /\ n6 \in Nat /\ file \in Files /\ i < n6
      /\ rest.first \in Addresses6 /\ rest.last \in Addresses6 /\ rest.last = E6(i)
      /\ Rank(rest.first) \in Nat /\ Rank(rest.last) \in Nat /\ Rank(S6(i)) \in Nat
      /\ Rank(S6(i)) <= Rank(rest.first)
      /\ \A k \in Aliases : k < a => LastOf(k) < Rank(rest.first)
  BY <1>1, PartsFacts
<1>4. PICK p : p = yielded'[Len(yielded')]
  OBVIOUS
<1>5. /\ yielded' \in Seq(Yieldable) /\ Ascending' /\ stopped' \in BOOLEAN
      /\ Given \subseteq Given'
      /\ \A x \in Addresses6 :
           ~Aliased(x) /\ Answer6(x) # 0 /\ Index6(x) = i /\ Rank(x) <= LastOf(a) =>
             \E s \in Given' : /\ s.fam = 6
                               /\ Rank(s.first) <= Rank(x) /\ Rank(x) <= Rank(s.last)
      /\ yielded' # <<>> /\ p.fam = 6 =>
           /\ p.last \in Addresses6
           /\ Rank(p.last) <= Rank(E6(i)) /\ Rank(p.last) <= LastOf(a)
  BY <1>4, CutYields
<1>6. CASE stopped'
  <2>1. stopped' = TRUE /\ pc' = "ended" /\ UNCHANGED <<file, walk, parts, lookup>>
    BY <1>1, <1>5, <1>6 DEF CutAlias
  <2>. QED  BY <1>1, <1>5, <2>1, StopsHere
<1>7. CASE ~stopped' /\ ~(LastOf(a) < Rank(rest.last))
  <2>1. stopped' = FALSE /\ pc' = "ranges6" /\ Walk6 /\ UNCHANGED parts
    BY <1>2, <1>5, <1>7 DEF CutAlias
  <2>2. ASSUME NEW x \in Addresses6, ~Aliased(x), Answer6(x) # 0, Index6(x) = i
        PROVE  \E s \in Given' : /\ s.fam = 6
                                 /\ Rank(s.first) <= Rank(x) /\ Rank(x) <= Rank(s.last)
    <3>1. Rank(x) \in Nat /\ Rank(x) <= Rank(rest.last)
      BY <1>3, <2>2, InRange6, RankFacts
    <3>2. Rank(x) <= LastOf(a)
      BY <1>2, <1>3, <1>7, <3>1
    <3>. QED  BY <1>5, <2>2, <3>2
  <2>3. pc \in {"ranges6", "parts"} /\ (yielded' # <<>> /\ p.fam = 6 => Rank(p.last) <= Rank(E6(i)))
    BY <1>1, <1>5
  <2>. QED  BY <1>1, <1>3, <1>4, <1>5, <2>1, <2>2, <2>3, NextBoundary6
<1>8. CASE ~stopped' /\ LastOf(a) < Rank(rest.last)
  <2> DEFINE n == Inc128(Alias(a).last)
  <2>1. /\ stopped' = FALSE /\ pc' = pc /\ a' = a + 1
        /\ rest' = [rest EXCEPT !.first = n]
        /\ i' = i /\ g' = g /\ j' = j /\ first' = first
    BY <1>2, <1>5, <1>8 DEF CutAlias, walk
  <2>2. n \in Addresses6 /\ Rank(n) = LastOf(a) + 1
    BY <1>2, <1>3, <1>8, IncRank DEF LastOf
  <2> HIDE DEF n
  <2>3. /\ rest'.first = n /\ rest'.last = rest.last
        /\ rest' \in [first : Addresses6, last : Addresses6]
    BY <1>1, <1>3, <2>1, <2>2 DEF IInv, Types
  <2>4. /\ n4' = n4 /\ n6' = n6 /\ ExcIdx' = ExcIdx /\ Yieldable' = Yieldable
        /\ \A b : /\ Id4(b)' = Id4(b) /\ Whole4(b)' = Whole4(b)
        /\ \A x : Index6(x)' = Index6(x) /\ Answer6(x)' = Answer6(x)
    BY <1>1, FileKept
  <2>5. Types'
    <3>1. a + 1 \in 1..(Len(v6Aliases) + 1)
      BY <1>2, AliasFacts DEF Aliases
    <3>. QED  BY <1>1, <1>5, <2>1, <2>3, <2>4, <3>1 DEF IInv, Types
  <2>6. InStep6'
    BY <1>1, <2>1, <2>4 DEF IInv, InStep6, S6, ExceptionsPassed
  <2>7. InParts'
    <3>1. E6(i)' = E6(i) /\ S6(i)' = S6(i) /\ Id6(i)' = Id6(i)
      BY <1>1, <2>1 DEF E6, S6, Id6, n6
    <3>2. Rank(S6(i)) <= Rank(n) /\ Rank(n) <= Rank(rest.last)
      BY <1>2, <1>3, <1>8, <2>2
    <3>3. StartsPart(S6(i), n)
      BY <1>2, <2>2 DEF StartsPart
    <3>4. ASSUME NEW k \in Aliases, k < a + 1 PROVE LastOf(k) < Rank(n)
      <4>1. CASE k = a
        BY <1>2, <2>2, <4>1
      <4>2. CASE k # a
        <5>1. k < a
          BY <1>2, <3>4, <4>2 DEF Aliases
        <5>2. LastOf(k) \in Nat
          BY AliasFacts
        <5>. QED  BY <1>2, <1>3, <2>2, <5>1, <5>2
      <4>. QED  BY <4>1, <4>2
    <3>5. i < n6 /\ Id6(i) # 0 /\ rest.last = E6(i)
      BY <1>1, PartsFacts
    <3>. QED  BY <2>1, <2>3, <2>4, <3>1, <3>2, <3>3, <3>4, <3>5 DEF InParts
  <2>8. (InStep4 /\ Ended /\ StopEnds)'
    BY <1>1, <2>1 DEF InStep4, Ended, StopEnds
  <2>9. LastBelow'
    <3>1. ASSUME yielded' # <<>>, p.fam = 6 PROVE Rank(p.last) < Rank(n)
      <4>1. Rank(p.last) \in Nat /\ Rank(p.last) <= LastOf(a)
        BY <1>5, <3>1, RankFacts
      <4>. QED  BY <1>2, <2>2, <4>1
    <3>. QED  BY <1>1, <1>4, <2>1, <2>3, <3>1 DEF LastBelow
  <2>10. Covered4'
    <3>1. ASSUME NEW b \in 0..(n4 - 1), Id4(b) # 0 PROVE Whole4(b) \in Given
      <4>1. Past4(b)
        BY <1>1 DEF IInv, Past4, StopEnds
      <4>. QED  BY <3>1, <4>1 DEF IInv, Covered4
    <3>. QED  BY <1>5, <2>4, <3>1 DEF Covered4
  <2>11. Covered6'
    <3>1. ASSUME NEW x \in Addresses6, ~Aliased(x), Answer6(x) # 0,
                 Index6(x) < i \/ (Index6(x) = i /\ Rank(x) < Rank(n))
          PROVE  \E s \in Given' : /\ s.fam = 6
                                   /\ Rank(s.first) <= Rank(x) /\ Rank(x) <= Rank(s.last)
      <4>1. CASE Index6(x) < i
        <5>1. Past6(x)
          BY <1>1, <4>1 DEF Past6
        <5>2. \E s \in Given : /\ s.fam = 6
                               /\ Rank(s.first) <= Rank(x) /\ Rank(x) <= Rank(s.last)
          BY <3>1, <5>1 DEF IInv, Covered6
        <5>. QED  BY <1>5, <5>2
      <4>2. CASE Index6(x) = i /\ Rank(x) < Rank(n)
        <5>1. Rank(x) <= LastOf(a)
          BY <1>2, <2>2, <4>2, RankFacts
        <5>. QED  BY <1>5, <3>1, <4>2, <5>1
      <4>. QED  BY <3>1, <4>1, <4>2
    <3>. QED  BY <1>1, <2>1, <2>3, <2>4, <3>1 DEF Covered6, Past6
  <2>12. LookedUp'
    BY <1>1, NotAsked
  <2>. QED  BY <1>5, <2>5, <2>6, <2>7, <2>8, <2>9, <2>10, <2>11, <2>12 DEF IInv
<1>. QED  BY <1>6, <1>7, <1>8

LEMMA EndStep ==
  ASSUME IInv, End
  PROVE  IInv'
<1>1. /\ pc = "ranges6" /\ i = n6 /\ pc' = "ended"
      /\ file' = file /\ i' = i /\ g' = g /\ j' = j /\ first' = first
      /\ rest' = rest /\ a' = a
      /\ yielded' = yielded /\ stopped' = stopped /\ UNCHANGED lookup
  BY DEF End, walk, parts
<1>2. file \in Files /\ n6 \in Nat
  BY Facts6 DEF IInv, Types
<1>3. /\ n4' = n4 /\ n6' = n6 /\ ExcIdx' = ExcIdx /\ Yieldable' = Yieldable
      /\ \A b : /\ Id4(b)' = Id4(b) /\ Whole4(b)' = Whole4(b)
      /\ \A x : Index6(x)' = Index6(x) /\ Answer6(x)' = Answer6(x)
  BY <1>1, FileKept
<1>4. Given' = Given
  BY <1>1 DEF Given
<1>5. Types'
  BY <1>1, <1>3 DEF IInv, Types
<1>6. (InStep4 /\ InStep6 /\ Ended /\ InParts /\ LastBelow /\ StopEnds)'
  <2>1. i' \in 0..n6'
    BY <1>1, <1>2, <1>3
  <2>. QED  BY <1>1, <2>1 DEF InStep4, InStep6, Ended, InParts, LastBelow, StopEnds
<1>7. Ascending'
  BY <1>1, AscendKept DEF IInv
<1>8. Covered4'
  <2>1. ASSUME NEW b \in 0..(n4 - 1), Id4(b) # 0 PROVE Whole4(b) \in Given
    <3>1. Past4(b)
      BY <1>1 DEF IInv, Past4, StopEnds
    <3>. QED  BY <2>1, <3>1 DEF IInv, Covered4
  <2>. QED  BY <1>3, <1>4, <2>1 DEF Covered4
<1>9. Covered6'
  <2>1. ASSUME NEW x \in Addresses6 PROVE Past6(x)
    <3>1. Index6(x) \in -1..(n6 - 1)
      BY <1>2, Index6Finds
    <3>. QED  BY <1>1, <1>2, <3>1 DEF Past6
  <2>. QED  BY <1>3, <1>4, <2>1 DEF IInv, Covered6
<1>10. LookedUp'
  BY <1>1, NotAsked
<1>. QED  BY <1>5, <1>6, <1>7, <1>8, <1>9, <1>10 DEF IInv

(* What is looked up touches nothing that Ranges has. *)
LEMMA WalkKept ==
  ASSUME IInv, UNCHANGED <<file, pc, walk, parts, yielded, stopped>>
  PROVE  /\ (Types /\ InStep4 /\ InStep6 /\ Ended /\ InParts)'
         /\ (Ascending /\ LastBelow /\ Covered4 /\ Covered6 /\ StopEnds)'
<1>1. /\ file' = file /\ pc' = pc /\ i' = i /\ g' = g /\ j' = j /\ first' = first
      /\ rest' = rest /\ a' = a /\ yielded' = yielded /\ stopped' = stopped
  BY DEF walk, parts
<1>2. /\ n4' = n4 /\ n6' = n6 /\ ExcIdx' = ExcIdx /\ Yieldable' = Yieldable
      /\ \A b : /\ S4(b)' = S4(b) /\ Id4(b)' = Id4(b) /\ BucketOf(b)' = BucketOf(b)
                /\ Whole4(b)' = Whole4(b)
      /\ \A x : Index6(x)' = Index6(x) /\ Answer6(x)' = Answer6(x)
  BY <1>1, FileKept
<1>3. Given' = Given
  BY <1>1 DEF Given
<1>4. Types'
  BY <1>1, <1>2 DEF IInv, Types
<1>5. (InStep4 /\ InStep6)'
  BY <1>1, <1>2 DEF IInv, InStep4, InStep6, S4, S6, BucketOf, ExceptionsPassed
<1>6. (Ended /\ StopEnds /\ LastBelow)'
  BY <1>1, <1>2 DEF IInv, Ended, StopEnds, LastBelow
<1>7. InParts'
  <2>1. E6(i)' = E6(i) /\ S6(i)' = S6(i) /\ Id6(i)' = Id6(i)
    BY <1>1 DEF E6, S6, Id6, n6
  <2>. QED  BY <1>1, <1>2, <2>1 DEF IInv, InParts
<1>8. Ascending'
  BY <1>1, AscendKept DEF IInv
<1>9. Covered4'
  BY <1>1, <1>2, <1>3 DEF IInv, Covered4, Past4
<1>10. Covered6'
  <2>1. ASSUME NEW x \in Addresses6, Past6(x)' PROVE Past6(x)
    <3>1. pc \in {"ranges4", "ranges6", "parts", "ended"}
      BY DEF IInv, Types
    <3>2. CASE pc = "ranges4"
      BY <1>1, <2>1, <3>2 DEF Past6
    <3>3. CASE pc = "ranges6"
      BY <1>1, <1>2, <2>1, <3>3 DEF Past6
    <3>4. CASE pc = "parts"
      BY <1>1, <1>2, <2>1, <3>4 DEF Past6
    <3>5. CASE pc = "ended"
      BY <1>1, <2>1, <3>5 DEF Past6
    <3>. QED  BY <3>1, <3>2, <3>3, <3>4, <3>5
  <2>. QED  BY <1>2, <1>3, <2>1 DEF IInv, Covered6
<1>. QED  BY <1>4, <1>5, <1>6, <1>7, <1>8, <1>9, <1>10

LEMMA LookupRangeStep ==
  ASSUME IInv, NEW q \in Asked, LookupRange(q)
  PROVE  IInv'
<1>1. /\ pc = "ended" /\ ~stopped /\ asked' = q
      /\ found' = IF MeansV4(q) THEN Range4(V4(q)) ELSE Range6(q.x)
      /\ UNCHANGED <<file, pc, walk, parts, yielded, stopped>>
  BY DEF LookupRange
<1>2. LookedUp'
  <2>1. \A x : Range4(x)' = Range4(x) /\ Range6(x)' = Range6(x)
    BY <1>1, FileKept
  <2>2. asked' \in Asked \union {Nothing} /\ pc' = "ended" /\ ~stopped'
    BY <1>1
  <2>3. ASSUME NEW s \in Asked, asked' = s
        PROVE  found' = IF MeansV4(s) THEN Range4(V4(s))' ELSE Range6(s.x)'
    BY <1>1, <2>1, <2>3
  <2>. QED  BY <2>2, <2>3 DEF LookedUp, MeansV4, V4
<1>. QED  BY <1>1, <1>2, WalkKept DEF IInv

(* Ranges and LookupRange keep the invariant. *)
THEOREM Invariance == Spec => []IInv
<1>1. Init => IInv
  BY InitRight
<1>2. IInv /\ [Next]_vars => IInv'
  <2>1. SUFFICES ASSUME IInv, [Next]_vars PROVE IInv'
    OBVIOUS
  <2>2. CASE SkipGap4
    BY <2>1, <2>2, SkipGap4Step
  <2>3. CASE Yield4
    BY <2>1, <2>3, Yield4Step
  <2>4. CASE StartRanges6
    BY <2>1, <2>4, StartRanges6Step
  <2>5. CASE SkipGap6
    BY <2>1, <2>5, SkipGap6Step
  <2>6. CASE StartParts
    BY <2>1, <2>6, StartPartsStep
  <2>7. CASE PassAlias
    BY <2>1, <2>7, PassAliasStep
  <2>8. CASE CutAlias
    BY <2>1, <2>8, CutAliasStep
  <2>9. CASE YieldRest
    BY <2>1, <2>9, YieldRestStep
  <2>10. CASE End
    BY <2>1, <2>10, EndStep
  <2>11. CASE \E q \in Asked : LookupRange(q)
    BY <2>1, <2>11, LookupRangeStep
  <2>12. CASE UNCHANGED vars
    <3>1. UNCHANGED <<file, pc, walk, parts, yielded, stopped>> /\ UNCHANGED lookup
      BY <2>12 DEF vars
    <3>2. LookedUp'
      <4>1. asked' = asked /\ found' = found /\ pc' = pc /\ stopped' = stopped
        BY <3>1 DEF lookup
      <4>2. \A x : Range4(x)' = Range4(x) /\ Range6(x)' = Range6(x)
        BY <3>1, FileKept
      <4>3. ASSUME NEW s \in Asked, asked' = s
            PROVE  found' = IF MeansV4(s) THEN Range4(V4(s))' ELSE Range6(s.x)'
        BY <2>1, <4>1, <4>2, <4>3 DEF IInv, LookedUp
      <4>. QED  BY <2>1, <4>1, <4>3 DEF IInv, LookedUp, MeansV4, V4
    <3>. QED  BY <2>1, <3>1, <3>2, WalkKept DEF IInv
  <2>. QED  BY <2>1, <2>2, <2>3, <2>4, <2>5, <2>6, <2>7, <2>8, <2>9, <2>10, <2>11, <2>12
            DEF Next
<1>. QED  BY <1>1, <1>2, PTL DEF Spec

-----------------------------------------------------------------------------
(* No table is read beyond its end and what is yielded are addresses       *)
(* (ranges.go:70 and :108).                                                *)
LEMMA RightTypes == IInv => TypeOK
<1> SUFFICES ASSUME IInv PROVE TypeOK
  OBVIOUS
<1>1. /\ file \in Files /\ yielded \in Seq(Yieldable) /\ Types
  BY DEF IInv, Types
<1>2. n4 \in Nat /\ n6 \in Nat
  BY <1>1, Facts4, Facts6
<1>3. i \in 0..(IF pc = "ranges4" THEN n4 ELSE IF n4 > n6 THEN n4 ELSE n6)
  <2>1. pc = "ranges4" => i \in 0..n4
    BY DEF IInv, InStep4
  <2>2. pc # "ranges4" => i \in 0..n4 \/ i \in 0..n6
    BY <1>1 DEF IInv, Types, InStep6, Ended
  <2>. QED  BY <1>2, <2>1, <2>2
<1>4. ASSUME NEW k \in DOMAIN yielded
      PROVE  {yielded[k].first, yielded[k].last}
               \subseteq IF yielded[k].fam = 4 THEN Addresses4 ELSE Addresses6
  <2>1. k \in 1..Len(yielded)
    BY <1>1
  <2>2. PICK r \in Yieldable : r = yielded[k]
    BY <1>1, <2>1, Element
  <2>3. /\ r.fam \in {4, 6}
        /\ r.fam = 4 => r.first \in 0..Top4 /\ r.last \in 0..Top4
        /\ r.fam = 6 => r.first \in Addresses6 /\ r.last \in Addresses6
    BY <1>1, YieldableFacts
  <2>. QED  BY <2>2, <2>3 DEF Addresses4
<1>5. /\ pc = "ranges4" => first \in Addresses4
      /\ pc \in {"ranges6", "parts"} => first \in Addresses6
  BY DEF IInv, InStep4, InStep6
<1>. QED  BY <1>1, <1>3, <1>4, <1>5 DEF Types, TypeOK

THEOREM TypeCorrect == Spec => []TypeOK
BY Invariance, RightTypes, PTL

(* The addresses of an IPv6 range, by rank. *)
LEMMA InRank ==
  ASSUME NEW x \in Addresses6, NEW r, r.fam = 6, r.first \in Addresses6, r.last \in Addresses6
  PROVE  In(x, r) <=> Rank(r.first) <= Rank(x) /\ Rank(x) <= Rank(r.last)
<1>1. Rank(x) \in Nat /\ Rank(r.first) \in Nat /\ Rank(r.last) \in Nat
  BY RankFacts
<1>2. /\ Less(x, r.first) <=> Rank(x) < Rank(r.first)
      /\ Less(r.last, x) <=> Rank(r.last) < Rank(x)
  BY LessRank
<1>. QED  BY <1>1, <1>2 DEF In, Within

(* A yieldable range has the answer of its addresses. *)
LEMMA YieldableAnswers4 ==
  ASSUME file \in Files, NEW r \in Yieldable, r.fam = 4, NEW x \in Addresses4, In(x, r)
  PROVE  r.id = Answer4(x) /\ r.id # 0
<1>1. PICK b \in 0..(n4 - 1) : Id4(b) # 0 /\ r = Whole4(b)
  BY YieldableFacts
<1>2. r.id = Id4(b) /\ S4(b) <= x /\ x <= E4(b) /\ n4 \in Nat
  BY <1>1, Facts4 DEF Whole4, In
<1>3. b = Index4(x)
  BY <1>2, Index4Finds DEF Addresses4
<1>4. Index4(x) >= 0
  BY <1>2, <1>3
<1>. QED  BY <1>1, <1>2, <1>3, <1>4 DEF Answer4

LEMMA YieldableAnswers6 ==
  ASSUME file \in Files, NEW r \in Yieldable, r.fam = 6, NEW x \in Addresses6, In(x, r)
  PROVE  r.id = Answer6(x) /\ r.id # 0 /\ ~Aliased(x)
<1>1. PICK b \in 0..(n6 - 1) :
        /\ Id6(b) # 0 /\ r.id = Id6(b) /\ IsPart(S6(b), E6(b), r.first, r.last)
  BY YieldableFacts
<1>2. /\ r.first \in Addresses6 /\ r.last \in Addresses6
      /\ Rank(r.first) <= Rank(x) /\ Rank(x) <= Rank(r.last)
  BY YieldableFacts, InRank
<1>3. n6 \in Nat /\ S6(b) \in Addresses6 /\ E6(b) \in Addresses6
  BY Facts6, EndOf6
<1>4. /\ Rank(S6(b)) <= Rank(r.first) /\ Rank(r.last) <= Rank(E6(b))
      /\ Rank(S6(b)) \in Nat /\ Rank(E6(b)) \in Nat
      /\ Rank(r.first) \in Nat /\ Rank(r.last) \in Nat /\ Rank(x) \in Nat
  BY <1>1, <1>2, <1>3, RankFacts DEF IsPart
<1>5. b = Index6(x)
  BY <1>2, <1>4, InRange6
<1>6. Index6(x) >= 0
  BY <1>3, <1>5
<1>7. ~Aliased(x)
  BY <1>1, <1>2, PartClear
<1>. QED  BY <1>1, <1>5, <1>6, <1>7 DEF Answer6

LEMMA Elements ==
  ASSUME IInv, NEW k \in DOMAIN yielded
  PROVE  yielded[k] \in Yieldable /\ yielded[k] \in Given /\ file \in Files
<1>1. yielded \in Seq(Yieldable) /\ file \in Files
  BY DEF IInv, Types
<1>2. k \in 1..Len(yielded)
  BY <1>1
<1>. QED  BY <1>1, <1>2, Element DEF Given

(* What is yielded ascends, IPv4 before IPv6, and no range is empty or has *)
(* another answer than one of its addresses (ranges.go:41).                *)
LEMMA RightYields == IInv => RangesAscend
<1> SUFFICES ASSUME IInv, NEW k \in DOMAIN yielded
             PROVE  /\ yielded[k].id # 0
                    /\ IF yielded[k].fam = 4
                       THEN \A x \in Addresses4 :
                              In(x, yielded[k]) => yielded[k].id = Answer4(x)
                       ELSE \A x \in Addresses6 :
                              In(x, yielded[k]) => yielded[k].id = Answer6(x) /\ ~Aliased(x)
  BY DEF RangesAscend, IInv
<1>1. PICK r \in Yieldable : r = yielded[k] /\ file \in Files
  BY Elements
<1>2. r.fam \in {4, 6} /\ r.id # 0
  BY <1>1, YieldableFacts
<1>. QED  BY <1>1, <1>2, YieldableAnswers4, YieldableAnswers6

THEOREM YieldsAscend == Spec => []RangesAscend
BY Invariance, RightYields, PTL

(* A caller that asks for all gets each covered address once, with its     *)
(* answer, and no alias (ranges.go:41-46).                                 *)
LEMMA RightAll == IInv => RangesComplete
<1> SUFFICES ASSUME IInv, pc = "ended", ~stopped
             PROVE  /\ \A x \in Addresses4 : YieldedFor(4, x) = {Answer4(x)} \ {0}
                    /\ \A x \in Addresses6 :
                         YieldedFor(6, x) = IF Aliased(x) THEN {} ELSE {Answer6(x)} \ {0}
  BY DEF RangesComplete
<1>0. file \in Files
  BY DEF IInv, Types
<1>1. ASSUME NEW x \in Addresses4
      PROVE  YieldedFor(4, x) = {Answer4(x)} \ {0}
  <2>1. ASSUME NEW n \in YieldedFor(4, x) PROVE n = Answer4(x) /\ n # 0
    <3>1. PICK k \in DOMAIN yielded :
            yielded[k].fam = 4 /\ In(x, yielded[k]) /\ n = yielded[k].id
      BY DEF YieldedFor
    <3>. QED  BY <3>1, <1>0, Elements, YieldableAnswers4
  <2>2. ASSUME Answer4(x) # 0 PROVE Answer4(x) \in YieldedFor(4, x)
    <3>1. n4 \in Nat /\ Index4(x) \in -1..(n4 - 1)
      BY <1>0, Facts4, Index4Finds DEF Addresses4
    <3>2. Index4(x) >= 0
      BY <2>2 DEF Answer4
    <3>3. PICK b \in 0..(n4 - 1) : b = Index4(x)
      BY <3>1, <3>2
    <3>4. Id4(b) = Answer4(x)
      BY <3>2, <3>3 DEF Answer4
    <3>5. S4(b) <= x /\ x <= E4(b)
      BY <1>0, <3>3, Index4Finds DEF Addresses4
    <3>6. Past4(b)
      BY DEF Past4
    <3>7. Whole4(b) \in Given
      BY <2>2, <3>4, <3>6 DEF IInv, Covered4
    <3>8. PICK k \in DOMAIN yielded : yielded[k] = Whole4(b)
      BY <3>7 DEF Given
    <3>9. Whole4(b).fam = 4 /\ In(x, Whole4(b)) /\ Whole4(b).id = Id4(b)
      BY <3>5 DEF Whole4, In
    <3>. QED  BY <3>4, <3>8, <3>9 DEF YieldedFor
  <2>. QED  BY <2>1, <2>2
<1>2. ASSUME NEW x \in Addresses6
      PROVE  YieldedFor(6, x) = IF Aliased(x) THEN {} ELSE {Answer6(x)} \ {0}
  <2>1. ASSUME NEW n \in YieldedFor(6, x) PROVE n = Answer6(x) /\ n # 0 /\ ~Aliased(x)
    <3>1. PICK k \in DOMAIN yielded :
            yielded[k].fam = 6 /\ In(x, yielded[k]) /\ n = yielded[k].id
      BY DEF YieldedFor
    <3>. QED  BY <3>1, <1>0, Elements, YieldableAnswers6
  <2>2. ASSUME Answer6(x) # 0, ~Aliased(x) PROVE Answer6(x) \in YieldedFor(6, x)
    <3>1. Past6(x)
      BY DEF Past6
    <3>2. PICK r \in Given :
            r.fam = 6 /\ Rank(r.first) <= Rank(x) /\ Rank(x) <= Rank(r.last)
      BY <2>2, <3>1 DEF IInv, Covered6
    <3>3. PICK k \in DOMAIN yielded : yielded[k] = r
      BY DEF Given
    <3>4. r \in Yieldable
      BY <3>3, Elements
    <3>5. In(x, r)
      BY <1>0, <3>2, <3>4, YieldableFacts, InRank
    <3>6. r.id = Answer6(x)
      BY <1>0, <3>2, <3>4, <3>5, YieldableAnswers6
    <3>. QED  BY <3>2, <3>3, <3>5, <3>6 DEF YieldedFor
  <2>. QED  BY <2>1, <2>2
<1>. QED  BY <1>1, <1>2

THEOREM YieldsAll == Spec => []RangesComplete
BY Invariance, RightAll, PTL

(* An address that means an IPv4 one means one there is. *)
LEMMA MeantV4 ==
  ASSUME NEW q \in Asked
  PROVE  /\ MeansV4(q) => V4(q) \in 0..Top4
         /\ ~MeansV4(q) => q.x \in Addresses6 /\ ~Aliased(q.x)
<1>1. (q.fam = 4 /\ q.x \in Addresses4) \/ (q.fam = 6 /\ q.x \in Addresses6)
  BY DEF Asked
<1>2. ASSUME q.fam # 4, Aliased(q.x) PROVE embeddedV4[q.x] \in Addresses4
  BY <1>1, <1>2, AliasAssumption
<1>. QED  BY <1>1, <1>2 DEF MeansV4, V4, Addresses4

(* Every address of the range LookupRange returns has the answer returned, *)
(* and the address asked for is one of them (ranges.go:22).                *)
LEMMA RightRange == IInv => OneAnswer
<1> SUFFICES ASSUME IInv, asked # Nothing
             PROVE  IF MeansV4(asked)
                    THEN /\ found.fam = 4 /\ In(V4(asked), found)
                         /\ \A x \in Addresses4 : In(x, found) => Answer4(x) = found.id
                    ELSE /\ found.fam = 6 /\ In(asked.x, found)
                         /\ \A x \in Addresses6 :
                              In(x, found) => ~Aliased(x) /\ Answer6(x) = found.id
  BY DEF OneAnswer
<1>1. PICK q \in Asked : asked = q
  BY DEF IInv, LookedUp
<1>2. file \in Files /\ found = IF MeansV4(q) THEN Range4(V4(q)) ELSE Range6(q.x)
  BY <1>1 DEF IInv, Types, LookedUp
<1>3. CASE MeansV4(q)
  <2>1. PICK v \in 0..Top4 : v = V4(q)
    BY <1>3, MeantV4
  <2>2. found = Range4(v)
    BY <1>2, <1>3, <2>1
  <2>3. /\ found.fam = 4 /\ found.id = Answer4(v) /\ found.first <= v /\ v <= found.last
        /\ \A y \in 0..Top4 : found.first <= y /\ y <= found.last => Answer4(y) = Answer4(v)
    BY <1>2, <2>2, Range4Right
  <2>4. In(v, found) /\ \A x \in Addresses4 : In(x, found) => Answer4(x) = found.id
    BY <2>3 DEF In, Addresses4
  <2>. QED  BY <1>1, <1>3, <2>1, <2>3, <2>4
<1>4. CASE ~MeansV4(q)
  <2>1. PICK z \in Addresses6 : z = q.x /\ ~Aliased(z)
    BY <1>4, MeantV4
  <2>2. found = Range6(z)
    BY <1>2, <1>4, <2>1
  <2>3. /\ found = [fam |-> 6, first |-> found.first, last |-> found.last, id |-> Answer6(z)]
        /\ found.first \in Addresses6 /\ found.last \in Addresses6
        /\ Rank(found.first) <= Rank(z) /\ Rank(z) <= Rank(found.last)
        /\ \A y \in Addresses6 : Rank(found.first) <= Rank(y) /\ Rank(y) <= Rank(found.last)
                                   => ~Aliased(y) /\ Answer6(y) = Answer6(z)
    BY <1>2, <2>1, <2>2, Range6Right
  <2>4. found.fam = 6 /\ found.id = Answer6(z)
    BY <2>3
  <2>5. In(z, found)
    BY <2>3, <2>4, InRank
  <2>6. ASSUME NEW x \in Addresses6, In(x, found)
        PROVE  ~Aliased(x) /\ Answer6(x) = found.id
    BY <2>3, <2>4, <2>6, InRank
  <2>. QED  BY <1>1, <1>4, <2>1, <2>4, <2>5, <2>6
<1>. QED  BY <1>3, <1>4

THEOREM RangeHasOneAnswer == Spec => []OneAnswer
BY Invariance, RightRange, PTL

(* The range LookupRange returns for a covered address is one Ranges       *)
(* yields: both cut at the same aliases (ranges.go:45).                    *)
LEMMA RightSame == IInv => SameRange
<1> SUFFICES ASSUME IInv, asked # Nothing, found.id # 0
             PROVE  \E k \in DOMAIN yielded :
                      yielded[k].fam = found.fam /\ yielded[k] = found
  BY DEF SameRange
<1>1. PICK q \in Asked : asked = q
  BY DEF IInv, LookedUp
<1>2. /\ file \in Files /\ found = (IF MeansV4(q) THEN Range4(V4(q)) ELSE Range6(q.x))
      /\ pc = "ended" /\ ~stopped
  BY <1>1 DEF IInv, Types, LookedUp
<1>3. CASE MeansV4(q)
  <2>1. PICK v \in 0..Top4 : v = V4(q)
    BY <1>3, MeantV4
  <2>2. found = Range4(v) /\ found.id = Answer4(v)
    BY <1>2, <1>3, <2>1, Range4Right
  <2>3. n4 \in Nat /\ Index4(v) \in -1..(n4 - 1)
    BY <1>2, Facts4, Index4Finds
  <2>4. Index4(v) >= 0
    BY <2>2 DEF Answer4
  <2>5. PICK b \in 0..(n4 - 1) : b = Index4(v)
    BY <2>3, <2>4
  <2>6. found = Whole4(b) /\ Id4(b) # 0
    <3>1. found = Whole4(b)
      BY <1>2, <2>2, <2>4, <2>5, Range4Right
    <3>2. Id4(b) = Answer4(v)
      BY <2>4, <2>5 DEF Answer4
    <3>. QED  BY <2>2, <3>1, <3>2
  <2>7. Past4(b)
    BY <1>2 DEF Past4
  <2>8. found \in Given
    BY <2>6, <2>7 DEF IInv, Covered4
  <2>. QED  BY <2>8 DEF Given
<1>4. CASE ~MeansV4(q)
  <2>1. PICK z \in Addresses6 : z = q.x /\ ~Aliased(z)
    BY <1>4, MeantV4
  <2>2. /\ found = Range6(z)
        /\ found = [fam |-> 6, first |-> found.first, last |-> found.last, id |-> Answer6(z)]
        /\ Rank(found.first) <= Rank(z) /\ Rank(z) <= Rank(found.last)
        /\ Index6(z) >= 0 => IsPart(S6(Index6(z)), E6(Index6(z)), found.first, found.last)
    BY <1>2, <1>4, <2>1, Range6Right
  <2>3. Answer6(z) # 0
    BY <2>2
  <2>4. n6 \in Nat /\ Index6(z) \in -1..(n6 - 1)
    BY <1>2, Facts6, Index6Finds
  <2>5. Index6(z) >= 0
    BY <2>3 DEF Answer6
  <2>6. PICK b \in 0..(n6 - 1) : b = Index6(z)
    BY <2>4, <2>5
  <2>7. Past6(z)
    BY <1>2 DEF Past6
  <2>8. PICK r \in Given : r.fam = 6 /\ Rank(r.first) <= Rank(z) /\ Rank(z) <= Rank(r.last)
    BY <2>1, <2>3, <2>7 DEF IInv, Covered6
  <2>9. PICK k \in DOMAIN yielded : yielded[k] = r
    BY DEF Given
  <2>10. r \in Yieldable
    BY <2>9, Elements
  <2>11. In(z, r)
    BY <1>2, <2>8, <2>10, YieldableFacts, InRank
  <2>12. r.id = Answer6(z)
    BY <1>2, <2>8, <2>10, <2>11, YieldableAnswers6
  <2>13. PICK c \in 0..(n6 - 1) : IsPart(S6(c), E6(c), r.first, r.last)
    BY <1>2, <2>8, <2>10, YieldableFacts
  <2>14. c = Index6(z)
    <3>1. S6(c) \in Addresses6 /\ E6(c) \in Addresses6
      BY <1>2, Facts6, EndOf6
    <3>2. /\ Rank(S6(c)) <= Rank(r.first) /\ Rank(r.last) <= Rank(E6(c))
          /\ Rank(S6(c)) \in Nat /\ Rank(E6(c)) \in Nat /\ Rank(z) \in Nat
          /\ Rank(r.first) \in Nat /\ Rank(r.last) \in Nat
      BY <2>13, <3>1, RankFacts DEF IsPart
    <3>. QED  BY <1>2, <2>8, <3>2, InRange6
  <2>15. r.first = found.first /\ r.last = found.last
    <3>1. S6(b) \in Addresses6 /\ E6(b) \in Addresses6
      BY <1>2, Facts6, EndOf6
    <3>2. IsPart(S6(b), E6(b), r.first, r.last)
      BY <2>6, <2>13, <2>14
    <3>3. IsPart(S6(b), E6(b), found.first, found.last)
      BY <2>2, <2>5, <2>6
    <3>. QED  BY <2>2, <2>8, <3>1, <3>2, <3>3, PartOnce
  <2>16. r = [fam |-> 6, first |-> r.first, last |-> r.last, id |-> r.id]
    BY <1>2, <2>8, <2>10, YieldableFacts
  <2>17. r = found
    BY <2>2, <2>12, <2>15, <2>16
  <2>. QED  BY <2>8, <2>9, <2>17
<1>. QED  BY <1>3, <1>4

THEOREM BothAgree == Spec => []SameRange
BY Invariance, RightSame, PTL

(* Once the caller has asked for no more it is not called again            *)
(* (ranges.go:49-63).                                                      *)
THEOREM StopMeansStop == Spec => StopsAtOnce
<1>1. IInv /\ [Next]_vars => [stopped => UNCHANGED <<yielded, stopped>>]_vars
  <2>1. SUFFICES ASSUME IInv, Next, stopped PROVE UNCHANGED <<yielded, stopped>>
    OBVIOUS
  <2>2. pc = "ended"
    BY <2>1 DEF IInv, StopEnds
  <2>. QED  BY <2>1, <2>2 DEF Next, SkipGap4, Yield4, StartRanges6, SkipGap6, StartParts,
                              PassAlias, CutAlias, YieldRest, End, LookupRange
<1>. QED  BY <1>1, Invariance, PTL DEF Spec, StopsAtOnce
=============================================================================
