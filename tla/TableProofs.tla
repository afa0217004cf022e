---------------------------- MODULE TableProofs ----------------------------
(***************************************************************************)
(* What the proofs about the Reader's tables share: division and powers of *)
(* two, the list of exceptions (appendExcIdx) and the halving (v6ExcLo's   *)
(* loop) of Tables.  The induction theorems of the library take an         *)
(* operator; UpTo is induction for a set, from the least number not in it. *)
(***************************************************************************)
EXTENDS Tables, FiniteSetTheorems, WellFoundedInduction, TLAPS

(* Division with remainder, and what the proofs need of it. *)
LEMMA DivMod ==
  ASSUME NEW a \in Int, NEW d \in Nat \ {0}
  PROVE  /\ a \div d \in Int /\ a % d \in Int
         /\ a = d * (a \div d) + (a % d)
         /\ 0 <= a % d /\ a % d < d
<1>1. a \div d \in Int /\ a % d \in Int
  OBVIOUS
<1>2. a = d * (a \div d) + (a % d)
  OBVIOUS
<1>3. 0 <= a % d /\ a % d < d
  OBVIOUS
<1>. QED  BY <1>1, <1>2, <1>3

LEMMA MulMono ==
  ASSUME NEW a \in Int, NEW b \in Int, NEW d \in Nat, a <= b
  PROVE  a * d <= b * d
OBVIOUS

LEMMA DivUnique ==
  ASSUME NEW a \in Int, NEW d \in Nat \ {0}, NEW q \in Int,
         q * d <= a, a < (q + 1) * d
  PROVE  a \div d = q /\ a % d = a - q * d
<1> DEFINE p == a \div d
<1>1. /\ p \in Int /\ a % d \in Int
      /\ a = d * p + (a % d) /\ 0 <= a % d /\ a % d < d
  BY DivMod
<1> HIDE DEF p
<1>2. ~(p < q)
  <2>1. SUFFICES ASSUME p < q PROVE FALSE
    OBVIOUS
  <2>2. (p + 1) * d <= q * d
    BY <1>1, <2>1, MulMono
  <2>3. (p + 1) * d = d * p + d /\ d * p \in Int /\ q * d \in Int
    BY <1>1
  <2>. QED  BY <1>1, <2>2, <2>3
<1>3. ~(q < p)
  <2>1. SUFFICES ASSUME q < p PROVE FALSE
    OBVIOUS
  <2>2. (q + 1) * d <= p * d
    BY <1>1, <2>1, MulMono
  <2>3. p * d = d * p /\ d * p \in Int
    BY <1>1
  <2>. QED  BY <1>1, <2>2, <2>3
<1>4. p = q
  BY <1>1, <1>2, <1>3
<1>. QED  BY <1>1, <1>4 DEF p

-----------------------------------------------------------------------------
(* Induction over the numbers to a bound, from the least counterexample. *)
LEMMA LeastNumber ==
  ASSUME NEW T \in SUBSET Nat, T # {}
  PROVE  \E x \in T : \A y \in T : x <= y
<1> DEFINE R == OpToRel(<, Nat)
<1>1. IsWellFoundedOn(R, Nat)
  BY NatLessThanWellFounded
<1>2. \A x, y \in Nat : <<x, y>> \in R <=> x < y
  BY DEF OpToRel
<1> HIDE DEF R
<1>3. PICK x \in T : \A y \in T : ~(<<y, x>> \in R)
  BY <1>1, WFMin
<1>4. ASSUME NEW y \in T PROVE x <= y
  <2>1. ~(y < x) /\ x \in Nat /\ y \in Nat
    BY <1>2, <1>3, <1>4
  <2>. QED  BY <2>1
<1>. QED  BY <1>4

LEMMA UpTo ==
  ASSUME NEW N \in Nat, NEW T, 0 \in T,
         \A m \in 0..(N - 1) : m \in T => m + 1 \in T
  PROVE  0..N \subseteq T
<1> DEFINE U == {m \in 0..N : m \notin T}
<1>1. SUFFICES ASSUME U # {} PROVE FALSE
  OBVIOUS
<1>2. PICK x \in U : \A y \in U : x <= y
  <2>1. U \in SUBSET Nat /\ U # {}
    BY <1>1
  <2> HIDE DEF U
  <2>. QED  BY <2>1, LeastNumber
<1>3. x \in 0..N /\ x # 0 /\ x \notin T
  OBVIOUS
<1>4. x - 1 \in 0..(N - 1) /\ x - 1 \notin U /\ x - 1 \in 0..N
  BY <1>2, <1>3
<1>. QED  BY <1>3, <1>4

-----------------------------------------------------------------------------
LEMMA Element ==
  ASSUME NEW S, NEW s \in Seq(S), NEW x \in 1..Len(s)
  PROVE  s[x] \in S
OBVIOUS

LEMMA Appended ==
  ASSUME NEW S, NEW s \in Seq(S), NEW e \in S
  PROVE  /\ Append(s, e) \in Seq(S) /\ Len(Append(s, e)) = Len(s) + 1
         /\ Append(s, e)[Len(s) + 1] = e
         /\ \A x \in 1..Len(s) : Append(s, e)[x] = s[x]
OBVIOUS

LEMMA Replaced ==
  ASSUME NEW S, NEW s \in Seq(S), NEW y \in 1..Len(s), NEW e \in S
  PROVE  /\ [s EXCEPT ![y] = e] \in Seq(S) /\ Len([s EXCEPT ![y] = e]) = Len(s)
         /\ [s EXCEPT ![y] = e][y] = e
         /\ \A x \in 1..Len(s) : x # y => [s EXCEPT ![y] = e][x] = s[x]
OBVIOUS

-----------------------------------------------------------------------------
(* Powers of two: the prover knows them as numbers of subsets. *)
LEMMA PowerIsSubsets ==
  ASSUME NEW k \in Nat
  PROVE  /\ IsFiniteSet(SUBSET (1..k)) /\ Cardinality(SUBSET (1..k)) = 2^k
         /\ 2^k \in Nat
<1>1. IsFiniteSet(1..k) /\ Cardinality(1..k) = k
  <2>1. Cardinality(1..k) = IF 1 > k THEN 0 ELSE k - 1 + 1
    BY FS_Interval
  <2>2. (IF 1 > k THEN 0 ELSE k - 1 + 1) = k
    OBVIOUS
  <2>. QED  BY <2>1, <2>2, FS_Interval
<1>2. IsFiniteSet(SUBSET (1..k)) /\ Cardinality(SUBSET (1..k)) = 2^k
  BY <1>1, FS_SUBSET
<1>. QED  BY <1>2, FS_CardinalityType

(* A set of numbers to k + 1 is one to k, with k + 1 or without. *)
LEMMA PowerDoubles ==
  ASSUME NEW k \in Nat
  PROVE  2^(k + 1) = 2 * 2^k
<1> DEFINE S == SUBSET (1..k)
           f == [U \in S |-> U \union {k + 1}]
           T == {U \union {k + 1} : U \in S}
<1>1. SUBSET (1..(k + 1)) = S \union T
  <2>1. ASSUME NEW U \in SUBSET (1..(k + 1)) PROVE U \in S \/ U \in T
    <3>1. CASE k + 1 \in U
      <4>1. U \ {k + 1} \in S /\ U = (U \ {k + 1}) \union {k + 1}
        BY <3>1
      <4>. QED  BY <4>1
    <3>2. CASE k + 1 \notin U
      BY <3>2
    <3>. QED  BY <3>1, <3>2
  <2>2. S \subseteq SUBSET (1..(k + 1)) /\ T \subseteq SUBSET (1..(k + 1))
    <3>1. 1..k \subseteq 1..(k + 1) /\ k + 1 \in 1..(k + 1)
      OBVIOUS
    <3>. QED  BY <3>1
  <2>. QED  BY <2>1, <2>2
<1>2. S \cap T = {}
  OBVIOUS
<1>3. ExistsBijection(S, T)
  <2>1. f \in [S -> T] /\ \A t \in T : \E u \in S : f[u] = t
    OBVIOUS
  <2>2. ASSUME NEW u \in S, NEW v \in S, f[u] = f[v] PROVE u = v
    <3>1. u \union {k + 1} = v \union {k + 1} /\ k + 1 \notin u /\ k + 1 \notin v
      BY <2>2
    <3>. QED  BY <3>1
  <2> HIDE DEF f, S, T
  <2>. QED  BY <2>1, <2>2 DEF ExistsBijection, Bijection, Injection, Surjection, IsInjective
<1>4. IsFiniteSet(S) /\ Cardinality(S) = 2^k /\ 2^k \in Nat
  BY PowerIsSubsets
<1>5. IsFiniteSet(SUBSET (1..(k + 1))) /\ Cardinality(SUBSET (1..(k + 1))) = 2^(k + 1)
  <2>1. k + 1 \in Nat
    OBVIOUS
  <2>. QED  BY <2>1, PowerIsSubsets
<1> HIDE DEF S, T
<1>6. IsFiniteSet(T) /\ Cardinality(T) = Cardinality(S)
  BY <1>3, <1>4, FS_Bijection
<1>7. Cardinality(S \union T) = Cardinality(S) + Cardinality(T) - Cardinality({})
  BY <1>2, <1>4, <1>6, FS_Union
<1>8. Cardinality(S \union T) = 2^k + 2^k
  BY <1>4, <1>6, <1>7, FS_EmptySet
<1>9. 2^(k + 1) = 2^k + 2^k
  BY <1>1, <1>5, <1>8
<1>. QED  BY <1>4, <1>9

LEMMA PowerZero == 2^0 = 1
<1>1. 1..0 = {} /\ SUBSET {} = {{}} /\ 0 \in Nat
  OBVIOUS
<1>2. Cardinality(SUBSET (1..0)) = 2^0
  BY <1>1, PowerIsSubsets
<1>. QED  BY <1>1, <1>2, FS_Singleton

LEMMA PowerSum ==
  ASSUME NEW k \in Nat, NEW m \in Nat
  PROVE  2^(k + m) = 2^k * 2^m
<1> DEFINE T == {q \in 0..m : 2^(k + q) = 2^k * 2^q}
<1>1. 0 \in T
  <2>1. k + 0 = k /\ 0 \in 0..m
    OBVIOUS
  <2>2. 2^k \in Nat
    BY PowerIsSubsets
  <2>3. \A x \in Nat : x * 1 = x
    OBVIOUS
  <2>4. 2^k * 1 = 2^k
    BY <2>2, <2>3, Zenon
  <2>5. 2^(k + 0) = 2^k * 2^0
    BY <2>1, <2>4, PowerZero, Zenon
  <2>. QED  BY <2>1, <2>5
<1>2. ASSUME NEW q \in 0..(m - 1), q \in T
      PROVE  q + 1 \in T
  <2>1. q \in Nat /\ k + q \in Nat /\ k + (q + 1) = (k + q) + 1 /\ q + 1 \in 0..m
    OBVIOUS
  <2>2. 2^(k + (q + 1)) = 2 * 2^(k + q) /\ 2^(q + 1) = 2 * 2^q
    BY <2>1, PowerDoubles
  <2>3. 2^(k + q) = 2^k * 2^q /\ 2^k \in Nat /\ 2^q \in Nat
    BY <1>2, <2>1, PowerIsSubsets
  <2>4. \A x, y \in Nat : 2 * (x * y) = x * (2 * y)
    OBVIOUS
  <2>5. 2^(k + (q + 1)) = 2^k * 2^(q + 1)
    BY <2>2, <2>3, <2>4
  <2>. QED  BY <2>1, <2>5
<1>3. m \in T
  <2> HIDE DEF T
  <2>1. 0..m \subseteq T
    BY <1>1, <1>2, UpTo
  <2>. QED  BY <2>1
<1>. QED  BY <1>3

LEMMA PowerPositive ==
  ASSUME NEW k \in Nat
  PROVE  2^k \in Nat \ {0}
<1>1. {} \in SUBSET (1..k)
  OBVIOUS
<1>. QED  BY <1>1, PowerIsSubsets, FS_EmptySet

-----------------------------------------------------------------------------
(* appendExcIdx: the recursion defines a function. *)
AreExceptions(F, low, k) ==
  F = [m \in 0..k |->
         IF m = 0 THEN <<>>
         ELSE IF low[m] # 0 THEN Append(F[m - 1], m - 1) ELSE F[m - 1]]

LEMMA ExceptionsRecursion ==
  ASSUME NEW N \in Nat, NEW low
  PROVE  \E F : AreExceptions(F, low, N)
<1> USE DEF AreExceptions
<1> DEFINE Is(F, k) == AreExceptions(F, low, k)
           T == {k \in 0..N : \E F : Is(F, k)}
<1>1. 0 \in T
  <2> DEFINE F == [m \in 0..0 |-> <<>>]
  <2>1. Is(F, 0)
    OBVIOUS
  <2> HIDE DEF F, Is
  <2>. QED  BY <2>1
<1>2. ASSUME NEW k \in 0..(N - 1), k \in T
      PROVE  k + 1 \in T
  <2>1. PICK F : Is(F, k)
    BY <1>2
  <2> DEFINE v == IF low[k + 1] # 0 THEN Append(F[k], k) ELSE F[k]
             G == [m \in 0..(k + 1) |-> IF m = k + 1 THEN v ELSE F[m]]
             H == [m \in 0..(k + 1) |-> IF m = 0 THEN <<>>
                    ELSE IF low[m] # 0 THEN Append(G[m - 1], m - 1) ELSE G[m - 1]]
  <2>2. ASSUME NEW m \in 0..(k + 1) PROVE G[m] = H[m]
    <3>1. CASE m = k + 1
      <4>1. m # 0 /\ m - 1 = k /\ k \in 0..(k + 1) /\ k # k + 1
        BY <3>1
      <4>2. G[m - 1] = F[k]
        BY <4>1
      <4>. QED  BY <3>1, <4>1, <4>2
    <3>2. CASE m = 0
      <4>1. F[0] = <<>>
        BY <2>1
      <4>. QED  BY <3>2, <4>1
    <3>3. CASE m # k + 1 /\ m # 0
      <4>1. m \in 0..k /\ m - 1 \in 0..(k + 1) /\ m - 1 # k + 1
        BY <3>3
      <4>2. G[m - 1] = F[m - 1] /\ G[m] = F[m]
        BY <3>3, <4>1
      <4>3. F[m] = IF low[m] # 0 THEN Append(F[m - 1], m - 1) ELSE F[m - 1]
        BY <2>1, <3>3, <4>1
      <4>. QED  BY <3>3, <4>2, <4>3
    <3>. QED  BY <3>1, <3>2, <3>3
  <2>3. Is(G, k + 1)
    <3>1. G = H
      BY <2>2
    <3>. QED  BY <3>1
  <2>4. k + 1 \in 0..N
    OBVIOUS
  <2>. QED  BY <2>3, <2>4
<1>3. N \in T
  <2> HIDE DEF T
  <2>. QED  BY <1>1, <1>2, UpTo
<1>. QED  BY <1>3

(* ExceptionsOf lists the boundaries with a low half that is not 0, each    *)
(* once, in order.                                                          *)
LEMMA ExceptionFacts ==
  ASSUME NEW low \in Seq(Nat)
  PROVE  /\ ExceptionsOf(low) \in Seq(0..(Len(low) - 1))
         /\ Len(ExceptionsOf(low)) <= Len(low)
         /\ \A c, d \in DOMAIN ExceptionsOf(low) :
              c < d => ExceptionsOf(low)[c] < ExceptionsOf(low)[d]
         /\ \A b \in 0..(Len(low) - 1) :
              low[b + 1] # 0 <=> \E e \in DOMAIN ExceptionsOf(low) : ExceptionsOf(low)[e] = b
<1> DEFINE N == Len(low)
           F == CHOOSE f : AreExceptions(f, low, N)
<1>1. ExceptionsOf(low) = F[N]
  BY DEF ExceptionsOf, AreExceptions
<1>2. AreExceptions(F, low, N) /\ N \in Nat
  <2>1. N \in Nat
    OBVIOUS
  <2>2. \E f : AreExceptions(f, low, N)
    BY <2>1, ExceptionsRecursion
  <2>. QED  BY <2>1, <2>2
<1> HIDE DEF F
<1> DEFINE Good(E, k) ==
      /\ E \in Seq(0..(k - 1)) /\ Len(E) <= k
      /\ \A c, d \in DOMAIN E : c < d => E[c] < E[d]
      /\ \A b \in 0..(k - 1) : low[b + 1] # 0 <=> \E e \in DOMAIN E : E[e] = b
           T == {k \in 0..N : Good(F[k], k)}
<1>3. 0 \in T
  <2>1. F[0] = <<>>
    BY <1>2 DEF AreExceptions
  <2>2. /\ <<>> \in Seq(0..(0 - 1)) /\ DOMAIN <<>> = {}
        /\ \A b \in 0..(0 - 1) : FALSE
    OBVIOUS
  <2>3. Good(F[0], 0)
    BY <2>1, <2>2
  <2>4. 0 \in 0..N
    BY <1>2
  <2>. QED  BY <2>3, <2>4
<1>4. ASSUME NEW k \in 0..(N - 1), k \in T
      PROVE  k + 1 \in T
  <2>0. ASSUME Good(F[k + 1], k + 1) PROVE k + 1 \in T
    <3>1. k + 1 \in 0..N
      BY <1>2
    <3> HIDE DEF Good
    <3>. QED  BY <2>0, <3>1
  <2>1. F[k + 1] = IF low[k + 1] # 0 THEN Append(F[k], k) ELSE F[k]
    <3>1. k + 1 \in 0..N /\ k + 1 # 0 /\ (k + 1) - 1 = k
      BY <1>2
    <3>. QED  BY <1>2, <3>1 DEF AreExceptions
  <2>2. Good(F[k], k) /\ k \in Nat
    <3> HIDE DEF Good
    <3>. QED  BY <1>4
  <2>3. CASE low[k + 1] = 0
    <3>1. F[k] \in Seq(0..k) /\ Len(F[k]) <= k + 1
      BY <2>2, SMTT(30)
    <3>2. ASSUME NEW b \in 0..k
          PROVE  low[b + 1] # 0 <=> \E e \in DOMAIN F[k] : F[k][e] = b
      <4>1. CASE b = k
        <5>1. ASSUME NEW e \in DOMAIN F[k] PROVE F[k][e] # k
          BY <2>2
        <5>. QED  BY <2>3, <4>1, <5>1
      <4>2. CASE b # k
        <5>1. b \in 0..(k - 1)
          BY <2>2, <4>2
        <5>. QED  BY <2>2, <5>1
      <4>. QED  BY <4>1, <4>2
    <3>3. Good(F[k + 1], k + 1)
      <4>1. (k + 1) - 1 = k
        BY <2>2
      <4>2. F[k + 1] = F[k]
        BY <2>1, <2>3
      <4>. QED  BY <2>2, <3>1, <3>2, <4>1, <4>2
    <3>. QED  BY <2>0, <3>3
  <2>4. CASE low[k + 1] # 0
    <3> DEFINE E == F[k]
               D == Append(E, k)
    <3>1. F[k + 1] = D
      BY <2>1, <2>4
    <3>2. E \in Seq(0..(k - 1)) /\ Len(E) <= k /\ \A e \in DOMAIN E : E[e] \in 0..(k - 1)
      BY <2>2, SMTT(30)
    <3> HIDE DEF E
    <3>3. /\ D \in Seq(0..k) /\ Len(D) = Len(E) + 1 /\ DOMAIN D = 1..(Len(E) + 1)
          /\ D[Len(E) + 1] = k /\ Len(E) \in Nat /\ DOMAIN E = 1..Len(E)
          /\ \A e \in DOMAIN E : D[e] = E[e]
      <4>1. E \in Seq(0..k) /\ k \in 0..k
        BY <2>2, <3>2
      <4>. QED  BY <4>1
    <3> HIDE DEF D
    <3>4. ASSUME NEW c \in DOMAIN D, NEW d \in DOMAIN D, c < d
          PROVE  D[c] < D[d]
      <4>1. c \in DOMAIN E
        BY <3>3, <3>4
      <4>2. CASE d = Len(E) + 1
        BY <3>2, <3>3, <4>1, <4>2
      <4>3. CASE d # Len(E) + 1
        <5>1. d \in DOMAIN E
          BY <3>3, <4>3
        <5>. QED  BY <2>2, <3>3, <3>4, <4>1, <5>1 DEF E
      <4>. QED  BY <4>2, <4>3
    <3>5. ASSUME NEW b \in 0..k
          PROVE  low[b + 1] # 0 <=> \E e \in DOMAIN D : D[e] = b
      <4>1. CASE b = k
        BY <2>4, <3>3, <4>1, SMTT(30)
      <4>2. CASE b # k
        <5>1. b \in 0..(k - 1)
          BY <2>2, <4>2
        <5>2. (\E e \in DOMAIN D : D[e] = b) <=> (\E e \in DOMAIN E : E[e] = b)
          <6>1. \A e \in DOMAIN D : e = Len(E) + 1 \/ e \in DOMAIN E
            BY <3>3
          <6>2. \A e \in DOMAIN E : e \in DOMAIN D
            BY <3>3
          <6>. QED  BY <3>3, <4>2, <6>1, <6>2
        <5>. QED  BY <2>2, <5>1, <5>2 DEF E
      <4>. QED  BY <4>1, <4>2
    <3>6. Good(F[k + 1], k + 1)
      <4>1. (k + 1) - 1 = k
        BY <2>2
      <4>2. Len(D) <= k + 1
        BY <2>2, <3>2, <3>3
      <4>. QED  BY <3>1, <3>3, <3>4, <3>5, <4>1, <4>2
    <3>. QED  BY <2>0, <3>6
  <2>. QED  BY <2>3, <2>4
<1>5. N \in T
  <2>1. N \in Nat
    BY <1>2
  <2> HIDE DEF N, T
  <2>2. 0..N \subseteq T
    BY <1>3, <1>4, <2>1, UpTo
  <2>. QED  BY <2>1, <2>2
<1>. QED  BY <1>1, <1>5

-----------------------------------------------------------------------------
(* Where P holds, it goes on to. *)
GoesOn(P, lo, hi) == \A c, d \in lo..(hi - 1) : P[c] /\ c <= d => P[d]

(* p is where P begins to hold between l and h. *)
Begins(P, l, h, p) ==
  p \in l..h /\ (\A q \in l..(p - 1) : ~P[q]) /\ (\A q \in p..(h - 1) : P[q])

LEMMA BeginsOnce ==
  ASSUME NEW P, NEW l \in Int, NEW h \in Int,
         NEW p, Begins(P, l, h, p), NEW q, Begins(P, l, h, q)
  PROVE  p = q
<1>1. p \in Int /\ q \in Int /\ l <= p /\ l <= q /\ p <= h /\ q <= h
  BY DEF Begins
<1>2. ~(p < q) /\ ~(q < p)
  BY <1>1 DEF Begins
<1>. QED  BY <1>1, <1>2

(* A step of the halving narrows the window. *)
LEMMA Halves ==
  ASSUME NEW lo \in Int, NEW hi \in Int, NEW P, GoesOn(P, lo, hi), NEW l \in lo..hi, NEW h \in lo..hi, l < h,
         NEW mid \in l..(h - 1), NEW p
  PROVE  /\ P[mid] /\ Begins(P, l, mid, p) => Begins(P, l, h, p)
         /\ ~P[mid] /\ Begins(P, mid + 1, h, p) => Begins(P, l, h, p)
<1>1. mid \in Int /\ l <= mid /\ mid < h /\ mid \in lo..(hi - 1)
  OBVIOUS
<1>2. ASSUME P[mid], Begins(P, l, mid, p)
      PROVE  Begins(P, l, h, p)
  <2>1. ASSUME NEW q \in p..(h - 1) PROVE P[q]
    <3>1. p \in l..mid /\ q \in lo..(hi - 1)
      BY <1>1, <1>2, <2>1 DEF Begins
    <3>2. CASE q < mid
      BY <1>1, <1>2, <2>1, <3>1, <3>2 DEF Begins
    <3>3. CASE mid <= q
      BY <1>1, <1>2, <3>1, <3>3 DEF GoesOn
    <3>. QED  BY <1>1, <3>1, <3>2, <3>3
  <2>. QED  BY <1>1, <1>2, <2>1 DEF Begins
<1>3. ASSUME ~P[mid], Begins(P, mid + 1, h, p)
      PROVE  Begins(P, l, h, p)
  <2>1. ASSUME NEW q \in l..(p - 1) PROVE ~P[q]
    <3>1. p \in (mid + 1)..h /\ q \in lo..(hi - 1)
      BY <1>1, <1>3, <2>1 DEF Begins
    <3>2. CASE q <= mid
      BY <1>1, <1>3, <3>1, <3>2 DEF GoesOn
    <3>3. CASE mid < q
      BY <1>1, <1>3, <2>1, <3>1, <3>3 DEF Begins
    <3>. QED  BY <1>1, <3>1, <3>2, <3>3
  <2>. QED  BY <1>1, <1>3, <2>1 DEF Begins
<1>. QED  BY <1>1, <1>2, <1>3

LEMMA HalfBegins ==
  ASSUME NEW lo \in Int, NEW hi \in Int, NEW P, GoesOn(P, lo, hi), NEW l \in lo..hi, NEW h \in lo..hi, l < h,
         NEW mid \in l..(h - 1),
         NEW p, Begins(P, l, mid, p), NEW q, Begins(P, mid + 1, h, q)
  PROVE  Begins(P, l, h, IF P[mid] THEN p ELSE q)
<1>1. CASE P[mid]
  <2>1. Begins(P, l, h, p)
    BY <1>1, Halves
  <2>. QED  BY <1>1, <2>1
<1>2. CASE ~P[mid]
  <2>1. Begins(P, l, h, q)
    BY <1>2, Halves
  <2>. QED  BY <1>2, <2>1
<1>. QED  BY <1>1, <1>2

LEMMA BeginsSomewhere ==
  ASSUME NEW lo \in Nat, NEW hi \in Nat, NEW P, GoesOn(P, lo, hi), NEW l \in lo..hi, NEW h \in lo..hi, l <= h
  PROVE  \E p : Begins(P, l, h, p)
<1> DEFINE T == {q \in l..h : q = h \/ P[q]}
<1>1. T \in SUBSET Nat /\ h \in T
  OBVIOUS
<1>2. \E q \in T : \A r \in T : q <= r
  <2> HIDE DEF T
  <2>. QED  BY <1>1, LeastNumber
<1>3. PICK q \in T : \A r \in T : q <= r
  BY <1>2
<1>4. q \in l..h
  OBVIOUS
<1>5. ASSUME NEW r \in l..(q - 1) PROVE ~P[r]
  <2>1. r \in l..h /\ ~(q <= r)
    BY <1>4
  <2>. QED  BY <1>3, <2>1
<1>6. ASSUME NEW r \in q..(h - 1) PROVE P[r]
  <2>1. q # h /\ P[q] /\ q \in lo..(hi - 1) /\ r \in lo..(hi - 1) /\ q <= r
    BY <1>4
  <2>. QED  BY <2>1 DEF GoesOn
<1>. QED  BY <1>4, <1>5, <1>6 DEF Begins

(* The recursion of FirstTrue. *)
Searches(F, P, lo, hi) ==
  F = [w \in (lo..hi) \X (lo..hi) |->
         LET mid == (w[1] + w[2]) \div 2 IN
         IF w[1] >= w[2] THEN w[1]
         ELSE IF P[mid] THEN F[<<w[1], mid>>] ELSE F[<<mid + 1, w[2]>>]]

LEMMA SearchRecursion ==
  ASSUME NEW lo \in Nat, NEW hi \in Nat, NEW P, GoesOn(P, lo, hi)
  PROVE  \E F : Searches(F, P, lo, hi)
<1> DEFINE W == (lo..hi) \X (lo..hi)
           C(l, h) == CHOOSE p : Begins(P, l, h, p)
           F == [w \in W |-> IF w[1] >= w[2] THEN w[1] ELSE C(w[1], w[2])]
           Step(w) == LET mid == (w[1] + w[2]) \div 2 IN
                      IF w[1] >= w[2] THEN w[1]
                      ELSE IF P[mid] THEN F[<<w[1], mid>>] ELSE F[<<mid + 1, w[2]>>]
<1>1. ASSUME NEW l \in lo..hi, NEW h \in lo..hi, l <= h
      PROVE  Begins(P, l, h, F[<<l, h>>])
  <2>1. CASE l = h
    BY <2>1 DEF Begins
  <2>2. CASE l < h
    <3>1. F[<<l, h>>] = C(l, h)
      BY <2>2
    <3>2. \E p : Begins(P, l, h, p)
      BY <1>1, BeginsSomewhere
    <3>. QED  BY <3>1, <3>2
  <2>. QED  BY <1>1, <2>1, <2>2
<1>2. ASSUME NEW l \in lo..hi, NEW h \in lo..hi
      PROVE  F[<<l, h>>] = Step(<<l, h>>)
  <2>1. CASE l >= h
    BY <2>1
  <2>2. CASE l < h
    <3> DEFINE mid == (l + h) \div 2
    <3>0. mid = (l + h) \div 2
      OBVIOUS
    <3>2. Step(<<l, h>>) = IF P[mid] THEN F[<<l, mid>>] ELSE F[<<mid + 1, h>>]
      BY <2>2
    <3> HIDE DEF F, Step, mid
    <3>1. mid \in l..(h - 1) /\ mid \in lo..hi /\ mid + 1 \in lo..hi
          /\ l <= mid /\ mid + 1 <= h
      BY <2>2, <3>0
    <3>4. /\ Begins(P, l, h, F[<<l, h>>]) /\ Begins(P, l, mid, F[<<l, mid>>])
          /\ Begins(P, mid + 1, h, F[<<mid + 1, h>>])
      BY <1>1, <2>2, <3>1
    <3>5. Begins(P, l, h, Step(<<l, h>>))
      BY <2>2, <3>1, <3>2, <3>4, HalfBegins
    <3>. QED  BY <3>4, <3>5, BeginsOnce
  <2>. QED  BY <2>1, <2>2
<1>3. ASSUME NEW w \in W PROVE F[w] = Step(w)
  <2>1. w = <<w[1], w[2]>> /\ w[1] \in lo..hi /\ w[2] \in lo..hi
    OBVIOUS
  <2> HIDE DEF F, Step
  <2>2. F[<<w[1], w[2]>>] = Step(<<w[1], w[2]>>)
    BY <1>2, <2>1
  <2>. QED  BY <2>1, <2>2
<1>4. F = [w \in W |-> Step(w)]
  <2>1. F = [w \in W |-> F[w]]
    OBVIOUS
  <2> HIDE DEF F, Step, W
  <2>. QED  BY <1>3, <2>1
<1>5. Searches(F, P, lo, hi)
  <2> HIDE DEF F
  <2>. QED  BY <1>4 DEF Searches
<1>. QED  BY <1>5

(* The halving finds where P begins to hold. *)
LEMMA FirstTrueBegins ==
  ASSUME NEW lo \in Nat, NEW hi \in Nat, lo <= hi, NEW P, GoesOn(P, lo, hi)
  PROVE  Begins(P, lo, hi, FirstTrue(P, lo, hi))
<1> DEFINE F == CHOOSE f : Searches(f, P, lo, hi)
<1>1. FirstTrue(P, lo, hi) = F[<<lo, hi>>]
  BY DEF FirstTrue, Searches
<1>2. Searches(F, P, lo, hi)
  BY SearchRecursion
<1> HIDE DEF F
<1>3. ASSUME NEW l \in lo..hi, NEW h \in lo..hi
      PROVE  F[<<l, h>>] = LET mid == (l + h) \div 2 IN
                           IF l >= h THEN l
                           ELSE IF P[mid] THEN F[<<l, mid>>] ELSE F[<<mid + 1, h>>]
  BY <1>2 DEF Searches
<1>7. ASSUME NEW l \in lo..hi PROVE F[<<l, l>>] = l
  <2>1. l >= l /\ <<l, l>> \in (lo..hi) \X (lo..hi)
    OBVIOUS
  <2>. QED  BY <1>2, <2>1 DEF Searches
<1> DEFINE Right(k) == \A l, h \in lo..hi :
                         l <= h /\ h - l <= k => Begins(P, l, h, F[<<l, h>>])
           T == {k \in 0..(hi - lo) : Right(k)}
<1>4. 0 \in T
  <2>1. ASSUME NEW l \in lo..hi, NEW h \in lo..hi, l <= h, h - l <= 0
        PROVE  Begins(P, l, h, F[<<l, h>>])
    <3>1. l = h
      BY <2>1
    <3>2. F[<<l, h>>] = l
      BY <1>7, <3>1
    <3>. QED  BY <3>1, <3>2 DEF Begins
  <2>. QED  BY <2>1
<1>5. ASSUME NEW k \in 0..((hi - lo) - 1), k \in T
      PROVE  k + 1 \in T
  <2>1. ASSUME NEW l \in lo..hi, NEW h \in lo..hi, l <= h, h - l <= k + 1
        PROVE  Begins(P, l, h, F[<<l, h>>])
    <3>1. CASE l = h
      <4>1. F[<<l, h>>] = l
        BY <1>7, <3>1
      <4>. QED  BY <3>1, <4>1 DEF Begins
    <3>2. CASE l < h
      <4>0. PICK mid : mid = (l + h) \div 2
        OBVIOUS
      <4>2. F[<<l, h>>] = IF P[mid] THEN F[<<l, mid>>] ELSE F[<<mid + 1, h>>]
        BY <1>3, <3>2, <4>0
      <4>1. /\ mid \in l..(h - 1) /\ mid \in lo..hi /\ mid + 1 \in lo..hi
            /\ l <= mid /\ mid + 1 <= h
            /\ mid - l <= k /\ h - (mid + 1) <= k
        BY <2>1, <3>2, <4>0
      <4>3. Begins(P, l, mid, F[<<l, mid>>]) /\ Begins(P, mid + 1, h, F[<<mid + 1, h>>])
        BY <1>5, <4>1
      <4>. QED  BY <3>2, <4>1, <4>2, <4>3, HalfBegins
    <3>. QED  BY <2>1, <3>1, <3>2
  <2>2. k + 1 \in 0..(hi - lo)
    OBVIOUS
  <2>. QED  BY <2>1, <2>2
<1>6. hi - lo \in T
  <2>1. hi - lo \in Nat
    OBVIOUS
  <2> HIDE DEF T
  <2>2. 0..(hi - lo) \subseteq T
    BY <1>4, <1>5, <2>1, UpTo
  <2>. QED  BY <2>1, <2>2
<1>. QED  BY <1>1, <1>6


(* A recursion that gives a value of V at every step defines a function. *)
Recurses(F, base, step, n) ==
  F = [m \in 0..n |-> IF m = 0 THEN base ELSE step[<<m, F[m - 1]>>]]

LEMMA Recursion ==
  ASSUME NEW N \in Nat, NEW V, NEW base \in V, NEW step \in [(1..N) \X V -> V]
  PROVE  \E F \in [0..N -> V] : Recurses(F, base, step, N)
<1> DEFINE Is(F, k) == /\ F \in [0..k -> V]
                       /\ F = [m \in 0..k |-> IF m = 0 THEN base ELSE step[<<m, F[m - 1]>>]]
           T == {k \in 0..N : \E F : Is(F, k)}
<1>1. 0 \in T
  <2> DEFINE F == [m \in 0..0 |-> base]
  <2>1. Is(F, 0)
    OBVIOUS
  <2> HIDE DEF F, Is
  <2>. QED  BY <2>1
<1>2. ASSUME NEW k \in 0..(N - 1), k \in T
      PROVE  k + 1 \in T
  <2>1. PICK F : Is(F, k)
    BY <1>2
  <2> DEFINE v == step[<<k + 1, F[k]>>]
             G == [m \in 0..(k + 1) |-> IF m = k + 1 THEN v ELSE F[m]]
             H == [m \in 0..(k + 1) |-> IF m = 0 THEN base ELSE step[<<m, G[m - 1]>>]]
  <2>2. ASSUME NEW m \in 0..(k + 1) PROVE G[m] = H[m]
    <3>1. CASE m = k + 1
      <4>1. m # 0 /\ m - 1 = k /\ k \in 0..(k + 1) /\ k # k + 1
        BY <3>1
      <4>2. G[m - 1] = F[k]
        BY <4>1
      <4>. QED  BY <3>1, <4>1, <4>2
    <3>2. CASE m = 0
      <4>1. F[0] = base
        BY <2>1
      <4>. QED  BY <3>2, <4>1
    <3>3. CASE m # k + 1 /\ m # 0
      <4>1. m \in 0..k /\ m - 1 \in 0..(k + 1) /\ m - 1 # k + 1
        BY <3>3
      <4>2. G[m - 1] = F[m - 1] /\ G[m] = F[m]
        BY <3>3, <4>1
      <4>3. F[m] = step[<<m, F[m - 1]>>]
        BY <2>1, <3>3, <4>1
      <4>. QED  BY <3>3, <4>2, <4>3
    <3>. QED  BY <3>1, <3>2, <3>3
  <2>3. Is(G, k + 1)
    <3>1. G = H
      BY <2>2
    <3>2. v \in V
      <4>1. F[k] \in V /\ k + 1 \in 1..N
        BY <2>1
      <4>2. <<k + 1, F[k]>> \in (1..N) \X V
        BY <4>1
      <4>. QED  BY <4>2
    <3>3. G \in [0..(k + 1) -> V]
      <4>1. \A m \in 0..(k + 1) : m = k + 1 \/ m \in 0..k
        OBVIOUS
      <4> HIDE DEF v
      <4>. QED  BY <2>1, <3>2, <4>1
    <3>. QED  BY <3>1, <3>3
  <2>4. k + 1 \in 0..N
    OBVIOUS
  <2>. QED  BY <2>3, <2>4
<1>3. N \in T
  <2> HIDE DEF T
  <2>. QED  BY <1>1, <1>2, UpTo
<1>. QED  BY <1>3 DEF Recurses
=============================================================================
