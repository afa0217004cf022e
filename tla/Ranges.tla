------------------------------- MODULE Ranges -------------------------------
(***************************************************************************)
(* Ranges and LookupRange (ranges.go): the ranges of addresses that share  *)
(* an answer, listed one after another, or found from one address.         *)
(*                                                                         *)
(* Ranges walks the boundaries with the tables in step; LookupRange jumps  *)
(* to one and finds its neighbour's start.  Both leave out of the IPv6     *)
(* ranges the alias prefixes, whose addresses Lookup answers from the IPv4 *)
(* table, each with code of its own.                                       *)
(*                                                                         *)
(* The search for the boundary that holds an address (index4, index6) is   *)
(* the one of Search4 and Search6.  Boundaries are counted from 0.         *)
(***************************************************************************)
EXTENDS Integers, Sequences, FiniteSets, Tables

CONSTANTS
  Buckets, BucketSize,  \* top-16 buckets of IPv4 addresses, and their size
  HiTop, LoTop,         \* the greatest top and low half of an IPv6 address
  v6Aliases,            \* the alias prefixes: [first, last], ascending
  embeddedV4,           \* the IPv4 address of each address in one
  Files                 \* [v4, v6]: the boundaries, [start, id], of a file

ASSUME SizeAssumption ==
  {Buckets, BucketSize} \subseteq Nat \ {0} /\ {HiTop, LoTop} \subseteq Nat

Top4       == Buckets * BucketSize - 1
Addresses4 == 0..Top4
Addresses6 == [hi : 0..HiTop, lo : 0..LoTop]
Zero6      == [hi |-> 0, lo |-> 0]
Top6       == [hi |-> HiTop, lo |-> LoTop]

(* less128 *)
Less(a, b)      == a.hi < b.hi \/ (a.hi = b.hi /\ a.lo < b.lo)
Within(x, a, b) == ~Less(x, a) /\ ~Less(b, x)

Alias(k)   == v6Aliases[k]
Aliased(x) == \E k \in DOMAIN v6Aliases : Within(x, Alias(k).first, Alias(k).last)

(* The alias prefixes ascend. *)
ASSUME AliasAssumption ==
  /\ v6Aliases \in Seq([first : Addresses6, last : Addresses6])
  /\ \A k \in DOMAIN v6Aliases :
       /\ ~Less(Alias(k).last, Alias(k).first)
       /\ k > 1 => Less(Alias(k - 1).last, Alias(k).first)
  /\ embeddedV4 \in [{x \in Addresses6 : Aliased(x)} -> Addresses4]

(* Record ids are 0 for a gap. *)
ASSUME FilesAssumption ==
  \A f \in Files :
    /\ f.v4 \in Seq([start : Addresses4, id : Nat])
    /\ f.v6 \in Seq([start : Addresses6, id : Nat])
    /\ \A a, b \in DOMAIN f.v4 : a < b => f.v4[a].start < f.v4[b].start
    /\ \A a, b \in DOMAIN f.v6 : a < b => Less(f.v6[a].start, f.v6[b].start)

VARIABLES
  file,        \* the file the Reader has open
  pc,          \* ranges4, ranges6, parts (of an IPv6 range), ended
  i,           \* the boundary the loop has come to
  g, j,        \* its bucket; the next exception
  first,       \* its start, as the tables walked in step gave it
  rest, a,     \* yieldUnaliased: what is left, the alias it has come to
  yielded,     \* the ranges yielded
  stopped,     \* the caller has asked for no more
  asked, found \* LookupRange: its argument, its result

walk   == <<i, g, j, first>>
parts  == <<rest, a>>
lookup == <<asked, found>>
vars   == <<file, pc, walk, parts, yielded, stopped, lookup>>

n4 == Len(file.v4)
n6 == Len(file.v6)

-----------------------------------------------------------------------------
(* The tables of a file. *)
V4Idx(b)  == Cardinality({k \in DOMAIN file.v4 : file.v4[k].start < b * BucketSize})
Low(b)    == file.v4[b + 1].start % BucketSize
Id4(b)    == file.v4[b + 1].id

Hi(b)     == file.v6[b + 1].start.hi
Id6(b)    == file.v6[b + 1].id
ExcIdx    == ExceptionsOf([b \in 1..n6 |-> file.v6[b].start.lo])
ExcLo(e)  == file.v6[ExcIdx[e] + 1].start.lo

(* index4 and index6: the last boundary at or below an address, or -1. *)
Index4(x) == Cardinality({k \in DOMAIN file.v4 : file.v4[k].start <= x}) - 1
Index6(x) == Cardinality({k \in DOMAIN file.v6 : ~Less(x, file.v6[k].start)}) - 1

(* Mutant: nothing is carried. *)
Inc128Low(x) == [hi |-> x.hi, lo |-> (x.lo + 1) % (LoTop + 1)]

(* inc128 and dec128 *)
Inc128(x) == [hi |-> IF x.lo = LoTop THEN x.hi + 1 ELSE x.hi,
              lo |-> (x.lo + 1) % (LoTop + 1)]

(* Mutant: nothing is borrowed. *)
Dec128Low(x) == [hi |-> x.hi, lo |-> (x.lo - 1) % (LoTop + 1)]

Dec128(x) == [hi |-> IF x.lo = 0 THEN x.hi - 1 ELSE x.hi,
              lo |-> (x.lo - 1) % (LoTop + 1)]

-----------------------------------------------------------------------------
(* LookupRange *)

(* Mutant: V4IDX's own entry is taken for the bucket. *)
Start4Late(b, hint) ==
  LET G == IF V4Idx(hint) <= b /\ b < V4Idx(hint + 1) THEN hint
           ELSE FirstTrue([d \in 1..(Buckets - 1) |-> V4Idx(d) >= b], 1, Buckets) - 1
  IN  G * BucketSize + Low(b)

(* start4: the start of boundary b, whose bucket is probably hint. *)
Start4(b, hint) ==
  LET G == IF V4Idx(hint) <= b /\ b < V4Idx(hint + 1) THEN hint
           ELSE FirstTrue([d \in 1..(Buckets - 1) |-> V4Idx(d) > b], 1, Buckets) - 1
  IN  G * BucketSize + Low(b)

Range4(x) ==
  LET b == Index4(x)
      G == x \div BucketSize
  IN  [fam   |-> 4,
       first |-> IF b >= 0 THEN Start4(b, G) ELSE 0,
       last  |-> IF b + 1 < n4 THEN Start4(b + 1, G) - 1 ELSE Top4,
       id    |-> IF b >= 0 THEN Id4(b) ELSE 0]

(* start6: the flag of a boundary says whether it is an exception. *)
Start6(b) ==
  LET E == {e \in DOMAIN ExcIdx : ExcIdx[e] = b} IN
  [hi |-> Hi(b), lo |-> IF E = {} THEN 0 ELSE ExcLo(CHOOSE e \in E : TRUE)]

(* Mutant: a range is cut at the aliases above the address only. *)
CutAbove(x, f, l) ==
  LET Cut[k \in 0..Len(v6Aliases)] ==
        IF k = 0 THEN [first |-> f, last |-> l]
        ELSE LET c == Cut[k - 1] IN
             [first |-> c.first,
              last  |-> IF Less(x, Alias(k).first) /\ ~Less(c.last, Alias(k).first)
                        THEN Dec128(Alias(k).first) ELSE c.last]
  IN  Cut[Len(v6Aliases)]

(* The part around x of the range from f to l: range6's loop. *)
CutShort(x, f, l) ==
  LET Cut[k \in 0..Len(v6Aliases)] ==
        IF k = 0 THEN [first |-> f, last |-> l]
        ELSE LET c == Cut[k - 1] IN
             [first |-> IF Less(Alias(k).last, x) /\ ~Less(Alias(k).last, c.first)
                        THEN Inc128(Alias(k).last) ELSE c.first,
              last  |-> IF Less(x, Alias(k).first) /\ ~Less(c.last, Alias(k).first)
                        THEN Dec128(Alias(k).first) ELSE c.last]
  IN  Cut[Len(v6Aliases)]

Range6(x) ==
  LET b == Index6(x)
      c == CutShort(x, IF b >= 0 THEN Start6(b) ELSE Zero6,
                       IF b + 1 < n6 THEN Dec128(Start6(b + 1)) ELSE Top6)
  IN  [fam |-> 6, first |-> c.first, last |-> c.last,
       id  |-> IF b >= 0 THEN Id6(b) ELSE 0]

Nothing == [fam |-> 0]
Asked   == [fam : {4}, x : Addresses4] \union [fam : {6}, x : Addresses6]

(* The IPv4 address that an address means, if it means one. *)
MeansV4(q) == q.fam = 4 \/ Aliased(q.x)
V4(q)      == IF q.fam = 4 THEN q.x ELSE embeddedV4[q.x]

LookupRange(q) ==
  /\ pc = "ended" /\ ~stopped /\ asked = Nothing   \* bound: one call, after Ranges
  /\ asked' = q
  /\ found' = IF MeansV4(q) THEN Range4(V4(q)) ELSE Range6(q.x)
  /\ UNCHANGED <<file, pc, walk, parts, yielded, stopped>>

-----------------------------------------------------------------------------
(* Ranges.  ranges4's start goes on from bucket c to the one of boundary b. *)
Bucket(b, c) ==
  CHOOSE d \in c..(Buckets - 1) :
    V4Idx(d + 1) > b /\ \A k \in c..(d - 1) : V4Idx(k + 1) <= b

(* ranges6's start: the exceptions are met in order, e the next one. *)
IsException(b, e) == e < Len(ExcIdx) /\ ExcIdx[e + 1] = b
AfterException(b, e) == IF IsException(b, e) THEN e + 1 ELSE e
Walked6(b, e) ==
  [hi |-> Hi(b), lo |-> IF IsException(b, e) THEN ExcLo(e + 1) ELSE 0]

(* At the start of the first loop. *)
Init ==
  /\ file \in Files
  /\ pc = "ranges4"
  /\ i = 0 /\ j = 0
  /\ g = IF n4 > 0 THEN Bucket(0, 0) ELSE 0
  /\ first = IF n4 > 0 THEN g * BucketSize + Low(0) ELSE 0
  /\ rest = [first |-> Zero6, last |-> Zero6] /\ a = 1
  /\ yielded = <<>> /\ stopped = FALSE
  /\ asked = Nothing /\ found = Nothing

(* The caller's function says whether it wants more. *)
Yield(r) ==
  /\ yielded' = Append(yielded, r)
  /\ stopped' \in BOOLEAN

NextBucket  == IF i + 1 < n4 THEN Bucket(i + 1, g) ELSE g
NextStart4  == IF i + 1 < n4 THEN NextBucket * BucketSize + Low(i + 1) ELSE 0
Walk4 ==
  /\ i' = i + 1
  /\ g' = NextBucket
  /\ first' = NextStart4

SkipGap4 ==
  /\ pc = "ranges4" /\ i < n4
  /\ Id4(i) = 0
  /\ Walk4
  /\ UNCHANGED <<file, pc, j, parts, yielded, stopped, lookup>>

(* Mutant: what the caller says is not looked at. *)
Yield4Always ==
  /\ pc = "ranges4" /\ i < n4
  /\ Id4(i) # 0
  /\ Yield([fam |-> 4, first |-> first, id |-> Id4(i),
            last |-> IF i + 1 < n4 THEN NextStart4 - 1 ELSE Top4])
  /\ Walk4
  /\ UNCHANGED <<file, pc, j, parts, lookup>>

Yield4 ==
  /\ pc = "ranges4" /\ i < n4
  /\ Id4(i) # 0
  /\ Yield([fam |-> 4, first |-> first, id |-> Id4(i),
            last |-> IF i + 1 < n4 THEN NextStart4 - 1 ELSE Top4])
  /\ pc' = IF stopped' THEN "ended" ELSE pc
  /\ Walk4
  /\ UNCHANGED <<file, j, parts, lookup>>

StartRanges6 ==
  /\ pc = "ranges4" /\ i = n4
  /\ pc' = "ranges6"
  /\ i' = 0
  /\ first' = IF n6 > 0 THEN Walked6(0, j) ELSE Zero6
  /\ j' = IF n6 > 0 THEN AfterException(0, j) ELSE j
  /\ UNCHANGED <<file, g, parts, yielded, stopped, lookup>>

NextStart6 == IF i + 1 < n6 THEN Walked6(i + 1, j) ELSE Zero6
Last6      == IF i + 1 < n6 THEN Dec128(NextStart6) ELSE Top6
Walk6 ==
  /\ i' = i + 1
  /\ first' = NextStart6
  /\ j' = IF i + 1 < n6 THEN AfterException(i + 1, j) ELSE j
  /\ UNCHANGED g

SkipGap6 ==
  /\ pc = "ranges6" /\ i < n6
  /\ Id6(i) = 0
  /\ Walk6
  /\ UNCHANGED <<file, pc, parts, yielded, stopped, lookup>>

StartParts ==
  /\ pc = "ranges6" /\ i < n6
  /\ Id6(i) # 0
  /\ pc' = "parts"
  /\ rest' = [first |-> first, last |-> Last6]
  /\ a' = 1
  /\ UNCHANGED <<file, walk, yielded, stopped, lookup>>

-----------------------------------------------------------------------------
(* yieldUnaliased *)
Part(f, l)  == [fam |-> 6, first |-> f, last |-> l, id |-> Id6(i)]
AliasesLeft == a <= Len(v6Aliases) /\ ~Less(rest.last, Alias(a).first)

PassAlias ==
  /\ pc = "parts" /\ a <= Len(v6Aliases)
  /\ Less(Alias(a).last, rest.first)
  /\ a' = a + 1
  /\ UNCHANGED <<file, pc, walk, rest, yielded, stopped, lookup>>

CutAlias ==
  /\ pc = "parts" /\ AliasesLeft
  /\ ~Less(Alias(a).last, rest.first)
  /\ IF Less(rest.first, Alias(a).first)
       THEN Yield(Part(rest.first, Dec128(Alias(a).first)))
       ELSE UNCHANGED <<yielded, stopped>>
  /\ IF stopped'
       THEN pc' = "ended" /\ UNCHANGED <<parts, walk>>
     ELSE IF ~Less(Alias(a).last, rest.last)
       THEN pc' = "ranges6" /\ Walk6 /\ UNCHANGED parts
     ELSE /\ rest' = [rest EXCEPT !.first = Inc128(Alias(a).last)]
          /\ a' = a + 1
          /\ UNCHANGED <<pc, walk>>
  /\ UNCHANGED <<file, lookup>>

YieldRest ==
  /\ pc = "parts" /\ ~AliasesLeft
  /\ Yield(Part(rest.first, rest.last))
  /\ pc' = IF stopped' THEN "ended" ELSE "ranges6"
  /\ IF stopped' THEN UNCHANGED walk ELSE Walk6
  /\ UNCHANGED <<file, parts, lookup>>

End ==
  /\ pc = "ranges6" /\ i = n6
  /\ pc' = "ended"
  /\ UNCHANGED <<file, walk, parts, yielded, stopped, lookup>>

Next ==
  \/ SkipGap4 \/ Yield4 \/ StartRanges6
  \/ SkipGap6 \/ StartParts \/ PassAlias \/ CutAlias \/ YieldRest \/ End
  \/ \E q \in Asked : LookupRange(q)

Spec == Init /\ [][Next]_vars

-----------------------------------------------------------------------------
(* Properties *)

(* What Lookup answers, 0 for nothing. *)
Answer4(x) == IF Index4(x) >= 0 THEN Id4(Index4(x)) ELSE 0
Answer6(x) == IF Index6(x) >= 0 THEN Id6(Index6(x)) ELSE 0

In(x, r) == IF r.fam = 4 THEN r.first <= x /\ x <= r.last
            ELSE Within(x, r.first, r.last)

YieldedFor(f, x) ==
  {yielded[k].id : k \in {m \in DOMAIN yielded :
                           yielded[m].fam = f /\ In(x, yielded[m])}}

(* No table is read beyond its end, and what is yielded are addresses.     *)
TypeOK ==
  /\ pc \in {"ranges4", "ranges6", "parts", "ended"}
  /\ i \in 0..(IF pc = "ranges4" THEN n4 ELSE IF n4 > n6 THEN n4 ELSE n6)
  /\ g \in 0..(Buckets - 1) /\ j \in 0..Len(ExcIdx)
  /\ pc = "ranges4" => first \in Addresses4
  /\ pc \in {"ranges6", "parts"} => first \in Addresses6
  /\ rest \in [first : Addresses6, last : Addresses6]
  /\ a \in 1..(Len(v6Aliases) + 1)
  /\ \A k \in DOMAIN yielded :
       LET r == yielded[k] IN
       {r.first, r.last} \subseteq IF r.fam = 4 THEN Addresses4 ELSE Addresses6
  /\ stopped \in BOOLEAN

(* Each range lies above the one before and is not empty. *)
Ascending ==
  \A k \in DOMAIN yielded :
    LET r == yielded[k] IN
    /\ In(r.first, r)
    /\ k > 1 =>
         LET p == yielded[k - 1] IN
         \/ p.fam = 4 /\ r.fam = 6
         \/ p.fam = 4 /\ r.fam = 4 /\ p.last < r.first
         \/ p.fam = 6 /\ r.fam = 6 /\ Less(p.last, r.first)

(* "The covered ranges in ascending order, the IPv4 ones before the IPv6   *)
(* ones ... as LookupDetails would return them" (ranges.go:41), whether or *)
(* not the caller asks for all: each lies above the one before, is not     *)
(* empty, and has the answer of each of its addresses, no one of them an   *)
(* alias.                                                                  *)
RangesAscend ==
  /\ Ascending
  /\ \A k \in DOMAIN yielded :
       LET r == yielded[k] IN
       /\ r.id # 0
       /\ IF r.fam = 4
          THEN \A x \in Addresses4 : In(x, r) => r.id = Answer4(x)
          ELSE \A x \in Addresses6 : In(x, r) => r.id = Answer6(x) /\ ~Aliased(x)

(* A caller that asks for all gets every covered address once, in a range  *)
(* with its answer, and no alias of an IPv4 address.                       *)
RangesComplete ==
  pc = "ended" /\ ~stopped =>
    /\ \A x \in Addresses4 : YieldedFor(4, x) = {Answer4(x)} \ {0}
    /\ \A x \in Addresses6 :
         YieldedFor(6, x) = IF Aliased(x) THEN {} ELSE {Answer6(x)} \ {0}

(* "Every address in a returned range has the same answer" (ranges.go:22), *)
(* the one of the address asked for, which is in it.                       *)
OneAnswer ==
  asked # Nothing =>
    IF MeansV4(asked)
    THEN /\ found.fam = 4 /\ In(V4(asked), found)
         /\ \A x \in Addresses4 : In(x, found) => Answer4(x) = found.id
    ELSE /\ found.fam = 6 /\ In(asked.x, found)
         /\ \A x \in Addresses6 :
              In(x, found) => ~Aliased(x) /\ Answer6(x) = found.id

(* LookupRange's range is the one Ranges yields: "leave out the prefixes   *)
(* Lookup maps to IPv4, as LookupRange does" (ranges.go:45).               *)
SameRange ==
  asked # Nothing /\ found.id # 0 =>
    \E k \in DOMAIN yielded :
      yielded[k].fam = found.fam /\ yielded[k] = found

(* Once the caller has asked for no more it is not called again, which     *)
(* would panic.                                                            *)
StopsAtOnce == [][stopped => UNCHANGED <<yielded, stopped>>]_vars
=============================================================================
