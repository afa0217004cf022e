------------------------------ MODULE Search4 -------------------------------
(***************************************************************************)
(* The IPv4 lookup, from the boundaries the builder publishes to the       *)
(* boundary that answers a key:                                            *)
(*   appendV4Idx (internal/build/encode.go) derives V4IDX from the starts, *)
(*   of which a file keeps only the low 16 bits;                           *)
(*   buildIndex4 (reader.go) derives the top-20 table lo4 from V4IDX and   *)
(*   those low bits;                                                       *)
(*   search4 (reader.go) binary-searches the low bits in lo4's window.     *)
(* A bucket holds the addresses with one value of the top 16 bits, and is  *)
(* split into Subs windows of SubSize addresses, one per lo4 entry: in the *)
(* code there are 2^16 buckets of 16 windows of 4096 addresses.            *)
(*                                                                         *)
(* Boundaries are counted from 0, as in the code: boundary i of n starts   *)
(* at Start(i).                                                            *)
(***************************************************************************)
EXTENDS Integers, Sequences

CONSTANTS
  Buckets,     \* top-16 buckets
  Subs,        \* windows (lo4 entries) per bucket
  SubSize,     \* addresses per window
  StartLists   \* the lists of starts to look up in

ASSUME SizeAssumption ==
  Buckets \in Nat \ {0} /\ Subs \in Nat \ {0} /\ SubSize \in Nat \ {0}

BucketSize == Subs * SubSize
Addresses  == 0..(Buckets * BucketSize - 1)

(* parseGEO2 accepts, and the mergers produce, ascending starts only. *)
ASSUME StartListsAssumption ==
  \A s \in StartLists :
    /\ s \in Seq(Addresses)
    /\ \A i, j \in 1..Len(s) : i < j => s[i] < s[j]

VARIABLES
  starts,      \* the boundaries' starts
  v4idx, lo4,  \* the tables, as sequences of the entries filled so far
  pc,          \* appendV4Idx, buildIndex4, ready, search4, answered
  i,           \* the loop variable of the two builders
  key, l, h,   \* search4's argument and bounds
  answer       \* how many boundaries search4 found at or below key

tables == <<starts, v4idx, lo4>>
vars   == <<tables, pc, i, key, l, h, answer>>

n          == Len(starts)
Start(b)   == starts[b + 1]
Bucket(a)  == a \div BucketSize
Window(a)  == a \div SubSize
Low(a)     == a % BucketSize          \* V4STARTS: the low 16 bits

V4Idx(g)   == v4idx[g + 1]
Lo4(w)     == lo4[w + 1]

Init ==
  /\ starts \in StartLists
  /\ v4idx = <<>> /\ lo4 = <<>>
  /\ pc = "appendV4Idx"
  /\ i = 0
  /\ key = 0 /\ l = 0 /\ h = 0 /\ answer = 0

-----------------------------------------------------------------------------
(* appendV4Idx: entry g is appended while boundary i is at bucket g or     *)
(* above; past the last boundary every entry left is n.                    *)
NextBucket == Len(v4idx)

AppendEntry ==
  /\ pc = "appendV4Idx"
  /\ NextBucket <= Buckets
  /\ i < n => NextBucket <= Bucket(Start(i))
  /\ v4idx' = Append(v4idx, i)
  /\ UNCHANGED <<starts, lo4, pc, i, key, l, h, answer>>

NextBoundary ==
  /\ pc = "appendV4Idx"
  /\ i < n /\ NextBucket > Bucket(Start(i))
  /\ i' = i + 1
  /\ UNCHANGED <<tables, pc, key, l, h, answer>>

StartBuild ==
  /\ pc = "appendV4Idx"
  /\ NextBucket > Buckets
  /\ i = n
  /\ pc' = "buildIndex4"
  /\ i' = V4Idx(0)
  /\ UNCHANGED <<tables, key, l, h, answer>>

-----------------------------------------------------------------------------
(* buildIndex4: window k of bucket g starts at the first boundary of the   *)
(* bucket whose low bits are at or above k windows.                        *)
NextWindow == Len(lo4)
G          == NextWindow \div Subs
K          == NextWindow % Subs

(* Mutant: the first boundary of a window is skipped, too. *)
BelowOrAtWindow == i < V4Idx(G + 1) /\ Low(Start(i)) <= K * SubSize

BelowWindow == i < V4Idx(G + 1) /\ Low(Start(i)) < K * SubSize

SkipBoundary ==
  /\ pc = "buildIndex4"
  /\ NextWindow < Buckets * Subs
  /\ BelowWindow
  /\ i' = i + 1
  /\ UNCHANGED <<tables, pc, key, l, h, answer>>

FillEntry ==
  /\ pc = "buildIndex4"
  /\ NextWindow < Buckets * Subs
  /\ ~BelowWindow
  /\ lo4' = Append(lo4, i)
  /\ i' = IF K = Subs - 1 THEN V4Idx(G + 1) ELSE i
  /\ UNCHANGED <<starts, v4idx, pc, key, l, h, answer>>

LastEntry == n

EndBuild ==
  /\ pc = "buildIndex4"
  /\ NextWindow = Buckets * Subs
  /\ lo4' = Append(lo4, LastEntry)
  /\ pc' = "ready"
  /\ UNCHANGED <<starts, v4idx, i, key, l, h, answer>>

-----------------------------------------------------------------------------
(* search4 *)
Lookup(k) ==
  /\ pc \in {"ready", "answered"}
  /\ pc' = "search4"
  /\ key' = k
  /\ l' = Lo4(Window(k))
  /\ h' = Lo4(Window(k) + 1)
  /\ UNCHANGED <<tables, i, answer>>

mid == (l + h) \div 2

(* Mutant: a boundary that starts at the key is taken to be above it. *)
AboveOrAt(b) == Low(Start(b)) >= Low(key)

Above(b) == Low(Start(b)) > Low(key)

HalveDown ==
  /\ pc = "search4" /\ l < h
  /\ Above(mid)
  /\ h' = mid
  /\ UNCHANGED <<tables, pc, i, key, l, answer>>

(* Mutant: mid stays in the window. *)
HalveUpToMid ==
  /\ pc = "search4" /\ l < h
  /\ ~Above(mid)
  /\ l' = mid
  /\ UNCHANGED <<tables, pc, i, key, h, answer>>

HalveUp ==
  /\ pc = "search4" /\ l < h
  /\ ~Above(mid)
  /\ l' = mid + 1
  /\ UNCHANGED <<tables, pc, i, key, h, answer>>

(* Mutant: only a boundary of the key's own window answers. *)
FoundInWindow == IF l = Lo4(Window(key)) THEN 0 ELSE l

(* Boundary l - 1 answers; none does when l is 0. *)
Found == l

Answer ==
  /\ pc = "search4" /\ l >= h
  /\ pc' = "answered"
  /\ answer' = Found
  /\ UNCHANGED <<tables, i, key, l, h>>

Next ==
  \/ AppendEntry \/ NextBoundary \/ StartBuild
  \/ SkipBoundary \/ FillEntry \/ EndBuild
  \/ \E k \in Addresses : Lookup(k)
  \/ HalveDown \/ HalveUp \/ Answer

Spec == Init /\ [][Next]_vars

(* search4 is a loop in one goroutine: it runs once it was called. *)
Search   == HalveDown \/ HalveUp \/ Answer
FairSpec == Spec /\ WF_vars(Search)

-----------------------------------------------------------------------------
(* Properties *)

(* Every index the builders and search4 compute stays inside the table it  *)
(* is used on: the searches index the sections without further checks.     *)
TypeOK ==
  /\ starts \in StartLists
  /\ v4idx \in Seq(0..n) /\ Len(v4idx) <= Buckets + 1
  /\ lo4 \in Seq(0..n) /\ Len(lo4) <= Buckets * Subs + 1
  /\ pc \in {"appendV4Idx", "buildIndex4", "ready", "search4", "answered"}
  /\ i \in 0..n /\ l \in 0..n /\ h \in 0..n /\ answer \in 0..n
  /\ key \in Addresses

(* SplitsAt(c, a): the boundaries below a are exactly the first c. *)
SplitsAt(c, a) ==
  /\ \A b \in 0..(c - 1) : Start(b) < a
  /\ \A b \in c..(n - 1) : Start(b) >= a

(* "lo4[g] is the index of the first boundary whose absolute start is      *)
(* >= g<<v4Shift" (reader.go:57), although buildIndex4 sees the low 16     *)
(* bits of the starts only, and an entry of V4IDX the same for its bucket. *)
TablesSplit ==
  /\ \A g \in 0..(Len(v4idx) - 1) : SplitsAt(V4Idx(g), g * BucketSize)
  /\ \A w \in 0..(Len(lo4) - 1) : SplitsAt(Lo4(w), w * SubSize)

(* The bounds of the search always enclose the answer: the boundaries      *)
(* before l are at or below the key, those from h on above it.  Comparing  *)
(* low 16 bits is enough because the window's boundaries share the top 16. *)
BoundsEnclose ==
  pc = "search4" =>
    /\ \A b \in 0..(l - 1) : Start(b) <= key
    /\ \A b \in h..(n - 1) : Start(b) > key

(* search4 answers with the last boundary at or below the key, also when   *)
(* that one lies in an earlier window, and with none below the first.      *)
LastAtOrBelow ==
  pc = "answered" => SplitsAt(answer, key + 1)

(* Every lookup is answered: a pass that kept its window would repeat for  *)
(* ever, which is how a halving with the wrong middle goes wrong.          *)
SearchEnds == pc = "search4" ~> pc = "answered"
=============================================================================
