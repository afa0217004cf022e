------------------------------- MODULE Input --------------------------------
(***************************************************************************)
(* What every step of opening an input shares: the input, how far its      *)
(* checks have come and what they concluded, and what the tables of a      *)
(* Reader owe the searches that read them.                                 *)
(*                                                                         *)
(* An input is modelled by the values its bytes hold where the checks read *)
(* them, beside its size: any input has such values, consistent with its   *)
(* size and counts or not.  What a check reads past the listed values of a *)
(* section is 0.                                                           *)
(***************************************************************************)
EXTENDS Format

CONSTANTS
  Word64,      \* uint64 arithmetic is modulo this
  MaxFileSize, \* maxFileSize
  MaxUint16,   \* the greatest id in a 16-bit field
  Buckets,     \* top-16 buckets of IPv4 addresses
  BucketSize   \* addresses in a bucket

(* The product of checkExtensions does not wrap: "The width is below 2^34  *)
(* and there are fewer than 2^28 records" (geo2.go), as a file of the      *)
(* greatest size has room for that many languages, and records of ten      *)
(* bytes.                                                                  *)
ASSUME InputAssumption ==
  /\ {Word64, MaxFileSize, Buckets, BucketSize} \subseteq Nat \ {0}
  /\ MaxUint16 \in Nat
  /\ HeaderSize <= MaxFileSize /\ MaxFileSize < Word64
  /\ (53 + 21 * (MaxFileSize \div 4)) * (MaxFileSize \div 10) < Word64

VARIABLES
  file,        \* the input
  skipCRC,     \* the SkipChecksum option
  source,      \* a sequence of the one database the input was written from, or <<>>
  stage,          \* the next check, "open" or "refused"
  outcome,     \* the error of a refused input
  off          \* the GEO1 cursor

PassTo(step) == stage' = step /\ UNCHANGED <<file, skipCRC, source, outcome>>

Refuse(err) ==
  /\ stage' = "refused" /\ outcome' = err
  /\ UNCHANGED <<file, skipCRC, source>>

(* A check passes to the next one or ends the opening. *)
Check(ok, next) == IF ok THEN PassTo(next) ELSE Refuse("ErrCorrupt")

(* Element k of s, counted from 0, or d past the end. *)
Elt(s, k, d) == IF k + 1 \in DOMAIN s THEN s[k + 1] ELSE d
At(s, k)     == Elt(s, k, 0)

Less128(a, b) == a[1] < b[1] \/ (a[1] = b[1] /\ a[2] < b[2])

-----------------------------------------------------------------------------
(* A Reader's tables t, with the sizes the Reader derives for them.        *)

(* IPv4 start i is the low half in V4STARTS under the bucket whose part of *)
(* V4IDX i lies in.                                                        *)
BucketsOf(t, i) == {g \in 0..(Buckets - 1) : At(t.v4idx, g) <= i /\ i < At(t.v4idx, g + 1)}
Start4(t, i)    == Max(BucketsOf(t, i)) * BucketSize + At(t.v4starts, i)

(* IPv6 start i has the high half in V6STARTS, and a low half of 0 unless  *)
(* the exceptions list it.                                                 *)
LowHalves(t, i) == {At(t.v6excLo, j) : j \in {e \in 0..(t.nExc - 1) : At(t.v6excIdx, e) = i}}
Start6(t, i)    == <<At(t.v6starts, i), IF LowHalves(t, i) = {} THEN 0 ELSE Max(LowHalves(t, i))>>

(* What search4, search6 and Ranges take for granted of the starts. *)
SearchableV4(t) ==
  /\ \A i \in 0..(t.nV4 - 1) : BucketsOf(t, i) # {}
  /\ \A i, j \in 0..(t.nV4 - 1) : i < j => Start4(t, i) < Start4(t, j)
  /\ \A g \in 0..Buckets :
       At(t.v4idx, g) = Cardinality({i \in 0..(t.nV4 - 1) : Start4(t, i) < g * BucketSize})

SearchableV6(t) ==
  /\ \A i, j \in 0..(t.nV6 - 1) : i < j => Less128(Start6(t, i), Start6(t, j))
  /\ \A e, f \in 0..(t.nExc - 1) : e < f => At(t.v6excIdx, e) < At(t.v6excIdx, f)
  /\ \A e \in 0..(t.nExc - 1) : At(t.v6excIdx, e) < t.nV6 /\ At(t.v6excLo, e) # 0

(* What decode and details take for granted of the ids. *)
Decodable(t) ==
  /\ \A i \in 0..(t.nV4 - 1) : At(t.v4ids, i) < t.nRecords
  /\ \A i \in 0..(t.nV6 - 1) : At(t.v6ids, i) < t.nRecords
  /\ \A r \in 0..(t.nRecords - 1) : t.stringsOf[r] \subseteq 0..(t.nStrings - 1)
=============================================================================
