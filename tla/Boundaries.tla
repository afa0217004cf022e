----------------------------- MODULE Boundaries -----------------------------
(***************************************************************************)
(* The data of one address family: networks, the range boundaries that     *)
(* encode them, and what each of the two answers for an address.           *)
(* Addresses are 0..Top; for IPv4 Top is 2^32-1, for IPv6 2^128-1.         *)
(***************************************************************************)
EXTENDS Integers, Sequences

CONSTANTS
  Top,      \* the last address of the family
  Records   \* the record numbers data may have; 0 is reserved for gaps

ASSUME TopAssumption     == Top \in Nat
ASSUME RecordsAssumption == Records \subseteq Nat \ {0}

NoRecord  == 0
Addresses == 0..Top

(* A network: every address from start to last maps to record rec. *)
Ranges == {r \in [start : Addresses, last : Addresses, rec : Records] :
             r.start <= r.last}

Contains(r, a) == r.start <= a /\ a <= r.last

Overlap(r, s) == r.start <= s.last /\ s.start <= r.last

Disjoint(rs) == \A r, s \in rs : r # s => ~Overlap(r, s)

(* The record a set of disjoint networks gives address a. *)
RecordOf(rs, a) ==
  IF \E r \in rs : Contains(r, a)
  THEN (CHOOSE r \in rs : Contains(r, a)).rec
  ELSE NoRecord

(***************************************************************************)
(* A boundary starts a range of addresses that maps to record rec and      *)
(* extends up to the next boundary.                                        *)
(***************************************************************************)
BoundarySet == [start : Addresses, rec : Records \union {NoRecord}]

Boundary(start, rec) == [start |-> start, rec |-> rec]

Ascending(bs) == \A i, j \in 1..Len(bs) : i < j => bs[i].start < bs[j].start

(* Address a lies in the run that boundary i of bs starts. *)
InRun(bs, i, a) ==
  /\ bs[i].start <= a
  /\ i < Len(bs) => a < bs[i + 1].start

(* The record a list of ascending boundaries gives address a. *)
RecordAt(bs, a) ==
  IF \E i \in 1..Len(bs) : InRun(bs, i, a)
  THEN bs[CHOOSE i \in 1..Len(bs) : InRun(bs, i, a)].rec
  ELSE NoRecord
=============================================================================
