------------------------------- MODULE Merger -------------------------------
(***************************************************************************)
(* merger4 of internal/build/merge.go: IPv4 networks become sorted range   *)
(* boundaries as they arrive.  Networks in ascending order are merged in   *)
(* one pass.  The first network that does not start above the previous one *)
(* makes add recover the ranges merged so far from the boundaries; from    *)
(* then on every network is collected, and finish sorts them and merges    *)
(* them all again.                                                         *)
(*                                                                         *)
(* finish is split into its reset, one step per pass of its loop and its   *)
(* closing push, so that the loop has an invariant.  The slice of          *)
(* collected ranges is a set: it is only appended to and then sorted by    *)
(* start, and the starts of networks that do not overlap differ.           *)
(***************************************************************************)
EXTENDS Boundaries

VARIABLES
  out,         \* the boundaries pushed
  expected,    \* one past the last address of the previous range
  lastRec,     \* the record of the open run, or NoRecord
  prev,        \* the start of the previous range, once started
  started,
  collecting,  \* merger4.unsorted is not nil
  unsorted,    \* the ranges it holds
  phase,       \* adding, then finish: replaying, done
  added        \* history: the networks the caller added

merged == <<out, expected, lastRec>>
vars   == <<merged, prev, started, collecting, unsorted, phase, added>>

Init ==
  /\ out = <<>> /\ expected = 0 /\ lastRec = NoRecord
  /\ prev = 0 /\ started = FALSE
  /\ collecting = FALSE /\ unsorted = {}
  /\ phase = "adding"
  /\ added = {}

-----------------------------------------------------------------------------
(* merger4.step: merge r, which starts above every range merged before. *)
Gap(r) == lastRec # NoRecord /\ r.start > expected

Closed(r) ==
  IF Gap(r) THEN Append(out, Boundary(expected, NoRecord)) ELSE out

(* Mutant: a boundary for every network, although its run is open. *)
OpenedUnmerged(r) == Append(Closed(r), Boundary(r.start, r.rec))

Opened(r) ==
  IF Gap(r) \/ r.rec # lastRec
  THEN Append(Closed(r), Boundary(r.start, r.rec))
  ELSE Closed(r)

Step(r) ==
  /\ out' = Opened(r)
  /\ lastRec' = r.rec
  /\ expected' = r.last + 1

(* merger4.ranges: one range per run that has a record. *)
(* Mutant: the open run reaches one address too far. *)
RunEndExpected(i) == IF i < Len(out) THEN out[i + 1].start - 1 ELSE expected

RunEnd(i) == IF i < Len(out) THEN out[i + 1].start - 1 ELSE expected - 1

Run(i) == [start |-> out[i].start, last |-> RunEnd(i), rec |-> out[i].rec]

(* Mutant: the last run is not recovered. *)
RecoveredButLast ==
  {Run(i) : i \in {j \in 1..(Len(out) - 1) : out[j].rec # NoRecord}}

RecoveredRanges == {Run(i) : i \in {j \in 1..Len(out) : out[j].rec # NoRecord}}

-----------------------------------------------------------------------------
(* merger4.add, by case.  The caller adds networks that do not overlap. *)
New(r) ==
  /\ phase = "adding"
  /\ \A s \in added : ~Overlap(r, s)
  /\ added' = added \union {r}
  /\ UNCHANGED phase

(* Mutant: a network that starts below the previous one is not noticed. *)
OutOfOrderIfEqual(r) == started /\ r.start = prev

OutOfOrder(r) == started /\ r.start <= prev

AddInOrder(r) ==
  /\ New(r)
  /\ ~collecting /\ ~OutOfOrder(r)
  /\ started' = TRUE /\ prev' = r.start
  /\ Step(r)
  /\ UNCHANGED <<collecting, unsorted>>

AddOutOfOrder(r) ==
  /\ New(r)
  /\ ~collecting /\ OutOfOrder(r)
  /\ collecting' = TRUE
  /\ unsorted' = RecoveredRanges \union {r}
  /\ UNCHANGED <<merged, prev, started>>

AddCollected(r) ==
  /\ New(r)
  /\ collecting
  /\ unsorted' = unsorted \union {r}
  /\ UNCHANGED <<merged, prev, started, collecting>>

-----------------------------------------------------------------------------
(* merger4.finish: the reset before the loop when the input was unordered. *)
Reset ==
  /\ phase = "adding" /\ collecting
  /\ phase' = "replaying"
  /\ out' = <<>> /\ expected' = 0 /\ lastRec' = NoRecord
  /\ prev' = 0 /\ started' = FALSE
  /\ collecting' = FALSE
  /\ UNCHANGED <<unsorted, added>>

(* Its loop over the sorted ranges: the least start comes first. *)
Replay(r) ==
  /\ phase = "replaying"
  /\ \A s \in unsorted : r.start <= s.start
  /\ Step(r)
  /\ unsorted' = unsorted \ {r}
  /\ UNCHANGED <<prev, started, collecting, phase, added>>

(* Its end: an open run that ends below the top is followed by a gap. *)
GapFollows == lastRec # NoRecord /\ expected <= Top

Close ==
  /\ \/ phase = "adding" /\ ~collecting
     \/ phase = "replaying" /\ unsorted = {}
  /\ phase' = "done"
  /\ out' = IF GapFollows
            THEN Append(out, Boundary(expected, NoRecord))
            ELSE out
  /\ UNCHANGED <<expected, lastRec, prev, started, collecting, unsorted, added>>

Next ==
  \/ \E r \in Ranges : AddInOrder(r) \/ AddOutOfOrder(r) \/ AddCollected(r)
  \/ Reset
  \/ \E r \in unsorted : Replay(r)
  \/ Close

Spec == Init /\ [][Next]_vars

-----------------------------------------------------------------------------
(* Properties *)

(* The variables hold values the code's types can hold: in particular no   *)
(* boundary past the top of the address space is ever pushed.              *)
TypeOK ==
  /\ out \in Seq(BoundarySet)
  /\ expected \in 0..(Top + 1)
  /\ lastRec \in Records \union {NoRecord}
  /\ prev \in Addresses
  /\ started \in BOOLEAN /\ collecting \in BOOLEAN
  /\ unsorted \subseteq Ranges
  /\ phase \in {"adding", "replaying", "done"}
  /\ added \subseteq Ranges

(* The record the merger's state holds for address a: collected ranges and *)
(* ranges finish has yet to merge, then the boundaries, of which the last  *)
(* one is open up to expected until finish closes it.                      *)
Held(a) ==
  IF \E r \in unsorted : Contains(r, a) THEN RecordOf(unsorted, a)
  ELSE IF collecting THEN NoRecord
  ELSE IF phase = "done" \/ a < expected THEN RecordAt(out, a)
  ELSE NoRecord

(* At every point of the merge, in the recovery and in the loop of finish  *)
(* too, the merger holds exactly the networks that were added: none is     *)
(* lost, stretched over a gap or shortened (add, ranges, finish).          *)
NothingLost == \A a \in Addresses : Held(a) = RecordOf(added, a)

(* The boundaries ascend strictly, which is what every reader searches     *)
(* and what parseGEO2 insists on.                                          *)
BoundariesAscend == Ascending(out)

(* "The boundaries are the same either way" (merge.go:67): those of finish *)
(* depend on the networks only, not on the order they came in or on which  *)
(* path merged them.  A boundary starts where, and only where, the record  *)
(* changes, so adjacent networks with one record share a run.              *)
ChangesAt(a) ==
  RecordOf(added, a) # IF a = 0 THEN NoRecord ELSE RecordOf(added, a - 1)

SameEitherWay ==
  phase = "done" =>
    {out[i].start : i \in 1..Len(out)} = {a \in Addresses : ChangesAt(a)}

(* The published map is the one the abstract builder publishes. *)
answers ==
  IF phase = "done" THEN [a \in Addresses |-> RecordAt(out, a)] ELSE <<>>

Abstract == INSTANCE Coverage

ImplementsCoverage == Abstract!Spec
=============================================================================
