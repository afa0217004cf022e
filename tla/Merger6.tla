------------------------------ MODULE Merger6 -------------------------------
(***************************************************************************)
(* merger6 of internal/build/merge.go.  It differs from merger4 in one     *)
(* thing: an IPv6 address fills its 16 bytes, so "one past the last        *)
(* address" of a range that ends at the top of the address space wraps to  *)
(* address 0, and a flag, haveExpected, tells that case (and the start)    *)
(* from an expected address of 0.  Here the wrap is an increment modulo    *)
(* Top + 1, and merger6 is shown to behave as merger4 does with integers   *)
(* that do not wrap.                                                       *)
(***************************************************************************)
EXTENDS Boundaries

VARIABLES
  out, expected, haveExpected, lastRec, prev, started, collecting, unsorted,
  phase, added    \* as in Merger

merged == <<out, expected, haveExpected, lastRec>>
vars   == <<merged, prev, started, collecting, unsorted, phase, added>>

Size == Top + 1

(* inc16, whose overflow flag is set when it wraps to 0. *)
Inc16(a) == [res |-> (a + 1) % Size, overflow |-> a = Top]

(* Mutant: the borrow stops at address 0. *)
Dec16Saturated(a) == IF a = 0 THEN 0 ELSE a - 1

(* dec16, which wraps 0 to the top. *)
Dec16(a) == (a + Top) % Size

Init ==
  /\ out = <<>> /\ expected = 0 /\ haveExpected = FALSE /\ lastRec = NoRecord
  /\ prev = 0 /\ started = FALSE
  /\ collecting = FALSE /\ unsorted = {}
  /\ phase = "adding"
  /\ added = {}

-----------------------------------------------------------------------------
(* merger6.step *)
Gap(r) ==
  /\ lastRec # NoRecord
  /\ IF haveExpected THEN r.start > expected ELSE r.start # expected

Closed(r) ==
  IF Gap(r) THEN Append(out, Boundary(expected, NoRecord)) ELSE out

Opened(r) ==
  IF Gap(r) \/ r.rec # lastRec
  THEN Append(Closed(r), Boundary(r.start, r.rec))
  ELSE Closed(r)

Step(r) ==
  /\ out' = Opened(r)
  /\ lastRec' = r.rec
  /\ expected' = Inc16(r.last).res
  /\ haveExpected' = ~Inc16(r.last).overflow

(* merger6.ranges: one range per run that has a record. *)
RunEnd(i) == IF i < Len(out) THEN Dec16(out[i + 1].start) ELSE Dec16(expected)

Run(i) == [start |-> out[i].start, last |-> RunEnd(i), rec |-> out[i].rec]

RecoveredRanges == {Run(i) : i \in {j \in 1..Len(out) : out[j].rec # NoRecord}}

-----------------------------------------------------------------------------
(* merger6.add, by case.  The caller adds networks that do not overlap. *)
New(r) ==
  /\ phase = "adding"
  /\ \A s \in added : ~Overlap(r, s)
  /\ added' = added \union {r}
  /\ UNCHANGED phase

OutOfOrder(r) == started /\ r.start <= prev

AddInOrder(r) ==
  /\ New(r)
  /\ ~collecting /\ ~OutOfOrder(r)
  /\ started' = TRUE /\ prev' = r.start
  /\ Step(r)
  /\ UNCHANGED <<collecting, unsorted>>

AddOutOfOrder(r) ==
  /\ New(r)
  /\ ~collecting /\ OutOfOrder(r)
  /\ collecting' = TRUE
  /\ unsorted' = RecoveredRanges \union {r}
  /\ UNCHANGED <<merged, prev, started>>

AddCollected(r) ==
  /\ New(r)
  /\ collecting
  /\ unsorted' = unsorted \union {r}
  /\ UNCHANGED <<merged, prev, started, collecting>>

-----------------------------------------------------------------------------
(* merger6.finish: the reset before the loop when the input was unordered. *)
Reset ==
  /\ phase = "adding" /\ collecting
  /\ phase' = "replaying"
  /\ out' = <<>> /\ expected' = 0 /\ lastRec' = NoRecord /\ haveExpected' = FALSE
  /\ prev' = 0 /\ started' = FALSE
  /\ collecting' = FALSE
  /\ UNCHANGED <<unsorted, added>>

(* Its loop over the sorted ranges: the least start comes first. *)
Replay(r) ==
  /\ phase = "replaying"
  /\ \A s \in unsorted : r.start <= s.start
  /\ Step(r)
  /\ unsorted' = unsorted \ {r}
  /\ UNCHANGED <<prev, started, collecting, phase, added>>

(* Its end: the open run, if any, ends below the top of the addresses. *)
Close ==
  /\ \/ phase = "adding" /\ ~collecting
     \/ phase = "replaying" /\ unsorted = {}
  /\ phase' = "done"
  /\ out' = IF lastRec # NoRecord /\ haveExpected
            THEN Append(out, Boundary(expected, NoRecord))
            ELSE out
  /\ UNCHANGED <<expected, haveExpected, lastRec, prev, started, collecting, unsorted, added>>

Next ==
  \/ \E r \in Ranges : AddInOrder(r) \/ AddOutOfOrder(r) \/ AddCollected(r)
  \/ Reset
  \/ \E r \in unsorted : Replay(r)
  \/ Close

Spec == Init /\ [][Next]_vars

-----------------------------------------------------------------------------
(* Properties *)

(* merger4's expected, of which merger6 keeps the low bits and a flag. *)
unwrapped ==
  IF haveExpected THEN expected ELSE IF out = <<>> THEN 0 ELSE Size

AsMerger4 == INSTANCE Merger WITH expected <- unwrapped

(* "merger6 is merger4 for IPv6" (merge.go:138): every step of merger6 is  *)
(* the same step of merger4, wrapped expected address or not.  In          *)
(* particular the boundaries of finish are the same.                       *)
ImplementsMerger4 == AsMerger4!Spec
=============================================================================
