------------------------------ MODULE Coverage ------------------------------
(***************************************************************************)
(* What a database builder promises for one address family: networks that  *)
(* do not overlap are added in any order, each with the record its         *)
(* addresses map to, and finish publishes, once, a total map from          *)
(* addresses to records that answers every address of an added network     *)
(* with that network's record and every other address with NoRecord.       *)
(* The mergers of internal/build/merge.go implement it.                    *)
(***************************************************************************)
EXTENDS Boundaries

VARIABLES
  added,    \* the set of networks added so far
  answers   \* NotFinished, then the published map

NotFinished == <<>>

Init ==
  /\ added = {}
  /\ answers = NotFinished

Add(r) ==
  /\ answers = NotFinished
  /\ \A s \in added : ~Overlap(r, s)
  /\ added' = added \union {r}
  /\ UNCHANGED answers

Finish ==
  /\ answers = NotFinished
  /\ answers' = [a \in Addresses |-> RecordOf(added, a)]
  /\ UNCHANGED added

Next ==
  \/ \E r \in Ranges : Add(r)
  \/ Finish

Spec == Init /\ [][Next]_<<added, answers>>
=============================================================================
