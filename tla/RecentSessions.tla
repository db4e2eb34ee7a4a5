--------------------------- MODULE RecentSessions ---------------------------
(***************************************************************************)
(* What the session ring promises (src/workload/ring.go): it remembers the *)
(* last Size ids pushed, and a sample is one of them, or none when nothing *)
(* has been pushed yet.                                                    *)
(***************************************************************************)
EXTENDS Integers, Sequences, SequencesExt

CONSTANTS Ids, Size, Nil

VARIABLES recent, got

Init == recent = <<>> /\ got = Nil

\* The last Size elements of s.
LastOf(s) == IF Len(s) <= Size THEN s ELSE SubSeq(s, Len(s) - Size + 1, Len(s))

Push(id) == recent' = LastOf(Append(recent, id)) /\ UNCHANGED got

Sample ==
  /\ got' \in IF recent = <<>> THEN {Nil} ELSE ToSet(recent)
  /\ UNCHANGED recent

Next == Sample \/ \E id \in Ids : Push(id)

Spec == Init /\ [][Next]_<<recent, got>>
=============================================================================
