---------------------------- MODULE SessionRing ----------------------------
(***************************************************************************)
(* The ring of recently inserted session ids (src/workload/ring.go).  Push *)
(* and Sample hold the ring's mutex throughout, so each is one step.       *)
(***************************************************************************)
EXTENDS Integers, Sequences

CONSTANTS
  Ids,        \* session ids
  Size,       \* cfg.RingSize
  Nil         \* uuid.Nil: an unused slot, and the answer of an empty ring

ASSUME RingAssumption == Size \in Nat \ {0} /\ Nil \notin Ids

VARIABLES
  buf, head, fill,    \* the fields of SessionRing; buf is indexed from 0
  got                 \* what the last Sample returned

vars == <<buf, head, fill, got>>

Slots == 0..(Size - 1)

Init ==
  /\ buf = [i \in Slots |-> Nil]
  /\ head = 0 /\ fill = 0
  /\ got = Nil

\* Regression: the first slot is left out when the ring wraps.
Push_SkipsSlot(id) ==
  /\ buf' = [buf EXCEPT ![head] = id]
  /\ head' = IF head = Size - 1 THEN 1 % Size ELSE head + 1
  /\ fill' = IF fill < Size THEN fill + 1 ELSE fill
  /\ got' = got

Push(id) ==
  /\ buf' = [buf EXCEPT ![head] = id]
  /\ head' = (head + 1) % Size
  /\ fill' = IF fill < Size THEN fill + 1 ELSE fill
  /\ got' = got

\* What Sample may return: rng.Intn(r.fill) is any populated slot.
Samples == IF fill = 0 THEN {Nil} ELSE {buf[i] : i \in 0..(fill - 1)}

Sample ==
  /\ got' \in Samples
  /\ UNCHANGED <<buf, head, fill>>

Next == Sample \/ \E id \in Ids : Push(id)

Spec == Init /\ [][Next]_vars
-----------------------------------------------------------------------------
(* Properties *)

\* Types, and until the ring is full head counts the slots in use.
TypeOK ==
  /\ buf \in [Slots -> Ids \cup {Nil}]
  /\ head \in Slots /\ fill \in 0..Size
  /\ got \in Ids \cup {Nil}
  /\ fill < Size => head = fill
  /\ \A i \in Slots : buf[i] = Nil <=> i >= fill

\* The slots in the order they were pushed: from head on once the ring is
\* full, from slot 0 before.
Recent ==
  [i \in 1..fill |-> buf[IF fill < Size THEN i - 1 ELSE (head + i - 1) % Size]]

Abstract == INSTANCE RecentSessions WITH recent <- Recent

\* The ring implements RecentSessions: across every wrap it forgets the oldest
\* id and no other, and samples neither an unused slot nor a forgotten id.
RemembersRecent == Abstract!Spec
=============================================================================
