----------------------------- MODULE ResultFile -----------------------------
(***************************************************************************)
(* What WriteRunResult promises about the path it writes                   *)
(* (src/workload/result.go:401-406): the file is replaced as a whole.  Its *)
(* content is always one complete version, and a run puts its version      *)
(* there at most once or not at all, whatever happens to the process.      *)
(***************************************************************************)
CONSTANTS Runs, NoFile, Previous

VARIABLES version, published

Init == version \in {NoFile, Previous} /\ published = {}

Publish(r) ==
  /\ r \notin published
  /\ version' = r
  /\ published' = published \cup {r}

Next == \E r \in Runs : Publish(r)

Spec == Init /\ [][Next]_<<version, published>>
=============================================================================
