--------------------------- MODULE MCRunLifecycle ---------------------------
(* RunLifecycle on small instances. *)
EXTENDS RunLifecycle

MCDurations == {1}
=============================================================================
