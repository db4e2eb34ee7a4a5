------------------------- MODULE MCSchemaMigration -------------------------
(* SchemaMigration on small instances.  Replicas are interchangeable. *)
EXTENDS SchemaMigration, TLC

Symmetric == Permutations(Replicas)
=============================================================================
