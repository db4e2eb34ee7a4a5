------------------------------- MODULE OpMix --------------------------------
(***************************************************************************)
(* The operations of the oltp-jsonb profile, the weights the environment   *)
(* gives them, and the choice of an operation by a roll                    *)
(* (src/workload/weights.go, src/workload/oltp.go).                        *)
(***************************************************************************)
EXTENDS Configuration, FiniteSets, FiniteSetsExt

VARIABLE mix          \* the resolved operations; empty until they resolve

OpDefs ==
  << [name |-> "insert",      var |-> "WRITE_PCT",       default |-> 35],
     [name |-> "read_simple", var |-> "READ_SIMPLE_PCT", default |-> 15],
     [name |-> "read_join",   var |-> "READ_JOIN_PCT",   default |-> 20],
     [name |-> "update",      var |-> "UPDATE_PCT",      default |-> 15],
     [name |-> "delete",      var |-> "DELETE_PCT",      default |-> 10],
     [name |-> "read_by_ip",  var |-> "READ_IP_PCT",     default |-> 5] >>

\* A malformed weight falls back to the default, with a warning.
Weight(env, def) == GetEnv(env, def.var, def.default)

\* The running sum of both loops: RunningSum(ops)[i] after the i-th operation.
RunningSum(ops) ==
  LET sum[i \in 0..Len(ops)] == IF i = 0 THEN 0 ELSE sum[i - 1] + ops[i].weight
  IN  sum

\* The weighted operations, or none when a weight is negative or the weights
\* do not make up 100.
ResolveWeights(env) ==
  LET ops == [i \in DOMAIN OpDefs |->
               [name |-> OpDefs[i].name, weight |-> Weight(env, OpDefs[i])]]
  IN  IF (\A i \in DOMAIN ops : ops[i].weight >= 0) /\ RunningSum(ops)[Len(ops)] = 100
      THEN ops ELSE << >>

\* Regression: a roll on the boundary belongs to the operation before it.
SelectOp_Inclusive(roll, ops) ==
  LET hits == {i \in DOMAIN ops : roll <= RunningSum(ops)[i]}
  IN  ops[IF hits = {} THEN Len(ops) ELSE Min(hits)].name

\* The first operation whose running sum exceeds the roll, or the last.
SelectOp(roll, ops) ==
  LET hits == {i \in DOMAIN ops : roll < RunningSum(ops)[i]}
  IN  ops[IF hits = {} THEN Len(ops) ELSE Min(hits)].name
-----------------------------------------------------------------------------
(* Properties *)

\* Of the hundred rolls of rng.Intn(100) (worker.go:37), each operation gets
\* exactly as many as its weight says: none at weight 0, wherever in the list
\* it stands, and the fall-through of SelectOp never adds one to the last.
ExactShares ==
  \A i \in DOMAIN mix :
    Cardinality({roll \in 0..99 : SelectOp(roll, mix) = mix[i].name}) = mix[i].weight
=============================================================================
