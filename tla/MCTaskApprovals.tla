-------------------------- MODULE MCTaskApprovals --------------------------
(***************************************************************************)
(* TaskApprovals on small instances.  k1 and k2 are calls of one tool with *)
(* different arguments, k3 is the call of another tool, k4 the request of  *)
(* a service whose action has an executor.                                 *)
(***************************************************************************)
EXTENDS TaskApprovals, TLC

CONSTANTS k1, k2, k3, k4

\* Every task may make every call of the instance.
MCCalls == [t \in Task |-> Key]

MCToolOf == [k \in Key |-> IF k \in {k1, k2} THEN "tool" ELSE IF k = k3 THEN "other" ELSE "service"]

MCSymmetry == Permutations(Caller) \cup Permutations(Approval)
=============================================================================
