--------------------------- MODULE HumanDecision ---------------------------
(***************************************************************************)
(* What the approval centre promises, whoever asks, decides or crashes:    *)
(* "Approving runs the registered executor" once, nothing runs that was    *)
(* not approved, and a decision is never taken back                        *)
(* (packages/core/src/approvals.ts, SECURITY.md principle 2).              *)
(***************************************************************************)
EXTENDS Naturals

CONSTANT Approval      \* ids of the approval requests

VARIABLES
  verdict,    \* [Approval -> Verdict]: what a human decided
  effects     \* [Approval -> Nat]: times its action was carried out

Verdict == {"none", "approved", "rejected"}

Init == /\ verdict = [a \in Approval |-> "none"]
        /\ effects = [a \in Approval |-> 0]

Rule(a, v) == /\ verdict[a] = "none"
              /\ v \in {"approved", "rejected"}
              /\ verdict' = [verdict EXCEPT ![a] = v]
              /\ UNCHANGED effects

Perform(a) == /\ verdict[a] = "approved"
              /\ effects[a] = 0
              /\ effects' = [effects EXCEPT ![a] = 1]
              /\ UNCHANGED verdict

Next == \E a \in Approval : Perform(a) \/ \E v \in Verdict : Rule(a, v)

Spec == Init /\ [][Next]_<<verdict, effects>>
=============================================================================
