----------------------------- MODULE Allowance -----------------------------
(***************************************************************************)
(* What a limit that is read, acted on and only then counted against can   *)
(* promise (AiService.budgetGuard in packages/core/src/ai.ts,              *)
(* PolicyEngine.evaluate in packages/core/src/policy.ts): nobody is        *)
(* admitted once what has been counted leaves no room, and everyone that   *)
(* is admitted counts at most once and at most Largest.                    *)
(***************************************************************************)
EXTENDS Integers, FiniteSets

CONSTANTS
  Asker,      \* those that may be admitted at the same time
  Limit,      \* of a day
  Estimate,   \* what is assumed of one before it is admitted
  Largest     \* what one may count

VARIABLES
  counted,    \* counted so far today
  admitted    \* admitted and not counted

Init == counted = 0 /\ admitted = {}

Admit(a) ==
  /\ a \notin admitted
  /\ counted + Estimate <= Limit
  /\ admitted' = admitted \cup {a}
  /\ UNCHANGED counted

\* One that fails, dies, or cannot be recorded counts nothing.
Settle(a, amount) ==
  /\ a \in admitted
  /\ admitted' = admitted \ {a}
  /\ counted' = counted + amount

NewDay == counted' = 0 /\ UNCHANGED admitted

Next == \/ \E a \in Asker : Admit(a) \/ \E amount \in 0..Largest : Settle(a, amount)
        \/ NewDay

Spec == Init /\ [][Next]_<<counted, admitted>>

\* The limit is overrun by no more than what all askers may count at once,
\* after a check that each of them made when there was room.
Room == IF Estimate <= Limit THEN Limit - Estimate ELSE 0
OverrunIsBounded == counted <= Room + Cardinality(Asker) * Largest

=============================================================================
