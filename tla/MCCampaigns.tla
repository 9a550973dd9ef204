---------------------------- MODULE MCCampaigns ----------------------------
(***************************************************************************)
(* Campaigns on small instances: c1 has two messages, c2 has one, and the  *)
(* second message of c1 goes to the same address as that of c2.            *)
(***************************************************************************)
EXTENDS Campaigns, TLC

CONSTANTS c1, c2, m1, m2, m3, x1, x2

MCCampaignOf == [m \in Message |-> IF m = m3 THEN c2 ELSE c1]

MCTo == [m \in Message |-> IF m = m1 THEN x1 ELSE x2]

CampaignSymmetry == Permutations(Approval) \cup Permutations(Asker) \cup Permutations(Sender)
=============================================================================
