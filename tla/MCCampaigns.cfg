SPECIFICATION Spec
CONSTANTS
  c1 = c1
  c2 = c2
  m1 = m1
  m2 = m2
  m3 = m3
  x1 = x1
  x2 = x2
  Campaign = {c1}
  Message = {m1, m2}
  Address = {x1, x2}
  CampaignOf <- MCCampaignOf
  To <- MCTo
  Approval = {a1, a2}
  Asker = {r1, r2}
  Sender = {s1, s2}
  SendDecision = {"deny", "require_approval", "allow"}
  DailyCap = 1
  NoCampaign = NoCampaign
  NoApproval = NoApproval
  NoMessage = NoMessage
  MaxAsks = 2
SYMMETRY CampaignSymmetry
INVARIANTS
  OneMailPerLicence
  SuppressedGetNothing
  SentMeansHandled
  CapAppliesAlone
CHECK_DEADLOCK FALSE
