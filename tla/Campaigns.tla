----------------------------- MODULE Campaigns -----------------------------
(***************************************************************************)
(* Outreach campaigns (packages/core/src/campaigns.ts): drafting, the      *)
(* approval of a send, and the send itself, which mails the drafts one by  *)
(* one with two checks before each and one or two UPDATEs after it.        *)
(*                                                                         *)
(* A send is run by the executor of its approval, or at once when the      *)
(* policy is AUTONOMOUS; nothing keeps two sends apart, and a send that    *)
(* dies leaves its campaign in 'sending'.  All of it happens on one day.   *)
(* The approval centre is taken by its promise (HumanDecision); a request  *)
(* is answered with any undecided one for the campaign, or with a new one. *)
(*                                                                         *)
(* A campaign is visible, and may be asked for, while create is drafting   *)
(* its messages.  Which leads create comes to is an input (the audience    *)
(* filter, the consent).  Not modelled: the text of the messages, the      *)
(* statistics, the lead's own status, events, audit rows.                  *)
(***************************************************************************)
EXTENDS Naturals, FiniteSets

CONSTANTS
  Campaign, Message, Address,
  CampaignOf,      \* [Message -> Campaign]: outbox_messages.campaign_id
  To,              \* [Message -> Address]: outbox_messages.to_address
  Approval,        \* ids of the requests for outreach.send
  Asker,           \* concurrent calls of requestSend
  Sender,          \* concurrent runs of send
  SendDecision,    \* what the policy may answer
  DailyCap,        \* EMAIL_DAILY_CAP
  NoCampaign, NoApproval, NoMessage,
  MaxAsks          \* bound of the model: calls of requestSend

ASSUME CampaignsAssumption ==
  /\ CampaignOf \in [Message -> Campaign] /\ To \in [Message -> Address]
  /\ SendDecision \subseteq {"deny", "require_approval", "simulate", "allow"}
  /\ DailyCap \in Nat /\ MaxAsks \in Nat
  /\ NoCampaign \notin Campaign /\ NoApproval \notin Approval
  /\ NoMessage \notin Message

VARIABLES
  campStatus,   \* [Campaign -> CampStatus]: campaigns.status, or "absent"
  approvalOf,   \* [Campaign -> Approval]: campaigns.approval_id
  creating,     \* [Campaign -> SUBSET Message]: the leads create has yet to handle
  late,         \* history: messages drafted when the campaign had left 'draft'
  msgStatus,    \* [Message -> MsgStatus]: outbox_messages.status, or "absent"
  suppressed,   \* SUBSET Address: suppressions
  mailed,       \* [Message -> Nat]: history, times it was really delivered
  about,        \* [Approval -> Campaign]: payload.campaignId of a request
  verdict, effects,   \* of HumanDecision
  askPhase,     \* [Asker -> AskPhase]: where the call of requestSend is
  askOn,        \* [Asker -> Campaign]
  askGot,       \* [Asker -> Approval]: the request it was answered with
  asks,         \* Nat: calls of requestSend so far
  autonomous,   \* [Campaign -> Nat]: recordAutonomous, sends without an approval
  sendPhase,    \* [Sender -> SendPhase]: where the send is
  sendOn,       \* [Sender -> Campaign]
  known,        \* [Sender -> SUBSET Address]: history, suppressed at the start
  budget,       \* [Sender -> Nat]: let budget
  todo,         \* [Sender -> SUBSET Message]: msgs that are still to be handled
  deferred,     \* [Sender -> BOOLEAN]: stats.deferredByDailyCap > 0
  current,      \* [Sender -> Message]: the message being mailed
  reply,        \* [Sender -> Reply]: what the provider answered
  overlapped    \* BOOLEAN: history, a send began while another was going

campVars == <<campStatus, approvalOf>>
createVars == <<creating, late>>
boxVars == <<msgStatus, suppressed, mailed>>
humanVars == <<about, verdict, effects>>
askVars == <<askPhase, askOn, askGot, asks, autonomous>>
sendVars == <<sendPhase, sendOn, known, budget, todo, deferred, current, reply, overlapped>>
vars == <<campVars, createVars, boxVars, humanVars, askVars, sendVars>>

Human == INSTANCE HumanDecision

CampStatus == {"absent", "draft", "pending_approval", "approved", "sending", "sent",
               "rejected", "cancelled"}
MsgStatus == {"absent", "drafted", "approved", "sent", "failed", "suppressed"}
AskPhase == {"idle", "deciding", "asking", "storing", "sending"}
SendPhase == {"idle", "counting", "loading", "looping", "mailing", "recording"}
Reply == {"none", "accepted", "refused", "thrown"}

TypeOK ==
  /\ campStatus \in [Campaign -> CampStatus]
  /\ approvalOf \in [Campaign -> Approval \cup {NoApproval}]
  /\ creating \in [Campaign -> SUBSET Message] /\ late \subseteq Message
  /\ msgStatus \in [Message -> MsgStatus]
  /\ suppressed \subseteq Address
  /\ mailed \in [Message -> Nat]
  /\ about \in [Approval -> Campaign \cup {NoCampaign}]
  /\ verdict \in [Approval -> Human!Verdict] /\ effects \in [Approval -> 0..1]
  /\ askPhase \in [Asker -> AskPhase]
  /\ askOn \in [Asker -> Campaign \cup {NoCampaign}]
  /\ askGot \in [Asker -> Approval \cup {NoApproval}]
  /\ asks \in 0..MaxAsks
  /\ autonomous \in [Campaign -> Nat]
  /\ sendPhase \in [Sender -> SendPhase]
  /\ sendOn \in [Sender -> Campaign \cup {NoCampaign}]
  /\ known \in [Sender -> SUBSET Address]
  /\ budget \in [Sender -> 0..DailyCap]
  /\ todo \in [Sender -> SUBSET Message]
  /\ deferred \in [Sender -> BOOLEAN]
  /\ current \in [Sender -> Message \cup {NoMessage}]
  /\ reply \in [Sender -> Reply]
  /\ overlapped \in BOOLEAN

Init ==
  /\ campStatus = [c \in Campaign |-> "absent"]
  /\ approvalOf = [c \in Campaign |-> NoApproval]
  /\ creating = [c \in Campaign |-> {}] /\ late = {}
  /\ msgStatus = [m \in Message |-> "absent"]
  /\ suppressed = {}
  /\ mailed = [m \in Message |-> 0]
  /\ about = [a \in Approval |-> NoCampaign]
  /\ Human!Init
  /\ askPhase = [r \in Asker |-> "idle"]
  /\ askOn = [r \in Asker |-> NoCampaign]
  /\ askGot = [r \in Asker |-> NoApproval]
  /\ asks = 0
  /\ autonomous = [c \in Campaign |-> 0]
  /\ sendPhase = [s \in Sender |-> "idle"]
  /\ sendOn = [s \in Sender |-> NoCampaign]
  /\ known = [s \in Sender |-> {}]
  /\ budget = [s \in Sender |-> 0]
  /\ todo = [s \in Sender |-> {}]
  /\ deferred = [s \in Sender |-> FALSE]
  /\ current = [s \in Sender |-> NoMessage]
  /\ reply = [s \in Sender |-> "none"]
  /\ overlapped = FALSE

MessagesOf(c) == {m \in Message : CampaignOf[m] = c}
Drafts(c) == {m \in MessagesOf(c) : msgStatus[m] = "drafted"}
SentToday == {m \in Message : msgStatus[m] = "sent"}

-----------------------------------------------------------------------------
(* Drafting, and the suppression list *)

Create(c, audience) ==
  /\ campStatus[c] = "absent"
  /\ campStatus' = [campStatus EXCEPT ![c] = "draft"]
  /\ creating' = [creating EXCEPT ![c] = audience]
  /\ UNCHANGED <<approvalOf, late, boxVars, humanVars, askVars, sendVars>>

\* One turn of create's loop: the lead is drafted to unless it is suppressed.
Draft(c, m) ==
  /\ m \in creating[c]
  /\ creating' = [creating EXCEPT ![c] = @ \ {m}]
  /\ IF To[m] \in suppressed THEN UNCHANGED <<msgStatus, late>>
     ELSE /\ msgStatus' = [msgStatus EXCEPT ![m] = "drafted"]
          /\ late' = IF campStatus[c] = "draft" THEN late ELSE late \cup {m}
  /\ UNCHANGED <<campVars, suppressed, mailed, humanVars, askVars, sendVars>>

CreateDies(c) ==
  /\ creating[c] # {}
  /\ creating' = [creating EXCEPT ![c] = {}]
  /\ UNCHANGED <<campVars, late, boxVars, humanVars, askVars, sendVars>>

Suppress(x) ==
  /\ x \notin suppressed
  /\ suppressed' = suppressed \cup {x}
  /\ UNCHANGED <<createVars, campVars, msgStatus, mailed, humanVars, askVars, sendVars>>

-----------------------------------------------------------------------------
(* The steps of a send *)

\* The first statement: whatever the campaign's status.
BeginSend(s, c) ==
  /\ sendPhase[s] = "idle"
  /\ campStatus' = [campStatus EXCEPT ![c] = "sending"]
  /\ sendPhase' = [sendPhase EXCEPT ![s] = "counting"]
  /\ sendOn' = [sendOn EXCEPT ![s] = c]
  /\ known' = [known EXCEPT ![s] = suppressed]
  /\ overlapped' = (overlapped \/ \E q \in Sender : sendPhase[q] # "idle")
  /\ UNCHANGED <<createVars, approvalOf, boxVars, budget, todo, deferred, current, reply>>

SendGoto(s, p) ==
  /\ sendPhase' = [sendPhase EXCEPT ![s] = p]
  /\ UNCHANGED <<sendOn, known, overlapped>>

SendOver(s) ==
  /\ sendPhase' = [sendPhase EXCEPT ![s] = "idle"]
  /\ sendOn' = [sendOn EXCEPT ![s] = NoCampaign]
  /\ known' = [known EXCEPT ![s] = {}]
  /\ budget' = [budget EXCEPT ![s] = 0]
  /\ todo' = [todo EXCEPT ![s] = {}]
  /\ deferred' = [deferred EXCEPT ![s] = FALSE]
  /\ current' = [current EXCEPT ![s] = NoMessage]
  /\ reply' = [reply EXCEPT ![s] = "none"]
  /\ UNCHANGED overlapped

\* Mutant: the budget of a send is the whole cap.
CountFromZero(s) ==
  /\ sendPhase[s] = "counting"
  /\ budget' = [budget EXCEPT ![s] = DailyCap]
  /\ SendGoto(s, "loading")
  /\ UNCHANGED <<createVars, campVars, boxVars, humanVars, askVars, todo, deferred, current, reply>>

Count(s) ==
  LET n == Cardinality(SentToday) IN
  /\ sendPhase[s] = "counting"
  /\ budget' = [budget EXCEPT ![s] = IF n >= DailyCap THEN 0 ELSE DailyCap - n]
  /\ SendGoto(s, "loading")
  /\ UNCHANGED <<createVars, campVars, boxVars, humanVars, askVars, todo, deferred, current, reply>>

Load(s) ==
  /\ sendPhase[s] = "loading"
  /\ todo' = [todo EXCEPT ![s] = Drafts(sendOn[s])]
  /\ SendGoto(s, "looping")
  /\ UNCHANGED <<createVars, campVars, boxVars, humanVars, askVars, budget, deferred, current, reply>>

\* The loop comes to a message: its address is on the list.
Skip(s, m) ==
  /\ sendPhase[s] = "looping" /\ m \in todo[s]
  /\ To[m] \in suppressed
  /\ msgStatus' = [msgStatus EXCEPT ![m] = "suppressed"]
  /\ todo' = [todo EXCEPT ![s] = @ \ {m}]
  /\ SendGoto(s, "looping")
  /\ UNCHANGED <<createVars, campVars, suppressed, mailed, humanVars, askVars>>
  /\ UNCHANGED <<budget, deferred, current, reply>>

\* The budget is used up.
Defer(s, m) ==
  /\ sendPhase[s] = "looping" /\ m \in todo[s]
  /\ To[m] \notin suppressed /\ budget[s] = 0
  /\ deferred' = [deferred EXCEPT ![s] = TRUE]
  /\ todo' = [todo EXCEPT ![s] = @ \ {m}]
  /\ SendGoto(s, "looping")
  /\ UNCHANGED <<createVars, campVars, boxVars, humanVars, askVars, budget, current, reply>>

\* Mutant: the list is looked at when the campaign is drafted only.
PickUnchecked(s, m) ==
  /\ sendPhase[s] = "looping" /\ m \in todo[s]
  /\ budget[s] > 0
  /\ current' = [current EXCEPT ![s] = m]
  /\ todo' = [todo EXCEPT ![s] = @ \ {m}]
  /\ SendGoto(s, "mailing")
  /\ UNCHANGED <<createVars, campVars, boxVars, humanVars, askVars, budget, deferred, reply>>

\* Mutant: the budget is looked at after the loop.
PickOverBudget(s, m) ==
  /\ sendPhase[s] = "looping" /\ m \in todo[s]
  /\ To[m] \notin suppressed
  /\ current' = [current EXCEPT ![s] = m]
  /\ todo' = [todo EXCEPT ![s] = @ \ {m}]
  /\ SendGoto(s, "mailing")
  /\ UNCHANGED <<createVars, campVars, boxVars, humanVars, askVars, budget, deferred, reply>>

\* Both checks passed: the message is going to be mailed.
Pick(s, m) ==
  /\ sendPhase[s] = "looping" /\ m \in todo[s]
  /\ To[m] \notin suppressed /\ budget[s] > 0
  /\ current' = [current EXCEPT ![s] = m]
  /\ todo' = [todo EXCEPT ![s] = @ \ {m}]
  /\ SendGoto(s, "mailing")
  /\ UNCHANGED <<createVars, campVars, boxVars, humanVars, askVars, budget, deferred, reply>>

\* The provider's answer.  An error may come from a message that was
\* delivered, and only an acceptance is charged to the budget.
Mail(s, r, delivered) ==
  /\ sendPhase[s] = "mailing"
  /\ r = "accepted" => delivered
  /\ r = "refused" => ~delivered
  /\ mailed' = IF delivered THEN [mailed EXCEPT ![current[s]] = @ + 1] ELSE mailed
  /\ reply' = [reply EXCEPT ![s] = r]
  /\ budget' = IF r = "accepted" THEN [budget EXCEPT ![s] = @ - 1] ELSE budget
  /\ SendGoto(s, "recording")
  /\ UNCHANGED <<createVars, campVars, msgStatus, suppressed, humanVars, askVars>>
  /\ UNCHANGED <<todo, deferred, current>>

\* The row is written by its id.  An error in one of the statements after an
\* acceptance is caught together with the provider's errors.
Record(s, failing) ==
  /\ sendPhase[s] = "recording"
  /\ msgStatus' = [msgStatus EXCEPT ![current[s]] =
                     IF failing \/ reply[s] = "thrown" THEN "failed"
                     ELSE IF reply[s] = "accepted" THEN "sent" ELSE "approved"]
  /\ current' = [current EXCEPT ![s] = NoMessage]
  /\ reply' = [reply EXCEPT ![s] = "none"]
  /\ SendGoto(s, "looping")
  /\ UNCHANGED <<createVars, campVars, suppressed, mailed, humanVars, askVars, budget, todo, deferred>>

\* Mutant: what was deferred is forgotten.
EndSendAsSent(s) ==
  /\ sendPhase[s] = "looping" /\ todo[s] = {}
  /\ campStatus' = [campStatus EXCEPT ![sendOn[s]] = "sent"]
  /\ SendOver(s)
  /\ UNCHANGED <<createVars, approvalOf, boxVars, humanVars, askVars>>

EndSend(s) ==
  /\ sendPhase[s] = "looping" /\ todo[s] = {}
  /\ campStatus' = [campStatus EXCEPT ![sendOn[s]] =
                      IF deferred[s] THEN "approved" ELSE "sent"]
  /\ SendOver(s)
  /\ UNCHANGED <<createVars, approvalOf, boxVars, humanVars, askVars>>

SendDies(s) ==
  /\ sendPhase[s] # "idle"
  /\ SendOver(s)
  /\ UNCHANGED <<createVars, campVars, boxVars, humanVars, askVars>>

-----------------------------------------------------------------------------
(* requestSend *)

AskGoto(r, p) ==
  /\ askPhase' = [askPhase EXCEPT ![r] = p]
  /\ UNCHANGED <<askOn, asks>>

AskOver(r) ==
  /\ askPhase' = [askPhase EXCEPT ![r] = "idle"]
  /\ askOn' = [askOn EXCEPT ![r] = NoCampaign]
  /\ askGot' = [askGot EXCEPT ![r] = NoApproval]
  /\ UNCHANGED asks

RequestSend(r, c) ==
  /\ askPhase[r] = "idle" /\ asks < MaxAsks
  /\ campStatus[c] \in {"draft", "rejected"}
  /\ Drafts(c) # {}
  /\ askPhase' = [askPhase EXCEPT ![r] = "deciding"]
  /\ askOn' = [askOn EXCEPT ![r] = c]
  /\ asks' = asks + 1
  /\ UNCHANGED <<createVars, askGot, autonomous, campVars, boxVars, humanVars, sendVars>>

\* Mutant: a denial alone keeps a campaign from being sent.
PolicyAnswersNotDenied(r, d) ==
  /\ askPhase[r] = "deciding"
  /\ d \in SendDecision
  /\ IF d = "deny" THEN AskOver(r) ELSE AskGoto(r, "sending") /\ UNCHANGED askGot
  /\ UNCHANGED <<createVars, autonomous, campVars, boxVars, humanVars, sendVars>>

PolicyAnswers(r, d) ==
  /\ askPhase[r] = "deciding"
  /\ d \in SendDecision
  /\ CASE d = "deny" -> AskOver(r)
       [] d = "allow" -> AskGoto(r, "sending") /\ UNCHANGED askGot
       [] OTHER -> AskGoto(r, "asking") /\ UNCHANGED askGot
  /\ autonomous' = IF d = "allow" THEN [autonomous EXCEPT ![askOn[r]] = @ + 1] ELSE autonomous
  /\ UNCHANGED <<createVars, campVars, boxVars, humanVars, sendVars>>

\* AUTONOMOUS: the call sends by itself.
SendAtOnce(r, s) ==
  /\ askPhase[r] = "sending"
  /\ BeginSend(s, askOn[r])
  /\ AskOver(r)
  /\ UNCHANGED <<humanVars, autonomous>>

AskNew(r, a) ==
  /\ askPhase[r] = "asking"
  /\ about[a] = NoCampaign
  /\ about' = [about EXCEPT ![a] = askOn[r]]
  /\ askGot' = [askGot EXCEPT ![r] = a]
  /\ AskGoto(r, "storing")
  /\ UNCHANGED <<createVars, autonomous, verdict, effects, campVars, boxVars, sendVars>>

AskFinds(r, a) ==
  /\ askPhase[r] = "asking"
  /\ about[a] = askOn[r] /\ verdict[a] = "none"
  /\ askGot' = [askGot EXCEPT ![r] = a]
  /\ AskGoto(r, "storing")
  /\ UNCHANGED <<createVars, autonomous, campVars, boxVars, humanVars, sendVars>>

StorePending(r) ==
  /\ askPhase[r] = "storing"
  /\ campStatus' = [campStatus EXCEPT ![askOn[r]] = "pending_approval"]
  /\ approvalOf' = [approvalOf EXCEPT ![askOn[r]] = askGot[r]]
  /\ AskOver(r)
  /\ UNCHANGED <<createVars, autonomous, boxVars, humanVars, sendVars>>

AskDies(r) ==
  /\ askPhase[r] # "idle"
  /\ AskOver(r)
  /\ UNCHANGED <<createVars, autonomous, campVars, boxVars, humanVars, sendVars>>

-----------------------------------------------------------------------------
(* The approval centre *)

Decide(a, v) ==
  /\ about[a] # NoCampaign
  /\ Human!Rule(a, v)
  /\ UNCHANGED <<createVars, about, campVars, boxVars, askVars, sendVars>>

\* The executor of outreach.send and of communication.mass.
Execute(a, s) ==
  /\ about[a] # NoCampaign
  /\ Human!Perform(a)
  /\ BeginSend(s, about[a])
  /\ UNCHANGED <<about, askVars>>

-----------------------------------------------------------------------------

SendStep(s) ==
  \/ Count(s)
  \/ Load(s)
  \/ \E m \in Message : Skip(s, m) \/ Defer(s, m) \/ Pick(s, m)
  \/ \E r \in Reply \ {"none"}, delivered \in BOOLEAN : Mail(s, r, delivered)
  \/ \E failing \in BOOLEAN : Record(s, failing)
  \/ EndSend(s)

AskStep(r) ==
  \/ \E c \in Campaign : RequestSend(r, c)
  \/ \E d \in SendDecision : PolicyAnswers(r, d)
  \/ \E s \in Sender : SendAtOnce(r, s)
  \/ \E a \in Approval : AskNew(r, a) \/ AskFinds(r, a)
  \/ StorePending(r)
  \/ AskDies(r)

Next ==
  \/ \E c \in Campaign : \/ \E audience \in SUBSET MessagesOf(c) : Create(c, audience)
                         \/ \E m \in Message : Draft(c, m)
                         \/ CreateDies(c)
  \/ \E x \in Address : Suppress(x)
  \/ \E r \in Asker : AskStep(r)
  \/ \E a \in Approval : \/ \E v \in Human!Verdict : Decide(a, v)
                         \/ \E s \in Sender : Execute(a, s)
  \/ \E s \in Sender : SendStep(s) \/ SendDies(s)

Spec == Init /\ [][Next]_vars

-----------------------------------------------------------------------------
(* Properties *)

\* "Sending needs approval": a message is delivered at most once for each
\* approved request of its campaign and each time the policy let the campaign
\* go, through sends that overlap, die half-way and are asked for again.
OneMailPerLicence ==
  \A m \in Message :
    LET c == CampaignOf[m] IN
    mailed[m] <= autonomous[c]
                 + Cardinality({a \in Approval : /\ about[a] = c /\ verdict[a] = "approved"
                                                 /\ effects[a] = 1})

\* "The suppression list always applies": an address that was on the list
\* when a send began is mailed nothing by it, though the message was drafted
\* before.
SuppressedGetNothing ==
  \A s \in Sender : current[s] # NoMessage => To[current[s]] \notin known[s]

\* A campaign that says it was sent has no message left that nobody handled,
\* but for those drafted when it had left 'draft' already: what the daily cap
\* deferred keeps it from that status.
SentMeansHandled ==
  \A c \in Campaign : campStatus[c] = "sent" => Drafts(c) \subseteq late

\* While sends follow one another, whatever the campaigns they are for and
\* however they end, no more messages count as sent than the daily cap allows.
CapAppliesAlone == overlapped \/ Cardinality(SentToday) <= DailyCap

\* "The daily cap always applies", also when sends overlap (it does not: the
\* README lists the divergence).
CapAlwaysApplies == Cardinality(SentToday) <= DailyCap
=============================================================================
