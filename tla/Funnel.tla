------------------------------- MODULE Funnel -------------------------------
(***************************************************************************)
(* From a visitor to a lead: the server and the page of a generated site   *)
(* (packages/factory/src/blueprint/runtime.ts), the ingestion of its       *)
(* events (packages/core/src/tracking.ts) and the leads they become        *)
(* (packages/core/src/leads.ts).  The site forwards an event once and      *)
(* forgets it; ingestion is a sequence of statements that may be cut off   *)
(* at any point, and several run at once.                                  *)
(*                                                                         *)
(* The score of one lead (rescore of packages/core/src/leads.ts, scoreLead *)
(* of packages/analytics/src/leads.ts) is a specification of its own,      *)
(* LeadSpec.  A rescoring reads the lead, its events, the keywords of its  *)
(* opportunity and its referrals, and writes the score; nothing locks the  *)
(* lead, and not every change of these data is followed by a rescoring - a *)
(* signup rescores the lead before its event is inserted, and a scan       *)
(* replaces the keywords.  What the lead's title is worth is one number,   *)
(* and so is what title and company share with the keywords.               *)
(***************************************************************************)
EXTENDS Integers, FiniteSetsExt

CONSTANTS
  Visitor, Email,
  Variants,         \* what the page may be configured with; 1 stands first
  Forwarding,       \* events on their way through ingestion
  MaxConfigs,       \* bound of the model: redeployments with other variants
  NoOne,
  Profile,          \* points of a title that occur
  Matches,          \* points for keywords that occur, 0 among them
  Mails,            \* kinds of addresses that occur: "none", "free", "company"
  Intent,           \* events that show one: of "signup", "activation",
                    \* "demo_requested", "checkout_started"
  Run,              \* rescorings in progress
  Views,            \* numbers of page views that occur, 0 among them
  MaxRuns,          \* bounds of the model: rescorings,
  MaxChanges        \* changes of the lead's data but for signups

VARIABLES
  signups,          \* e-mails in the store of the site
  config,           \* the variants the page was rendered with
  stored,           \* [Visitor -> variant in localStorage, or 0]
  leads,            \* [Email -> leads.status, or "none"]
  suppressed,       \* e-mails in suppressions
  tracked,          \* tracking_events that are not from bots, as far as counted
  forward,          \* [Forwarding -> where it is]
  unsubscribing,    \* suppress has inserted and not yet updated the lead
  configs,          \* configurations so far
  unsubscribed,     \* history: e-mails whose lead an unsubscription reached, less
                    \* those whose status a human has changed since
  lead,             \* the row: [profile, mail, consent, known], known: anonymous_id is set
  events,           \* tracking_events of the visitor: [views, did]
  fit,              \* what the opportunity's keywords add for this lead
  referrals,        \* another lead has referred_by = this lead
  leadScore,        \* leads.score and score_breakdown.contactable
  run,              \* what each rescoring has read
  runs, changes,    \* rescorings and changes so far
  owed,             \* rescorings, or ended ones, whose signup has no event yet
  changed,          \* history: some data have changed since the last rescoring
                    \* began, or it has failed
  leadOverlapped,   \* history: two rescorings have overlapped
  dropped           \* history: a scan has found keywords that add less

siteVars == <<signups, config, stored, configs>>
leadVars == <<leads, suppressed, unsubscribing, unsubscribed>>
funnelVars == <<siteVars, leadVars, tracked, forward>>
data == <<lead, events, fit, referrals>>
leadScoreVars == <<data, leadScore, run, runs, changes, owed, changed, leadOverlapped, dropped>>

TrackingEvents == {"page_view", "signup"}
\* "open" stands for the statuses a lead has while it may be written to (new,
\* contacted, qualified, won, lost): ingestion tells none of them apart.
Statuses == {"none", "open", "unsubscribed"}
Idle == [at |-> "idle", event |-> "page_view", visitor |-> NoOne, email |-> NoOne, variant |-> 0]

TypeOK ==
  /\ signups \subseteq Email /\ suppressed \subseteq Email
  /\ config \subseteq Variants /\ stored \in [Visitor -> Variants \cup {0}]
  /\ leads \in [Email -> Statuses]
  /\ tracked \subseteq [event : TrackingEvents, visitor : Visitor, email : Email \cup {NoOne},
                         variant : Variants]
  /\ \A f \in Forwarding : forward[f].at \in {"idle", "sent", "updating", "inserting", "recording"}
  /\ unsubscribing \subseteq suppressed /\ unsubscribed \subseteq suppressed
  /\ configs \in 1..MaxConfigs

Init ==
  /\ signups = {} /\ suppressed = {} /\ tracked = {} /\ unsubscribing = {} /\ unsubscribed = {}
  /\ config = Variants /\ configs = 1
  /\ stored = [v \in Visitor |-> 0]
  /\ leads = [e \in Email |-> "none"]
  /\ forward = [f \in Forwarding |-> Idle]

-----------------------------------------------------------------------------
(* The page and the site *)

First(variants) == CHOOSE x \in variants : \A y \in variants : x <= y

\* The variant is drawn once and kept; one that is not offered any more is
\* replaced by the first, for the time being.
Shown(v) == IF stored'[v] \in config THEN stored'[v] ELSE First(config)

\* Mutant: every visit draws.
DrawAgain(v) == \E x \in config : stored' = [stored EXCEPT ![v] = x]

Draw(v) == \E x \in config : stored' = [stored EXCEPT ![v] = IF @ = 0 THEN x ELSE @]

Send(f, event, v, e) ==
  forward' = [forward EXCEPT ![f] =
                [at |-> "sent", event |-> event, visitor |-> v, email |-> e, variant |-> Shown(v)]]

\* track is best effort: what is not sent here, or not received, is lost.
View(f, v) ==
  /\ forward[f].at = "idle" /\ Draw(v)
  /\ Send(f, "page_view", v, NoOne)
  /\ UNCHANGED <<signups, config, configs, leadVars, tracked>>

\* The check for a duplicate and the insert are one synchronous step; a
\* duplicate is forwarded too.
Signup(f, v, e) ==
  /\ forward[f].at = "idle" /\ Draw(v)
  /\ signups' = signups \cup {e}
  /\ Send(f, "signup", v, e)
  /\ UNCHANGED <<config, configs, leadVars, tracked>>

Reconfigure(c) ==
  /\ configs < MaxConfigs /\ c # config
  /\ config' = c /\ configs' = configs + 1
  /\ UNCHANGED <<signups, stored, leadVars, tracked, forward>>

-----------------------------------------------------------------------------
(* TrackingService.ingest *)

Goto(f, p) == forward' = [forward EXCEPT ![f].at = p]

\* Mutant: the event is recorded before its lead is looked for.
IngestEventFirst(f) ==
  /\ forward[f].at = "sent"
  /\ tracked' = tracked \cup {[event |-> forward[f].event, visitor |-> forward[f].visitor,
                               email |-> forward[f].email, variant |-> forward[f].variant]}
  /\ Goto(f, IF forward[f].event # "signup" THEN "recording"
             ELSE IF leads[forward[f].email] = "none" THEN "inserting" ELSE "updating")
  /\ UNCHANGED <<siteVars, leadVars>>

\* upsertInbound reads whether the lead is there ...
Ingest(f) ==
  /\ forward[f].at = "sent"
  /\ Goto(f, IF forward[f].event # "signup" THEN "recording"
             ELSE IF leads[forward[f].email] = "none" THEN "inserting" ELSE "updating")
  /\ UNCHANGED <<siteVars, leadVars, tracked>>

\* Mutant: whoever signs up is taken for a new lead.
UpdateLeadAsNew(f) ==
  LET e == forward[f].email
  IN /\ forward[f].at = "updating"
     /\ leads' = [leads EXCEPT ![e] = "open"]
     /\ Goto(f, "recording")
     /\ UNCHANGED <<siteVars, suppressed, unsubscribing, unsubscribed, tracked>>

\* ... notes the visitor if it has none, and leaves status and consent as they are ...
UpdateLead(f) ==
  /\ forward[f].at = "updating"
  /\ Goto(f, "recording")
  /\ UNCHANGED <<siteVars, leadVars, tracked>>

\* ... or inserts it; another call, or an import, may have been faster: the
\* unique index then fails this one, and its event is not recorded.
InsertLead(f) ==
  LET e == forward[f].email
  IN /\ forward[f].at = "inserting"
     /\ \/ /\ leads[e] = "none"
           /\ leads' = [leads EXCEPT ![e] = "open"]
           /\ Goto(f, "recording")
        \/ leads[e] # "none" /\ forward' = [forward EXCEPT ![f] = Idle] /\ UNCHANGED leads
     /\ UNCHANGED <<siteVars, suppressed, unsubscribing, unsubscribed, tracked>>

RecordEvent(f) ==
  /\ forward[f].at = "recording"
  /\ tracked' = tracked \cup {[event |-> forward[f].event, visitor |-> forward[f].visitor,
                               email |-> forward[f].email, variant |-> forward[f].variant]}
  /\ forward' = [forward EXCEPT ![f] = Idle]
  /\ UNCHANGED <<siteVars, leadVars>>

\* Lost on the way, or cut off in the middle.
Lose(f) ==
  /\ forward[f].at # "idle"
  /\ forward' = [forward EXCEPT ![f] = Idle]
  /\ UNCHANGED <<siteVars, leadVars, tracked>>

-----------------------------------------------------------------------------
(* Other changes of a lead *)

\* create and importCsv: an address that is known is left out.
AddLead(e) ==
  /\ leads[e] = "none"
  /\ leads' = [leads EXCEPT ![e] = "open"]
  /\ UNCHANGED <<siteVars, suppressed, unsubscribing, unsubscribed, tracked, forward>>

UpdateByHuman(e) ==
  /\ leads[e] # "none"
  /\ leads' = [leads EXCEPT ![e] = "open"]
  /\ unsubscribed' = unsubscribed \ {e}
  /\ UNCHANGED <<siteVars, suppressed, unsubscribing, tracked, forward>>

\* suppress, from a link, a complaint or an unsubscribe event: two statements.
Suppress(e) ==
  /\ e \notin unsubscribing
  /\ suppressed' = suppressed \cup {e} /\ unsubscribing' = unsubscribing \cup {e}
  /\ UNCHANGED <<siteVars, leads, unsubscribed, tracked, forward>>

SuppressLead(e) ==
  /\ e \in unsubscribing
  /\ unsubscribing' = unsubscribing \ {e}
  /\ leads' = [leads EXCEPT ![e] = IF @ = "none" THEN @ ELSE "unsubscribed"]
  /\ unsubscribed' = IF leads[e] = "none" THEN unsubscribed ELSE unsubscribed \cup {e}
  /\ UNCHANGED <<siteVars, suppressed, tracked, forward>>

Next ==
  \/ \E f \in Forwarding :
       \/ \E v \in Visitor : View(f, v) \/ \E e \in Email : Signup(f, v, e)
       \/ Ingest(f) \/ UpdateLead(f) \/ InsertLead(f) \/ RecordEvent(f) \/ Lose(f)
  \/ \E c \in (SUBSET Variants) \ {{}} : Reconfigure(c)
  \/ \E e \in Email :
       AddLead(e) \/ UpdateByHuman(e) \/ Suppress(e) \/ SuppressLead(e)

Spec == Init /\ [][Next]_funnelVars

\* A signup that counts in a funnel has its lead, and the site has the
\* address, wherever ingestion was cut off: an experiment never counts a
\* conversion that nobody can be written to.
CountedSignupHasLead ==
  \A t \in tracked : t.event = "signup" => leads[t.email] # "none" /\ t.email \in signups

\* As long as the page is not reconfigured, a visitor counts in one variant:
\* COUNT(DISTINCT anonymous_id) per variant adds up to the visitors.
OneVariantPerVisitor ==
  configs = 1 => \A t, u \in tracked : t.visitor = u.visitor => t.variant = u.variant

\* A lead that an unsubscription reached shows it until a human decides
\* otherwise: no later signup, import or late ingestion takes it back.
UnsubscribedShows == \A e \in unsubscribed : leads[e] = "unsubscribed"

-----------------------------------------------------------------------------
(* The score of one lead *)

Nobody == [known |-> FALSE]
NoEvents == [views |-> 0, did |-> {}]
Data == [lead |-> lead, events |-> IF lead.known THEN events ELSE NoEvents,
         fit |-> fit, referred |-> referrals]
NotRunning == [at |-> "idle", read |-> [lead |-> Nobody, events |-> NoEvents, fit |-> 0,
                                        referred |-> FALSE]]

-----------------------------------------------------------------------------
(* scoreLead *)
Lower(a, b) == IF a < b THEN a ELSE b
PointsFor(intent) == IF intent \in {"signup", "demo_requested"} THEN 25 ELSE 20

Engagement(views) == Lower(10, 2 * views)

MailPoints(mail) == CASE mail = "company" -> 5 [] mail = "free" -> -5 [] OTHER -> 0

(* A variant that counts the last step of a lead only. *)
SumOfLastStep(d) ==
  d.lead.profile + d.fit + MailPoints(d.lead.mail) + Engagement(d.events.views)
  + (IF d.referred THEN 5 ELSE 0)
  + (IF d.events.did = {} THEN 0
     ELSE IF d.events.did = {"signup"} THEN PointsFor("signup") ELSE PointsFor("activation"))

Sum(d) == d.lead.profile + d.fit + MailPoints(d.lead.mail)
          + MapThenSumSet(PointsFor, d.events.did) + Engagement(d.events.views)
          + (IF d.referred THEN 5 ELSE 0)

ScoreLead(d) ==
  [score |-> IF Sum(d) < 0 THEN 0 ELSE Lower(100, Sum(d)),
   contactable |-> d.lead.consent # "unknown" /\ d.lead.mail # "none"]

-----------------------------------------------------------------------------
(* The lead is created by hand, or by its signup, and rescored first of all. *)
LeadInit ==
  /\ \E profile \in Profile, mail \in Mails,
        consent \in {"unknown", "inbound"}, known \in BOOLEAN :
       /\ lead = [profile |-> profile, mail |-> mail, consent |-> consent, known |-> known]
       /\ known => mail # "none" /\ consent = "inbound"
  /\ events = NoEvents
  /\ IF lead.known THEN \E r \in Run : owed = {r} ELSE owed = {}
  /\ fit \in Matches /\ referrals = FALSE
  /\ leadScore = ScoreLead(Data)
  /\ run = [r \in Run |-> NotRunning]
  /\ runs = 0 /\ changes = 0 /\ changed = FALSE /\ leadOverlapped = FALSE /\ dropped = FALSE

Begin(r) ==
  /\ run[r].at = "idle" /\ r \notin owed /\ runs < MaxRuns
  /\ runs' = runs + 1
  /\ changed' = FALSE
  /\ leadOverlapped' = (leadOverlapped \/ \E q \in Run : run[q].at # "idle")
  /\ run' = [run EXCEPT ![r].at = "lead"]
  /\ UNCHANGED <<events, fit, referrals, leadScore, changes, dropped>>

(* An agent rescores every lead. *)
Rescore(r) == Begin(r) /\ UNCHANGED <<lead, owed>>

(* upsertInbound of a lead that exists: the visitor becomes known. *)
SignsUp(r) ==
  /\ lead.mail # "none"
  /\ Begin(r)
  /\ lead' = [lead EXCEPT !.known = TRUE]
  /\ owed' = owed \cup {r}

Unscored == changed' = TRUE /\ UNCHANGED <<leadScore, run, runs, leadOverlapped>>

(* The event of a signup is inserted when its rescoring is done. *)
RecordSignup(r) ==
  /\ r \in owed /\ run[r].at = "idle" /\ owed' = owed \ {r}
  /\ events' = [events EXCEPT !.did = @ \cup {"signup"}]
  /\ Unscored /\ UNCHANGED <<lead, fit, referrals, changes, dropped>>

(* What else changes without a rescoring: events, keywords, a referred      *)
(* signup, an update.                                                       *)
Changes == changes < MaxChanges /\ changes' = changes + 1 /\ Unscored

Track ==
  /\ \/ \E n \in Views : n > events.views /\ events' = [events EXCEPT !.views = n]
     \/ \E intent \in Intent \ (events.did \cup {"signup"}) :
          events' = [events EXCEPT !.did = @ \cup {intent}]
  /\ Changes /\ UNCHANGED <<lead, fit, referrals, owed, dropped>>

(* A scan recounts the opportunity, and stores its own keywords. *)
ReplaceKeywords(n) ==
  /\ n # fit /\ fit' = n /\ dropped' = (dropped \/ n < fit)
  /\ Changes /\ UNCHANGED <<lead, events, referrals, owed>>

Refer == /\ ~referrals /\ referrals' = TRUE
         /\ Changes /\ UNCHANGED <<lead, events, fit, owed, dropped>>

UpdateConsent(consent) ==
  /\ lead.consent # consent
  /\ lead' = [lead EXCEPT !.consent = consent]
  /\ Changes /\ UNCHANGED <<events, fit, referrals, owed, dropped>>

Reads(r, from, to, field, value) ==
  /\ run[r].at = from
  /\ run' = [run EXCEPT ![r].at = to, ![r].read[field] = value]
  /\ UNCHANGED <<data, leadScore, runs, changes, owed, changed, leadOverlapped, dropped>>

ReadLead(r) == Reads(r, "lead", "events", "lead", lead)

(* The events of a visitor the lead, as read, is known to be. *)
ReadEvents(r) ==
  Reads(r, "events", "keywords", "events", IF run[r].read.lead.known THEN events ELSE NoEvents)

ReadKeywords(r) == Reads(r, "keywords", "referrals", "fit", fit)

ReadReferrals(r) == Reads(r, "referrals", "write", "referred", referrals)

WriteScore(r) ==
  /\ run[r].at = "write"
  /\ leadScore' = ScoreLead(run[r].read)
  /\ run' = [run EXCEPT ![r] = NotRunning]
  /\ UNCHANGED <<data, runs, changes, owed, changed, leadOverlapped, dropped>>

(* A statement fails, or the process dies: no score, and no event of the    *)
(* signup either.                                                           *)
Breaks(r) ==
  /\ run[r].at # "idle" \/ r \in owed
  /\ run' = [run EXCEPT ![r] = NotRunning] /\ owed' = owed \ {r}
  /\ changed' = TRUE
  /\ UNCHANGED <<data, leadScore, runs, changes, leadOverlapped, dropped>>

LeadNext ==
  \/ \E r \in Run : Rescore(r) \/ SignsUp(r) \/ ReadLead(r) \/ ReadEvents(r) \/ ReadKeywords(r)
                    \/ ReadReferrals(r) \/ WriteScore(r) \/ RecordSignup(r) \/ Breaks(r)
  \/ Track
  \/ Refer
  \/ \E n \in Matches : ReplaceKeywords(n)
  \/ \E consent \in {"unknown", "inbound"} : UpdateConsent(consent)

LeadSpec == LeadInit /\ [][LeadNext]_leadScoreVars

-----------------------------------------------------------------------------
(* Rows, reads and histories have their types. *)
LeadTypeOK ==
  /\ lead.profile \in Profile /\ lead.known \in BOOLEAN /\ fit \in Matches
  /\ events.views \in Views /\ events.did \subseteq Intent
  /\ leadScore.score \in 0..100 /\ leadScore.contactable \in BOOLEAN
  /\ \A r \in Run : run[r].at \in {"idle", "lead", "events", "keywords", "referrals", "write"}
  /\ runs \in 0..MaxRuns /\ changes \in 0..MaxChanges /\ owed \subseteq Run
  /\ {referrals, changed, leadOverlapped, dropped} \subseteq BOOLEAN

(* When nothing has changed since the last rescoring began, none is going   *)
(* on and no two have overlapped, the row shows what the lead's data are    *)
(* worth, although they are read by four statements.  A signup's own event  *)
(* is such a change: its points wait for a later rescoring.                 *)
ScoreIsCurrent ==
  ~changed /\ ~leadOverlapped /\ (\A r \in Run : run[r].at = "idle") => leadScore = ScoreLead(Data)

(* A lead whose person does more never falls in the list: only a rescoring  *)
(* that overlapped a later one lowers a score, or one after a scan that has *)
(* replaced the keywords by some that fit the lead less.                    *)
MoreIsNeverLess ==
  [][leadScore'.score < leadScore.score => leadOverlapped \/ dropped]_leadScoreVars
=============================================================================
