------------------------------ MODULE Dashboard ------------------------------
(***************************************************************************)
(* One open page of the dashboard: its fetch hook (useApi of               *)
(* lib/hooks.ts), the providers around it (components/providers.tsx) and   *)
(* the progress of a workflow shown on it (components/workflow.tsx).       *)
(*                                                                         *)
(* Every request carries the workspace that localStorage names at that     *)
(* moment, which all tabs share.  What a request returns is abstracted to  *)
(* the version of the workspace it saw.  React runs the effects of a       *)
(* render after it: `due` holds those the next render will run.  A stale   *)
(* request changes nothing when it returns, so only the last of them is    *)
(* kept (it is what a hook without sequence numbers would trip over).      *)
(***************************************************************************)
EXTENDS Naturals

CONSTANTS
  Org,            \* workspaces of the user
  MaxVersion,     \* bound: changes per workspace
  MaxFailures,    \* bound: requests that fail
  MaxMoves,       \* bound: changes of the workspace
  Polls,          \* the page asks for opts.intervalMs
  Watches         \* the page shows the progress of a workflow

VARIABLES
  server,         \* version of each workspace's data
  stored,         \* localStorage roos_org
  session,        \* the workspace in the page's header
  loads,          \* requests of the hook in flight
  data, error,    \* what the hook shows
  stream,         \* the EventSource: its workspace, undelivered events
  due,            \* effects of the next render
  timer,          \* the 400 ms refresh timer
  settled,        \* version at which the watched workflow settled, 0 before
  asks,           \* requests of the progress component in flight
  finished,       \* its closure has called onDone
  wrote,          \* version that the user's last action with a reload has left
  failures, moves, tabbed

dashVars == <<server, stored, session, loads, data, error, stream, due, timer,
              settled, asks, finished, wrote, failures, moves, tabbed>>

Version == 0 .. MaxVersion
NoData == [org |-> "none", version |-> 0]
Home == CHOOSE o \in Org : TRUE
Unseen == MaxVersion + 1

(***************************************************************************)
(* load() of useApi: take a number; every earlier request is stale now.    *)
(***************************************************************************)
Issue(ls) ==
  {[l EXCEPT !.latest = FALSE] : l \in {m \in ls : m.latest}}
    \cup {[latest |-> TRUE, org |-> stored, seen |-> Unseen]}

(* A variant without the sequence number. *)
IsCurrentAlways(l) == TRUE

IsCurrent(l) == l.latest

Shown(l) == [org |-> l.org, version |-> l.seen]

Init ==
  /\ server = [o \in Org |-> 0] /\ stored = Home /\ session = Home
  /\ loads = {} /\ data = NoData /\ error = FALSE
  /\ stream = [org |-> "none", events |-> FALSE]
  /\ due = {"load", "stream"} \cup (IF Watches THEN {"watch"} ELSE {})
  /\ timer = FALSE /\ settled = 0 /\ asks = {} /\ finished = FALSE
  /\ wrote = [o \in Org |-> 0] /\ failures = 0 /\ moves = 0 /\ tabbed = FALSE

-----------------------------------------------------------------------------
(* The server: somebody, the user of this page or another, changes a       *)
(* workspace, which publishes an event.                                    *)
Published(o) ==
  stream' = [stream EXCEPT !.events = @ \/ stream.org = o]

Change(o) ==
  /\ server[o] < MaxVersion
  /\ server' = [server EXCEPT ![o] = @ + 1]
  /\ Published(o)
  /\ UNCHANGED <<stored, session, loads, data, error, due, timer, settled,
                 asks, finished, wrote, failures, moves, tabbed>>

(* The last task of the watched workflow settles. *)
Settle ==
  /\ Watches /\ settled = 0 /\ server[Home] < MaxVersion
  /\ server' = [server EXCEPT ![Home] = @ + 1]
  /\ settled' = server[Home] + 1
  /\ Published(Home)
  /\ UNCHANGED <<stored, session, loads, data, error, due, timer, asks,
                 finished, wrote, failures, moves, tabbed>>

(* The server answers a request of the hook. *)
Serve(l) ==
  /\ l.seen = Unseen
  /\ loads' = (loads \ {l}) \cup {[l EXCEPT !.seen = server[l.org]]}
  /\ UNCHANGED <<server, stored, session, data, error, stream, due, timer,
                 settled, asks, finished, wrote, failures, moves, tabbed>>

(* The answer reaches the page, and is shown if no later load was issued. *)
Return(l) ==
  /\ l.seen # Unseen
  /\ loads' = loads \ {l}
  /\ IF IsCurrent(l) THEN data' = Shown(l) /\ error' = FALSE
                     ELSE UNCHANGED <<data, error>>
  /\ UNCHANGED <<server, stored, session, stream, due, timer, settled, asks,
                 finished, wrote, failures, moves, tabbed>>

(* A request fails: the page keeps its data and shows the error. *)
LoadFails(l) ==
  /\ failures < MaxFailures
  /\ failures' = failures + 1
  /\ loads' = loads \ {l}
  /\ error' = (error \/ l.latest)
  /\ UNCHANGED <<server, stored, session, data, stream, due, timer, settled,
                 asks, finished, wrote, moves, tabbed>>

-----------------------------------------------------------------------------
(***************************************************************************)
(* onAny: the event goes into `recent`, which renders the page again with  *)
(* a new context value, and to the listener, which (re)starts the timer.   *)
(***************************************************************************)
EventArrives ==
  /\ stream.events
  /\ stream' = [stream EXCEPT !.events = FALSE]
  /\ timer' = TRUE
  /\ due' = due \cup {"subscribe"}
  /\ UNCHANGED <<server, stored, session, loads, data, error, settled, asks,
                 finished, wrote, failures, moves, tabbed>>

(* The cleanup of the subscription's effect, which depends on `events`,    *)
(* clears the timer.                                                       *)
TimerAfter == timer /\ "subscribe" \notin due

(* A new EventSource starts at the last 20 events; opening it and clearing *)
(* `recent` change the context value again.                                *)
StreamAfter ==
  IF "stream" \in due THEN [org |-> session, events |-> server[session] > 0]
                      ELSE stream

(* The progress component's effect: a new closure asks at once.  Requests  *)
(* of the old one still call its onDone, unless it has been called.        *)
AsksAfter ==
  IF "watch" \in due
    THEN {"current"} \cup {"old" : a \in IF finished THEN {} ELSE asks \cap {"current"}}
    ELSE asks

Render ==
  /\ due # {}
  /\ loads' = IF "load" \in due THEN Issue(loads) ELSE loads
  /\ timer' = TimerAfter
  /\ stream' = StreamAfter
  /\ asks' = AsksAfter
  /\ finished' = (finished /\ "watch" \notin due)
  /\ due' = IF "stream" \in due THEN {"subscribe"} ELSE {}
  /\ UNCHANGED <<server, stored, session, data, error, settled, wrote,
                 failures, moves, tabbed>>

Refresh ==
  /\ timer
  /\ timer' = FALSE
  /\ loads' = Issue(loads)
  /\ UNCHANGED <<server, stored, session, data, error, stream, due, settled,
                 asks, finished, wrote, failures, moves, tabbed>>

Poll ==
  /\ Polls
  /\ loads' = Issue(loads)
  /\ UNCHANGED <<server, stored, session, data, error, stream, due, timer,
                 settled, asks, finished, wrote, failures, moves, tabbed>>

-----------------------------------------------------------------------------
(* The user picks another workspace in the header. *)
SwitchOrg(o) ==
  /\ o # session /\ moves < MaxMoves /\ moves' = moves + 1
  /\ stored' = o /\ session' = o
  /\ due' = due \cup {"load", "stream", "subscribe"}
  /\ UNCHANGED <<server, loads, data, error, stream, timer, settled, asks,
                 finished, wrote, failures, tabbed>>

(* Another tab does: this one keeps its header, and asks for that one. *)
OtherTab(o) ==
  /\ o # stored /\ moves < MaxMoves /\ moves' = moves + 1
  /\ stored' = o /\ tabbed' = TRUE
  /\ UNCHANGED <<server, session, loads, data, error, stream, due, timer,
                 settled, asks, finished, wrote, failures>>

(* An action of the user is a Change like any other, and that of the       *)
(* command bar, of the form of the workspace or of a trigger of the agents *)
(* leaves it at that.  The handlers of the others reload the page once     *)
(* their POST is answered, with what it has changed on the server.         *)
ActionAnswered ==
  /\ wrote[stored] < server[stored]
  /\ wrote' = [wrote EXCEPT ![stored] = server[stored]]
  /\ loads' = Issue(loads)
  /\ UNCHANGED <<server, stored, session, data, error, stream, due, timer,
                 settled, asks, finished, failures, moves, tabbed>>

-----------------------------------------------------------------------------
(***************************************************************************)
(* The progress component asks every 4 s, on task events, and with each    *)
(* effect (the bound: one request of each closure at a time).  An answer   *)
(* read before the workflow settled changes nothing, so the read and the   *)
(* answer are one step.                                                    *)
(***************************************************************************)
Ask ==
  /\ Watches /\ "watch" \notin due /\ "current" \notin asks
  /\ asks' = asks \cup {"current"}
  /\ UNCHANGED <<server, stored, session, loads, data, error, stream, due,
                 timer, settled, finished, wrote, failures, moves, tabbed>>

(* A variant that takes the flag the other way round. *)
ReportsDoneLate(a) == settled > 0 /\ finished

ReportsDone(a) == settled > 0 /\ ~(a = "current" /\ finished)

(* onDone reloads the page; its callback is a new one on every render, so  *)
(* that the effect, which depends on it, runs again.                       *)
ReturnAsk(a) ==
  /\ asks' = asks \ {a}
  /\ IF ReportsDone(a)
       THEN /\ finished' = (finished \/ a = "current")
            /\ loads' = Issue(loads)
            /\ due' = due \cup {"watch"}
       ELSE UNCHANGED <<finished, loads, due>>
  /\ UNCHANGED <<server, stored, session, data, error, stream, timer, settled,
                 wrote, failures, moves, tabbed>>

Next ==
  \/ \E o \in Org : Change(o) \/ SwitchOrg(o) \/ OtherTab(o)
  \/ \E l \in loads : Serve(l) \/ Return(l) \/ LoadFails(l)
  \/ \E a \in asks : ReturnAsk(a)
  \/ Settle \/ EventArrives \/ Render \/ Refresh \/ Poll \/ ActionAnswered \/ Ask

(* The browser renders, delivers answers, and runs its timers; a request   *)
(* is not overtaken by a later one for ever.  Nothing is presumed of the   *)
(* events: a refusal closes the EventSource, and the page makes no other.  *)
Fairness ==
  /\ WF_dashVars(Render) /\ WF_dashVars(Refresh) /\ WF_dashVars(Ask)
  /\ SF_dashVars(\E l \in loads : l.latest /\ Serve(l))
  /\ SF_dashVars(\E l \in loads : l.latest /\ Return(l))
  /\ WF_dashVars(\E a \in asks : ReturnAsk(a))

Spec == Init /\ [][Next]_dashVars /\ Fairness

-----------------------------------------------------------------------------
TypeOK ==
  /\ server \in [Org -> Version] /\ wrote \in [Org -> Version]
  /\ stored \in Org /\ session \in Org
  /\ loads \subseteq [latest : BOOLEAN, org : Org, seen : Version \cup {Unseen}]
  /\ data = NoData \/ data \in [org : Org, version : Version]
  /\ stream \in [org : Org \cup {"none"}, events : BOOLEAN]
  /\ due \subseteq {"load", "stream", "subscribe", "watch"}
  /\ asks \subseteq {"current", "old"}
  /\ {error, timer, finished, tabbed} \subseteq BOOLEAN
  /\ settled \in Version /\ failures \in 0 .. MaxFailures /\ moves \in 0 .. MaxMoves

(* A page at rest shows the workspace of its header, if no other tab has   *)
(* changed the workspace they share, and nothing older than what the last  *)
(* of the user's actions that reload the page has left there, however the  *)
(* answers were reordered.  It says nothing of the actions that do not     *)
(* reload it, nor of what a form has copied: that of the workspace keeps   *)
(* what it was first shown.                                                *)
PageIsCurrent ==
  (due = {} /\ ~error /\ ~\E l \in loads : l.latest) =>
    /\ ~tabbed => data.org = session
    /\ data.org \in Org => data.version >= wrote[data.org]

(* What a page shows of one workspace never goes back to an older answer.  *)
NeverGoesBack ==
  [][data'.org = data.org => data'.version >= data.version]_dashVars

\* The page shows what its workflow left, or an error, or the user has left.
ShowsWhatItLeft ==
  \/ data.org = Home /\ data.version >= settled
  \/ error \/ session # Home \/ tabbed

(* A page whose workflow has settled comes to show what it left, or an     *)
(* error, unless the user leaves the workspace.                            *)
DoneReachesPage == (settled > 0) ~> ShowsWhatItLeft

(* The comment of useApi ("optionally re-fetches when matching server      *)
(* events arrive over SSE", lib/hooks.ts:9): a page left alone, to which   *)
(* every event is delivered, comes to show the workspace as it is, or an   *)
(* error.                                                                  *)
PageFollowsEvents ==
  WF_dashVars(EventArrives) => \A v \in Version, o \in Org :
    (server[o] = v) ~> \/ data.org = o /\ data.version >= v
                       \/ error \/ session # o \/ tabbed
=============================================================================
