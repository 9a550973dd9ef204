---------------------------- MODULE EventStream ----------------------------
(***************************************************************************)
(* Events and the stream of them (packages/core/src/events.ts and the      *)
(* route /api/events/stream of apps/api/src/routes/system.ts).  An event   *)
(* takes its id from a serial when its INSERT starts and is visible when   *)
(* the INSERT commits: ids become visible out of order.  A stream polls    *)
(* for what lies behind its cursor; the connection may be lost at any      *)
(* time, and the browser then asks again with the last id it has seen,     *)
(* until it is answered with an error.  A client is one EventSource: a     *)
(* page that is loaded again, or turns to another workspace, is another.   *)
(* One organisation: events of others are never read by its streams.       *)
(***************************************************************************)
EXTENDS Integers, FiniteSets, Sequences, SequencesExt

CONSTANTS
  Client,      \* EventSources
  MaxEvent,    \* bound of the model: events
  Limit,       \* rows of one poll (200 in the route)
  Recent,      \* how far a first connection goes back (20)
  MaxDrops     \* bound of the model: lost connections

VARIABLES
  pending,     \* ids of INSERTs that have not committed
  visible,     \* ids of committed events
  nextId,
  late,        \* history: ids that committed after a higher one
  cursor,      \* [Client -> Nat]: `last` of the open stream, -1 when there is none
  wire,        \* [Client -> Seq(Nat)]: written to the socket, not received
  received,    \* [Client -> Seq(Nat)]
  closed,      \* clients that a refusal has closed for good
  drops

logVars == <<pending, visible, nextId, late>>
streamVars == <<cursor, wire, received, closed, drops>>
vars == <<logVars, streamVars>>

Ids == 1..MaxEvent

TypeOK ==
  /\ pending \subseteq Ids /\ visible \subseteq Ids /\ late \subseteq visible
  /\ nextId \in 1..(MaxEvent + 1)
  /\ cursor \in [Client -> -1..MaxEvent]
  /\ wire \in [Client -> Seq(Ids)] /\ received \in [Client -> Seq(Ids)]
  /\ closed \subseteq Client /\ drops \in 0..MaxDrops

Init ==
  /\ pending = {} /\ visible = {} /\ nextId = 1 /\ late = {}
  /\ cursor = [c \in Client |-> -1]
  /\ wire = [c \in Client |-> <<>>] /\ received = [c \in Client |-> <<>>]
  /\ closed = {} /\ drops = 0

\* publish: the INSERT takes an id ...
Publish ==
  /\ nextId <= MaxEvent
  /\ pending' = pending \cup {nextId}
  /\ nextId' = nextId + 1
  /\ UNCHANGED <<visible, late, streamVars>>

\* ... and commits, or fails and leaves a gap.
CommitEvent(e) ==
  /\ e \in pending
  /\ pending' = pending \ {e}
  /\ visible' = visible \cup {e}
  /\ late' = IF \E d \in visible : d > e THEN late \cup {e} ELSE late
  /\ UNCHANGED <<nextId, streamVars>>

FailEvent(e) ==
  /\ e \in pending
  /\ pending' = pending \ {e}
  /\ UNCHANGED <<visible, nextId, late, streamVars>>

LatestId == IF visible = {} THEN 0 ELSE CHOOSE e \in visible : \A d \in visible : d <= e
AtLeastZero(n) == IF n < 0 THEN 0 ELSE n

\* Mutant: a client that reconnects starts from the recent events.
ConnectAfresh(c) ==
  /\ cursor[c] = -1 /\ c \notin closed
  /\ cursor' = [cursor EXCEPT ![c] = AtLeastZero(LatestId - Recent)]
  /\ UNCHANGED <<logVars, wire, received, closed, drops>>

\* The header Last-Event-ID, or a look back when the client has seen nothing.
Connect(c) ==
  /\ cursor[c] = -1 /\ c \notin closed
  /\ cursor' = [cursor EXCEPT ![c] =
                  IF received[c] # <<>> THEN Last(received[c]) ELSE AtLeastZero(LatestId - Recent)]
  /\ UNCHANGED <<logVars, wire, received, closed, drops>>

\* The request is answered with another status than 200 (the session has
\* ended, the API is being restarted): the EventSource gives up, and the page
\* makes no other.
Refuse(c) ==
  /\ cursor[c] = -1 /\ c \notin closed
  /\ closed' = closed \cup {c}
  /\ UNCHANGED <<logVars, cursor, wire, received, drops>>

\* tail: the first Limit ids behind the cursor, in order.
Behind(c) == {e \in visible : e > cursor[c]}
InOrder(ids) ==
  CHOOSE s \in [1..Cardinality(ids) -> ids] : \A i, j \in DOMAIN s : i < j => s[i] < s[j]
Tail_(c) == LET s == InOrder(Behind(c)) IN SubSeq(s, 1, IF Len(s) < Limit THEN Len(s) ELSE Limit)

\* Mutant: the cursor goes to the latest id though the poll was cut at Limit.
FlushToLatest(c) ==
  /\ cursor[c] # -1 /\ Behind(c) # {}
  /\ wire' = [wire EXCEPT ![c] = @ \o Tail_(c)]
  /\ cursor' = [cursor EXCEPT ![c] = LatestId]
  /\ UNCHANGED <<logVars, received, closed, drops>>

\* flush: busy keeps two polls of one stream apart.
Flush(c) ==
  /\ cursor[c] # -1 /\ Behind(c) # {}
  /\ wire' = [wire EXCEPT ![c] = @ \o Tail_(c)]
  /\ cursor' = [cursor EXCEPT ![c] = Last(Tail_(c))]
  /\ UNCHANGED <<logVars, received, closed, drops>>

Receive(c) ==
  /\ wire[c] # <<>>
  /\ received' = [received EXCEPT ![c] = Append(@, Head(wire[c]))]
  /\ wire' = [wire EXCEPT ![c] = Tail(@)]
  /\ UNCHANGED <<logVars, cursor, closed, drops>>

\* The connection is lost with whatever was on its way.
Drop(c) ==
  /\ cursor[c] # -1 /\ drops < MaxDrops
  /\ drops' = drops + 1
  /\ cursor' = [cursor EXCEPT ![c] = -1]
  /\ wire' = [wire EXCEPT ![c] = <<>>]
  /\ UNCHANGED <<logVars, received, closed>>

Next ==
  \/ Publish
  \/ \E e \in Ids : CommitEvent(e) \/ FailEvent(e)
  \/ \E c \in Client : Connect(c) \/ Refuse(c) \/ Flush(c) \/ Receive(c) \/ Drop(c)

\* The route polls every second, the socket is reliable while it lasts, and
\* a browser that has lost its connection asks again ("retry: 3000") until it
\* is refused.
Fairness == \A c \in Client : WF_vars(Connect(c)) /\ WF_vars(Flush(c)) /\ WF_vars(Receive(c))

Spec == Init /\ [][Next]_vars /\ Fairness

\* Whatever connections are lost, a client sees each event once and in the
\* order of the ids, and between the first and the last it has seen nothing
\* is missing, but for events that committed after a higher id: those the
\* cursor may have passed.
SeenInOrder ==
  \A c \in Client :
    LET r == received[c]
    IN /\ \A i \in 1..(Len(r) - 1) : r[i] < r[i + 1]
       /\ r # <<>> => \A e \in visible \ late : r[1] < e /\ e < Last(r) => e \in ToSet(r)

\* Some client that has begun to see events, and that nobody has refused, lacks
\* one that is not late.
Lagging ==
  \E c \in Client \ closed, e \in visible \ late :
    received[c] # <<>> /\ received[c][1] < e /\ e \notin ToSet(received[c])

\* The events that commit in the order of their ids, after the first that a
\* client has seen, all reach it, through any number of lost connections, if
\* none of its requests is refused.
EventsArrive == Lagging ~> ~Lagging
=============================================================================
