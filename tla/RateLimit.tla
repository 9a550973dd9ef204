----------------------------- MODULE RateLimit -----------------------------
(***************************************************************************)
(* RedisRateLimiter (packages/security/src/ratelimit.ts): one key with a   *)
(* counter and a time to live, worked on by hits that are three or four    *)
(* commands each and may die between any two (an API process that stops).  *)
(***************************************************************************)
EXTENDS Integers

CONSTANTS
  Hit,         \* concurrent hits of one client
  HitLimit,    \* `limit`
  Window,      \* `windowMs`, in ticks
  MaxCount,    \* bound of the model: largest count
  MaxDeaths    \* bound of the model: hits that die

VARIABLES
  count, ttl,  \* of the Redis key: 0 when it does not exist; -1 without expiry
  at,          \* [Hit -> where the hit is]
  deaths

limiterVars == <<count, ttl, at, deaths>>

TypeOK ==
  /\ count \in 0..MaxCount /\ ttl \in -1..Window
  /\ at \in [Hit -> {"idle", "first", "counted", "unset"}]
  /\ deaths \in 0..MaxDeaths

Init == count = 0 /\ ttl = 0 /\ at = [h \in Hit |-> "idle"] /\ deaths = 0

Goto(h, p) == at' = [at EXCEPT ![h] = p]

Incr(h) ==
  /\ at[h] = "idle" /\ count < MaxCount
  /\ count' = count + 1
  /\ ttl' = IF count = 0 THEN -1 ELSE ttl
  /\ Goto(h, IF count = 0 THEN "first" ELSE "counted")
  /\ UNCHANGED deaths

\* PEXPIRE does nothing to a key that is gone.
Expiring == IF count = 0 THEN 0 ELSE Window

ExpireFirst(h) ==
  /\ at[h] = "first" /\ ttl' = Expiring /\ Goto(h, "counted")
  /\ UNCHANGED <<count, deaths>>

\* Mutant: the answer of PTTL is only used for the reply.
NeedsNoExpiry == FALSE

\* PTTL: the key is gone or has no expiry; or all is well and the hit answers.
NeedsExpiry == ttl = -1 \/ count = 0

Inspect(h) ==
  /\ at[h] = "counted"
  /\ Goto(h, IF NeedsExpiry THEN "unset" ELSE "idle")
  /\ UNCHANGED <<count, ttl, deaths>>

ExpireAgain(h) ==
  /\ at[h] = "unset" /\ ttl' = Expiring /\ Goto(h, "idle")
  /\ UNCHANGED <<count, deaths>>

Die(h) ==
  /\ at[h] # "idle" /\ deaths < MaxDeaths
  /\ deaths' = deaths + 1 /\ Goto(h, "idle")
  /\ UNCHANGED <<count, ttl>>

Tick ==
  /\ ttl > 0 /\ ttl' = ttl - 1
  /\ count' = IF ttl = 1 THEN 0 ELSE count
  /\ UNCHANGED <<at, deaths>>

\* At the bound a further hit changes nothing but where it is.
IncrAtBound(h) ==
  /\ at[h] = "idle" /\ count = MaxCount
  /\ Goto(h, "counted") /\ UNCHANGED <<count, ttl, deaths>>

Step(h) == ExpireFirst(h) \/ Inspect(h) \/ ExpireAgain(h)

\* What a hit does by itself: the client asks, the code goes on.
Goes(h) == Incr(h) \/ IncrAtBound(h) \/ Step(h)

Next == Tick \/ \E h \in Hit : Goes(h) \/ Die(h)

\* Time passes, a hit under way goes on, and the client keeps asking.
Fairness == WF_limiterVars(Tick) /\ \A h \in Hit : WF_limiterVars(Goes(h))

Spec == Init /\ [][Next]_limiterVars /\ Fairness

\* While nobody is at work on it, a key has an expiry: a hit that died after
\* INCR leaves one without, and the next hit to answer mends that.
AnsweredKeyExpires ==
  [][\A h \in Hit : at[h] # "idle" /\ at'[h] = "idle" /\ deaths' = deaths
       => ttl' # -1 \/ \E g \in Hit : at'[g] # "idle"]_limiterVars

\* A client that keeps asking is let through again: the window is not pushed
\* on by the hits that are refused, nor lost with one that died.
RefusalEnds == (count > HitLimit) ~> (count = 0)
=============================================================================
