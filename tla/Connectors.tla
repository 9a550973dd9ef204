----------------------------- MODULE Connectors -----------------------------
(***************************************************************************)
(* runConnector (packages/connectors/src/registry.ts) with the web_page    *)
(* connector (sources/web.ts): credentials, result cache, minimum interval *)
(* between calls, robots.txt and the page itself.  Overlapping runs share  *)
(* the process's caches and the time of the last call.  In the first part  *)
(* robots.txt lets the page be read or does not; the second part models    *)
(* what such a file says, with variables and a specification of its own.   *)
(*                                                                         *)
(* Times are ages, each up to the one after which it makes no difference.  *)
(***************************************************************************)
EXTENDS Integers, Sequences, FiniteSets, SequencesExt

CONSTANTS
  Run,          \* calls of runConnector with one configuration
  MinInterval,  \* def.minIntervalMs
  CacheTtl,     \* CACHE_TTL_MS
  RobotsTtl,    \* an hour
  Timeout       \* ctx.timeoutMs: the time a request may take

VARIABLES
  key,        \* the connector's credentials are there
  site,       \* what the site answers: see Sites
  closedFor,  \* history: how long robots.txt has refused the page, 0 if it does not
  lastCall,   \* age of lastCall
  cache,      \* [age, page] of the cached result
  robots,     \* [age, allow] of the cached rules
  run         \* [Run -> [phase, wait, took, crossed, answer]]

connectorVars == <<key, site, closedFor, lastCall, cache, robots, run>>

Lower(a, b) == IF a < b THEN a ELSE b
Longest == RobotsTtl + CacheTtl + 2 * Timeout + 1

\* "open": rules that let the page be read.  "forbidden": 401 or 403.
\* "silent": no answer, or no robots.txt.
Rules == {"open", "closed", "forbidden", "silent"}
Pages == {"text", "error", "down"}
Sites == [robots : Rules, page : Pages]
Refuses(s) == s.robots \in {"closed", "forbidden"}

Never == -1
Idle == [phase |-> "idle", wait |-> 0, took |-> 0, crossed |-> FALSE, page |-> FALSE]

Init ==
  /\ key \in BOOLEAN /\ site \in Sites /\ closedFor = 0
  /\ lastCall = MinInterval
  /\ cache = [age |-> Never, page |-> FALSE] /\ robots = [age |-> Never, allow |-> TRUE]
  /\ run = [r \in Run |-> Idle]

Set(r, new) == run' = [run EXCEPT ![r] = new]
Others == UNCHANGED <<key, site, closedFor>>

Young(entry, ttl) == entry.age # Never /\ entry.age < ttl

\* A variant that keeps its results.
YoungForever(entry, ttl) == entry.age # Never

Fresh(entry, ttl) == Young(entry, ttl)

\* lastCall is now; those who sleep do not look at it again.
Calls(r) ==
  /\ lastCall' = 0
  /\ run' = [q \in Run |->
       IF q = r THEN [run[q] EXCEPT !.phase = "rules", !.took = 0, !.crossed = FALSE]
       ELSE IF run[q].phase = "waiting" THEN [run[q] EXCEPT !.crossed = TRUE] ELSE run[q]]

\* A run without its credentials ends; a cached result is the answer; else
\* the source is called, at once or after the rest of the interval.
Start(r) ==
  /\ run[r].phase = "idle"
  /\ \/ ~key /\ Set(r, [Idle EXCEPT !.phase = "answered"]) /\ UNCHANGED lastCall
     \/ /\ key /\ Fresh(cache, CacheTtl)
        /\ Set(r, [Idle EXCEPT !.phase = "answered", !.page = cache.page]) /\ UNCHANGED lastCall
     \/ /\ key /\ ~Fresh(cache, CacheTtl)
        /\ IF lastCall >= MinInterval THEN Calls(r)
           ELSE Set(r, [Idle EXCEPT !.phase = "waiting", !.wait = MinInterval - lastCall])
                  /\ UNCHANGED lastCall
  /\ UNCHANGED <<cache, robots>> /\ Others

Call(r) ==
  /\ run[r].phase = "waiting" /\ run[r].wait = 0
  /\ Calls(r)
  /\ UNCHANGED <<cache, robots>> /\ Others

\* robotsFor: 401 and 403 refuse everything, no answer refuses nothing.
RulesSay(s) == s.robots \notin {"closed", "forbidden"}

ReadRules(r) ==
  /\ run[r].phase = "rules"
  /\ LET allow == IF Fresh(robots, RobotsTtl) THEN robots.allow ELSE RulesSay(site)
     IN /\ robots' = IF Fresh(robots, RobotsTtl) THEN robots ELSE [age |-> 0, allow |-> allow]
        /\ \/ allow /\ Set(r, [run[r] EXCEPT !.phase = "page", !.took = 0]) /\ UNCHANGED cache
           \/ ~allow /\ Set(r, [run[r] EXCEPT !.phase = "answered"])
                     /\ cache' = [age |-> 0, page |-> FALSE]
  /\ UNCHANGED lastCall /\ Others

\* A page that answers with an error is left out; an error of the network
\* is the result of the run, and is not kept.
ReadPage(r) ==
  /\ run[r].phase = "page"
  /\ Set(r, [run[r] EXCEPT !.phase = "answered", !.page = site.page = "text"])
  /\ cache' = IF site.page = "down" THEN cache ELSE [age |-> 0, page |-> site.page = "text"]
  /\ UNCHANGED <<lastCall, robots>> /\ Others

End(r) ==
  /\ run[r].phase = "answered"
  /\ Set(r, Idle)
  /\ UNCHANGED <<lastCall, cache, robots>> /\ Others

\* The process starts again: its caches are gone.
Restart ==
  /\ \E r \in Run : run[r].phase # "idle"
  /\ run' = [r \in Run |-> Idle] /\ lastCall' = MinInterval
  /\ cache' = [age |-> Never, page |-> FALSE] /\ robots' = [age |-> Never, allow |-> TRUE]
  /\ Others

Aged(entry, ttl) == IF entry.age = Never THEN entry ELSE [entry EXCEPT !.age = Lower(@ + 1, ttl)]

Tick ==
  /\ \A r \in Run : /\ run[r].phase \in {"rules", "page"} => run[r].took < Timeout
                    /\ run[r].phase = "waiting" => run[r].wait > 0
                    /\ run[r].phase # "answered"
  /\ closedFor' = IF Refuses(site) THEN Lower(closedFor + 1, Longest) ELSE 0
  /\ lastCall' = Lower(lastCall + 1, MinInterval)
  /\ cache' = Aged(cache, CacheTtl) /\ robots' = Aged(robots, RobotsTtl)
  /\ run' = [r \in Run |->
       CASE run[r].phase = "waiting" -> [run[r] EXCEPT !.wait = @ - 1]
         [] run[r].phase \in {"rules", "page"} -> [run[r] EXCEPT !.took = @ + 1]
         [] OTHER -> run[r]]
  /\ UNCHANGED <<key, site>>

\* The credentials, the rules or the page change, one at a time.
Change ==
  /\ \/ key' = ~key /\ UNCHANGED site
     \/ UNCHANGED key /\ \E x \in Rules : site' = [site EXCEPT !.robots = x]
     \/ UNCHANGED key /\ \E x \in Pages : site' = [site EXCEPT !.page = x]
  /\ closedFor' = IF Refuses(site') THEN closedFor ELSE 0
  /\ UNCHANGED <<lastCall, cache, robots, run>>

Next ==
  \/ \E r \in Run : Start(r) \/ Call(r) \/ ReadRules(r) \/ ReadPage(r) \/ End(r)
  \/ Restart \/ Tick \/ Change

Spec == Init /\ [][Next]_connectorVars

-----------------------------------------------------------------------------
TypeOK ==
  /\ key \in BOOLEAN /\ site \in Sites /\ closedFor \in 0 .. Longest
  /\ lastCall \in 0 .. MinInterval
  /\ cache \in [age : Never .. CacheTtl, page : BOOLEAN]
  /\ robots \in [age : Never .. RobotsTtl, allow : BOOLEAN]
  /\ run \in [Run -> [phase : {"idle", "waiting", "rules", "page", "answered"},
                      page : BOOLEAN, wait : 0 .. MinInterval, took : 0 .. Timeout, crossed : BOOLEAN]]

\* "Respects robots.txt": a run that answers with the page, from the cache
\* or not, does so while the rules let it be read, or at most the life of
\* both caches and of a request after they ceased to.
PagesObeyRules ==
  \A r \in Run : run[r].phase = "answered" /\ run[r].page =>
    closedFor + 1 < RobotsTtl + CacheTtl + Timeout

\* "politeness (minimum interval per source)": two calls are closer than the
\* interval only when the later one was already waiting at the earlier.
CallsKeepInterval ==
  [][\A r \in Run : run[r].phase # "rules" /\ run'[r].phase = "rules" =>
       lastCall >= MinInterval \/ run[r].crossed]_connectorVars

-----------------------------------------------------------------------------
(***************************************************************************)
(* robots.txt (packages/connectors/src/robots.ts): the loop of parseRobots *)
(* over the lines of a file, and isAllowedByRobots.                        *)
(*                                                                         *)
(* A line names an agent or a path, or is of another kind.  Of an agent it *)
(* counts whether it is "*", a part of our name, or another; of a pattern  *)
(* its length, and the paths it fits: pattern n of Patterns fits the paths *)
(* from n on, so that the longer one is the more specific.                 *)
(***************************************************************************)
CONSTANTS
  MaxLines,     \* bound: lines of a file
  MaxPattern    \* patterns are 1 .. MaxPattern, of these lengths

Patterns == 1 .. MaxPattern
Agents == {"us", "*", "other"}
Line == [kind : {"user-agent"}, value : Agents]
          \cup [kind : {"allow", "disallow"}, value : Patterns]
          \cup {[kind |-> "sitemap", value |-> 0]}

VARIABLES
  file,          \* the lines read so far
  groups,        \* those found, the last one is "current"
  lastWasAgent

robotsVars == <<file, groups, lastWasAgent>>

NoGroup == [agents |-> {}, allow |-> {}, disallow |-> {}]
RobotsInit == file = <<>> /\ groups = <<>> /\ lastWasAgent = FALSE

Current == Len(groups)
AddAgent(value) ==
  IF groups = <<>> \/ ~lastWasAgent
    THEN Append(groups, [NoGroup EXCEPT !.agents = {value}])
    ELSE [groups EXCEPT ![Current].agents = @ \cup {value}]
AddRule(kind, value) ==
  IF groups = <<>> THEN groups
  ELSE CASE kind = "allow" -> [groups EXCEPT ![Current].allow = @ \cup {value}]
         [] kind = "disallow" -> [groups EXCEPT ![Current].disallow = @ \cup {value}]
         [] OTHER -> groups

\* A variant in which the agents go on after a rule.
ReadLineKeepsAgent(line) ==
  /\ Len(file) < MaxLines
  /\ file' = Append(file, line)
  /\ groups' = IF line.kind = "user-agent" THEN AddAgent(line.value) ELSE AddRule(line.kind, line.value)
  /\ lastWasAgent' = (lastWasAgent \/ line.kind = "user-agent")

ReadLine(line) ==
  /\ Len(file) < MaxLines
  /\ file' = Append(file, line)
  /\ groups' = IF line.kind = "user-agent" THEN AddAgent(line.value) ELSE AddRule(line.kind, line.value)
  /\ lastWasAgent' = (line.kind = "user-agent")

RobotsNext == \E line \in Line : ReadLine(line)

RobotsSpec == RobotsInit /\ [][RobotsNext]_robotsVars

\* parseRobots: the groups for us, or else those for everybody.
Chosen ==
  LET specific == {i \in DOMAIN groups : "us" \in groups[i].agents}
  IN IF specific # {} THEN specific ELSE {i \in DOMAIN groups : "*" \in groups[i].agents}
Allow == UNION {groups[i].allow : i \in Chosen}
Disallow == UNION {groups[i].disallow : i \in Chosen}

\* isAllowedByRobots: the patterns in order, those that allow first; a later
\* one replaces the best so far if it is longer, or as long and allows.
Fits(pattern, path) == pattern <= path
Better(best, pattern, allow) ==
  best.len = 0 \/ pattern > best.len \/ (pattern = best.len /\ allow)
Best(path) ==
  LET step(best, rule) ==
        IF Fits(rule.pattern, path) /\ Better(best, rule.pattern, rule.allow)
          THEN [len |-> rule.pattern, allow |-> rule.allow] ELSE best
      rules(patterns, allow) ==
        SetToSeq({[pattern |-> p, allow |-> allow] : p \in patterns})
  IN FoldLeft(step, [len |-> 0, allow |-> TRUE], rules(Allow, TRUE) \o rules(Disallow, FALSE))
Allowed(path) == Best(path).allow

-----------------------------------------------------------------------------
RobotsTypeOK ==
  /\ file \in Seq(Line) /\ lastWasAgent \in BOOLEAN
  /\ \A i \in DOMAIN groups : /\ groups[i].agents \subseteq Agents
                              /\ groups[i].allow \cup groups[i].disallow \subseteq Patterns

\* A rule speaks to the agents named in the run of user-agent lines nearest
\* above it, any other line ends such a run; lines for us silence those for
\* everybody; and a path is refused only when a pattern refuses it that is
\* longer than all that allow it.
RulesAsWritten ==
  LET isAgent(i) == file[i].kind = "user-agent"
      speaksTo(j, agent) ==
        \E i \in 1 .. j - 1 :
          /\ isAgent(i) /\ file[i].value = agent
          /\ \A k \in i .. j - 1 : isAgent(k) \/ \A m \in k .. j - 1 : ~isAgent(m)
      named(agent) == \E i \in DOMAIN file : isAgent(i) /\ file[i].value = agent
      ours(kind) == {file[j].value : j \in {i \in DOMAIN file :
                      file[i].kind = kind /\ speaksTo(i, IF named("us") THEN "us" ELSE "*")}}
  IN \A path \in Patterns :
       Allowed(path) <=>
         \A d \in ours("disallow") : Fits(d, path) =>
            \E a \in ours("allow") : Fits(a, path) /\ a >= d
=============================================================================
