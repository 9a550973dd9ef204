----------------------------- MODULE Discovery -----------------------------
(***************************************************************************)
(* From documents to opportunities (packages/core/src/discovery.ts and     *)
(* opportunities.ts).  A scan fetches documents, stores them, clusters     *)
(* those that show pain, and for every cluster inserts an opportunity or   *)
(* adds evidence to the one with the same fingerprint.  Scans overlap      *)
(* (commands, the scheduler, retries), and die anywhere.                   *)
(***************************************************************************)
EXTENDS Integers, FiniteSets

CONSTANTS
  Scan, Doc,
  Context,          \* documents of the regulatory connectors: never in a cluster
  Quotes,           \* documents of a cluster that become evidence: the 8 first
  Fingerprint,      \* what the keywords of a cluster come to
  MaxScans          \* bound of the model: scans that are begun

VARIABLES
  documents,        \* stored, one row per content hash
  opps,             \* fingerprints that have an opportunity
  evidence,         \* [Fingerprint -> [Doc -> rows]]
  signals,          \* [Fingerprint -> documents that opportunities.signals counts]
  scan,             \* [Scan -> what it has in hand]
  scans,            \* scans begun
  recounted,        \* history: fingerprints whose signals a later scan has recounted
  shared,           \* history: fingerprints that two scans worked on at once
  torn              \* history: fingerprints on which work was cut off

rows == <<documents, opps, evidence, signals>>
discoveryVars == <<rows, scan, scans, recounted, shared, torn>>

Idle == [at |-> "idle", docs |-> {}, stored |-> {}, for |-> "none", fresh |-> FALSE, read |-> {}]
AtCluster == {"inserting", "adding", "checked", "updating"}

TypeOK ==
  /\ documents \subseteq Doc /\ opps \subseteq Fingerprint
  /\ evidence \in [Fingerprint -> [Doc -> Nat]] /\ signals \in [Fingerprint -> SUBSET Doc]
  /\ scan \in [Scan -> [at : {"idle", "storing", "clustering"} \cup AtCluster, docs : SUBSET Doc,
                        stored : SUBSET Doc, for : Fingerprint \cup {"none"},
                        fresh : BOOLEAN, read : SUBSET Doc]]
  /\ \A s \in Scan : scan[s].stored \subseteq documents
  /\ recounted \subseteq opps
  /\ scans \in 0..MaxScans /\ shared \subseteq Fingerprint /\ torn \subseteq Fingerprint

Init ==
  /\ documents = {} /\ opps = {} /\ scans = 0 /\ recounted = {} /\ shared = {} /\ torn = {}
  /\ evidence = [f \in Fingerprint |-> [d \in Doc |-> 0]]
  /\ signals = [f \in Fingerprint |-> {}]
  /\ scan = [s \in Scan |-> Idle]

Set(s, r) == scan' = [scan EXCEPT ![s] = r]
EvidenceOf(f) == {d \in Doc : evidence[f][d] > 0}
SharedBy(s, f) == \E q \in Scan \ {s} : scan[q].for = f

\* Queries, sources and connectors: what comes back is whatever they answer; a
\* connector that fails contributes nothing.
Fetch(s, found) ==
  /\ scan[s].at = "idle" /\ scans < MaxScans
  /\ Set(s, [Idle EXCEPT !.at = "storing", !.docs = found])
  /\ scans' = scans + 1
  /\ UNCHANGED <<rows, recounted, shared, torn>>

\* storeDocument: INSERT ... ON CONFLICT DO UPDATE.
StoreDocument(s, d) ==
  /\ scan[s].at = "storing" /\ d \in scan[s].docs
  /\ documents' = documents \cup {d}
  /\ Set(s, [scan[s] EXCEPT !.docs = @ \ {d}, !.stored = @ \cup {d},
                            !.at = IF scan[s].docs = {d} THEN "clustering" ELSE "storing"])
  /\ UNCHANGED <<opps, evidence, signals, scans, recounted, shared, torn>>

\* What becomes evidence of a cluster: its first documents.
Quoted(docs) ==
  {quoted \in SUBSET docs : /\ Cardinality(quoted) <= Quotes
                            /\ quoted = docs \/ Cardinality(quoted) = Quotes}

\* upsertOpportunityFromCluster: evidence are the documents quoted and the
\* regulatory ones that the keywords are found in, signals are those of the
\* whole cluster.  The opportunity is looked for by fingerprint.  No document
\* is in two clusters of a scan.
TakeCluster(s, f, docs, quoted, related) ==
  /\ scan[s].at = "clustering" /\ docs \subseteq scan[s].stored \ Context /\ docs # {}
  /\ quoted \in Quoted(docs) /\ related \subseteq scan[s].stored \cap Context
  /\ Set(s, [scan[s] EXCEPT !.at = IF f \in opps THEN "adding" ELSE "inserting",
                            !.docs = quoted \cup related, !.for = f, !.fresh = f \notin opps,
                            !.stored = @ \ docs,
                            !.read = IF f \in opps THEN {} ELSE docs])
  /\ shared' = IF SharedBy(s, f) THEN shared \cup {f} ELSE shared \ {f}
  /\ UNCHANGED <<rows, scans, recounted, torn>>

\* The next cluster, or the end of the scan.
LeaveCluster(s) == Set(s, [Idle EXCEPT !.at = "clustering", !.stored = scan[s].stored])
CutOff(s) == torn' = torn \cup {scan[s].for}

\* Insert, with the signals of the cluster.  The unique index turns the
\* second of two inserts away: that cluster is noted as failed and left.
Insert(s) ==
  LET f == scan[s].for
  IN /\ scan[s].at = "inserting"
     /\ \/ /\ f \notin opps
           /\ opps' = opps \cup {f}
           /\ signals' = [signals EXCEPT ![f] = scan[s].read]
           /\ Set(s, [scan[s] EXCEPT !.at = "adding", !.read = {}])
        \/ f \in opps /\ LeaveCluster(s) /\ UNCHANGED <<opps, signals>>
     /\ UNCHANGED <<documents, evidence, scans, recounted, shared, torn>>

\* addEvidence: per document, look for the same claim ...
LookForEvidence(s, d) ==
  LET r == scan[s]
  IN /\ r.at = "adding" /\ d \in r.docs
     /\ Set(s, IF evidence[r.for][d] = 0 THEN [r EXCEPT !.at = "checked", !.read = {d}]
                                         ELSE [r EXCEPT !.docs = @ \ {d}])
     /\ UNCHANGED <<rows, scans, recounted, shared, torn>>

\* ... then insert.
InsertEvidence(s) ==
  LET r == scan[s]
  IN /\ r.at = "checked"
     /\ evidence' = [evidence EXCEPT ![r.for] = [d \in Doc |-> IF d \in r.read THEN @[d] + 1 ELSE @[d]]]
     /\ Set(s, [r EXCEPT !.at = "adding", !.docs = @ \ r.read, !.read = {}])
     /\ UNCHANGED <<documents, opps, signals, scans, recounted, shared, torn>>

\* Mutant: an opportunity that was there keeps the signals it had.
RecountNothing(s) ==
  LET r == scan[s]
  IN /\ r.at = "adding" /\ r.docs = {}
     /\ IF r.fresh THEN LeaveCluster(s) /\ torn' = torn \ {r.for}
        ELSE Set(s, [r EXCEPT !.at = "updating", !.read = signals[r.for]]) /\ UNCHANGED torn
     /\ UNCHANGED <<rows, scans, recounted, shared>>

\* A new opportunity is complete; for one that was there,
\* recomputeSignalsFromEvidence reads the documents behind its evidence ...
Recount(s) ==
  LET r == scan[s]
  IN /\ r.at = "adding" /\ r.docs = {}
     /\ IF r.fresh THEN LeaveCluster(s) /\ torn' = torn \ {r.for}
        ELSE Set(s, [r EXCEPT !.at = "updating", !.read = EvidenceOf(r.for)]) /\ UNCHANGED torn
     /\ UNCHANGED <<rows, scans, recounted, shared>>

\* ... and update writes them.  Scores and the graph follow.
Update(s) ==
  /\ scan[s].at = "updating"
  /\ signals' = [signals EXCEPT ![scan[s].for] = scan[s].read]
  /\ torn' = torn \ {scan[s].for} /\ recounted' = recounted \cup {scan[s].for}
  /\ LeaveCluster(s)
  /\ UNCHANGED <<documents, opps, evidence, scans, shared>>

\* A statement fails and the cluster is left, or the whole scan ends: done,
\* failed, out of time or dead.
Fail(s) ==
  /\ scan[s].at \in AtCluster /\ LeaveCluster(s) /\ CutOff(s)
  /\ UNCHANGED <<rows, scans, recounted, shared>>

End(s) ==
  /\ scan[s].at # "idle" /\ Set(s, Idle)
  /\ IF scan[s].at \in AtCluster THEN CutOff(s) ELSE UNCHANGED torn
  /\ UNCHANGED <<rows, scans, recounted, shared>>

Next == \E s \in Scan :
  \/ \E docs \in (SUBSET Doc) \ {{}} :
       \/ Fetch(s, docs)
       \/ \E f \in Fingerprint, related \in SUBSET Context :
            \E quoted \in Quoted(docs) : TakeCluster(s, f, docs, quoted, related)
  \/ \E d \in Doc : StoreDocument(s, d) \/ LookForEvidence(s, d)
  \/ Insert(s) \/ InsertEvidence(s) \/ Recount(s) \/ Update(s) \/ Fail(s) \/ End(s)

Spec == Init /\ [][Next]_discoveryVars

\* Signals of a cluster against its evidence: every document quoted is
\* counted, and all that are counted are quoted unless there were too many.
OfCluster(counted, grounds) ==
  LET quoted == grounds \ Context
  IN \/ quoted = counted
     \/ quoted \subseteq counted /\ Cardinality(quoted) = Quotes

\* The signals that the score rests on follow the evidence, once no scan is at
\* work on an opportunity: those of a new one are its cluster's, and from the
\* next scan that finds it again they count exactly the documents behind the
\* evidence.  Unless work on it was cut off, or two scans worked on it at
\* once, and then until the next scan that works on it alone is through.
SignalsFollowEvidence ==
  \A f \in opps \ (shared \cup torn) : (\A s \in Scan : scan[s].for # f) =>
    IF f \in recounted THEN signals[f] = EvidenceOf(f)
                       ELSE OfCluster(signals[f], EvidenceOf(f))

\* A claim stands twice in the evidence of an opportunity only if two scans
\* worked on it at once: a repeated, retried or resumed scan adds nothing.
EvidenceOnce ==
  [][\A f \in Fingerprint, d \in Doc :
       evidence[f][d] > 0 /\ evidence'[f][d] > evidence[f][d] => f \in shared]_discoveryVars
=============================================================================
