------------------------------ MODULE AuditLog ------------------------------
(***************************************************************************)
(* The audit log (packages/core/src/audit.ts): per organisation a chain of *)
(* hashes, appended under an advisory lock that the transaction keeps to   *)
(* its end.  record joins the transaction of its caller when there is one, *)
(* so that a transaction may append several entries, and abort.            *)
(***************************************************************************)
EXTENDS Integers, Sequences, FiniteSetsExt

CONSTANTS
  Writer,      \* concurrent transactions
  Org,         \* organisations
  Entry,       \* what an entry says, under its canonical form
  MaxSeq       \* bound of the model: values taken from the sequence

NoWriter == "nobody"

VARIABLES
  log,         \* set of committed Rows: audit_logs
  nextSeq,     \* its serial; not given back by an abort
  lock,        \* [Org -> Writer]: pg_advisory_xact_lock, or NoWriter
  prev,        \* [Writer -> Hash]: what the SELECT of the last hash returned
  step,        \* [Writer -> {"idle", "locked", "read", "inserted"}]
  own,         \* [Writer -> set of Rows]: inserted and not committed
  tampered     \* history: organisations with an edited entry

vars == <<log, nextSeq, lock, prev, step, own, tampered>>

\* sha256(prev || canonical) tells apart all that went into it: a hash is
\* the sequence of the entries up to its own.
Rows == [seq : 1..MaxSeq, org : Org, entry : Entry, prev : Seq(Entry), hash : Seq(Entry)]

TypeOK ==
  /\ log \subseteq Rows
  /\ nextSeq \in 1..(MaxSeq + 1)
  /\ lock \in [Org -> Writer \cup {NoWriter}]
  /\ prev \in [Writer -> Seq(Entry)]
  /\ step \in [Writer -> {"idle", "locked", "read", "inserted"}]
  /\ \A w \in Writer : own[w] \subseteq Rows
  /\ tampered \subseteq Org

Init ==
  /\ log = {} /\ nextSeq = 1
  /\ lock = [o \in Org |-> NoWriter]
  /\ prev = [w \in Writer |-> <<>>]
  /\ step = [w \in Writer |-> "idle"]
  /\ own = [w \in Writer |-> {}]
  /\ tampered = {}

RowsOf(rows, o) == {r \in rows : r.org = o}
LastHash(rows) ==
  IF rows = {} THEN <<>> ELSE (CHOOSE r \in rows : \A q \in rows : q.seq <= r.seq).hash

\* A transaction may hold the locks of several organisations; the one it
\* works on is the one it took, or asked for, last.
Holds(w, o) == lock[o] = w

\* Mutant: the lock is not waited for.
TakeAnyway(w, o) ==
  /\ step[w] = "idle"
  /\ lock' = [lock EXCEPT ![o] = w]
  /\ step' = [step EXCEPT ![w] = "locked"]
  /\ UNCHANGED <<log, nextSeq, prev, own, tampered>>

Take(w, o) ==
  /\ step[w] \in {"idle", "inserted"}
  /\ lock[o] \in {NoWriter, w}
  /\ \A p \in Org : Holds(w, p) => p = o        \* one organisation per transaction
  /\ lock' = [lock EXCEPT ![o] = w]
  /\ step' = [step EXCEPT ![w] = "locked"]
  /\ UNCHANGED <<log, nextSeq, prev, own, tampered>>

ReadPrev(w, o) ==
  /\ step[w] = "locked" /\ Holds(w, o)
  /\ prev' = [prev EXCEPT ![w] = LastHash(RowsOf(log \cup own[w], o))]
  /\ step' = [step EXCEPT ![w] = "read"]
  /\ UNCHANGED <<log, nextSeq, lock, own, tampered>>

InsertRow(w, o, e) ==
  /\ step[w] = "read" /\ Holds(w, o) /\ nextSeq <= MaxSeq
  /\ own' = [own EXCEPT ![w] = @ \cup {[seq |-> nextSeq, org |-> o, entry |-> e,
                                          prev |-> prev[w], hash |-> Append(prev[w], e)]}]
  /\ nextSeq' = nextSeq + 1
  /\ step' = [step EXCEPT ![w] = "inserted"]
  /\ UNCHANGED <<log, lock, prev, tampered>>

EndTx(w) ==
  /\ step' = [step EXCEPT ![w] = "idle"]
  /\ own' = [own EXCEPT ![w] = {}]
  /\ lock' = [o \in Org |-> IF Holds(w, o) THEN NoWriter ELSE lock[o]]
  /\ prev' = [prev EXCEPT ![w] = <<>>]
  /\ UNCHANGED <<nextSeq, tampered>>

Commit(w) == step[w] = "inserted" /\ log' = log \cup own[w] /\ EndTx(w)

\* ROLLBACK, a lost connection, or a failure of the caller after record.
Abort(w) == step[w] # "idle" /\ UNCHANGED log /\ EndTx(w)

\* Someone goes round the trigger roos_audit_immutable and edits an entry.
Tamper(r, e) ==
  /\ e # r.entry
  /\ log' = (log \ {r}) \cup {[r EXCEPT !.entry = e]}
  /\ tampered' = tampered \cup {r.org}
  /\ UNCHANGED <<nextSeq, lock, prev, step, own>>

Next ==
  \/ \E w \in Writer :
       \/ \E o \in Org : Take(w, o) \/ ReadPrev(w, o) \/ \E e \in Entry : InsertRow(w, o, e)
       \/ Commit(w) \/ Abort(w)
  \/ \E r \in log, e \in Entry : r.org \notin tampered /\ Tamper(r, e)

Spec == Init /\ [][Next]_vars

\* Mutant: only the links are compared.
VerifyLinks(o) ==
  \A r \in RowsOf(log, o) : r.prev = LastHash({q \in RowsOf(log, o) : q.seq < r.seq})

\* verifyChain.
VerifyChain(o) ==
  \A r \in RowsOf(log, o) :
    LET before == LastHash({q \in RowsOf(log, o) : q.seq < r.seq})
    IN r.prev = before /\ r.hash = Append(before, r.entry)

\* The chain of an organisation verifies exactly as long as nobody edited an
\* entry of it: neither concurrent nor aborted writers break it, and no later
\* entry mends what an edit broke ("tamper-evident").
ChainTellsTampering == \A o \in Org : VerifyChain(o) <=> o \notin tampered
=============================================================================
