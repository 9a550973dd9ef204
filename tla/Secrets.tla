------------------------------ MODULE Secrets -------------------------------
(***************************************************************************)
(* One provider key of a workspace on its way from the table to a request: *)
(* the encrypted row and its rotation (packages/core/src/secrets.ts,       *)
(* packages/security/src/crypto.ts), the copy that each process keeps in   *)
(* memory, and the router that is built from the copy and kept in turn     *)
(* (packages/core/src/ai.ts).  A change clears the copies of the process   *)
(* that made it and reaches the others by age alone.  The weights of the   *)
(* scores (strategy.ts) are kept the same way, without a router.           *)
(***************************************************************************)
EXTENDS Integers, FiniteSets

CONSTANTS
  Process,      \* API and worker processes
  Call,         \* overlapping calls of routerFor
  SecretAge,    \* age at which a copy is read again (30 s)
  RouterAge,    \* age at which a router is built again (60 s)
  MaxCallAge,   \* bound of the environment: how long a call takes
  MaxSets,      \* bound of the model: changes of the key
  MaxKeys,      \* bound of the model: encryption keys
  NoOne

VARIABLES
  secret,       \* the row: value (0: no row) and the key it is encrypted with
  gone,         \* [value -> time since the row held it, 0 while it does]
  newest,       \* the encryption key of the environment, PREVIOUS being the one before
  key,          \* [Process -> the key it was started with]
  copy,         \* [Process -> the cached value and its age]
  router,       \* [Process -> the value the cached router uses, and its age]
  asking,       \* [Call -> where it is, its process, value and age]
  rotating,     \* the rotation under way, if any
  rotated,      \* a rotation has ended since all processes have the newest key
  sets

keyVars == <<secret, gone, newest, key, copy, router, asking, rotating, rotated, sets>>

Values == 0..MaxSets
\* How long a replaced value may be in use: as a router, as the copy it was built
\* from, and during the call that keeps the copy and the one that builds the router.
Longest == (RouterAge - 1) + (SecretAge - 1) + 2 * MaxCallAge
Old == [value |-> 0, age |-> RouterAge]        \* stands for no cached entry
Quiet == [at |-> "idle", process |-> NoOne, value |-> 0, age |-> 0]
NoRotation == [at |-> "none", key |-> 1, value |-> 0]

TypeOK ==
  /\ secret \in [value : Values, key : 1..MaxKeys]
  /\ gone \in [Values -> 0..(Longest + 1)]
  /\ newest \in 1..MaxKeys /\ key \in [Process -> 1..newest]
  /\ copy \in [Process -> [value : Values, age : 0..RouterAge]]
  /\ router \in [Process -> [value : Values, age : 0..RouterAge]]
  /\ asking \in [Call -> [at : {"idle", "reading", "read", "building"}, process : Process \cup {NoOne},
                          value : Values, age : 0..MaxCallAge]]
  /\ rotating \in [at : {"none", "read"}, key : 1..MaxKeys, value : Values]
  /\ rotated \in BOOLEAN /\ sets \in 0..MaxSets

Init ==
  /\ secret = [value |-> 0, key |-> 1] /\ gone = [v \in Values |-> IF v = 0 THEN 0 ELSE Longest + 1]
  /\ newest = 1 /\ key = [p \in Process |-> 1]
  /\ copy = [p \in Process |-> Old] /\ router = [p \in Process |-> Old]
  /\ asking = [c \in Call |-> Quiet]
  /\ rotating = NoRotation /\ rotated = TRUE /\ sets = 0

-----------------------------------------------------------------------------

\* decryptSecret with [current, previous].
Opens(k, row) == row.value = 0 \/ row.key \in {k, k - 1}

Hold(v) == gone' = [gone EXCEPT ![v] = 0]

\* set by the settings route: the row, then the copy and the router of the
\* process that served the request.  Removing the key is setting it to 0.
Set(p, v) ==
  /\ sets < MaxSets /\ v \in {0, sets + 1} /\ v # secret.value
  /\ secret' = [value |-> v, key |-> key[p]] /\ Hold(v)
  /\ copy' = [copy EXCEPT ![p] = Old] /\ router' = [router EXCEPT ![p] = Old]
  /\ sets' = sets + 1
  /\ UNCHANGED <<newest, key, asking, rotating, rotated>>

\* routerFor: what is young enough is used as it is ...
Ask(c, p) ==
  /\ asking[c].at = "idle" /\ router[p].age >= RouterAge
  /\ asking' = [asking EXCEPT ![c] =
       IF copy[p].age < SecretAge
       THEN [at |-> "building", process |-> p, value |-> copy[p].value, age |-> 0]
       ELSE [at |-> "reading", process |-> p, value |-> 0, age |-> 0]]
  /\ UNCHANGED <<secret, gone, newest, key, copy, router, rotating, rotated, sets>>

\* ... else the row is read, and a row nobody here can decrypt is an error.
ReadRow(c) ==
  LET p == asking[c].process
  IN /\ asking[c].at = "reading"
     /\ asking' = [asking EXCEPT ![c] = IF Opens(key[p], secret)
                     THEN [@ EXCEPT !.at = "read", !.value = secret.value] ELSE Quiet]
     /\ UNCHANGED <<secret, gone, newest, key, copy, router, rotating, rotated, sets>>

KeepCopy(c) ==
  /\ asking[c].at = "read"
  /\ copy' = [copy EXCEPT ![asking[c].process] = [value |-> asking[c].value, age |-> 0]]
  /\ asking' = [asking EXCEPT ![c].at = "building"]
  /\ UNCHANGED <<secret, gone, newest, key, router, rotating, rotated, sets>>

Build(c) ==
  /\ asking[c].at = "building"
  /\ router' = [router EXCEPT ![asking[c].process] = [value |-> asking[c].value, age |-> 0]]
  /\ asking' = [asking EXCEPT ![c] = Quiet]
  /\ UNCHANGED <<secret, gone, newest, key, copy, rotating, rotated, sets>>

\* Mutant: an entry that is looked at stays young.
OlderNever(entry, limit) == entry

\* An entry that has reached its age is as good as none.
Older(entry, limit) == IF entry.age + 1 < limit THEN [entry EXCEPT !.age = @ + 1] ELSE Old

Tick ==
  /\ \A c \in Call : asking[c].age < MaxCallAge
  /\ gone' = [v \in Values |-> IF v = secret.value THEN 0
                               ELSE IF gone[v] > Longest THEN gone[v] ELSE gone[v] + 1]
  /\ copy' = [p \in Process |-> Older(copy[p], SecretAge)]
  /\ router' = [p \in Process |-> Older(router[p], RouterAge)]
  /\ asking' = [c \in Call |-> IF asking[c].at = "idle" THEN Quiet
                               ELSE [asking[c] EXCEPT !.age = @ + 1]]
  /\ UNCHANGED <<secret, newest, key, rotating, rotated, sets>>

-----------------------------------------------------------------------------
(* Rotation of the encryption key, as the administrative command does it,   *)
(* between two changes of the environment                                  *)

\* The operator goes on to another key when the last rotation is complete.
NewKey ==
  /\ newest < MaxKeys /\ rotated /\ rotating.at = "none" /\ \A p \in Process : key[p] = newest
  /\ newest' = newest + 1 /\ rotated' = FALSE
  /\ UNCHANGED <<secret, gone, key, copy, router, asking, rotating, sets>>

Restart(p) ==
  /\ key[p] < newest
  /\ key' = [key EXCEPT ![p] = newest]
  /\ copy' = [copy EXCEPT ![p] = Old] /\ router' = [router EXCEPT ![p] = Old]
  /\ asking' = [c \in Call |-> IF asking[c].process = p THEN Quiet ELSE asking[c]]
  /\ UNCHANGED <<secret, gone, newest, rotating, rotated, sets>>

\* rotate reads all rows ...
RotateReads ==
  /\ rotating.at = "none" /\ \A p \in Process : key[p] = newest
  /\ Opens(newest, secret)
  /\ rotating' = [at |-> "read", key |-> secret.key, value |-> secret.value]
  /\ UNCHANGED <<secret, gone, newest, key, copy, router, asking, rotated, sets>>

\* Mutant: rows are skipped that any key of this process opens.
RotateWritesUnlessOpen ==
  /\ rotating.at = "read"
  /\ rotating' = NoRotation /\ rotated' = TRUE
  /\ UNCHANGED <<secret, gone, newest, key, copy, router, asking, sets>>

\* ... and writes those back that have another key, over whatever is there.
RotateWrites ==
  /\ rotating.at = "read"
  /\ IF rotating.key # newest /\ rotating.value # 0 /\ secret.value # 0
     THEN secret' = [value |-> rotating.value, key |-> newest] /\ Hold(rotating.value)
     ELSE UNCHANGED <<secret, gone>>
  /\ rotating' = NoRotation /\ rotated' = TRUE
  /\ UNCHANGED <<newest, key, copy, router, asking, sets>>

RotateDies ==
  /\ rotating.at = "read"
  /\ rotating' = NoRotation
  /\ UNCHANGED <<secret, gone, newest, key, copy, router, asking, rotated, sets>>

Next ==
  \/ \E p \in Process : (\E v \in Values : Set(p, v)) \/ Restart(p)
  \/ \E c \in Call : (\E p \in Process : Ask(c, p)) \/ ReadRow(c) \/ KeepCopy(c) \/ Build(c)
  \/ NewKey \/ RotateReads \/ RotateWrites \/ RotateDies \/ Tick

Spec == Init /\ [][Next]_keyVars

-----------------------------------------------------------------------------

\* No process works with a key for longer than both caches and two calls allow
\* after it was replaced or removed, in whichever process, and whatever call
\* was reading the row at that moment.
ReplacedKeyDiesOut ==
  \A p \in Process : router[p].age < RouterAge => gone[router[p].value] <= Longest

\* If a key is changed only after the rotation to the last one has ended, a
\* process with the newest key can decrypt the row, whoever wrote it and
\* wherever a rotation was cut off.
NewestOpensAll == Opens(newest, secret)
=============================================================================
