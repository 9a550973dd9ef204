------------------------------ MODULE SafeFetch ------------------------------
(***************************************************************************)
(* safeFetch of packages/security/src/ssrf.ts: the one way the connectors  *)
(* reach the network.  A request is validated, sent, and followed through  *)
(* redirects; every hop is validated again, and every connection resolves  *)
(* the name again, since the name server may answer differently each time. *)
(*                                                                         *)
(* A URL is abstracted to its origin and to what validateUrl says of it:   *)
(* "fine", "internal" (a port, a name or an address that only a policy     *)
(* with allowPrivate takes) or "refused".  Sizes are counted in chunks.    *)
(***************************************************************************)
EXTENDS Naturals, Sequences

CONSTANTS
  Origin,         \* origins a URL may have
  AllowPrivate,   \* opts.policy.allowPrivate
  MaxRedirects,   \* opts.maxRedirects
  MaxBytes        \* opts.maxBytes

VARIABLES
  url,            \* the URL of the current hop
  method, body,   \* its method, and whether it has a body
  credentials,    \* whether the headers still have authorization or cookie
  hop, step,      \* the hop, and "send", "answer", "done"
  size,           \* decompressed bytes of the current answer
  sent,           \* every request sent: what it carried, where it went
  outcome         \* "none", "answer" or "error"

fetchVars == <<url, method, body, credentials, hop, step, size, sent, outcome>>

Url == [origin : Origin, kind : {"fine", "internal", "refused"}]
Redirects == {301, 302, 303, 307, 308}

(* validateUrl *)
Valid(u) == u.kind = "fine" \/ (u.kind = "internal" /\ AllowPrivate)

Init ==
  /\ url \in Url /\ Valid(url)
  /\ method \in {"GET", "POST"} /\ body = (method = "POST")
  /\ credentials \in BOOLEAN
  /\ hop = 0 /\ step = "send" /\ size = 0 /\ sent = <<>> /\ outcome = "none"

Ends(result) == step' = "done" /\ outcome' = result

(* What isPrivateAddress says of an address: loopback, private, link-local, *)
(* reserved ... are "private", and so is one that cannot be read.          *)
Addresses == {"public", "private"}

(* guardedLookup: one private address among those found refuses the name.  *)
(* An internal URL that was let through resolves to a private address.     *)
Resolves(addresses) ==
  /\ addresses # {}
  /\ (url.kind = "internal") => "private" \in addresses
  /\ AllowPrivate \/ "private" \notin addresses

Send ==
  /\ step = "send"
  /\ \E addresses \in SUBSET Addresses :
       \/ /\ Resolves(addresses)
          /\ \E a \in addresses :
               sent' = Append(sent, [origin |-> url.origin, address |-> a,
                                     method |-> method, body |-> body,
                                     credentials |-> credentials, status |-> 0])
          /\ step' = "answer" /\ size' = 0
          /\ UNCHANGED outcome
       \/ /\ ~Resolves(addresses)
          /\ Ends("error")
          /\ UNCHANGED <<sent, size>>
  /\ UNCHANGED <<url, method, body, credentials, hop>>

(* A chunk of the answer, counted after decompression. *)
Data ==
  /\ step = "answer"
  /\ size' = size + 1
  /\ IF size + 1 > MaxBytes THEN Ends("error") ELSE UNCHANGED <<step, outcome>>
  /\ UNCHANGED <<url, method, body, credentials, hop, sent>>

(* No byte for timeoutMs, a broken connection, a stream that cannot be     *)
(* decompressed.                                                           *)
Fail ==
  /\ step = "answer"
  /\ Ends("error")
  /\ UNCHANGED <<url, method, body, credentials, hop, size, sent>>

End ==
  /\ step = "answer"
  /\ Ends("answer")
  /\ UNCHANGED <<url, method, body, credentials, hop, size, sent>>

(* A variant that looks at where the redirect leads from the start only. *)
KeepsAlways(next) == credentials

(* Credentials go no further than the origin they were given for. *)
KeepsCredentials(next) == credentials /\ next.origin = url.origin

BecomesGet(status) == status = 303 \/ (status \in {301, 302} /\ method = "POST")

Redirect(status, next) ==
  /\ step = "answer"
  /\ sent' = [sent EXCEPT ![Len(sent)].status = status]
  /\ IF Valid(next) /\ hop < MaxRedirects
       THEN /\ credentials' = KeepsCredentials(next)
            /\ method' = IF BecomesGet(status) THEN "GET" ELSE method
            /\ body' = (body /\ ~BecomesGet(status))
            /\ url' = next /\ hop' = hop + 1 /\ step' = "send"
            /\ UNCHANGED outcome
       ELSE Ends("error") /\ UNCHANGED <<url, method, body, credentials, hop>>
  /\ UNCHANGED size

Next ==
  \/ Send \/ Data \/ Fail \/ End
  \/ \E status \in Redirects, next \in Url : Redirect(status, next)

Spec == Init /\ [][Next]_fetchVars

-----------------------------------------------------------------------------
TypeOK ==
  /\ url \in Url /\ method \in {"GET", "POST"} /\ hop \in 0 .. MaxRedirects
  /\ {body, credentials} \subseteq BOOLEAN
  /\ step \in {"send", "answer", "done"} /\ size \in 0 .. MaxBytes + 1
  /\ outcome \in {"none", "answer", "error"}
  /\ Len(sent) <= MaxRedirects + 1

(* Whatever the servers answer, credentials reach only the origin they     *)
(* were given for, and not even that one once another has been asked.      *)
CredentialsStayHome ==
  \A j \in DOMAIN sent : sent[j].credentials =>
    \A i \in 1 .. j : sent[i].origin = sent[1].origin

(* However names resolve from one hop to the next, no address is contacted *)
(* that the policy excludes, and what the caller gets is within its limit. *)
StaysInPolicy ==
  /\ ~AllowPrivate => \A i \in DOMAIN sent : sent[i].address = "public"
  /\ outcome = "answer" => size <= MaxBytes

(* What a POST carries is not sent again once a server has asked for a GET *)
(* with 301, 302 or 303.                                                   *)
BodyGoesOnce ==
  \A i, j \in DOMAIN sent :
    (i < j /\ sent[i].body /\ sent[i].status \in {301, 302, 303}) =>
      ~sent[j].body /\ sent[j].method = "GET"
=============================================================================
