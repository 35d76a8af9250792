----------------------------- MODULE ChainStore -----------------------------
(***************************************************************************)
(* Request chaining: the store of named exchanges, captured values and     *)
(* rejected secrets (createChainStore in src/core/chain/resolver.ts), and  *)
(* the send path around it (prepareChainSend and recordChainExchange in    *)
(* src/core/chain/send.ts) as runRequest in src/extension/extension.ts     *)
(* calls them: every send reads the store before its first await and       *)
(* writes it after its last, while other sends come and go.                *)
(*                                                                         *)
(* A text is what one reference stands for.  A response is what its body   *)
(* holds at each path, a body that is not JSON (and a stream's, which is   *)
(* recorded as empty) holding nothing.                                     *)
(***************************************************************************)
EXTENDS Naturals, Sequences, FiniteSets

CONSTANTS
  Sends,        \* the calls of runRequest that may be underway
  Names,        \* identifiers a # @name may give
  CaptureNames, \* identifiers a # @capture may give
  Paths,        \* JSON paths
  Values,       \* serialized values
  Strings,      \* those that pass the validation of a declared type
  Blank,        \* the empty string
  Redacted,     \* the text that replaces a secret
  None,         \* undefined
  Unnamed,      \* a request without # @name
  Invalid,      \* one whose # @name is no identifier
  Requests,     \* the requests in the user's files
  Responses,    \* what servers answer
  Quota         \* MAX_SECRET_PROVENANCE

Directive == [cap : CaptureNames, path : Paths, typed : BOOLEAN,
              secret : BOOLEAN]

\* {{cap}}, {{name.response.body.path}} and {{name.request.body.path}}.
Ref == [kind : {"none"}] \cup [kind : {"capture"}, cap : CaptureNames]
       \cup [kind : {"response"}, name : Names, path : Paths]
       \cup [kind : {"request"}, name : Names]

Request == [name : Names \cup {Unnamed, Invalid}, captures : Seq(Directive),
            ref : Ref]

Response == [Paths -> Values \cup {None}]
Text == Values \cup {Redacted, None}
Capture == [value : Values, secret : BOOLEAN, owner : Names \cup {Unnamed}]
Hint == [name : CaptureNames, value : Values]
Send == [request : Requests, wire : Text, redacted : BOOLEAN,
         declared : BOOLEAN]

\* Only the parser makes requests: it keeps at most MAX_CAPTURES_PER_REQUEST
\* directives, and `secret` requires a declared type.
ASSUME ChainAssumption ==
  /\ Requests \subseteq Request /\ Responses \subseteq Response
  /\ \A r \in Requests : \A i \in DOMAIN r.captures :
       r.captures[i].secret => r.captures[i].typed
  /\ Blank \in Values /\ Strings \subseteq Values
  /\ Redacted \notin Values /\ None \notin Values /\ None # Redacted
  /\ Unnamed \notin Names /\ Invalid \notin Names /\ Invalid # Unnamed
  /\ None \notin Capture /\ None \notin Requests
  /\ None \notin Responses /\ None \notin Send
  /\ Quota \in Nat

VARIABLES
  requests,  \* ChainStore.requests: the text of each name's recorded body
  responses, \* ChainStore.responses
  captures,  \* ChainStore.captures
  hints,     \* secretProvenance
  sends,     \* each send underway: its locals, and whether its text was
             \* declared secret when it was prepared (history)
  latest     \* history: the request each name's exchange was recorded for

store == <<requests, responses, captures, hints, latest>>
vars == <<store, sends>>

Init ==
  /\ requests = [n \in Names |-> None]
  /\ responses = [n \in Names |-> None]
  /\ captures = [c \in CaptureNames |-> None]
  /\ hints = {}
  /\ sends = [s \in Sends |-> None]
  /\ latest = [n \in Names |-> None]

----------------------------------------------------------------------------
(* Recording an exchange.                                                  *)

\* applyCapture: a directive fails on a missing path or a value that its
\* declared type rejects.
Evaluates(d, response) ==
  response[d.path] # None /\ (d.typed => response[d.path] \in Strings)

Applied(r, response) ==
  {i \in DOMAIN r.captures : Evaluates(r.captures[i], response)}

\* Faulty variant: a name's earlier captures stay when it is recorded again.
KeptWithoutReplacement(r) == captures

\* Faulty variant: an unnamed exchange may replace what unnamed ones stored.
KeptUnlessUnnamed(r) ==
  [c \in CaptureNames |->
     IF captures[c] # None /\ captures[c].owner = r.name THEN None
     ELSE captures[c]]

\* replaceOwner: a named exchange first removes what it captured before.
Kept(r) ==
  [c \in CaptureNames |->
     IF /\ r.name \in Names /\ captures[c] # None
        /\ captures[c].owner = r.name
     THEN None
     ELSE captures[c]]

\* Faulty variant: a later directive of the same request replaces an earlier.
StoredLast(r, response) ==
  {i \in Applied(r, response) :
     /\ Kept(r)[r.captures[i].cap] = None
     /\ \A j \in Applied(r, response) :
          j > i => r.captures[j].cap # r.captures[i].cap}

\* recordCaptures: the first capture of a name is stored, unless another
\* exchange holds the name; the rest are duplicates.
Stored(r, response) ==
  {i \in Applied(r, response) :
     /\ Kept(r)[r.captures[i].cap] = None
     /\ \A j \in Applied(r, response) :
          j < i => r.captures[j].cap # r.captures[i].cap}

CapturesAfter(r, response) ==
  [c \in CaptureNames |->
     IF \E i \in Stored(r, response) : r.captures[i].cap = c
     THEN LET i == CHOOSE i \in Stored(r, response) : r.captures[i].cap = c
          IN  [value |-> response[r.captures[i].path],
               secret |-> r.captures[i].secret, owner |-> r.name]
     ELSE Kept(r)[c]]

HintOf(d, response) == [name |-> d.cap, value |-> response[d.path]]

\* The captures that noteSecretRejected is to remember.
Rejected(r, response) ==
  {i \in Applied(r, response) \ Stored(r, response) :
     r.captures[i].secret /\ response[r.captures[i].path] # Blank}

HintsUpTo(r, response, i) ==
  {HintOf(r.captures[j], response) : j \in {k \in Rejected(r, response) : k <= i}}

\* Faulty variant: rejected secrets are forgotten.
HintsForgotten(r, response) == hints

\* noteSecretRejected, in order, while there is room.
HintsAfter(r, response) ==
  hints \cup
    {HintOf(r.captures[i], response) :
       i \in {i \in Rejected(r, response) :
                Cardinality(hints \cup HintsUpTo(r, response, i)) <= Quota}}

SecretDirectives(r) == {i \in DOMAIN r.captures : r.captures[i].secret}

\* Faulty variant: one free slot is taken for room enough.
RefusesWhenFull(r) ==
  \/ r.name = Invalid
  \/ r.name \in Names /\ SecretDirectives(r) # {} /\ Cardinality(hints) >= Quota

\* recordChainExchange gives up on an invalid name, and on a named request
\* whose secrets might not all be remembered.
Refuses(r) ==
  \/ r.name = Invalid
  \/ /\ r.name \in Names /\ SecretDirectives(r) # {}
     /\ Cardinality(hints) + Cardinality(SecretDirectives(r)) > Quota

----------------------------------------------------------------------------
(* Secrets.                                                                *)

\* Faulty variant: rejected secrets are not swept for.
KnownWithoutHints ==
  {captures[c].value : c \in {k \in CaptureNames :
                                captures[k] # None /\ captures[k].secret}}
  \ {Blank}

\* What prepareChainSend sweeps the texts for.
Known ==
  ({captures[c].value : c \in {k \in CaptureNames :
                                 captures[k] # None /\ captures[k].secret}}
   \cup {h.value : h \in hints})
  \ {Blank}

\* What the recorded exchanges' requests declare secret.
DeclaredBy(n) ==
  IF latest[n] = None THEN {}
  ELSE {responses[n][latest[n].captures[i].path] :
          i \in {k \in Applied(latest[n], responses[n]) :
                   latest[n].captures[k].secret}} \ {Blank}
Declared == UNION {DeclaredBy(n) : n \in Names}

----------------------------------------------------------------------------
(* A send.                                                                 *)

\* The text of a reference; a reference that does not resolve blocks the
\* send, or is left to the environment, which is not modelled.
Resolves(ref, text) ==
  CASE ref.kind = "none" -> text = None
    [] ref.kind = "capture" ->
         captures[ref.cap] # None /\ text = captures[ref.cap].value
    [] ref.kind = "response" ->
         /\ responses[ref.name] # None /\ responses[ref.name][ref.path] # None
         /\ text = responses[ref.name][ref.path]
    [] ref.kind = "request" ->
         requests[ref.name] # None /\ text = requests[ref.name]

\* runRequest up to its first await: prepareChainSend.
Prepare(s, r, text) ==
  /\ sends[s] = None
  /\ Resolves(r.ref, text)
  /\ sends' = [sends EXCEPT ![s] =
       [request |-> r, wire |-> text, redacted |-> text \in Known,
        declared |-> text \in Declared]]
  /\ UNCHANGED store

\* The environment blocks the send, or no response is received.
Fails(s) ==
  /\ sends[s] # None
  /\ sends' = [sends EXCEPT ![s] = None]
  /\ UNCHANGED store

\* Faulty variant: the body is recorded as it was sent.
CopyUnscrubbed(send) == {send.wire}

\* scrubRecordedBody masks a secret, or gives the body up when it cannot.
Copy(send) == IF send.redacted THEN {Redacted, None} ELSE {send.wire}

\* A response is received, and recordChainExchange called.
Respond(s, response) ==
  /\ sends[s] # None
  /\ LET r == sends[s].request
     IN  IF Refuses(r) THEN UNCHANGED store
         ELSE /\ captures' = CapturesAfter(r, response)
              /\ hints' = HintsAfter(r, response)
              /\ IF r.name \in Names
                 THEN /\ \E text \in Copy(sends[s]) :
                           requests' = [requests EXCEPT ![r.name] = text]
                      /\ responses' = [responses EXCEPT ![r.name] = response]
                      /\ latest' = [latest EXCEPT ![r.name] = r]
                 ELSE UNCHANGED <<requests, responses, latest>>
  /\ sends' = [sends EXCEPT ![s] = None]

Next ==
  \/ \E s \in Sends, r \in Requests, text \in Text : Prepare(s, r, text)
  \/ \E s \in Sends : Fails(s)
  \/ \E s \in Sends, response \in Responses : Respond(s, response)

Spec == Init /\ [][Next]_vars

----------------------------------------------------------------------------
(* Properties.                                                             *)

\* Every variable has its type.
TypeOK ==
  /\ requests \in [Names -> Text]
  /\ responses \in [Names -> Responses \cup {None}]
  /\ captures \in [CaptureNames -> Capture \cup {None}]
  /\ hints \in SUBSET Hint
  /\ sends \in [Sends -> Send \cup {None}]
  /\ latest \in [Names -> Requests \cup {None}]

\* "A capture and {{login.response...}} can never disagree": what a name has
\* captured was all taken from the response recorded for it, by the first
\* directive of that capture that the response satisfies, however many sends
\* of one name overlap.
OneExchange ==
  \A c \in CaptureNames :
    captures[c] # None /\ captures[c].owner # Unnamed =>
      LET n == captures[c].owner
      IN  /\ latest[n] # None /\ responses[n] # None
          /\ \E i \in Applied(latest[n], responses[n]) :
               LET d == latest[n].captures[i]
               IN  /\ d.cap = c /\ d.secret = captures[c].secret
                   /\ responses[n][d.path] = captures[c].value
                   /\ \A j \in Applied(latest[n], responses[n]) :
                        j < i => latest[n].captures[j].cap # c

\* Whatever a recorded request declared secret is still swept for, even where
\* its capture was rejected and after other exchanges used up the quota: a
\* direct reference to the response cannot send it unredacted.
DeclaredSecretsAreKnown == Declared \subseteq Known

\* The list of rejected secrets never outgrows its quota.
ProvenanceIsBounded == Cardinality(hints) <= Quota

\* "The existing value stands": a capture changes only when the exchange that
\* made it is recorded again, and an unnamed one's never does.
ForeignCaptureStands ==
  [][\A c \in CaptureNames :
       captures[c] # None /\ captures'[c] # captures[c] =>
         \E s \in Sends :
           /\ sends[s] # None /\ sends'[s] = None
           /\ sends[s].request.name = captures[c].owner
           /\ captures[c].owner \in Names]_vars

\* A text that was declared secret when its send was prepared is never
\* recorded in the copy of the request's body, whatever the store has learnt
\* or forgotten by the time the response is recorded.
SecretCopiesAreScrubbed ==
  [][\A s \in Sends, n \in Names :
       /\ sends[s] # None /\ sends[s].declared /\ sends'[s] = None
       /\ requests'[n] # requests[n]
       => requests'[n] # sends[s].wire]_vars
=============================================================================
