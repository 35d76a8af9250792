------------------------- MODULE ChainStore_proofs -------------------------
(***************************************************************************)
(* Theorems about ChainStore, for any requests, names, values and quota.   *)
(***************************************************************************)
EXTENDS ChainStore, FiniteSetTheorems, WellFoundedInduction, TLAPS

----------------------------------------------------------------------------
(* Operators.                                                              *)

\* The captures of a request are directives, indexed by numbers.
LEMMA CapturesOf ==
  ASSUME NEW r \in Requests
  PROVE  /\ r.name \in Names \cup {Unnamed, Invalid}
         /\ DOMAIN r.captures = 1..Len(r.captures) /\ Len(r.captures) \in Nat
         /\ DOMAIN r.captures \subseteq Nat
         /\ \A i \in DOMAIN r.captures :
              r.captures[i] \in Directive
BY ChainAssumption DEF Request

\* A directive that evaluates yields a value.
LEMMA AppliedOf ==
  ASSUME NEW r \in Requests, NEW response \in Responses,
         NEW i \in Applied(r, response)
  PROVE  /\ i \in DOMAIN r.captures /\ i \in Nat
         /\ r.captures[i] \in Directive
         /\ r.captures[i].cap \in CaptureNames
         /\ r.captures[i].secret \in BOOLEAN
         /\ response[r.captures[i].path] \in Values
<1>1. i \in DOMAIN r.captures BY DEF Applied
<1>2. r.captures[i] \in Directive /\ i \in Nat BY <1>1, CapturesOf
<1>3. response \in Response BY ChainAssumption
<1>4. response[r.captures[i].path] # None BY DEF Applied, Evaluates
<1>5. r.captures[i].path \in Paths BY <1>2 DEF Directive
<1>6. response[r.captures[i].path] \in Values BY <1>3, <1>4, <1>5 DEF Response
<1> QED BY <1>1, <1>2, <1>6 DEF Directive

\* One request stores a capture at most once.
LEMMA StoredOnce ==
  ASSUME NEW r \in Requests, NEW response \in Responses,
         NEW i \in Stored(r, response), NEW j \in Stored(r, response),
         r.captures[i].cap = r.captures[j].cap
  PROVE  i = j
<1>1. i \in Applied(r, response) /\ j \in Applied(r, response) BY DEF Stored
<1>2. i \in Nat /\ j \in Nat BY <1>1, AppliedOf
<1>3. ~(i < j) /\ ~(j < i) BY <1>1 DEF Stored
<1> QED BY <1>2, <1>3

\* What a stored directive leaves in the store.
LEMMA StoredIsCaptured ==
  ASSUME NEW r \in Requests, NEW response \in Responses,
         NEW i \in Stored(r, response)
  PROVE  CapturesAfter(r, response)[r.captures[i].cap] =
           [value |-> response[r.captures[i].path],
            secret |-> r.captures[i].secret, owner |-> r.name]
<1> DEFINE c == r.captures[i].cap
           k == CHOOSE k \in Stored(r, response) : r.captures[k].cap = c
<1>1. c \in CaptureNames BY AppliedOf DEF Stored
<1>2. k \in Stored(r, response) /\ r.captures[k].cap = c OBVIOUS
<1>3. k = i BY <1>2, StoredOnce
<1>4. CapturesAfter(r, response)[c] =
        [value |-> response[r.captures[k].path],
         secret |-> r.captures[k].secret, owner |-> r.name]
  BY <1>1 DEF CapturesAfter
<1> QED BY <1>3, <1>4

\* Every capture after a recording was stored by it or kept by it.
LEMMA CaptureOrigin ==
  ASSUME NEW r \in Requests, NEW response \in Responses,
         NEW c \in CaptureNames
  PROVE  \/ \E i \in Stored(r, response) :
              /\ r.captures[i].cap = c
              /\ CapturesAfter(r, response)[c] =
                   [value |-> response[r.captures[i].path],
                    secret |-> r.captures[i].secret, owner |-> r.name]
         \/ CapturesAfter(r, response)[c] = Kept(r)[c]
<1>1. CASE \E i \in Stored(r, response) : r.captures[i].cap = c
  <2>1. PICK i \in Stored(r, response) : r.captures[i].cap = c BY <1>1
  <2> QED BY <2>1, StoredIsCaptured
<1>2. CASE ~\E i \in Stored(r, response) : r.captures[i].cap = c
  BY <1>2 DEF CapturesAfter
<1> QED BY <1>1, <1>2

\* A capture that is kept is not replaced.
LEMMA KeptStands ==
  ASSUME NEW r \in Requests, NEW response \in Responses,
         NEW c \in CaptureNames, Kept(r)[c] # None
  PROVE  CapturesAfter(r, response)[c] = captures[c]
<1>1. ~\E i \in Stored(r, response) : r.captures[i].cap = c BY DEF Stored
<1>2. Kept(r)[c] = captures[c] BY DEF Kept
<1> QED BY <1>1, <1>2 DEF CapturesAfter

\* The rejected secrets of a request are finitely many, and no more than its
\* secret directives.
LEMMA RejectedFinite ==
  ASSUME NEW r \in Requests, NEW response \in Responses,
         NEW S \in SUBSET Rejected(r, response)
  PROVE  LET H == {HintOf(r.captures[j], response) : j \in S}
         IN  /\ IsFiniteSet(SecretDirectives(r)) /\ IsFiniteSet(H)
             /\ Cardinality(H) <= Cardinality(SecretDirectives(r))
<1> DEFINE D == SecretDirectives(r)
           H == {HintOf(r.captures[j], response) : j \in S}
           f == [j \in S |-> HintOf(r.captures[j], response)]
<1>1. IsFiniteSet(DOMAIN r.captures)
  <2>1. IsFiniteSet(1..Len(r.captures)) BY CapturesOf, FS_Interval
  <2> QED BY <2>1, CapturesOf
<1>2. D \subseteq DOMAIN r.captures BY DEF SecretDirectives
<1>3. IsFiniteSet(D) BY <1>1, <1>2, FS_Subset
<1>4. S \subseteq D BY DEF Rejected, Applied, SecretDirectives
<1>5. IsFiniteSet(S) /\ Cardinality(S) <= Cardinality(D)
  BY <1>3, <1>4, FS_Subset
<1>6. f \in Surjection(S, H) BY DEF Surjection
<1>7. IsFiniteSet(H) /\ Cardinality(H) <= Cardinality(S)
  BY <1>5, <1>6, FS_Surjection
<1>8. Cardinality(H) \in Nat /\ Cardinality(S) \in Nat /\ Cardinality(D) \in Nat
  BY <1>3, <1>5, <1>7, FS_CardinalityType
<1> QED BY <1>3, <1>5, <1>7, <1>8

\* A bounded set of numbers has a greatest one.
LEMMA Greatest ==
  ASSUME NEW S \in SUBSET Nat, S # {}, NEW n \in Nat, \A k \in S : k <= n
  PROVE  \E m \in S : \A k \in S : k <= m
<1> DEFINE T == {n - k : k \in S}
           R == OpToRel(<, Nat)
<1>1. T \subseteq Nat /\ T # {}
  <2>1. ASSUME NEW k \in S PROVE n - k \in Nat
    <3>1. k \in Nat /\ k <= n OBVIOUS
    <3> QED BY <3>1
  <2> QED BY <2>1
<1>2. PICK x \in T : \A y \in T : ~(<<y, x>> \in R)
  BY <1>1, WFMin, NatLessThanWellFounded
<1>3. \A y \in T : ~(y < x) BY <1>1, <1>2 DEF OpToRel
<1>4. PICK m \in S : x = n - m OBVIOUS
<1>5. ASSUME NEW k \in S PROVE k <= m
  <2>1. ~(n - k < n - m) BY <1>3, <1>4
  <2>2. k \in Nat /\ m \in Nat OBVIOUS
  <2> QED BY <2>1, <2>2
<1> QED BY <1>5

\* noteSecretRejected's limit: the list keeps within its quota.
LEMMA HintsFit ==
  ASSUME IsFiniteSet(hints), Cardinality(hints) <= Quota,
         NEW r \in Requests, NEW response \in Responses
  PROVE  Cardinality(HintsAfter(r, response)) <= Quota
<1> DEFINE S == {i \in Rejected(r, response) :
                   Cardinality(hints \cup HintsUpTo(r, response, i)) <= Quota}
<1>1. S \subseteq DOMAIN r.captures BY DEF Rejected, Applied
<1>2. S \subseteq Nat /\ \A k \in S : k <= Len(r.captures)
  BY <1>1, CapturesOf
<1>3. CASE S = {}
  <2>1. HintsAfter(r, response) = hints BY <1>3 DEF HintsAfter
  <2> QED BY <2>1
<1>4. CASE S # {}
  <2>1. PICK m \in S : \A k \in S : k <= m
    BY <1>2, <1>4, Greatest, CapturesOf
  <2>2. HintsAfter(r, response) \subseteq hints \cup HintsUpTo(r, response, m)
    BY <2>1 DEF HintsAfter, HintsUpTo
  <2> DEFINE U == hints \cup HintsUpTo(r, response, m)
  <2>3. IsFiniteSet(HintsUpTo(r, response, m))
    <3>1. {k \in Rejected(r, response) : k <= m} \subseteq Rejected(r, response)
      OBVIOUS
    <3> QED BY <3>1, RejectedFinite DEF HintsUpTo
  <2>4. IsFiniteSet(U) BY <2>3, FS_Union
  <2>5. /\ IsFiniteSet(HintsAfter(r, response))
        /\ Cardinality(HintsAfter(r, response)) <= Cardinality(U)
    BY <2>2, <2>4, FS_Subset
  <2>6. /\ Cardinality(U) \in Nat /\ Cardinality(U) <= Quota
        /\ Cardinality(HintsAfter(r, response)) \in Nat
    BY <2>1, <2>4, <2>5, FS_CardinalityType
  <2> HIDE DEF U
  <2> QED BY <2>5, <2>6, ChainAssumption
<1> QED BY <1>3, <1>4

\* recordChainExchange's reserve: a named exchange that is not refused can
\* remember every secret it rejects.
LEMMA ReserveSuffices ==
  ASSUME IsFiniteSet(hints), NEW r \in Requests, NEW response \in Responses,
         r.name \in Names, ~Refuses(r), NEW i \in Rejected(r, response)
  PROVE  HintOf(r.captures[i], response) \in HintsAfter(r, response)
<1> DEFINE D == SecretDirectives(r)
           H == HintsUpTo(r, response, i)
           S == {k \in Rejected(r, response) : k <= i}
<1>1. i \in D BY DEF Rejected, Applied, SecretDirectives
<1>2. Cardinality(hints) + Cardinality(D) <= Quota
  <2>1. IsFiniteSet(D) BY RejectedFinite
  <2>2. Cardinality(hints) \in Nat /\ Cardinality(D) \in Nat
    BY <2>1, FS_CardinalityType
  <2> QED BY <1>1, <2>2, ChainAssumption DEF Refuses
<1>3. S \subseteq Rejected(r, response) OBVIOUS
<1>4. /\ IsFiniteSet(D) /\ IsFiniteSet(H)
      /\ Cardinality(H) <= Cardinality(D)
  BY <1>3, RejectedFinite DEF HintsUpTo
<1>5. IsFiniteSet(hints \cap H) BY FS_Intersection
<1>6. Cardinality(hints \cup H) =
        Cardinality(hints) + Cardinality(H) - Cardinality(hints \cap H)
  BY <1>4, FS_Union
<1>7. /\ Cardinality(hints) \in Nat /\ Cardinality(D) \in Nat
      /\ Cardinality(H) \in Nat /\ Cardinality(hints \cap H) \in Nat
  BY <1>4, <1>5, FS_CardinalityType
<1>8. Cardinality(hints \cup H) <= Quota
  <2> HIDE DEF D, H
  <2> QED BY <1>2, <1>4, <1>6, <1>7, ChainAssumption
<1> QED BY <1>8 DEF HintsAfter

----------------------------------------------------------------------------
(* Types.                                                                  *)

TypeInv == TypeOK /\ IsFiniteSet(hints)

\* A recording leaves the captures and hints well typed.
LEMMA RecordingType ==
  ASSUME TypeInv, NEW r \in Requests, NEW response \in Responses, ~Refuses(r)
  PROVE  /\ CapturesAfter(r, response) \in [CaptureNames -> Capture \cup {None}]
         /\ HintsAfter(r, response) \in SUBSET Hint
         /\ IsFiniteSet(HintsAfter(r, response))
<1>1. ASSUME NEW c \in CaptureNames
      PROVE  CapturesAfter(r, response)[c] \in Capture \cup {None}
  <2>1. CASE CapturesAfter(r, response)[c] = Kept(r)[c]
    BY <2>1 DEF Kept, TypeInv, TypeOK
  <2>2. ASSUME NEW i \in Stored(r, response),
               CapturesAfter(r, response)[c] =
                 [value |-> response[r.captures[i].path],
                  secret |-> r.captures[i].secret, owner |-> r.name]
        PROVE  CapturesAfter(r, response)[c] \in Capture
    <3>1. i \in Applied(r, response) BY DEF Stored
    <3>2. r.name \in Names \cup {Unnamed} BY CapturesOf DEF Refuses
    <3> QED BY <2>2, <3>1, <3>2, AppliedOf DEF Capture
  <2> QED BY <2>1, <2>2, CaptureOrigin
<1>2. CapturesAfter(r, response) \in [CaptureNames -> Capture \cup {None}]
  <2>1. CapturesAfter(r, response) =
          [c \in CaptureNames |-> CapturesAfter(r, response)[c]]
    BY DEF CapturesAfter
  <2> QED BY <1>1, <2>1
<1> DEFINE S == {i \in Rejected(r, response) :
                   Cardinality(hints \cup HintsUpTo(r, response, i)) <= Quota}
           H == {HintOf(r.captures[j], response) : j \in S}
<1>3. HintsAfter(r, response) = hints \cup H BY DEF HintsAfter
<1>4. IsFiniteSet(H) BY RejectedFinite
<1>5. H \in SUBSET Hint
  <2> SUFFICES ASSUME NEW i \in Rejected(r, response)
               PROVE  HintOf(r.captures[i], response) \in Hint
    OBVIOUS
  <2>1. i \in Applied(r, response) BY DEF Rejected
  <2> QED BY <2>1, AppliedOf DEF Hint, HintOf
<1>6. IsFiniteSet(hints \cup H) BY <1>4, FS_Union DEF TypeInv
<1> QED BY <1>2, <1>3, <1>5, <1>6 DEF TypeInv, TypeOK

\* What a reference stands for is a text.
LEMMA ResolvedType ==
  ASSUME TypeOK, NEW r \in Requests, NEW text \in Text,
         NEW s \in Sends, Prepare(s, r, text)
  PROVE  sends' \in [Sends -> Send \cup {None}]
<1>1. [request |-> r, wire |-> text, redacted |-> text \in Known,
       declared |-> text \in Declared] \in Send
  <2>1. (text \in Known) \in BOOLEAN /\ (text \in Declared) \in BOOLEAN
    OBVIOUS
  <2> QED BY <2>1 DEF Send
<1> QED BY <1>1 DEF Prepare, TypeOK

\* A recorded copy is a text.
LEMMA CopyType ==
  ASSUME TypeOK, NEW s \in Sends, sends[s] # None
  PROVE  /\ sends[s] \in Send /\ sends[s].request \in Requests
         /\ Copy(sends[s]) \subseteq Text
BY DEF TypeOK, Send, Copy, Text

\* Every step keeps the types.
LEMMA NextType == TypeInv /\ [Next]_vars => TypeInv'
<1> SUFFICES ASSUME TypeInv, [Next]_vars PROVE TypeInv'
  OBVIOUS
<1>1. ASSUME NEW s \in Sends, NEW r \in Requests, NEW text \in Text,
             Prepare(s, r, text)
      PROVE  TypeInv'
  BY <1>1, ResolvedType DEF Prepare, store, TypeInv, TypeOK
<1>2. ASSUME NEW s \in Sends, Fails(s) PROVE TypeInv'
  BY <1>2 DEF Fails, store, TypeInv, TypeOK
<1>3. ASSUME NEW s \in Sends, NEW response \in Responses, Respond(s, response)
      PROVE  TypeInv'
  <2> DEFINE r == sends[s].request
  <2>1. r \in Requests /\ Copy(sends[s]) \subseteq Text
    BY <1>3, CopyType DEF Respond, TypeInv
  <2>2. sends' \in [Sends -> Send \cup {None}]
    BY <1>3 DEF Respond, TypeInv, TypeOK
  <2>3. CASE Refuses(r)
    BY <1>3, <2>2, <2>3 DEF Respond, store, TypeInv, TypeOK
  <2>4. CASE ~Refuses(r)
    <3>1. captures' = CapturesAfter(r, response) /\ hints' = HintsAfter(r, response)
      BY <1>3, <2>4 DEF Respond
    <3>2. /\ captures' \in [CaptureNames -> Capture \cup {None}]
          /\ hints' \in SUBSET Hint /\ IsFiniteSet(hints')
      BY <2>1, <2>4, <3>1, RecordingType
    <3>3. /\ requests' \in [Names -> Text]
          /\ responses' \in [Names -> Responses \cup {None}]
          /\ latest' \in [Names -> Requests \cup {None}]
      BY <1>3, <2>1, <2>4 DEF Respond, TypeInv, TypeOK
    <3> QED BY <2>2, <3>2, <3>3 DEF TypeInv, TypeOK
  <2> QED BY <2>3, <2>4
<1>4. CASE UNCHANGED vars
  BY <1>4 DEF vars, store, TypeInv, TypeOK
<1> QED BY <1>1, <1>2, <1>3, <1>4 DEF Next

\* An empty store is well typed.
LEMMA InitType == Init => TypeInv
<1> SUFFICES ASSUME Init PROVE TypeInv
  OBVIOUS
<1>1. IsFiniteSet({}) BY FS_EmptySet
<1> QED BY <1>1 DEF Init, TypeInv, TypeOK, Text

\* Every variable keeps its type.
THEOREM StoreTyped == Spec => []TypeOK
<1>1. Spec => []TypeInv BY InitType, NextType, PTL DEF Spec
<1>2. TypeInv => TypeOK BY DEF TypeInv
<1> QED BY <1>1, <1>2, PTL

----------------------------------------------------------------------------
(* Invariants.                                                             *)

\* A capture taken from a response by a request's directives.
Taken(c, capture, r, response) ==
  \E i \in Applied(r, response) :
    LET d == r.captures[i]
    IN  /\ d.cap = c /\ d.secret = capture.secret
        /\ response[d.path] = capture.value
        /\ \A j \in Applied(r, response) : j < i => r.captures[j].cap # c

\* What OneExchange says of one capture.
FromExchange(c) ==
  captures[c] # None /\ captures[c].owner # Unnamed =>
    LET n == captures[c].owner
    IN  /\ latest[n] # None /\ responses[n] # None
        /\ Taken(c, captures[c], latest[n], responses[n])

\* A recorded name has both a request and a response.
RecordedTogether ==
  \A n \in Names : latest[n] # None => responses[n] # None

\* Each secret that a recorded exchange declares is the capture it stored, or
\* is among the rejected ones.  That it is known at all would not be
\* inductive: the capture that makes it known must not be another name's,
\* which that name's next recording removes.
SecretKept ==
  \A n \in Names : latest[n] # None =>
    \A i \in Applied(latest[n], responses[n]) :
      LET d == latest[n].captures[i]
      IN  d.secret /\ responses[n][d.path] # Blank =>
            \/ captures[d.cap] = [value |-> responses[n][d.path],
                                  secret |-> TRUE, owner |-> n]
            \/ HintOf(d, responses[n]) \in hints

\* A send whose text is declared secret knows it, and that text is a value.
DeclaredIsRedacted ==
  \A s \in Sends : sends[s] # None /\ sends[s].declared =>
    sends[s].redacted /\ sends[s].wire \in Values

StoreInv == /\ TypeInv /\ OneExchange /\ RecordedTogether
            /\ SecretKept /\ DeclaredIsRedacted

\* A recording that goes through: what Respond does when it is not refused.
Recorded(s, r, response) ==
  /\ TypeInv /\ Respond(s, response)
  /\ r = sends[s].request /\ r \in Requests /\ ~Refuses(r)
  /\ captures' = CapturesAfter(r, response)
  /\ hints' = HintsAfter(r, response)
  /\ r.name \in Names \cup {Unnamed}

\* The recorded exchange takes its name; the other names are left alone.
LEMMA RecordedName ==
  ASSUME NEW s \in Sends, NEW r, NEW response \in Responses,
         Recorded(s, r, response), NEW n \in Names
  PROVE  /\ n = r.name => latest'[n] = r /\ responses'[n] = response
         /\ n # r.name => latest'[n] = latest[n] /\ responses'[n] = responses[n]
BY DEF Recorded, Respond, TypeInv, TypeOK

\* A capture that another exchange made stands.
LEMMA OthersStand ==
  ASSUME NEW r \in Requests, NEW response \in Responses,
         NEW c \in CaptureNames, captures[c] # None,
         ~(captures[c].owner = r.name /\ r.name \in Names)
  PROVE  CapturesAfter(r, response)[c] = captures[c]
<1>1. Kept(r)[c] = captures[c] BY DEF Kept
<1> QED BY <1>1, KeptStands

\* Captures and response of a name come from one exchange.
LEMMA RecordedOneExchange ==
  ASSUME OneExchange, NEW s \in Sends, NEW r, NEW response \in Responses,
         Recorded(s, r, response)
  PROVE  OneExchange'
<1> SUFFICES ASSUME NEW c \in CaptureNames PROVE FromExchange(c)'
  BY DEF OneExchange, FromExchange, Taken, Applied, Evaluates
<1>1. r \in Requests /\ captures' = CapturesAfter(r, response)
  BY DEF Recorded
<1>2. ASSUME NEW i \in Stored(r, response), r.captures[i].cap = c,
             CapturesAfter(r, response)[c] =
               [value |-> response[r.captures[i].path],
                secret |-> r.captures[i].secret, owner |-> r.name]
      PROVE  FromExchange(c)'
  <2>1. CASE r.name = Unnamed
    BY <1>1, <1>2, <2>1 DEF FromExchange
  <2>2. CASE r.name \in Names
    <3>1. latest'[r.name] = r /\ responses'[r.name] = response
      BY <2>2, RecordedName
    <3>2. r # None /\ response # None BY <1>1, ChainAssumption
    <3>3. /\ i \in Applied(r, response)
          /\ \A j \in Applied(r, response) : j < i => r.captures[j].cap # c
      BY <1>2 DEF Stored
    <3>4. captures'[c] = [value |-> response[r.captures[i].path],
                          secret |-> r.captures[i].secret, owner |-> r.name]
      BY <1>1, <1>2
    <3>5. Taken(c, captures'[c], r, response)
      BY <1>2, <3>3, <3>4 DEF Taken
    <3> QED BY <3>1, <3>2, <3>4, <3>5 DEF FromExchange
  <2> QED BY <2>1, <2>2 DEF Recorded
<1>3. ASSUME CapturesAfter(r, response)[c] = Kept(r)[c]
      PROVE  FromExchange(c)'
  <2>1. CASE Kept(r)[c] = None
    BY <1>1, <1>3, <2>1 DEF FromExchange
  <2>2. CASE Kept(r)[c] # None
    <3>1. Kept(r)[c] = captures[c] /\ captures[c] # None
          /\ ~(r.name \in Names /\ captures[c].owner = r.name)
      BY <2>2 DEF Kept
    <3>2. captures'[c] = captures[c] BY <1>1, <1>3, <3>1
    <3>3. CASE captures[c].owner = Unnamed
      BY <3>2, <3>3 DEF FromExchange
    <3>4. CASE captures[c].owner # Unnamed
      <4>1. captures[c].owner \in Names
        BY <3>1, <3>4 DEF Recorded, TypeInv, TypeOK, Capture
      <4>2. captures[c].owner # r.name BY <3>1, <4>1
      <4>3. /\ latest'[captures[c].owner] = latest[captures[c].owner]
            /\ responses'[captures[c].owner] = responses[captures[c].owner]
        BY <4>1, <4>2, RecordedName
      <4>4. FromExchange(c) BY DEF OneExchange, FromExchange, Taken
      <4> QED BY <3>1, <3>2, <3>4, <4>3, <4>4 DEF FromExchange
    <3> QED BY <3>3, <3>4
  <2> QED BY <2>1, <2>2
<1> QED BY <1>1, <1>2, <1>3, CaptureOrigin

\* No secret of a recorded exchange is lost: an exchange's own secrets are
\* stored or remembered, and other names' stored secrets stand.
LEMMA RecordedSecretKept ==
  ASSUME SecretKept, RecordedTogether, NEW s \in Sends, NEW r, NEW response \in Responses,
         Recorded(s, r, response)
  PROVE  SecretKept'
<1>1. /\ r \in Requests /\ captures' = CapturesAfter(r, response)
      /\ hints' = HintsAfter(r, response) /\ hints \subseteq hints'
      /\ IsFiniteSet(hints) /\ ~Refuses(r)
  BY DEF Recorded, HintsAfter, TypeInv
<1> SUFFICES ASSUME NEW n \in Names, latest'[n] # None,
                    NEW i \in Applied(latest'[n], responses'[n]),
                    latest'[n].captures[i].secret,
                    responses'[n][latest'[n].captures[i].path] # Blank
             PROVE  LET d == latest'[n].captures[i]
                    IN  \/ captures'[d.cap] = [value |-> responses'[n][d.path],
                                              secret |-> TRUE, owner |-> n]
                        \/ HintOf(d, responses'[n]) \in hints'
  BY DEF SecretKept, Applied, Evaluates, HintOf
<1>2. CASE n = r.name
  <2>1. latest'[n] = r /\ responses'[n] = response BY <1>2, RecordedName
  <2>2. i \in Applied(r, response) /\ r.captures[i].secret
        /\ response[r.captures[i].path] # Blank
    BY <2>1
  <2>3. CASE i \in Stored(r, response)
    <3>1. captures'[r.captures[i].cap] =
            [value |-> response[r.captures[i].path],
             secret |-> r.captures[i].secret, owner |-> n]
      BY <1>1, <1>2, <2>3, StoredIsCaptured
    <3>2. r.captures[i].secret = TRUE BY <1>1, <2>2, AppliedOf
    <3> QED BY <2>1, <3>1, <3>2
  <2>4. CASE i \notin Stored(r, response)
    <3>1. i \in Rejected(r, response) BY <2>2, <2>4 DEF Rejected
    <3>2. HintOf(r.captures[i], response) \in hints'
      BY <1>1, <1>2, <3>1, ReserveSuffices
    <3> QED BY <2>1, <3>2
  <2> QED BY <2>3, <2>4
<1>3. CASE n # r.name
  <2>1. latest'[n] = latest[n] /\ responses'[n] = responses[n]
    BY <1>3, RecordedName
  <2> DEFINE d == latest[n].captures[i]
             kept == [value |-> responses[n][d.path], secret |-> TRUE,
                      owner |-> n]
  <2>2. captures[d.cap] = kept \/ HintOf(d, responses[n]) \in hints
    BY <2>1 DEF SecretKept
  <2>3. CASE captures[d.cap] = kept
    <3>1. latest[n] \in Requests /\ responses[n] \in Responses
      BY <2>1 DEF Recorded, TypeInv, TypeOK, RecordedTogether
    <3>2. i \in Applied(latest[n], responses[n]) BY <2>1
    <3>3. d.cap \in CaptureNames /\ responses[n][d.path] \in Values
      BY <3>1, <3>2, AppliedOf
    <3>4. kept \in Capture BY <3>3 DEF Capture
    <3>5. captures[d.cap] # None BY <2>3, <3>4, ChainAssumption
    <3>6. ~(captures[d.cap].owner = r.name) BY <1>3, <2>3
    <3> QED BY <1>1, <1>3, <2>1, <2>3, <3>3, <3>5, <3>6, OthersStand
  <2>4. CASE HintOf(d, responses[n]) \in hints BY <1>1, <2>1, <2>4
  <2> QED BY <2>2, <2>3, <2>4
<1> QED BY <1>2, <1>3

\* A refused or failed send, or a send prepared, leaves the store alone.
LEMMA StoreUnchanged ==
  ASSUME StoreInv, UNCHANGED store
  PROVE  OneExchange' /\ RecordedTogether' /\ SecretKept'
<1>1. OneExchange' BY DEF store, StoreInv, OneExchange
<1>2. RecordedTogether' BY DEF store, StoreInv, RecordedTogether
<1>3. SecretKept' BY DEF store, StoreInv, SecretKept
<1> QED BY <1>1, <1>2, <1>3

\* What is known comes from the store of typed values.
LEMMA KnownValues == TypeOK => Known \subseteq Values
BY DEF TypeOK, Known, Capture, Hint

\* Kept secrets are known ones.
LEMMA KeptIsKnown ==
  ASSUME TypeInv, RecordedTogether, SecretKept
  PROVE  DeclaredSecretsAreKnown
<1> SUFFICES ASSUME NEW n \in Names, latest[n] # None,
                    NEW i \in Applied(latest[n], responses[n]),
                    latest[n].captures[i].secret,
                    responses[n][latest[n].captures[i].path] # Blank
             PROVE  responses[n][latest[n].captures[i].path] \in Known
  BY DEF DeclaredSecretsAreKnown, Declared, DeclaredBy
<1> DEFINE d == latest[n].captures[i]
<1>1. latest[n] \in Requests /\ responses[n] \in Responses
  BY DEF TypeInv, TypeOK, RecordedTogether
<1>2. d.cap \in CaptureNames /\ responses[n][d.path] \in Values
  BY <1>1, AppliedOf
<1>3. CASE captures[d.cap] = [value |-> responses[n][d.path], secret |-> TRUE,
                              owner |-> n]
  <2>1. captures[d.cap] \in Capture BY <1>2, <1>3 DEF Capture
  <2>2. captures[d.cap] # None BY <2>1, ChainAssumption
  <2>3. captures[d.cap].secret /\ captures[d.cap].value = responses[n][d.path]
    BY <1>3
  <2>4. d.cap \in {k \in CaptureNames : captures[k] # None /\ captures[k].secret}
    BY <1>2, <2>2, <2>3
  <2>5. captures[d.cap].value \in Known
    <3> HIDE DEF d
    <3> QED BY <2>3, <2>4 DEF Known, d
  <2> QED BY <2>3, <2>5
<1>4. CASE HintOf(d, responses[n]) \in hints
  BY <1>4 DEF Known, HintOf
<1> QED BY <1>3, <1>4 DEF SecretKept

\* A send knows its secret when it is prepared.
LEMMA PreparedIsRedacted ==
  ASSUME StoreInv, NEW s \in Sends, NEW r \in Requests, NEW text \in Text,
         Prepare(s, r, text)
  PROVE  DeclaredIsRedacted'
<1> SUFFICES ASSUME NEW z \in Sends, sends'[z] # None, sends'[z].declared
             PROVE  sends'[z].redacted /\ sends'[z].wire \in Values
  BY DEF DeclaredIsRedacted
<1>1. CASE z = s
  <2>1. sends'[s] = [request |-> r, wire |-> text, redacted |-> text \in Known,
                     declared |-> text \in Declared]
    BY DEF Prepare, StoreInv, TypeInv, TypeOK
  <2>7. /\ sends'[s].declared = (text \in Declared)
        /\ sends'[s].redacted = (text \in Known) /\ sends'[s].wire = text
    BY <2>1
  <2>2. text \in Declared
    <3> SUFFICES ASSUME text \notin Declared PROVE FALSE
      OBVIOUS
    <3>1. (text \in Declared) = FALSE OBVIOUS
    <3>2. sends'[s].declared = FALSE BY <2>7, <3>1
    <3> QED BY <1>1, <3>2
  <2>3. DeclaredSecretsAreKnown BY KeptIsKnown DEF StoreInv
  <2>4. text \in Known BY <2>2, <2>3 DEF DeclaredSecretsAreKnown
  <2>5. text \in Values BY <2>4, KnownValues DEF StoreInv, TypeInv
  <2>6. (text \in Known) = TRUE BY <2>4
  <2> QED BY <1>1, <2>5, <2>6, <2>7
<1>2. CASE z # s
  BY <1>2 DEF Prepare, StoreInv, TypeInv, TypeOK, DeclaredIsRedacted
<1> QED BY <1>1, <1>2

\* Every step keeps the invariant.
LEMMA NextInv == StoreInv /\ [Next]_vars => StoreInv'
<1> SUFFICES ASSUME StoreInv, [Next]_vars PROVE StoreInv'
  OBVIOUS
<1>1. TypeInv' BY NextType DEF StoreInv
<1>2. ASSUME NEW s \in Sends, NEW r \in Requests, NEW text \in Text,
             Prepare(s, r, text)
      PROVE  StoreInv'
  <2>1. UNCHANGED store BY <1>2 DEF Prepare
  <2> QED BY <1>1, <1>2, <2>1, StoreUnchanged, PreparedIsRedacted DEF StoreInv
<1>3. ASSUME NEW s \in Sends, sends' = [sends EXCEPT ![s] = None]
      PROVE  DeclaredIsRedacted'
  BY <1>3 DEF StoreInv, TypeInv, TypeOK, DeclaredIsRedacted
<1>4. ASSUME NEW s \in Sends, Fails(s) PROVE StoreInv'
  BY <1>1, <1>3, <1>4, StoreUnchanged DEF Fails, StoreInv
<1>5. ASSUME NEW s \in Sends, NEW response \in Responses, Respond(s, response)
      PROVE  StoreInv'
  <2> DEFINE r == sends[s].request
  <2>1. DeclaredIsRedacted' BY <1>3, <1>5 DEF Respond
  <2>2. CASE Refuses(r)
    <3>1. UNCHANGED store BY <1>5, <2>2 DEF Respond
    <3> QED BY <1>1, <2>1, <3>1, StoreUnchanged DEF StoreInv
  <2>3. CASE ~Refuses(r)
    <3>1. Recorded(s, r, response)
      <4>1. r \in Requests BY <1>5, CopyType DEF Respond, StoreInv, TypeInv
      <4>2. r.name \in Names \cup {Unnamed} BY <4>1, <2>3, CapturesOf DEF Refuses
      <4>3. captures' = CapturesAfter(r, response) /\ hints' = HintsAfter(r, response)
        BY <1>5, <2>3 DEF Respond
      <4> HIDE DEF r
      <4> QED BY <1>5, <2>3, <4>1, <4>2, <4>3 DEF Recorded, StoreInv, r
    <3>2. OneExchange' BY <3>1, RecordedOneExchange DEF StoreInv
    <3>3. RecordedTogether'
      <4> SUFFICES ASSUME NEW n \in Names, latest'[n] # None
                   PROVE  responses'[n] # None
        BY DEF RecordedTogether
      <4>1. response # None BY ChainAssumption
      <4> QED BY <3>1, <4>1, RecordedName DEF StoreInv, RecordedTogether
    <3>4. SecretKept' BY <3>1, RecordedSecretKept DEF StoreInv
    <3> QED BY <1>1, <2>1, <3>2, <3>3, <3>4 DEF StoreInv
  <2> QED BY <2>2, <2>3
<1>6. CASE UNCHANGED vars
  <2>1. UNCHANGED store /\ UNCHANGED sends BY <1>6 DEF vars, store
  <2>2. DeclaredIsRedacted' BY <2>1 DEF StoreInv, DeclaredIsRedacted
  <2> QED BY <1>1, <2>1, <2>2, StoreUnchanged DEF StoreInv
<1> QED BY <1>2, <1>4, <1>5, <1>6 DEF Next

\* An empty store has nothing to disagree about.
LEMMA InitInv == Init => StoreInv
<1> SUFFICES ASSUME Init PROVE StoreInv
  OBVIOUS
<1>1. TypeInv BY InitType
<1>2. OneExchange BY DEF Init, OneExchange
<1>3. RecordedTogether /\ SecretKept /\ DeclaredIsRedacted
  BY DEF Init, RecordedTogether, SecretKept, DeclaredIsRedacted
<1> QED BY <1>1, <1>2, <1>3 DEF StoreInv

----------------------------------------------------------------------------
(* Theorems.                                                               *)

\* The invariant holds of every behaviour.
LEMMA Invariant == Spec => []StoreInv
BY InitInv, NextInv, PTL DEF Spec

\* A name's captures and its recorded response are of one exchange.
THEOREM ExchangesStayWhole == Spec => []OneExchange
<1>1. StoreInv => OneExchange BY DEF StoreInv
<1> QED BY <1>1, Invariant, PTL

\* What a recorded request declared secret is always swept for.
THEOREM SecretsStayKnown == Spec => []DeclaredSecretsAreKnown
<1>1. StoreInv => DeclaredSecretsAreKnown BY KeptIsKnown DEF StoreInv
<1> QED BY <1>1, Invariant, PTL

\* What a step that changes the store is.
LEMMA ChangeIsRecording ==
  ASSUME StoreInv, [Next]_vars, ~UNCHANGED store
  PROVE  \E s \in Sends, response \in Responses :
           /\ Respond(s, response) /\ sends[s] # None
           /\ sends[s].request \in Requests /\ ~Refuses(sends[s].request)
           /\ sends' = [sends EXCEPT ![s] = None]
<1>1. PICK s \in Sends, response \in Responses : Respond(s, response)
  BY DEF Next, Prepare, Fails, vars, store
<1>2. sends[s] # None /\ sends' = [sends EXCEPT ![s] = None]
  BY <1>1 DEF Respond
<1>3. sends[s].request \in Requests BY <1>2, CopyType DEF StoreInv, TypeInv
<1>4. ~Refuses(sends[s].request) BY <1>1 DEF Respond
<1> QED BY <1>1, <1>2, <1>3, <1>4

\* Only the exchange that made a capture changes it.
THEOREM CapturesStand == Spec => ForeignCaptureStands
<1> DEFINE Stands ==
      \A c \in CaptureNames :
        captures[c] # None /\ captures'[c] # captures[c] =>
          \E s \in Sends :
            /\ sends[s] # None /\ sends'[s] = None
            /\ sends[s].request.name = captures[c].owner
            /\ captures[c].owner \in Names
<1>1. StoreInv /\ [Next]_vars => [Stands]_vars
  <2> SUFFICES ASSUME StoreInv, [Next]_vars, NEW c \in CaptureNames,
                      captures[c] # None, captures'[c] # captures[c]
               PROVE  \E s \in Sends :
                        /\ sends[s] # None /\ sends'[s] = None
                        /\ sends[s].request.name = captures[c].owner
                        /\ captures[c].owner \in Names
    OBVIOUS
  <2>1. ~UNCHANGED store BY DEF store
  <2>2. PICK s \in Sends, response \in Responses :
           /\ Respond(s, response) /\ sends[s] # None
           /\ sends[s].request \in Requests /\ ~Refuses(sends[s].request)
           /\ sends' = [sends EXCEPT ![s] = None]
    BY <2>1, ChangeIsRecording
  <2>3. captures' = CapturesAfter(sends[s].request, response)
    BY <2>2 DEF Respond
  <2>4. /\ captures[c].owner = sends[s].request.name
        /\ sends[s].request.name \in Names
    BY <2>2, <2>3, OthersStand
  <2>5. sends'[s] = None BY <2>2 DEF StoreInv, TypeInv, TypeOK
  <2> QED BY <2>2, <2>4, <2>5
<1> QED BY <1>1, Invariant, PTL DEF Spec, ForeignCaptureStands

\* No declared secret is recorded in the copy of a request's body.
THEOREM CopiesAreScrubbed == Spec => SecretCopiesAreScrubbed
<1> DEFINE Scrubbed ==
      \A s \in Sends, n \in Names :
        /\ sends[s] # None /\ sends[s].declared /\ sends'[s] = None
        /\ requests'[n] # requests[n]
        => requests'[n] # sends[s].wire
<1>1. StoreInv /\ [Next]_vars => [Scrubbed]_vars
  <2> SUFFICES ASSUME StoreInv, [Next]_vars, NEW s \in Sends, NEW n \in Names,
                      sends[s] # None, sends[s].declared, sends'[s] = None,
                      requests'[n] # requests[n]
               PROVE  requests'[n] # sends[s].wire
    OBVIOUS
  <2>1. ~UNCHANGED store BY DEF store
  <2>2. PICK z \in Sends, response \in Responses :
           /\ Respond(z, response) /\ sends[z] # None
           /\ sends[z].request \in Requests /\ ~Refuses(sends[z].request)
           /\ sends' = [sends EXCEPT ![z] = None]
    BY <2>1, ChangeIsRecording
  <2>3. z = s BY <2>2 DEF StoreInv, TypeInv, TypeOK
  <2>4. sends[s].redacted /\ sends[s].wire \in Values
    BY DEF StoreInv, DeclaredIsRedacted
  <2>5. Copy(sends[s]) = {Redacted, None} BY <2>4 DEF Copy
  <2>6. requests'[n] \in Copy(sends[s])
    BY <2>2, <2>3 DEF Respond, StoreInv, TypeInv, TypeOK
  <2> QED BY <2>4, <2>5, <2>6, ChainAssumption
<1> QED BY <1>1, Invariant, PTL DEF Spec, SecretCopiesAreScrubbed

\* The list of rejected secrets keeps within its quota.
THEOREM ProvenanceStaysBounded == Spec => []ProvenanceIsBounded
<1>1. Init => ProvenanceIsBounded
  BY FS_EmptySet, ChainAssumption DEF Init, ProvenanceIsBounded
<1>2. StoreInv /\ ProvenanceIsBounded /\ [Next]_vars => ProvenanceIsBounded'
  <2> SUFFICES ASSUME StoreInv, ProvenanceIsBounded, [Next]_vars
               PROVE  ProvenanceIsBounded'
    OBVIOUS
  <2>1. CASE UNCHANGED store BY <2>1 DEF store, ProvenanceIsBounded
  <2>2. CASE ~UNCHANGED store
    <3>1. PICK s \in Sends, response \in Responses :
             /\ Respond(s, response) /\ sends[s] # None
             /\ sends[s].request \in Requests /\ ~Refuses(sends[s].request)
             /\ sends' = [sends EXCEPT ![s] = None]
      BY <2>2, ChangeIsRecording
    <3>2. hints' = HintsAfter(sends[s].request, response)
      BY <3>1 DEF Respond
    <3> QED BY <3>1, <3>2, HintsFit DEF StoreInv, TypeInv, ProvenanceIsBounded
  <2> QED BY <2>1, <2>2
<1> QED BY <1>1, <1>2, Invariant, PTL DEF Spec
=============================================================================
