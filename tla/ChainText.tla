----------------------------- MODULE ChainText -----------------------------
(* The chain stage of a send as a function of texts: which {{...}} parts of *)
(* a text are placeholders, what each one refers to, and what a request's   *)
(* fields become when the recorded exchanges and captures answer them.      *)
(* A text is a sequence of atoms: braces, brackets, quotes, dots, spaces,   *)
(* "$", and whole identifiers and numbers.                                  *)
EXTENDS Integers, SequencesExt

CONSTANTS Atoms,    \* what texts consist of
          Names,    \* atoms that are identifiers
          Indices,  \* atoms that are array indices
          Reserved, \* names that no path may have (__proto__, ...)
          MaxRefs,  \* MAX_CHAIN_REFS_PER_PASS
          MaxDepth  \* MAX_JSONPATH_DEPTH

ASSUME ChainTextAssumption == MaxRefs \in Nat /\ MaxDepth \in Nat

Texts == Seq(Atoms)

Quotes == {"'", "\""}

(* t.includes(s) *)
Includes(t, s) ==
  \E i \in 0..(Len(t) - Len(s)) : SubSeq(t, i + 1, i + Len(s)) = s

(* The first position from a on with an atom in the set, or one past the    *)
(* end.                                                                     *)
First(s, a, atoms) ==
  Min({k \in a..Len(s) : s[k] \in atoms} \cup {Len(s) + 1})

Twice(s, i, a) == i < Len(s) /\ s[i] = a /\ s[i + 1] = a

Trim(s) ==
  LET solid == {k \in DOMAIN s : s[k] # " "}
  IN IF solid = {} THEN <<>> ELSE SubSeq(s, Min(solid), Max(solid))
-----------------------------------------------------------------------------
(* parseJsonPath: the keys of a path, or that it is none. *)

NoPath == [ok |-> FALSE, keys |-> <<>>]

JsonPath(src) ==
  LET Key(k, rest) ==
        IF ~rest.ok \/ k = <<>> \/ (Len(k) = 1 /\ k[1] \in Reserved)
        THEN NoPath ELSE [ok |-> TRUE, keys |-> <<k>> \o rest.keys]
      from[i \in 1..(Len(src) + 2)] ==
        IF i > Len(src) THEN [ok |-> TRUE, keys |-> <<>>]
        ELSE IF i = Len(src) THEN NoPath
        ELSE IF src[i] = "." /\ src[i + 1] \in Names \cup Indices
             THEN Key(<<src[i + 1]>>, from[i + 2])
        ELSE IF src[i] = "[" /\ src[i + 1] \in Quotes
             THEN LET close == First(src, i + 2, {src[i + 1]})
                  IN IF close < Len(src) /\ src[close + 1] = "]"
                     THEN Key(SubSeq(src, i + 2, close - 1), from[close + 2])
                     ELSE NoPath
        ELSE IF src[i] = "[" /\ src[i + 1] \in Indices /\ i + 2 <= Len(src)
                /\ src[i + 2] = "]"
             THEN Key(<<src[i + 1]>>, from[i + 3])
        ELSE NoPath
      path == IF src = <<>> \/ src[1] # "$" THEN NoPath ELSE from[2]
  IN IF Len(path.keys) <= MaxDepth THEN path ELSE NoPath
-----------------------------------------------------------------------------
(* A reference, and what the store has for it.  A store has requests (name  *)
(* -> body), responses (name -> status, headers, body), captures (name ->   *)
(* value, secret) and hints (values of rejected secrets); a body says if it *)
(* is JSON, and which paths of keys it has a text for.                      *)

(* parseChainReference, as far as the shape name.kind.part[.rest] goes. *)
Shaped(inner) ==
  /\ Len(inner) = 5 \/ (Len(inner) > 6 /\ inner[6] = ".")
  /\ inner[1] \in Names /\ inner[2] = "." /\ inner[4] = "."
  /\ inner[3] \in {"response", "request"}
  /\ inner[5] \in {"status", "headers", "body"}

Rest(inner) == Trim(SubSeq(inner, 7, Len(inner)))

IsReference(inner) ==
  /\ Shaped(inner)
  /\ IF inner[5] = "body" THEN JsonPath(Rest(inner)).ok
     ELSE /\ inner[3] = "response"
          /\ (inner[5] = "headers") <=> (Rest(inner) # <<>>)

Recorded(store, kind, name) ==
  name \in DOMAIN (IF kind = "response" THEN store.responses
                   ELSE store.requests)

(* classifyChainReference: chain intent that is no reference. *)
MalformedReference(store, inner) ==
  /\ ~IsReference(inner)
  /\ Len(inner) >= 3 /\ inner[1] \in Names /\ inner[2] = "."
  /\ inner[3] \in {"response", "request"}
  /\ Len(inner) = 3 \/ inner[4] = "."
  /\ Recorded(store, inner[3], inner[1])

Nothing == [found |-> FALSE, value |-> <<>>]
Found(value) == [found |-> TRUE, value |-> value]

(* resolveReference *)
Lookup(store, inner) ==
  LET name == inner[1]
      At(body, keys) ==
        IF body.json /\ keys \in DOMAIN body.at
        THEN Found(body.at[keys]) ELSE Nothing
      FromBody(body) == At(body, JsonPath(Rest(inner)).keys)
      response == store.responses[name]
  IN IF ~Recorded(store, inner[3], name) THEN Nothing
     ELSE IF inner[3] = "request" THEN FromBody(store.requests[name])
     ELSE IF inner[5] = "status" THEN Found(response.status)
     ELSE IF inner[5] = "body" THEN FromBody(response.body)
     ELSE IF Rest(inner) \in DOMAIN response.headers
          THEN Found(response.headers[Rest(inner)]) ELSE Nothing

IsCapture(store, inner) ==
  Len(inner) = 1 /\ inner[1] \in DOMAIN store.captures
-----------------------------------------------------------------------------
(* findPlaceholders. *)

(* A candidate is open until it is closed by a top-level }} or abandoned at *)
(* a lone brace, at the position where it is read on; it stays open if it   *)
(* has a quoted key that never ends.                                        *)
Reading(s, c, j) ==
  LET k == Min({i \in (j + 1)..Len(s) : s[i] # " "} \cup {Len(s) + 1})
      close == First(s, k + 1, {s[k]})
  IN IF c.is # "open" \/ j < c.at THEN c
     ELSE IF Twice(s, j, "}") THEN [is |-> "closed", at |-> j]
     ELSE IF s[j] = "}" THEN [is |-> "abandoned", at |-> j]
     ELSE IF s[j] # "[" THEN [is |-> "open", at |-> j + 1]
     ELSE IF k > Len(s) \/ s[k] \notin Quotes THEN [is |-> "open", at |-> k]
     ELSE [is |-> "open", at |-> IF close > Len(s) THEN close ELSE close + 1]

(* What becomes of the candidate whose content starts at a position. *)
Candidate(s, start) ==
  FoldLeftDomain(LAMBDA c, j : Reading(s, c, j),
                 [is |-> "open", at |-> start], s)

(* Faulty variant: scanning resumes right where the candidate broke off. *)
RightAfterAbandoned(s, at) == at + 1

(* An abandoned candidate is skipped up to the next }}, with all in it. *)
AfterAbandoned(s, at) ==
  Min({k + 2 : k \in {j \in at..Len(s) : Twice(s, j, "}")}}
      \cup {Len(s) + 1})

(* The scan after the candidate c, which was opened at i.                   *)
Scanned(s, scan, i, c) ==
  LET inner == Trim(SubSeq(s, i + 2, c.at - 1))
  IN [scan EXCEPT
        !.opened = @ + 1,
        !.next = IF c.is = "closed" THEN c.at + 2
                 ELSE IF c.is = "open" THEN Len(s) + 1
                 ELSE AfterAbandoned(s, c.at),
        !.list = IF c.is # "closed" \/ inner = <<>> THEN @
                 ELSE Append(@, [start |-> i, end |-> c.at + 2,
                                 inner |-> inner])]

Scanning(s, scan, i, budget) ==
  IF i < scan.next \/ ~Twice(s, i, "{") THEN scan
  ELSE IF scan.opened >= budget
       THEN [scan EXCEPT !.next = Len(s) + 1, !.truncated = TRUE]
  ELSE Scanned(s, scan, i, Candidate(s, i + 2))

Placeholders(s, budget) ==
  FoldLeftDomain(LAMBDA scan, i : Scanning(s, scan, i, budget),
                 [next |-> 1, opened |-> 0, list |-> <<>>,
                  truncated |-> FALSE], s)
-----------------------------------------------------------------------------
(* resolveChainTextWith and resolveChainRequest: the fields in turn, which  *)
(* share one budget of candidates and one of references.                    *)

(* What a placeholder gives: nothing of the chain's, which leaves it to the *)
(* environment; an error; or the value of a reference or a capture.         *)
Answer(store, inner) ==
  LET Of(is, value, from) == [is |-> is, value |-> value, from |-> from]
      Looked(found) ==
        IF found.found THEN Of("value", found.value, {})
        ELSE Of("error", <<>>, {})
  IN IF IsReference(inner) THEN Looked(Lookup(store, inner))
     ELSE IF MalformedReference(store, inner) THEN Of("error", <<>>, {})
     ELSE IF IsCapture(store, inner)
          THEN Of("value", store.captures[inner[1]].value,
                  {store.captures[inner[1]]})
     ELSE Of("literal", <<>>, {})

(* One more placeholder with its answer: it is replaced or kept, with a     *)
(* diagnostic if nothing can answer it or the bound is reached.             *)
Answered(acc, s, ph, answer) ==
  LET full == acc.refs >= MaxRefs
      replaced == answer.is = "value" /\ ~full
  IN [text |-> acc.text \o SubSeq(s, acc.cursor, ph.start - 1)
               \o IF replaced THEN answer.value
                  ELSE SubSeq(s, ph.start, ph.end - 1),
      cursor |-> ph.end,
      refs |-> IF answer.is = "literal" \/ full THEN acc.refs
               ELSE acc.refs + 1,
      captured |-> IF replaced THEN acc.captured \cup answer.from
                   ELSE acc.captured,
      diagnosed |-> acc.diagnosed \/ (answer.is # "literal" /\ ~replaced)]

AllAnswered(store, ctx, s, list) ==
  FoldLeft(LAMBDA acc, ph : Answered(acc, s, ph, Answer(store, ph.inner)),
           [text |-> <<>>, cursor |-> 1, refs |-> ctx.refs,
            captured |-> ctx.captured, diagnosed |-> ctx.diagnosed], list)

(* Faulty variant: a bound that leaves nothing to replace is not reported. *)
DiagnosedIfListed(scan) == scan.truncated /\ scan.list # <<>>

Diagnosed(scan) == scan.truncated

(* A text whose placeholders were all answered, and the scan that found     *)
(* them.                                                                    *)
Completed(ctx, s, scan, end) ==
  [texts |-> Append(ctx.texts, end.text \o SubSeq(s, end.cursor, Len(s))),
   refs |-> end.refs, budget |-> ctx.budget - scan.opened,
   captured |-> end.captured,
   diagnosed |-> end.diagnosed \/ Diagnosed(scan)]

ResolveText(store, ctx, s) ==
  LET With(scan) ==
        Completed(ctx, s, scan, AllAnswered(store, ctx, s, scan.list))
  IN With(Placeholders(s, ctx.budget))

ResolveRequest(store, fields) ==
  FoldLeft(LAMBDA ctx, s : ResolveText(store, ctx, s),
           [texts |-> <<>>, refs |-> 0, budget |-> MaxRefs, captured |-> {},
            diagnosed |-> FALSE], fields)

(* prepareChainSend: the secrets the texts carry, whether a capture brought *)
(* them or a reference into a response that has the same value.             *)
SecretValues(store) ==
  {c.value : c \in {d \in Range(store.captures) : d.secret}} \cup store.hints

Carried(store, texts) ==
  {v \in SecretValues(store) \ {<<>>} :
     \E f \in DOMAIN texts : Includes(texts[f], v)}

(* Faulty variant: only captures are looked at, not where else their value  *)
(* came from.                                                               *)
CapturedSecrets(store, resolved) ==
  {c.value : c \in {d \in resolved.captured : d.secret}} \ {<<>>}

ResolvedSecrets(store, resolved) ==
  CapturedSecrets(store, resolved) \cup Carried(store, resolved.texts)
=============================================================================
