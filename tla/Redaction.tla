----------------------------- MODULE Redaction -----------------------------
(* How a request that carries secrets is echoed without them (runRequest):  *)
(* the chain stage puts recorded values and captures into its fields; the   *)
(* env stage expands the references that are then in them, secret values    *)
(* that are templates included; the redaction set is closed under the       *)
(* expansions that took place; the request is blocked when that closure may *)
(* be incomplete; and each surface masks every form of every variant.       *)
EXTENDS Redactor, FiniteSets

CONSTANTS Builtins,     \* the expressions a builtin evaluates
          Requests,     \* sequences of fields, a field a sequence of parts:
                        \* [text, means: [what, of, at]]
          Stores,       \* what is recorded when the request is sent
          Environments, \* [values: expression -> text, secret: expressions]
          Generations,  \* sequences of what builtins give, one by one,
                        \* the last of them again and again
          MaxInjected,  \* MAX_INJECTED_RECORDS
          Budget        \* MAX_DERIVED_ADDITIONS

Text(parts) == FlattenSeq([p \in DOMAIN parts |-> parts[p].text])
Fields(parts) == [f \in DOMAIN parts |-> Text(parts[f])]

IsBody(body) == \A keys \in DOMAIN body.at : body.at[keys] \in Texts
IsResponse(response) ==
  /\ response.status \in Texts /\ IsBody(response.body)
  /\ \A h \in DOMAIN response.headers : response.headers[h] \in Texts
IsStore(store) ==
  /\ \A n \in DOMAIN store.requests : IsBody(store.requests[n])
  /\ \A n \in DOMAIN store.responses : IsResponse(store.responses[n])
  /\ \A n \in DOMAIN store.captures : store.captures[n].value \in Texts
  /\ IsFiniteSet(DOMAIN store.captures)
  /\ store.hints \subseteq Texts /\ IsFiniteSet(store.hints)
IsEnvironment(e) ==
  /\ \A n \in DOMAIN e.values : e.values[n] \in Texts
  /\ e.secret \subseteq DOMAIN e.values /\ IsFiniteSet(e.secret)

ASSUME RedactionAssumption ==
  /\ MaxInjected \in Nat \ {0} /\ Budget \in Nat \ {0}
  /\ \A r \in Requests : Fields(r) \in Seq(Texts)
  /\ \A store \in Stores : IsStore(store)
  /\ \A e \in Environments : IsEnvironment(e)
  /\ Generations \subseteq Seq(Texts) \ {<<>>}

VARIABLES pc,        \* how far runRequest has come
          request,   \* the request as it is in the file
          chain,     \* the run's store
          env,       \* the active environment
          generated, \* the values its builtins will give
          chained,   \* the fields after the chain stage, and their secrets
          wire,      \* the fields as they are sent
          injected,  \* the recorded substitutions, and if some are missing
          closure,   \* what deriveSecretVariants returned
          surfaces   \* what was shown, copied or recorded last

inputs == <<request, chain, env, generated>>
redactionVars == <<pc, inputs, chained, wire, injected, closure, surfaces>>

(* prepareChainSend. *)
Prepared(resolved) ==
  IF resolved.diagnosed
  THEN pc' = "refused" /\ UNCHANGED chained
  ELSE /\ pc' = "chained"
       /\ chained' = [texts |-> resolved.texts,
                      secrets |-> ResolvedSecrets(chain, resolved)]

Prepare ==
  /\ pc = "start"
  /\ Prepared(ResolveRequest(chain, Fields(request)))
  /\ UNCHANGED <<inputs, wire, injected, closure, surfaces>>
-----------------------------------------------------------------------------
(* The env stage: substitute and substituteRequest. *)

(* The matches of REF_RE from left to right. *)
Matching(t, acc, i) ==
  LET close == First(t, i + 2, {"}"})
  IN IF i < acc.next \/ ~Twice(t, i, "{") \/ close = i + 2
        \/ ~Twice(t, close, "}") THEN acc
     ELSE [next |-> close + 2,
           list |-> Append(acc.list,
             [start |-> i, end |-> close + 2, text |-> SubSeq(t, i, close + 1),
              expr |-> Trim(SubSeq(t, i + 2, close - 1))])]

References(t) ==
  FoldLeftDomain(LAMBDA acc, i : Matching(t, acc, i),
                 [next |-> 1, list |-> <<>>], t).list

IsBuiltin(expr) == expr # <<>> /\ expr[1] = "$"

Resolvable(expr) ==
  expr \in IF IsBuiltin(expr) THEN Builtins ELSE DOMAIN env.values

(* What the next builtin gives. *)
Generated(used) ==
  generated[IF used < Len(generated) THEN used + 1 ELSE Len(generated)]

(* One field in one pass; builtins take the next generated value. *)
Substituting(t, acc, ref) ==
  LET value == IF IsBuiltin(ref.expr) THEN Generated(acc.used)
               ELSE env.values[ref.expr]
  IN [text |-> acc.text \o SubSeq(t, acc.cursor, ref.start - 1) \o value,
      cursor |-> ref.end,
      used |-> acc.used + IF IsBuiltin(ref.expr) THEN 1 ELSE 0,
      records |-> Append(acc.records, [reference |-> ref.text,
                                       value |-> value])]

Substituted(ctx, t) ==
  LET end == FoldLeft(LAMBDA acc, ref : Substituting(t, acc, ref),
                      [text |-> <<>>, cursor |-> 1, used |-> ctx.used,
                       records |-> <<>>], References(t))
  IN [texts |-> Append(ctx.texts,
                       end.text \o SubSeq(t, end.cursor, Len(t))),
      used |-> end.used, records |-> Append(ctx.records, end.records)]

Capped(items) ==
  [items |-> SubSeq(items, 1, IF Len(items) < MaxInjected THEN Len(items)
                              ELSE MaxInjected),
   overflow |-> Len(items) > MaxInjected]

(* Faulty variant: recording stops at the bound without a word. *)
MergedQuietly(a, b) ==
  [items |-> Capped(a.items \o b.items).items, overflow |-> FALSE]

Merged(a, b) ==
  [items |-> Capped(a.items \o b.items).items,
   overflow |-> a.overflow \/ b.overflow
                \/ Capped(a.items \o b.items).overflow]

AllResolved ==
  \A f \in DOMAIN chained.texts :
    \A ref \in Range(References(chained.texts[f])) : Resolvable(ref.expr)

Substitute ==
  /\ pc = "chained"
  /\ AllResolved
  /\ pc' = "substituted"
  /\ LET all == FoldLeft(Substituted,
                  [texts |-> <<>>, used |-> 0, records |-> <<>>],
                  chained.texts)
     IN /\ wire' = all.texts
        /\ injected' = FoldLeft(Merged, Capped(<<>>),
                         [f \in DOMAIN all.records |-> Capped(all.records[f])])
  /\ UNCHANGED <<inputs, chained, closure, surfaces>>

(* A reference that nothing resolves stops the request. *)
Unresolved ==
  /\ pc = "chained"
  /\ ~AllResolved
  /\ pc' = "refused"
  /\ UNCHANGED <<inputs, chained, wire, injected, closure, surfaces>>
-----------------------------------------------------------------------------
(* deriveSecretVariants. *)

Secrets ==
  SetToSeq(chained.secrets) \o SetToSeq({env.values[n] : n \in env.secret})

Bases(secrets) ==
  Picked(secrets, {k \in DOMAIN secrets :
                     /\ secrets[k] # <<>>
                     /\ \A j \in DOMAIN secrets :
                          secrets[j] = secrets[k] => k <= j})

Expandable(variant, items) ==
  \E k \in DOMAIN items :
    Includes(variant, items[k].reference)

(* addVariant: both bounds hold at every single insertion. *)
Added(s, value, share) ==
  IF value = <<>> \/ Contains(s.local, value) THEN s
  ELSE IF s.additions >= share \/ s.total >= Budget
       THEN [s EXCEPT !.truncated = TRUE]
  ELSE [s EXCEPT !.local = Append(@, value), !.queue = Append(@, value),
                 !.additions = @ + 1, !.total = @ + 1]

(* Faulty variant: only the injected components join the set. *)
ComponentsOnly(s, share, items) ==
  LET variant == Head(s.queue)
      Step(acc, inj) ==
        IF Includes(variant, inj.reference) THEN Added(acc, inj.value, share)
        ELSE acc
  IN FoldLeft(Step, [s EXCEPT !.queue = Tail(@)], items)

(* A substitution whose reference the variant holds gives its value.        *)
Participates(acc, inj, variant, share) ==
  IF ~Includes(variant, inj.reference) THEN acc
  ELSE [state |-> Added(acc.state, inj.value, share),
        text |-> Replaced(acc.text, inj.reference, inj.value)]

(* One pass over the oldest queued variant: those that participate give     *)
(* their values, and together the expansion.                                *)
Expanded(s, share, items) ==
  LET variant == Head(s.queue)
      pass ==
        FoldLeft(LAMBDA acc, inj : Participates(acc, inj, variant, share),
                 [state |-> [s EXCEPT !.queue = Tail(@)], text |-> variant],
                 items)
  IN IF Expandable(variant, items) THEN Added(pass.state, pass.text, share)
     ELSE pass.state

Turn(s, share, items) ==
  IF s.queue = <<>> \/ s.additions >= share \/ s.total >= Budget THEN s
  ELSE Expanded(s, share, items)

(* The closure of one base, with its share of the bound. *)
Closed(base, share, total, items) ==
  LET end == FoldLeft(LAMBDA s, i : Turn(s, share, items),
               [local |-> <<base>>, queue |-> <<base>>, additions |-> 0,
                total |-> total, truncated |-> FALSE],
               [i \in 1..(Budget + 1) |-> i])
  IN [end EXCEPT !.truncated =
        @ \/ \E k \in DOMAIN end.queue : Expandable(end.queue[k], items)]

(* Faulty variant: the first base may use up the whole bound. *)
WholeBudget(n) == Budget

Share(n) == IF n = 0 THEN Budget ELSE IF Budget < n THEN 1 ELSE Budget \div n

Collected(bases, all) ==
  [variants |-> WithoutRepeats(bases \o
     FlattenSeq([k \in DOMAIN all |-> all[k].local])),
   truncated |-> \E k \in DOMAIN all : all[k].truncated,
   perBase |-> [k \in DOMAIN all |-> [variants |-> all[k].local,
                                      truncated |-> all[k].truncated]]]

AlsoClosed(acc, base, share, items) ==
  LET c == Closed(base, share, acc.total, items)
  IN [total |-> c.total, all |-> Append(acc.all, c)]

Derived(bases, items) ==
  LET share == Share(Len(bases))
  IN Collected(bases,
       FoldLeft(LAMBDA acc, base : AlsoClosed(acc, base, share, items),
                [total |-> 0, all |-> <<>>], bases).all)

Derive ==
  /\ pc = "substituted"
  /\ pc' = "derived"
  /\ closure' = Derived(Bases(Secrets), injected.items)
  /\ UNCHANGED <<inputs, chained, wire, injected, surfaces>>
-----------------------------------------------------------------------------
(* A truncated set of secrets cannot be relied on. *)
Incomplete == Secrets # <<>> /\ (injected.overflow \/ closure.truncated)

Block ==
  /\ pc = "derived"
  /\ Incomplete
  /\ pc' = "refused"
  /\ UNCHANGED <<inputs, chained, wire, injected, closure, surfaces>>

(* The echo of each field, and of each field as a JSON body carries it. *)
Render ==
  /\ pc = "derived"
  /\ ~Incomplete
  /\ pc' = "rendered"
  /\ surfaces' =
       {Redacted(wire[f], closure.variants) : f \in DOMAIN wire}
       \cup {Redacted(Escaped(wire[f]), closure.variants) :
               f \in DOMAIN wire}
  /\ UNCHANGED <<inputs, chained, wire, injected, closure>>

(* copyAsCurl prepares a request in the same way; a copy with the secrets   *)
(* in it, which it offers too, is left out.                                 *)
CopyAsCurl ==
  /\ pc = "derived"
  /\ ~Incomplete
  /\ pc' = "copied"
  /\ surfaces' = {CurlArgument(wire[f], closure.variants) : f \in DOMAIN wire}
  /\ UNCHANGED <<inputs, chained, wire, injected, closure>>

(* The response has arrived: the body, which is the last field, is kept for *)
(* references to it.                                                        *)
Record ==
  /\ pc = "rendered"
  /\ pc' = "recorded"
  /\ surfaces' = {Scrubbed(Last(wire), closure.variants)}
  /\ UNCHANGED <<inputs, chained, wire, injected, closure>>

(* A request may get no response. *)
Finished ==
  /\ pc \in {"rendered", "recorded", "copied", "refused"}
  /\ UNCHANGED redactionVars

RedactionInit ==
  /\ pc = "start"
  /\ request \in Requests
  /\ env \in Environments
  /\ generated \in Generations
  /\ chain \in Stores
  /\ chained = [texts |-> <<>>, secrets |-> {}]
  /\ wire = <<>>
  /\ injected = Capped(<<>>)
  /\ closure = [variants |-> <<>>, truncated |-> FALSE, perBase |-> <<>>]
  /\ surfaces = {}

RedactionNext ==
  \/ Prepare \/ Substitute \/ Unresolved \/ Derive \/ Block \/ Render
  \/ CopyAsCurl \/ Record \/ Finished

RedactionSpec == RedactionInit /\ [][RedactionNext]_redactionVars
-----------------------------------------------------------------------------
(* What a part of the request stands for, by its structure, not its text. *)
Meant(part) ==
  LET means == part.means
      response == chain.responses[means.of]
  IN IF means.what = "literal" THEN part.text
     ELSE IF means.what = "capture" THEN chain.captures[means.of].value
     ELSE IF means.what = "request" THEN chain.requests[means.of].at[means.at]
     ELSE IF means.what = "status" THEN response.status
     ELSE IF means.what = "header" THEN response.headers[means.at[1]]
     ELSE response.body.at[means.at]

(* A request that the chain stage lets through has each reference replaced  *)
(* in its place by the value recorded for it, and nothing else changed: no  *)
(* reference is left as text, none is found inside a recorded value, in an  *)
(* abandoned {{ or in a quoted key, and reaching the bound on candidates    *)
(* refuses the request (resolver.ts, findPlaceholders, resolveChainText).   *)
ReferencesResolveInPlace ==
  \A f \in DOMAIN chained.texts :
    chained.texts[f] = FlattenSeq([p \in DOMAIN request[f] |->
                                     Meant(request[f][p])])

(* What a text may have become on the wire: the environment's value for     *)
(* each reference in it, or any that its builtin gave.                      *)
Expansions(s) ==
  LET Values(ref) == IF IsBuiltin(ref.expr) THEN Range(generated)
                     ELSE IF Resolvable(ref.expr) THEN {env.values[ref.expr]}
                     ELSE {ref.text}
      Step(acc, ref) ==
        [texts |-> {t \o SubSeq(s, acc.cursor, ref.start - 1) \o v :
                      t \in acc.texts, v \in Values(ref)},
         cursor |-> ref.end]
      end == FoldLeft(Step, [texts |-> {<<>>}, cursor |-> 1], References(s))
  IN {t \o SubSeq(s, end.cursor, Len(s)) : t \in end.texts}

(* Every secret of the run or the environment, as it may be on the wire. *)
WireSecrets ==
  UNION {Expansions(s) :
           s \in {t \in SecretValues(chain) : \E f \in DOMAIN chained.texts :
                                               Includes(chained.texts[f], t)}}
  \cup {env.values[n] : n \in env.secret}

(* Whatever a secret became on its way to the wire, no surface shows it, as *)
(* it is or as JSON escapes it: a secret that is a template, one whose      *)
(* template expands to nothing or to different values at each occurrence,   *)
(* one that is part of another or of a marker (extension.ts, runRequest;    *)
(* redact.ts: "derived surfaces must not").                                 *)
SecretsStayHidden ==
  \A s \in surfaces : \A w \in WireSecrets \ {<<>>} :
    ~Includes(s, w) /\ ~Includes(s, Escaped(w))

(* A base whose closure is not reported as truncated has every value that   *)
(* its references were given, and no base loses variants to the others: its *)
(* closure is what its share of the bound alone would give (redact.ts:      *)
(* "every base gets its own closure pass with a reserved share").           *)
ClosuresAreFair ==
  LET bases == Bases(Secrets)
  IN pc = "derived" /\ Len(bases) <= Budget =>
       \A k \in DOMAIN bases :
         LET mine == closure.perBase[k]
             alone == Closed(bases[k], Budget \div Len(bases), 0, injected.items)
         IN /\ mine.variants = alone.local
            /\ ~mine.truncated => \A inj \in Range(injected.items) :
                 (\E v \in Range(mine.variants) : Includes(v, inj.reference))
                   => inj.value \in Range(mine.variants) \cup {<<>>}

JsonSyntax == {"\"", "\\", ",", ":", "[", "]", "{", "}"}

(* The JSON body that is kept for references holds no secret in what it     *)
(* says, either; and, unless a secret holds some of JSON's own characters,  *)
(* each field without a secret reads as it was sent, whatever is masked     *)
(* around it.  Keys that look as if they were masked are left out: of those *)
(* that become one, only one is kept (redact.ts, scrubRecordedBody: "BOTH   *)
(* valid JSON AND secret-free"; extension.ts:1099 on unrelated fields).     *)
RecordedBodyServes ==
  LET forms == Forms(closure.variants)
      Kept(sent, kept, marker) ==
        /\ kept.ok => Clean(kept.texts, forms)
        /\ (\A f \in Range(forms) : Range(f) \cap JsonSyntax = {}) =>
             \A l \in sent.leaves :
               Clean({l.text} \cup Range(l.path), forms)
                 /\ (\A k \in Range(l.path) : k # <<>> /\ ~Includes(k, marker))
                 => l \in kept.leaves
      IfJson(sent) ==
        sent.ok => Kept(sent, Read(CHOOSE body \in surfaces : TRUE, <<>>),
                        Redacted(Marker, closure.variants))
  IN pc = "recorded" => IfJson(Read(Last(wire), <<>>))

(* A secret in the middle of a text that shares nothing with the secrets    *)
(* leaves one marker, and no remnant of a longer form whose part was        *)
(* masked first (redact.ts: "masking the shorter first would expose the     *)
(* longer one's tail").                                                     *)
OneMarkerPerSecret ==
  LET forms == Forms(closure.variants)
      marker == Placeholder(forms, Marker)
      other == {a \in UNION {Range(wire[f]) : f \in DOMAIN wire} :
                  \A k \in DOMAIN forms : a \notin Range(forms[k])}
  IN (pc = "derived" /\ \A k \in DOMAIN forms :
                          Range(forms[k]) \cap Range(marker) = {}) =>
       \A k \in DOMAIN forms : \A a \in other :
         Redacted(<<a>> \o forms[k] \o <<a>>, closure.variants)
           = <<a>> \o marker \o <<a>>
=============================================================================
