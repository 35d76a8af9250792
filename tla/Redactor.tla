------------------------------ MODULE Redactor ------------------------------
(* How texts are shown, copied and recorded without the secrets in them:    *)
(* secretRedactor, on which every surface relies; requestToCurl, which      *)
(* quotes what it gives; and scrubRecordedBody, which keeps a JSON body     *)
(* readable.  The atoms of a text also hold JSON's: digits, true and null,  *)
(* and what may follow a backslash.  A JSON text has no white space between *)
(* its tokens, and its numbers are as JSON.stringify writes them.           *)
EXTENDS ChainText, Ordered, TLC

CONSTANTS Marker,     \* the replacement text of every surface but curl
          CurlMarker, \* requestToCurl's
          Fallbacks,  \* what replaces a marker that holds a secret, in order
          Digits,     \* atoms that numbers consist of
          Words,      \* true, false and null
          Unicode,    \* what a \u escape stands for: atom -> atom
          CodeUnits   \* the atoms of keys, in the order in which they sort

ASSUME RedactorAssumption ==
  /\ {Marker, CurlMarker} \subseteq Texts /\ Fallbacks \in Seq(Texts)
  /\ "\\" \in Atoms

Occurs(s, t, i) ==
  i + Len(s) - 1 <= Len(t) /\ SubSeq(t, i, i + Len(s) - 1) = s

Replacing(acc, i, t, s, r) ==
  IF i < acc.next THEN acc
  ELSE IF Occurs(s, t, i) THEN [text |-> acc.text \o r, next |-> i + Len(s)]
  ELSE [text |-> Append(acc.text, t[i]), next |-> i + 1]

(* t.split(s).join(r): the leftmost occurrences that do not overlap. *)
Replaced(t, s, r) ==
  FoldLeftDomain(LAMBDA acc, i : Replacing(acc, i, t, s, r),
                 [text |-> <<>>, next |-> 1], t).text

(* JSON.stringify(t) without the quotes around it. *)
EscapedAtom(a) == IF a \in {"\"", "\\"} THEN <<"\\", a>> ELSE <<a>>
Escaped(t) == FlattenSeq([i \in DOMAIN t |-> EscapedAtom(t[i])])

WithoutRepeats(s) ==
  Picked(s, {k \in DOMAIN s : \A j \in DOMAIN s : s[j] = s[k] => k <= j})
-----------------------------------------------------------------------------
(* secretRedactor. *)

FormsOf(secret) ==
  IF secret = <<>> THEN <<>> ELSE <<secret, Escaped(secret)>>

Forms(secrets) ==
  WithoutRepeats(FlattenSeq([k \in DOMAIN secrets |-> FormsOf(secrets[k])]))

(* The first marker no form is a part of, or nothing. *)
Placeholder(forms, preferred) ==
  LET markers == <<preferred>> \o Fallbacks
      Safe(m) == \A k \in DOMAIN forms : ~Includes(m, forms[k])
      k == SelectInSeq(markers, Safe)
  IN IF k = 0 THEN <<>> ELSE markers[k]

(* Faulty variant: the forms in the order in which they were found. *)
AsFound(forms) == forms

OfLength(forms, n) == Picked(forms, {k \in DOMAIN forms : Len(forms[k]) = n})

(* Longest first, and stable. *)
LongestFirst(forms) ==
  LET longest == Max({Len(forms[k]) : k \in DOMAIN forms} \cup {0})
  IN FlattenSeq([k \in 1..longest |-> OfLength(forms, longest + 1 - k)])

MaskedInTurn(text, forms, marker) ==
  FoldLeft(LAMBDA t, f : Replaced(t, f, marker), text, forms)

(* The masked text, unless a form is in it that masking the others made.    *)
WithoutForms(text, forms, marker) ==
  LET out == MaskedInTurn(text, forms, marker)
  IN IF \E k \in DOMAIN forms : Includes(out, forms[k]) THEN <<>> ELSE out

MaskedForms(text, forms, preferred) ==
  WithoutForms(text, forms, Placeholder(forms, preferred))

Masked(text, secrets, preferred) ==
  MaskedForms(text, LongestFirst(Forms(secrets)), preferred)

Redacted(text, secrets) == Masked(text, secrets, Marker)
-----------------------------------------------------------------------------
(* requestToCurl: each field is masked, and then quoted for the shell. *)

ShellQuoted(t) ==
  <<"'">> \o FlattenSeq([i \in DOMAIN t |-> IF t[i] = "'"
                           THEN <<"'", "\\", "'", "'">> ELSE <<t[i]>>])
    \o <<"'">>

CurlArgument(t, secrets) == ShellQuoted(Masked(t, secrets, CurlMarker))
-----------------------------------------------------------------------------
(* scrubRecordedBody. *)

(* The string literal whose content starts at a position. *)
Literal(t, start) ==
  LET Then(c, rest) ==
        IF rest.ok THEN [rest EXCEPT !.text = <<c>> \o @] ELSE rest
      bad == [ok |-> FALSE, next |-> Len(t) + 1, text |-> <<>>]
      from[i \in 1..(Len(t) + 2)] ==
        IF i > Len(t) THEN bad
        ELSE IF t[i] = "\"" THEN [ok |-> TRUE, next |-> i + 1, text |-> <<>>]
        ELSE IF t[i] # "\\" THEN Then(t[i], from[i + 1])
        ELSE IF i = Len(t) THEN bad
        ELSE IF t[i + 1] \in {"\"", "\\"} THEN Then(t[i + 1], from[i + 2])
        ELSE IF t[i + 1] \in DOMAIN Unicode
             THEN Then(Unicode[t[i + 1]], from[i + 2])
        ELSE bad
  IN from[start]

(* A number or a word, up to where it ends. *)
Scalar(t, start) ==
  LET end == Min({k \in start..Len(t) : t[k] \notin Digits} \cup {Len(t) + 1})
      next == IF t[start] \in Words THEN start + 1 ELSE end
  IN [ok |-> next > start, next |-> next,
      text |-> SubSeq(t, start, next - 1)]

(* The order of Array.prototype.sort. *)
Sorts(a, b) ==
  \E n \in 0..Len(a) :
    /\ n < Len(b) /\ SubSeq(a, 1, n) = SubSeq(b, 1, n)
    /\ n < Len(a) => SelectInSeq(CodeUnits, LAMBDA c : c = a[n + 1])
                       < SelectInSeq(CodeUnits, LAMBDA c : c = b[n + 1])

(* The members a walk keeps: of those whose keys are masked to one text,    *)
(* the one whose own key sorts first, in the order of their own keys.       *)
Winners(members) ==
  LET last == {k \in DOMAIN members : \A j \in DOMAIN members :
                 members[j].key = members[k].key => j <= k}
      first == {k \in last : \A j \in last :
                  members[j].masked = members[k].masked =>
                    j = k \/ Sorts(members[k].key, members[j].key)}
  IN SetToSortSeq({members[k] : k \in first},
                  LAMBDA m, n : Sorts(m.key, n.key))

(* JSON.parse of a text, and JSON.stringify of it after the walk that masks *)
(* its strings, its keys and its scalars: whether it is JSON; the masked    *)
(* text; every string, key and scalar in it; and what each path has.        *)
Read(t, secrets) ==
  LET Quote(s) == <<"\"">> \o Escaped(s) \o <<"\"">>
      Mask(s) == IF secrets = <<>> THEN s ELSE Redacted(s, secrets)
      bad == [ok |-> FALSE, next |-> Len(t) + 1, out |-> <<>>, texts |-> {},
              leaves |-> {}]
      badRest == [ok |-> FALSE, next |-> Len(t) + 1, list |-> <<>>]
      noRest(next) == [ok |-> TRUE, next |-> next, list |-> <<>>]
      Is(i, c) == i <= Len(t) /\ t[i] = c
      Leaf(read, out, text) ==
        IF ~read.ok THEN bad
        ELSE [ok |-> TRUE, next |-> read.next, out |-> out,
              texts |-> {text}, leaves |-> {[path |-> <<>>, text |-> text]}]
      Under(key, leaves) ==
        {[l EXCEPT !.path = <<key>> \o @] : l \in leaves}
      Joined(outs) ==
        FlattenSeq([k \in DOMAIN outs |->
                      IF k = 1 THEN outs[k] ELSE <<",">> \o outs[k]])
      Array(rest) ==
        LET m == rest.list
        IN IF ~rest.ok THEN bad
           ELSE [ok |-> TRUE, next |-> rest.next,
                 out |-> <<"[">> \o Joined([k \in DOMAIN m |-> m[k].out])
                           \o <<"]">>,
                 texts |-> UNION {m[k].texts : k \in DOMAIN m},
                 leaves |-> UNION {Under(<<ToString(k - 1)>>, m[k].leaves) :
                                     k \in DOMAIN m}]
      ObjectOf(m, next) ==
        [ok |-> TRUE, next |-> next,
         out |-> <<"{">> \o Joined([k \in DOMAIN m |->
                              Quote(m[k].masked) \o <<":">> \o m[k].out])
                   \o <<"}">>,
         texts |-> UNION {{m[k].key} \cup m[k].texts : k \in DOMAIN m},
         leaves |-> UNION {Under(m[k].key, m[k].leaves) : k \in DOMAIN m}]
      Object(rest) ==
        IF ~rest.ok THEN bad ELSE ObjectOf(Winners(rest.list), rest.next)
      Value(i, string, scalar, rest) ==
        IF i > Len(t) THEN bad
        ELSE IF t[i] = "\""
        THEN Leaf(string, Quote(Mask(string.text)), string.text)
        ELSE IF t[i] = "["
        THEN Array(IF Is(i + 1, "]") THEN noRest(i + 2)
                   ELSE rest[i + 1, "items"])
        ELSE IF t[i] = "{"
        THEN Object(IF Is(i + 1, "}") THEN noRest(i + 2)
                    ELSE rest[i + 1, "members"])
        ELSE Leaf(scalar, IF \E k \in DOMAIN secrets :
                               Includes(scalar.text, secrets[k])
                          THEN Quote(Mask(Marker)) ELSE scalar.text,
                  scalar.text)
      \* An item or member, and those after it.
      Followed(item, this, close, more) ==
        IF ~item.ok THEN badRest
        ELSE IF Is(item.next, close)
        THEN [ok |-> TRUE, next |-> item.next + 1, list |-> <<this>>]
        ELSE IF Is(item.next, ",") /\ more.ok
        THEN [more EXCEPT !.list = <<this>> \o @]
        ELSE badRest
      Items(item, rest) ==
        Followed(item, item, "]", rest[item.next + 1, "items"])
      Member(key, value, rest) ==
        Followed(value, [key |-> key, masked |-> Mask(key)] @@ value, "}",
                 rest[value.next + 1, "members"])
      Members(i, string, rest) ==
        IF Is(i, "\"") /\ string.ok /\ Is(string.next, ":")
        THEN Member(string.text, rest[string.next + 1, "value"], rest)
        ELSE badRest
      \* The value at a position, or the items or members from there on.
      at[i \in 1..(Len(t) + 2), what \in {"value", "items", "members"}] ==
        IF what = "value" THEN Value(i, Literal(t, i + 1), Scalar(t, i), at)
        ELSE IF what = "items" THEN Items(at[i, "value"], at)
        ELSE Members(i, Literal(t, i + 1), at)
      WholeText(value) == IF value.next = Len(t) + 1 THEN value ELSE bad
  IN WholeText(at[1, "value"])

(* A candidate must be JSON without a secret, as it is and decoded. *)
Clean(texts, secrets) ==
  \A k \in DOMAIN secrets : \A u \in texts : ~Includes(u, secrets[k])

Recordable(t, secrets) ==
  LET IsClean(read) == read.ok /\ Clean({t} \cup read.texts, secrets)
  IN IsClean(Read(t, <<>>))

(* Faulty variant: a JSON body is masked like any other text. *)
ScrubbedAsText(t, secrets) ==
  IF secrets = <<>> THEN t ELSE Redacted(t, secrets)

(* The first of three candidates that may be recorded, or nothing. *)
Scrubbed(t, secrets) ==
  LET AtOrNothing(candidates, k) == IF k = 0 THEN <<>> ELSE candidates[k]
      FirstRecordable(candidates) ==
        AtOrNothing(candidates,
                    SelectInSeq(candidates, LAMBDA c : Recordable(c, secrets)))
      Kept(read) ==
        IF ~read.ok THEN Redacted(t, secrets)
        ELSE FirstRecordable(<<read.out, Redacted(read.out, secrets),
                               Redacted(t, secrets)>>)
  IN IF secrets = <<>> THEN t ELSE Kept(Read(t, secrets))
=============================================================================
