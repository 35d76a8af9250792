----------------------------- MODULE HttpFile -----------------------------
(***************************************************************************)
(* .http files: what the parser (src/core/parser.ts) reads from a text, and *)
(* the text edits that the explorer's commands plan (src/core/append-,     *)
(* delete-, duplicate-, move-, renameRequest.ts and favoriteToggle.ts).    *)
(*                                                                         *)
(* A text is the sequence of its lines, as split('\n') makes it: never     *)
(* empty, and with a last line <<"">> if the text ends in a line break.    *)
(* Lines are numbered from 1.  A name is a sequence of words.  What kind of *)
(* line break it is, the limits on lengths and characters, and the tests   *)
(* and captures of a request are left out.                                 *)
(***************************************************************************)
EXTENDS Integers, FiniteSetsExt, SequencesExt, Ordered

CONSTANT Lower \* the lower case of those words that have capitals

Blank == <<"">>
Separator(name) == <<"###", name>>
Target(method, url) == <<"request", method, url>>
Favorite(value) == <<"@favorite", value>>
Note == <<"#">>            \* any other comment
Word(x) == <<"x", x>>      \* a header in a header block, a text in a body
Empty == <<Blank>>         \* the text of no characters
IsText(text) == text # <<>> /\ text \in Seq(Range(text))
IsName(name) == name \in Seq(Range(name))
Unnamed == <<>>
NoHash == <<>>

IsSeparator(line) == line[1] = "###"
IsComment(line) == line[1] \in {"#", "@favorite"}
IsFavorite(line) == line[1] = "@favorite"
HasNames(lines) == \A line \in lines : IsSeparator(line) => IsName(line[2])

Fold(name) ==
  [i \in DOMAIN name |->
     IF name[i] \in DOMAIN Lower THEN Lower[name[i]] ELSE name[i]]

----------------------------------------------------------------------------
(* The parser.                                                             *)

Separators(text) == {i \in DOMAIN text : IsSeparator(text[i])}
NextSeparator(text, i) ==
  Min({Len(text) + 1} \cup {j \in Separators(text) : j > i})

\* The line above each section; 0 is above a section without a separator.
Heads(text) ==
  Separators(text) \cup (IF IsSeparator(text[1]) THEN {} ELSE {0})

\* The first line, from one on, that passes the test, or the end.
FirstFrom(text, from, end, Test(_)) ==
  Min({end} \cup {i \in from..end - 1 : Test(text[i])})

\* The line a section's request should be on, and whether it is one.
RequestLine(text, head) ==
  FirstFrom(text, head + 1, NextSeparator(text, head),
            LAMBDA line : line # Blank /\ ~IsComment(line))
HasRequest(text, head) ==
  /\ RequestLine(text, head) < NextSeparator(text, head)
  /\ text[RequestLine(text, head)][1] = "request"

\* Without the blank lines around it.
Trimmed(lines) ==
  LET full == {i \in DOMAIN lines : lines[i] # Blank}
  IN  IF full = {} THEN <<>> ELSE SubSeq(lines, Min(full), Max(full))

\* A later directive replaces an earlier one.
FavoriteIn(lines) ==
  LET at == {i \in DOMAIN lines : IsFavorite(lines[i])}
  IN  IF at = {} THEN "" ELSE lines[Max(at)][2]

RequestOf(text, head) ==
  LET end == NextSeparator(text, head)
      line == RequestLine(text, head)
      body == FirstFrom(text, line + 1, end, LAMBDA l : l = Blank)
  IN  [name |-> IF head = 0 THEN Unnamed ELSE text[head][2],
       target |-> text[line],
       headers |-> Picked(text, {i \in line + 1..body - 1 : text[i][1] = "x"}),
       favorite |-> FavoriteIn(SubSeq(text, head + 1, body - 1)),
       body |-> Trimmed(SubSeq(text, body + 1, end - 1)),
       line |-> line, start |-> head + 1, end |-> end]

Requests(text) ==
  LET heads == InOrder({head \in Heads(text) : HasRequest(text, head)})
  IN  [k \in DOMAIN heads |-> RequestOf(text, heads[k])]

\* The request on a line, as a set of one or none.
RequestsOn(text, line) == {r \in ToSet(Requests(text)) : r.line = line}

----------------------------------------------------------------------------
(* Slices and edits of a text.                                             *)

\* One text after the other, of which the first ends, or the second starts,
\* in a line break.
Concat(t, u) == IF Last(t) = Blank THEN Front(t) \o u ELSE t \o Tail(u)

\* From the start of one line to the start of another, or to the end.
Slice(text, from, to) ==
  SubSeq(text, from, to - 1) \o (IF to <= Len(text) THEN Empty ELSE <<>>)

\* Faulty variant: after the end there is not even an empty text.
RestUnended(text, from) == SubSeq(text, from, Len(text))

Rest(text, from) ==
  IF from > Len(text) THEN Empty ELSE SubSeq(text, from, Len(text))

Edit(from, to, text) == [from |-> from, to |-> to, text |-> text]

Edited(text, edit) ==
  Concat(Concat(Slice(text, 1, edit.from), edit.text), Rest(text, edit.to))

SectionText(text, head) == Slice(text, head, NextSeparator(text, head))

\* hashRequestSections: a fingerprint stands for what it was taken from.
HashOf(text, r) ==
  IF r.name = Unnamed THEN NoHash ELSE SectionText(text, r.start - 1)

----------------------------------------------------------------------------
(* The planners.  A row is what the explorer shows of a request: what was  *)
(* parsed, its fingerprint, and those of the requests before and after it. *)
(* A plan is a set of one edit, or of none.                                *)

Row(text, k) ==
  LET rs == Requests(text)
      Hash(i) == IF i \in DOMAIN rs THEN HashOf(text, rs[i]) ELSE NoHash
  IN  [request |-> rs[k], hash |-> Hash(k), up |-> Hash(k - 1),
       down |-> Hash(k + 1)]

Rows(text) == {Row(text, k) : k \in DOMAIN Requests(text)}

\* The request a row shows, if the text still has it as it was.
Unchanged(text, row) == {r \in RequestsOn(text, row.request.line) : r = row.request}

\* Faulty variant: the parsed fields are all that is compared.
PlanDeleteUnhashed(text, row) ==
  {Edit(r.start - 1, NextSeparator(text, r.start - 1), Empty) :
     r \in {r \in Unchanged(text, row) : r.name # Unnamed}}

PlanDelete(text, row) ==
  {Edit(r.start - 1, NextSeparator(text, r.start - 1), Empty) :
     r \in {r \in Unchanged(text, row) :
              r.name # Unnamed /\ row.hash = SectionText(text, r.start - 1)}}

\* The separators before and after one, as a set of one or none.
Beside(text, head, direction) ==
  LET beyond == {i \in Separators(text) :
                   IF direction = "up" THEN i < head ELSE i > head}
  IN  IF beyond = {} THEN {}
      ELSE {IF direction = "up" THEN Max(beyond) ELSE Min(beyond)}

\* The swap of two sections, given by their separators.
Swap(text, head, other) ==
  LET first == Min({head, other})
      second == Max({head, other})
  IN  Edit(first, NextSeparator(text, second),
           Concat(SectionText(text, second), SectionText(text, first)))

\* Both sections must be as the row showed them, and end in a line break.
PlanMove(text, row, direction) ==
  LET Movable(r, hash) ==
        /\ r.name # Unnamed /\ hash = SectionText(text, r.start - 1)
        /\ Last(hash) = Blank
  IN  UNION {{Swap(text, r.start - 1, n.start - 1) :
                n \in {n \in ToSet(Requests(text)) :
                         /\ n.start - 1 \in Beside(text, r.start - 1, direction)
                         /\ Movable(n, row[direction])}} :
             r \in {r \in Unchanged(text, row) : Movable(r, row.hash)}}

\* A name with a number behind it, unless the number is 1.
Numbered(name, k) == IF k = 1 THEN name ELSE name \o <<ToString(k)>>

\* The first numbered name that is not taken; each line takes at most one.
FreeName(name, text, Taken(_)) ==
  Numbered(name, Min({k \in 1..Len(text) + 1 : ~Taken(Numbered(name, k))}))

\* Faulty variant: names that differ in case are different.
CopyNameExact(text, name) ==
  LET names == {text[i][2] : i \in Separators(text)}
  IN  FreeName(name \o <<"Copy">>, text, LAMBDA n : n \in names)

CopyName(text, name) ==
  LET names == {Fold(text[i][2]) : i \in Separators(text)}
  IN  FreeName(name \o <<"Copy">>, text, LAMBDA n : Fold(n) \in names)

\* Faulty variant: the copy goes before the original.
PlanDuplicateBefore(text, row) ==
  {LET head == r.start - 1
       copy == <<Separator(CopyName(text, r.name))>> \o Tail(SectionText(text, head))
   IN  Edit(head, head, IF Last(copy) = Blank THEN copy ELSE Append(copy, Blank)) :
   r \in {r \in Unchanged(text, row) : r.name # Unnamed}}

\* After a last line without a line break, the copy starts with one.
PlanDuplicate(text, row) ==
  {LET head == r.start - 1
       end == NextSeparator(text, head)
       copy == <<Separator(CopyName(text, r.name))>> \o Tail(SectionText(text, head))
       broken == IF end > Len(text) /\ Last(text) # Blank
                 THEN <<Blank>> \o copy ELSE copy
   IN  Edit(end, end, IF Last(broken) = Blank THEN broken ELSE Append(broken, Blank)) :
   r \in {r \in Unchanged(text, row) : r.name # Unnamed}}

\* Malformed sections keep their names, too.
PlanRename(text, row, name) ==
  {Edit(r.start - 1, r.start, <<Separator(name), Blank>>) :
     r \in {r \in RequestsOn(text, row.request.line) :
              /\ r.name # Unnamed /\ r.name = row.request.name
              /\ r.target = row.request.target /\ r.start = row.request.start
              /\ \A i \in Separators(text) \ {r.start - 1} :
                   Fold(text[i][2]) # Fold(name)}}

PlanAppend(text) ==
  LET names == {text[i][2] : i \in Separators(text)}
      name == FreeName(<<"New Request">>, text, LAMBDA n : n \in names)
      before == CASE text = Empty -> <<>>
                  [] text # Empty /\ Last(text) = Blank -> <<Blank>>
                  [] Last(text) # Blank -> <<Blank, Blank>>
  IN  {Edit(Len(text) + 1, Len(text) + 1,
            before \o <<Separator(name), Target("GET", "baseUrl"), Blank>>)}

\* The favorite directives before the request line are replaced by one or by
\* none; one in the header block cannot be.
PlanFavorite(text, row) ==
  LET Preamble(r) == {i \in r.start..r.line - 1 : IsFavorite(text[i])}
      Headers(r) ==
        r.line + 1..FirstFrom(text, r.line + 1, r.end, LAMBDA l : l = Blank) - 1
      Replaced(r) ==
        LET from == IF Preamble(r) = {} THEN r.line ELSE Min(Preamble(r))
            to == IF Preamble(r) = {} THEN r.line ELSE Max(Preamble(r)) + 1
            kept == Picked(text, {i \in from..to - 1 : ~IsFavorite(text[i])})
        IN  Edit(from, to, kept \o (IF r.favorite = "true" THEN <<>>
                                    ELSE <<Favorite("true")>>) \o Empty)
  IN  {Replaced(r) :
       r \in {r \in RequestsOn(text, row.request.line) :
                /\ r.target = row.request.target /\ r.name = row.request.name
                /\ r.favorite # "" => Preamble(r) # {}
                /\ \A i \in Headers(r) : ~IsFavorite(text[i])}}
=============================================================================
