----------------------------- MODULE SseParser -----------------------------
(***************************************************************************)
(* The streaming SSE frame parser (src/core/sse/parser.ts) against a       *)
(* reference reading of everything it was fed, for every way to cut the    *)
(* stream into chunks and every time to drain.                             *)
(*                                                                         *)
(* Text is a sequence of atoms: the four field names, ":", " ", line       *)
(* terminators, the byte order mark "BOM", "NUL", a digit "7", another     *)
(* character "x", and "huge", more digits than a finite number has.        *)
(***************************************************************************)
EXTENDS Naturals, SequencesExt, Ordered

CONSTANTS
  Inputs,   \* bound: the streams the server may send
  MaxChunk  \* bound: atoms in one chunk

Atoms == {"data", "event", "id", "retry", ":", " ", "CR", "LF", "BOM", "NUL",
          "7", "x", "huge"}

ASSUME ParserAssumption ==
  Inputs \subseteq Seq(Atoms) /\ MaxChunk \in Nat

VARIABLES
  parser,  \* the private fields of the SseParser instance
  rest,    \* what the server has not sent yet
  sent,    \* history: everything pushed
  drained, \* history: everything drained
  state    \* "open", then "ended", or "failed" once a call threw

vars == <<parser, rest, sent, drained, state>>

\* undefined, and the type of an event without an event: field.
Undefined == <<"undefined">>
Message == <<"message">>

Texts == Seq(Atoms)
Event == [type : Texts \cup {Message}, data : Seq(Texts),
          id : Texts \cup {Undefined}, retry : Texts \cup {Undefined}]

Init ==
  /\ parser = [buffer |-> <<>>, data |-> <<>>, type |-> <<>>,
               id |-> Undefined, retry |-> Undefined, begun |-> FALSE,
               out |-> <<>>, threw |-> FALSE]
  /\ rest \in Inputs /\ sent = <<>> /\ drained = <<>> /\ state = "open"

----------------------------------------------------------------------------
(* Lines and fields.                                                       *)

Colon(line) == SelectInSeq(line, LAMBDA a : a = ":")

FieldOf(line) ==
  IF Colon(line) = 0 THEN line ELSE SubSeq(line, 1, Colon(line) - 1)

\* What follows the colon, without one leading space.
ValueOf(line) ==
  LET value == IF Colon(line) = 0 THEN <<>>
               ELSE SubSeq(line, Colon(line) + 1, Len(line))
  IN  IF value # <<>> /\ value[1] = " " THEN Tail(value) ELSE value

IsId(line) == FieldOf(line) = <<"id">> /\ ~Contains(ValueOf(line), "NUL")

IsRetry(line) ==
  /\ FieldOf(line) = <<"retry">> /\ ValueOf(line) # <<>>
  /\ \A i \in DOMAIN ValueOf(line) : ValueOf(line)[i] \in {"7", "huge"}

TypeName(value) == IF value = <<>> THEN Message ELSE value

\* Number() of too many digits is Infinity, which SseEventSchema rejects.
Valid(event) == event.retry = Undefined \/ ~Contains(event.retry, "huge")

----------------------------------------------------------------------------
(* The parser.                                                             *)

\* Faulty variant: the type outlives the event it was sent for.
DispatchKeepsType(p) ==
  LET event == [type |-> TypeName(p.type), data |-> p.data, id |-> p.id,
                retry |-> p.retry]
  IN  IF p.data = <<>> THEN [p EXCEPT !.type = <<>>]
      ELSE IF ~Valid(event) THEN [p EXCEPT !.threw = TRUE]
      ELSE [p EXCEPT !.out = Append(@, event), !.data = <<>>]

\* Faulty variant: a blank line always dispatches.
DispatchWithoutData(p) ==
  LET event == [type |-> TypeName(p.type), data |-> p.data, id |-> p.id,
                retry |-> p.retry]
  IN  IF ~Valid(event) THEN [p EXCEPT !.threw = TRUE]
      ELSE [p EXCEPT !.out = Append(@, event), !.data = <<>>, !.type = <<>>]

\* dispatchIfPending: id and retry are sticky, data and type are not.
Dispatch(p) ==
  LET event == [type |-> TypeName(p.type), data |-> p.data, id |-> p.id,
                retry |-> p.retry]
  IN  IF p.data = <<>> THEN [p EXCEPT !.type = <<>>]
      ELSE IF ~Valid(event) THEN [p EXCEPT !.threw = TRUE]
      ELSE [p EXCEPT !.out = Append(@, event), !.data = <<>>, !.type = <<>>]

\* A line is not read any more once an earlier one made the call throw.
ProcessLine(p, line) ==
  CASE p.threw -> p
    [] ~p.threw /\ line = <<>> -> Dispatch(p)
    [] OTHER ->
         CASE FieldOf(line) = <<"event">> -> [p EXCEPT !.type = ValueOf(line)]
           [] FieldOf(line) = <<"data">> ->
                [p EXCEPT !.data = Append(@, ValueOf(line))]
           [] IsId(line) -> [p EXCEPT !.id = ValueOf(line)]
           [] IsRetry(line) -> [p EXCEPT !.retry = ValueOf(line)]
           [] OTHER -> p


\* The second half of a CRLF.
AfterCR(text, i) == text[i] = "LF" /\ i > 1 /\ text[i - 1] = "CR"

\* Faulty variant: a CR that ends the buffer is not held back.
HeldNever(buf, i) == FALSE

\* A CR at the end of the buffer is held back, for the next chunk may start
\* with its LF.
Held(buf, i) == buf[i] = "CR" /\ i = Len(buf)

\* One more atom of the buffer: CR, LF and CRLF end a line.
Scanned(at, buf, i) ==
  CASE buf[i] \notin {"CR", "LF"} \/ Held(buf, i) -> at
    [] AfterCR(buf, i) -> [at EXCEPT !.start = i + 1]
    [] OTHER -> [start |-> i + 1,
                 p |-> ProcessLine(at.p, SubSeq(buf, at.start, i - 1))]

\* consumeLines: what is behind the last line's end stays in the buffer.
ConsumeLines(p) ==
  LET buf == p.buffer
      end == FoldLeftDomain(LAMBDA at, i : Scanned(at, buf, i),
                            [start |-> 1, p |-> p], buf)
  IN  [end.p EXCEPT !.buffer = SubSeq(buf, end.start, Len(buf))]

\* Faulty variant: every chunk is searched for a byte order mark.
StripBomAlways(p, chunk) == IF chunk[1] = "BOM" THEN Tail(chunk) ELSE chunk

\* A byte order mark is only dropped at the very start of the stream.
StripBom(p, chunk) ==
  IF ~p.begun /\ chunk[1] = "BOM" THEN Tail(chunk) ELSE chunk

\* push, of the next n atoms of the stream.
Push(n) ==
  /\ state = "open" /\ n <= Len(rest)
  /\ LET chunk == SubSeq(rest, 1, n)
     IN  /\ parser' = ConsumeLines(
                [parser EXCEPT !.buffer = @ \o StripBom(parser, chunk),
                               !.begun = TRUE])
         /\ sent' = sent \o chunk
  /\ rest' = SubSeq(rest, n + 1, Len(rest))
  /\ state' = IF parser'.threw THEN "failed" ELSE "open"
  /\ UNCHANGED drained

\* A held-back CR ends the last line.
TailLine(buf) == IF Last(buf) = "CR" THEN Front(buf) ELSE buf

\* end: the last line needs no terminator and the last event no blank line.
\* The stream may end anywhere.
End ==
  /\ state = "open"
  /\ LET p == IF parser.buffer = <<>> THEN parser
              ELSE ProcessLine(parser, TailLine(parser.buffer))
     IN  parser' = [(IF p.threw THEN p ELSE Dispatch(p)) EXCEPT !.buffer = <<>>]
  /\ state' = IF parser'.threw THEN "failed" ELSE "ended"
  /\ UNCHANGED <<rest, sent, drained>>

\* A parser that threw is dropped with what it had dispatched.
Drain ==
  /\ state # "failed" /\ parser.out # <<>>
  /\ drained' = drained \o parser.out
  /\ parser' = [parser EXCEPT !.out = <<>>]
  /\ UNCHANGED <<rest, sent, state>>

Finished == state # "open" /\ UNCHANGED vars

Next ==
  \/ \E n \in 1..MaxChunk : Push(n)
  \/ End \/ Drain \/ Finished

Spec == Init /\ [][Next]_vars

----------------------------------------------------------------------------
(* The reference: what a text means, read at once.                         *)

WithoutBom(text) ==
  IF text # <<>> /\ text[1] = "BOM" THEN Tail(text) ELSE text

Terminates(text, i) == text[i] \in {"CR", "LF"}
LineEnds(text) ==
  {i \in DOMAIN text : Terminates(text, i) /\ ~AfterCR(text, i)}
LineStart(text, e) == 1 + Max({0} \cup {j \in 1..e - 1 : Terminates(text, j)})

\* The lines of a text that have a terminator.
LinesOf(text) ==
  LET ends == InOrder(LineEnds(text))
  IN  [k \in DOMAIN ends |->
         SubSeq(text, LineStart(text, ends[k]), ends[k] - 1)]

\* The lines read so far: while more may come, a CR at the end is undecided;
\* at the end, what is left is a line, and a blank line follows it.
LinesRead ==
  LET text == WithoutBom(sent)
      cut == text # <<>> /\ Last(text) \notin {"CR", "LF"}
  IN  IF state = "ended" \/ (state = "failed" /\ parser.buffer = <<>>)
      THEN Append(LinesOf(IF cut THEN Append(text, "LF") ELSE text), <<>>)
      ELSE LinesOf(IF text # <<>> /\ Last(text) = "CR" THEN Front(text)
                   ELSE text)

\* What the lines before one say: since the last blank line, which ends an
\* event, of its type and data, and since the start of its id and retry.
EventStart(lines, k) == 1 + Max({0} \cup {j \in 1..k - 1 : lines[j] = <<>>})
DataLines(lines, k) ==
  {j \in EventStart(lines, k)..k - 1 : FieldOf(lines[j]) = <<"data">>}

DataBefore(lines, k) ==
  LET at == InOrder(DataLines(lines, k))
  IN  [i \in DOMAIN at |-> ValueOf(lines[at[i]])]

LatestBefore(lines, from, k, Test(_), default) ==
  LET j == SelectLastInSubSeq(lines, from, k - 1, Test)
  IN  IF j = 0 THEN default ELSE ValueOf(lines[j])

IsType(line) == FieldOf(line) = <<"event">>
TypeBefore(lines, k) ==
  LatestBefore(lines, EventStart(lines, k), k, IsType, <<>>)
IdBefore(lines, k) == LatestBefore(lines, 1, k, IsId, Undefined)
RetryBefore(lines, k) == LatestBefore(lines, 1, k, IsRetry, Undefined)

EventAt(lines, k) ==
  [type |-> TypeName(TypeBefore(lines, k)), data |-> DataBefore(lines, k),
   id |-> IdBefore(lines, k), retry |-> RetryBefore(lines, k)]

\* An event ends at every blank line after a data: line.
EventEnds(lines) ==
  {k \in DOMAIN lines : lines[k] = <<>> /\ DataLines(lines, k) # {}}
EventsOf(lines) ==
  LET ends == InOrder(EventEnds(lines))
  IN  [n \in DOMAIN ends |-> EventAt(lines, ends[n])]

\* The events before the first that fails validation.
ValidPrefix(events) ==
  LET bad == SelectInSeq(events, LAMBDA e : ~Valid(e))
  IN  IF bad = 0 THEN events ELSE SubSeq(events, 1, bad - 1)

----------------------------------------------------------------------------
(* Properties.                                                             *)

\* Every variable has its type, and no event is dispatched without data.
TypeOK ==
  /\ state \in {"open", "ended", "failed"}
  /\ sent \in Texts /\ rest \in Texts
  /\ parser.threw = (state = "failed") /\ parser.begun = (sent # <<>>)
  /\ parser.buffer \in Texts
  /\ \A e \in Range(drained \o parser.out) : e \in Event /\ e.data # <<>>

\* Wherever the stream is cut into chunks and whenever it is drained, the
\* events are those of the text read at once: none is lost, doubled, split or
\* held back, except that nothing follows an event that fails validation.  A
\* blank line without data before it clears the type, as the comment at
\* parser.ts:258 and a test say; the header (:25-26) says that it carries.
SameEventsForAnySplit ==
  drained \o parser.out = ValidPrefix(EventsOf(LinesRead))
=============================================================================
