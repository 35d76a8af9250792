---------------------------- MODULE SseTransport ----------------------------
(***************************************************************************)
(* The SSE transport driver: runSseTransportWithReconnect and the          *)
(* runSseTransport call it makes for each connection, against a server     *)
(* that sends, stalls, ends or breaks the stream and a user who may stop   *)
(* it between any two steps (src/core/sse/transport.ts).                   *)
(*                                                                         *)
(* A step of the model is what JavaScript runs between two awaits.  A      *)
(* promise settling and the continuation it wakes are two steps, because   *)
(* other callbacks run in between: the race that decided for the chunk     *)
(* ("stepped") is not undone by a stop that comes before the driver        *)
(* resumes, which is why the driver looks at signal.aborted again.         *)
(*                                                                         *)
(* What a chunk carries is what the parser makes of it: a sequence of      *)
(* events, each with the id and retry fields seen since the event before   *)
(* it (None when there were none), and the id and retry fields of the      *)
(* frames without data that follow the last event.                         *)
(***************************************************************************)
EXTENDS Naturals, Sequences

CONSTANTS
  Ids,            \* values of an id: field
  Retries,        \* values in ms of a valid retry: field
  None,           \* an absent field
  Events,         \* the events a server may send
  Trails,         \* the data-less fields that may follow them
  MaxReconnects,  \* options.maxReconnects
  MaxEvents,      \* options.maxEvents, 0 when the option is absent
  MaxDuration,    \* options.maxDurationMs in clock ticks, 0 when absent
  IdleLimit,      \* options.idleMs in clock ticks, 0 when absent
  MaxChunks,      \* bound: chunks one connection sends
  MaxBatch        \* bound: events one chunk carries

Field == [id : Ids \cup {None}, retry : Retries \cup {None}]
Event == [id : Ids \cup {None}, retry : Retries \cup {None},
          until : {"no", "yes", "error"}]

ASSUME TransportAssumption ==
  /\ None \notin Ids
  /\ Retries \subseteq Nat /\ None \notin Nat
  /\ Events \subseteq Event
  /\ Trails \subseteq Field
  /\ MaxReconnects \in Nat /\ MaxEvents \in Nat
  /\ MaxDuration \in Nat /\ IdleLimit \in Nat
  /\ MaxChunks \in Nat /\ MaxBatch \in Nat

VARIABLES
  pc,             \* where the driver is parked
  stopped,        \* signal.aborted
  conn,           \* the locals of the current runSseTransport call
  reconnect,      \* SseReconnectState: the resume point and the backoff hint
  attempts,       \* connections that were established
  reconnectCount, \* reconnects that were started
  totalEvents,    \* events of the finished connections
  untilError,     \* result.untilError
  wait,           \* the backoff in ms before the next connection
  body,           \* the HTTP body under the current input, or an unread one
  pendingRead,    \* an abandoned iterator.next() has not settled yet
  late,           \* a connect() abandoned by a stop
  outcome,        \* "live", then the reason returned or "failed" if it threw
  opened,         \* history: calls of connect()
  delivered,      \* history: calls of onEvent
  hinted          \* history: the last retry an event gave to onEvent

vars == <<pc, stopped, conn, reconnect, attempts, reconnectCount, totalEvents,
          untilError, wait, body, pendingRead, late, outcome, opened, delivered,
          hinted>>

ConnReasons == {"aborted", "until-matched", "max-events", "max-duration",
                "idle-timeout", "end-of-stream", "failed"}
Outcomes == ConnReasons \cup {"live", "reconnect-limit", "loop-exhausted"}

Places == {"start", "connecting", "connected", "reading", "stepped",
           "callback", "closing", "returned", "backoff", "slept", "settled"}

Conn == [queue : Seq(Event), trail : Field, chunks : Nat, count : Nat,
         age : Nat, idle : Nat, ended : BOOLEAN, matched : BOOLEAN,
         untilError : BOOLEAN, reason : ConnReasons \cup {"none"}]

Batches(n) == UNION {[1..k -> Events] : k \in 0..n}

\* The locals a runSseTransport call starts with.
FreshConn ==
  [queue |-> <<>>, trail |-> [id |-> None, retry |-> None], chunks |-> 0,
   count |-> 0, age |-> 0, idle |-> 0, ended |-> FALSE, matched |-> FALSE,
   untilError |-> FALSE, reason |-> "none"]

Init ==
  /\ pc = "start"
  /\ stopped = FALSE
  /\ conn = FreshConn
  /\ reconnect = [id |-> None, retry |-> None]
  /\ attempts = 0 /\ reconnectCount = 0 /\ totalEvents = 0
  /\ untilError = FALSE
  /\ wait = 0
  /\ body = "none" /\ pendingRead = FALSE /\ late = "none"
  /\ outcome = "live"
  /\ opened = 0 /\ delivered = 0 /\ hinted = None

----------------------------------------------------------------------------
\* The newer of two observations of id and retry, field by field.
Newer(old, new) ==
  [new EXCEPT !.id = IF @ = None THEN old.id ELSE @,
              !.retry = IF @ = None THEN old.retry ELSE @]

\* An optional cap, and the count or elapsed time that reaches it.
Reached(n, cap) == cap > 0 /\ n >= cap

FallbackRetry == 3000
MinRetry == 100
MaxRetry == 30000

\* Faulty variant: a hint of zero is taken for a hint.
ClampRetryOfZero(hint) ==
  LET ms == IF hint = None THEN FallbackRetry ELSE hint
      floored == IF ms < MinRetry THEN MinRetry ELSE ms
  IN  IF floored > MaxRetry THEN MaxRetry ELSE floored

\* clampRetryMs: an absent or zero hint falls back, any other is clamped.
ClampRetry(hint) ==
  LET ms == IF hint = None \/ hint = 0 THEN FallbackRetry ELSE hint
      floored == IF ms < MinRetry THEN MinRetry ELSE ms
  IN  IF floored > MaxRetry THEN MaxRetry ELSE floored

Settle(o) == pc' = "settled" /\ outcome' = o

loopVars == <<attempts, reconnectCount, totalEvents, untilError, wait>>

----------------------------------------------------------------------------
(* The reconnect loop: opening a connection.                               *)

\* The head of the while loop, reached without an await from its callers.
NextAttempt ==
  IF attempts > MaxReconnects
  THEN Settle("loop-exhausted") /\ UNCHANGED opened
  ELSE \/ stopped /\ Settle("aborted") /\ UNCHANGED opened
       \/ /\ ~stopped
          /\ pc' = "connecting" /\ opened' = opened + 1
          /\ UNCHANGED outcome

Begin ==
  /\ pc = "start"
  /\ NextAttempt
  /\ UNCHANGED <<stopped, conn, reconnect, loopVars, body, pendingRead, late,
                 delivered, hinted>>

\* connect() wins its race against the stop signal: a body is there, and the
\* stop listener that destroys it is registered (closeOnAbort).
ConnectResolves ==
  /\ pc = "connecting" /\ ~stopped
  /\ pc' = "connected" /\ body' = "open"
  /\ UNCHANGED <<stopped, conn, reconnect, loopVars, pendingRead, late,
                 outcome, opened, delivered, hinted>>

\* A connect failure is thrown to the caller: it is never retried.  The
\* request has failed, so there is no response to release.
ConnectRejects ==
  /\ pc = "connecting" /\ ~stopped
  /\ Settle("failed")
  /\ UNCHANGED <<stopped, conn, reconnect, loopVars, body, pendingRead, late,
                 opened, delivered, hinted>>

\* A reconnect is answered by anything but an event stream: connect() throws
\* and drops the response with its body, which nobody reads or destroys.  The
\* response to the first connect() was tested before the driver was started.
ConnectMistyped ==
  /\ pc = "connecting" /\ ~stopped
  /\ opened > 1
  /\ Settle("failed") /\ body' = "unread"
  /\ UNCHANGED <<stopped, conn, reconnect, loopVars, pendingRead, late, opened,
                 delivered, hinted>>

\* The stop signal wins: the pending connect() is abandoned.
StopConnect ==
  /\ pc = "connecting" /\ stopped
  /\ Settle("aborted") /\ late' = "pending"
  /\ UNCHANGED <<stopped, conn, reconnect, loopVars, body, pendingRead,
                 opened, delivered, hinted>>

\* Its late body is closed (closeLateInput), its late failure dropped.
LateConnect ==
  /\ late = "pending"
  /\ late' \in {"closed", "dropped"}
  /\ UNCHANGED <<pc, stopped, conn, reconnect, loopVars, body, pendingRead,
                 outcome, opened, delivered, hinted>>

\* Faulty variant: the event counter outlives the connection.
DriveKeepsCount ==
  /\ pc = "connected"
  /\ attempts' = attempts + 1
  /\ conn' = [FreshConn EXCEPT !.count = conn.count]
  /\ pc' = "reading"
  /\ UNCHANGED <<stopped, reconnect, reconnectCount, totalEvents, untilError,
                 wait, body, pendingRead, late, outcome, opened, delivered,
                 hinted>>

\* The driver resumes with a connection and asks for its first chunk.
Drive ==
  /\ pc = "connected"
  /\ attempts' = attempts + 1
  /\ \/ /\ stopped
        /\ conn' = [FreshConn EXCEPT !.reason = "aborted"]
        /\ pc' = "closing"
     \/ /\ ~stopped
        /\ conn' = FreshConn
        /\ pc' = "reading"
  /\ UNCHANGED <<stopped, reconnect, reconnectCount, totalEvents, untilError,
                 wait, body, pendingRead, late, outcome, opened, delivered,
                 hinted>>

----------------------------------------------------------------------------
(* One connection: reading chunks and dispatching their events.            *)

\* Faulty variant: no finally block closes the input.
FinishWithoutClose(c, r) ==
  /\ conn' = [c EXCEPT !.reason = r]
  /\ pc' = "returned"
  /\ UNCHANGED <<reconnect, delivered, hinted>>

\* Leave the read loop; the input is closed unless it ended by itself.
Finish(c, r) ==
  /\ conn' = [c EXCEPT !.reason = r]
  /\ pc' = IF c.ended THEN "returned" ELSE "closing"
  /\ UNCHANGED <<reconnect, delivered, hinted>>

\* Faulty variants: the signal, or the idle limit, is not looked at again
\* between the events of a chunk.
HaltBeforeWithoutSignal(c) ==
  IF Reached(c.age, MaxDuration) THEN "max-duration"
  ELSE IF Reached(c.idle, IdleLimit) THEN "idle-timeout"
  ELSE "none"

HaltBeforeWithoutIdle(c) ==
  IF stopped THEN "aborted"
  ELSE IF Reached(c.age, MaxDuration) THEN "max-duration"
  ELSE "none"

\* The conditions looked at before an event is dispatched, in their order.
HaltBefore(c) ==
  IF stopped THEN "aborted"
  ELSE IF Reached(c.age, MaxDuration) THEN "max-duration"
  ELSE IF Reached(c.idle, IdleLimit) THEN "idle-timeout"
  ELSE "none"

\* The conditions looked at once onEvent has returned for the event.
HaltAfter(c) ==
  IF c.matched THEN "until-matched"
  ELSE IF Reached(c.count, MaxEvents) THEN "max-events"
  ELSE IF stopped THEN "aborted"
  ELSE "none"

\* With no event queued the driver asks for the next chunk, or returns if
\* the input is exhausted.
ReadOn(c) ==
  \/ c.ended /\ Finish(c, IF stopped THEN "aborted" ELSE "end-of-stream")
  \/ ~c.ended /\ stopped /\ Finish(c, "aborted")
  \/ /\ ~c.ended /\ ~stopped
     /\ pc' = "reading" /\ conn' = c
     /\ UNCHANGED <<reconnect, delivered, hinted>>

\* Faulty variant: an event without a hint takes the last one away.
DispatchForgetsHint(c) ==
  /\ reconnect' = [id |-> Newer(reconnect, Head(c.queue)).id,
                   retry |-> Head(c.queue).retry]
  /\ conn' = [c EXCEPT !.count = @ + 1, !.idle = 0]
  /\ delivered' = delivered + 1
  /\ hinted' = IF Head(c.queue).retry = None
               THEN hinted ELSE Head(c.queue).retry
  /\ pc' = "callback"

\* Hand the first queued event to onEvent; the resume point moves with it.
Dispatch(c) ==
  /\ reconnect' = [id |-> Newer(reconnect, Head(c.queue)).id,
                   retry |-> Newer(reconnect, Head(c.queue)).retry]
  /\ conn' = [c EXCEPT !.count = @ + 1, !.idle = 0]
  /\ delivered' = delivered + 1
  /\ hinted' = IF Head(c.queue).retry = None
               THEN hinted ELSE Head(c.queue).retry
  /\ pc' = "callback"

\* flushDispatched, from one await to the next.
Flush(c) ==
  \/ c.queue = <<>> /\ ReadOn(c)
  \/ c.queue # <<>> /\ HaltBefore(c) # "none" /\ Finish(c, HaltBefore(c))
  \/ c.queue # <<>> /\ HaltBefore(c) = "none" /\ Dispatch(c)

\* The parser's output for one read: what it held back belongs to the first
\* event of this batch, or is still held if there is none.
Parsed(c, batch, trail) ==
  IF batch = <<>>
  THEN [c EXCEPT !.trail = Newer(@, trail)]
  ELSE [c EXCEPT !.queue = [batch EXCEPT ![1] = Newer(c.trail, @)],
                 !.trail = trail]

\* A chunk wins its race against the stop signal.
ChunkArrives ==
  /\ pc = "reading" /\ ~stopped
  /\ conn.chunks < MaxChunks
  /\ \E batch \in Batches(MaxBatch), trail \in Trails :
       conn' = [Parsed(conn, batch, trail) EXCEPT !.chunks = @ + 1]
  /\ pc' = "stepped"
  /\ UNCHANGED <<stopped, reconnect, loopVars, body, pendingRead, late,
                 outcome, opened, delivered, hinted>>

\* The server ends the response; parser.end() may complete one last event.
BodyEnds ==
  /\ pc = "reading" /\ ~stopped
  /\ \E batch \in Batches(1), trail \in Trails :
       conn' = [Parsed(conn, batch, trail) EXCEPT !.ended = TRUE]
  /\ pc' = "stepped" /\ body' = "ended"
  /\ UNCHANGED <<stopped, reconnect, loopVars, pendingRead, late, outcome,
                 opened, delivered, hinted>>

\* Faulty variant: the read is awaited without racing it against the signal.
BodyFailsUnraced ==
  /\ pc = "reading"
  /\ Finish(conn, "failed") /\ body' = "failed"
  /\ UNCHANGED <<stopped, loopVars, pendingRead, late, outcome, opened>>

\* The connection breaks: iterator.next() rejects and the error is thrown.
BodyFails ==
  /\ pc = "reading" /\ ~stopped
  /\ Finish(conn, "failed") /\ body' = "failed"
  /\ UNCHANGED <<stopped, loopVars, pendingRead, late, outcome, opened>>

\* The stop signal wins: the pending iterator.next() is abandoned.
StopRead ==
  /\ pc = "reading" /\ stopped
  /\ Finish(conn, "aborted") /\ pendingRead' = TRUE
  /\ UNCHANGED <<stopped, loopVars, body, late, outcome, opened>>

\* The driver resumes with what it read.
Process ==
  /\ pc = "stepped"
  /\ Flush(conn)
  /\ UNCHANGED <<stopped, loopVars, body, pendingRead, late, outcome, opened>>

\* A retry: too long to be a finite number does not validate: parser.push
\* throws out of its chunk, and the events before it in the chunk are lost.
ParseThrows ==
  /\ pc = "stepped"
  /\ Finish(conn, "failed")
  /\ UNCHANGED <<stopped, loopVars, body, pendingRead, late, outcome, opened>>

\* onEvent returns: the predicate is applied, then the caps and the signal.
CallbackReturns ==
  /\ pc = "callback"
  /\ LET e == Head(conn.queue)
         c == [conn EXCEPT !.queue = Tail(@),
                           !.matched = (e.until = "yes"),
                           !.untilError = @ \/ (e.until = "error")]
     IN  \/ HaltAfter(c) # "none" /\ Finish(c, HaltAfter(c))
         \/ HaltAfter(c) = "none" /\ Flush(c)
  /\ UNCHANGED <<stopped, loopVars, body, pendingRead, late, outcome, opened>>

\* onEvent throws: the input is closed and the error reaches the caller.
CallbackThrows ==
  /\ pc = "callback"
  /\ Finish(conn, "failed")
  /\ UNCHANGED <<stopped, loopVars, body, pendingRead, late, outcome, opened>>

\* The abandoned read settles: its chunk is dropped, its rejection absorbed.
\* Without a stop-time destroy of the body this would be up to the server.
ReadSettles ==
  /\ pendingRead /\ body # "open"
  /\ pendingRead' = FALSE
  /\ UNCHANGED <<pc, stopped, conn, reconnect, loopVars, body, late, outcome,
                 opened, delivered, hinted>>

\* iterator.return() resolves; a generator queues it behind a pending next().
CloseCompletes ==
  /\ pc = "closing" /\ ~pendingRead
  /\ body' = IF body = "open" THEN "closed" ELSE body
  /\ pc' = "returned"
  /\ UNCHANGED <<stopped, conn, reconnect, loopVars, pendingRead, late,
                 outcome, opened, delivered, hinted>>

----------------------------------------------------------------------------
(* The reconnect loop: what follows a connection.                          *)

AfterRun ==
  /\ pc = "returned"
  /\ \/ /\ conn.reason = "failed"
        /\ Settle("failed")
        /\ UNCHANGED <<totalEvents, untilError, reconnectCount, wait>>
     \/ /\ conn.reason # "failed"
        /\ totalEvents' = totalEvents + conn.count
        /\ untilError' = conn.untilError
        /\ \/ /\ conn.reason # "end-of-stream" /\ Settle(conn.reason)
              /\ UNCHANGED <<reconnectCount, wait>>
           \/ /\ conn.reason = "end-of-stream" /\ stopped /\ Settle("aborted")
              /\ UNCHANGED <<reconnectCount, wait>>
           \/ /\ conn.reason = "end-of-stream" /\ ~stopped
              /\ reconnectCount >= MaxReconnects /\ Settle("reconnect-limit")
              /\ UNCHANGED <<reconnectCount, wait>>
           \/ /\ conn.reason = "end-of-stream" /\ ~stopped
              /\ reconnectCount < MaxReconnects
              /\ reconnectCount' = reconnectCount + 1
              /\ wait' = ClampRetry(reconnect.retry)
              /\ pc' = "backoff" /\ UNCHANGED outcome
  /\ UNCHANGED <<stopped, conn, reconnect, attempts, body, pendingRead, late,
                 opened, delivered, hinted>>

SleepElapses ==
  /\ pc = "backoff" /\ ~stopped
  /\ pc' = "slept"
  /\ UNCHANGED <<stopped, conn, reconnect, loopVars, body, pendingRead, late,
                 outcome, opened, delivered, hinted>>

StopSleep ==
  /\ pc = "backoff" /\ stopped
  /\ Settle("aborted")
  /\ UNCHANGED <<stopped, conn, reconnect, loopVars, body, pendingRead, late,
                 opened, delivered, hinted>>

AfterSleep ==
  /\ pc = "slept"
  /\ \/ stopped /\ Settle("aborted") /\ UNCHANGED opened
     \/ ~stopped /\ NextAttempt
  /\ UNCHANGED <<stopped, conn, reconnect, loopVars, body, pendingRead, late,
                 delivered, hinted>>

----------------------------------------------------------------------------
(* The user and the clock.                                                 *)

\* Faulty variant: nothing destroys the live body when the user stops.
StopKeepsBody ==
  /\ outcome = "live" /\ ~stopped
  /\ stopped' = TRUE
  /\ UNCHANGED <<pc, conn, reconnect, loopVars, body, pendingRead, late,
                 outcome, opened, delivered, hinted>>

\* SseStreamHandle.abort(): the listeners run at once, and the one that
\* closeOnAbort registered destroys the live body.
Stop ==
  /\ outcome = "live" /\ ~stopped
  /\ stopped' = TRUE
  /\ body' = IF body = "open" THEN "destroyed" ELSE body
  /\ UNCHANGED <<pc, conn, reconnect, loopVars, pendingRead, late, outcome,
                 opened, delivered, hinted>>

\* Time passes while a connection is awaited; a clock that has reached its
\* cap need not advance further.
Tick ==
  /\ pc \in {"reading", "callback"}
  /\ conn.age < MaxDuration \/ conn.idle < IdleLimit
  /\ conn' = [conn EXCEPT !.age = IF @ < MaxDuration THEN @ + 1 ELSE @,
                          !.idle = IF @ < IdleLimit THEN @ + 1 ELSE @]
  /\ UNCHANGED <<pc, stopped, reconnect, loopVars, body, pendingRead, late,
                 outcome, opened, delivered, hinted>>

Settled == pc = "settled" /\ UNCHANGED vars

Driver ==
  \/ Begin \/ StopConnect \/ Drive \/ StopRead \/ Process \/ CallbackReturns
  \/ CloseCompletes \/ AfterRun \/ StopSleep \/ AfterSleep

Environment ==
  \/ ConnectResolves \/ ConnectRejects \/ ConnectMistyped \/ LateConnect
  \/ ChunkArrives \/ BodyEnds \/ BodyFails \/ ParseThrows \/ CallbackThrows
  \/ ReadSettles \/ SleepElapses \/ Stop \/ Tick

Next == Driver \/ Environment \/ Settled

Spec == Init /\ [][Next]_vars

\* The event loop runs every ready continuation, onEvent returns, and a read
\* on a destroyed body settles.  Nothing is assumed of the server or the user.
Fairness == WF_vars(Driver) /\ WF_vars(ReadSettles)

FairSpec == Spec /\ Fairness

----------------------------------------------------------------------------
(* Properties.                                                             *)

\* Every variable has its type, and the driver has settled exactly when it
\* has an outcome.
TypeOK ==
  /\ pc \in Places
  /\ stopped \in BOOLEAN
  /\ conn \in Conn
  /\ reconnect \in Field
  /\ attempts \in Nat /\ reconnectCount \in Nat /\ totalEvents \in Nat
  /\ untilError \in BOOLEAN
  /\ wait \in {0} \cup MinRetry..MaxRetry
  /\ body \in {"none", "open", "ended", "failed", "destroyed", "closed",
               "unread"}
  /\ pendingRead \in BOOLEAN
  /\ late \in {"none", "pending", "closed", "dropped"}
  /\ outcome \in Outcomes
  /\ opened \in Nat /\ delivered \in Nat
  /\ hinted \in Retries \cup {None}

(* The inductive invariant behind the properties below: how the three      *)
(* counters of the reconnect loop move together, what a stop reason says   *)
(* about the run, and who still holds the body.                            *)

InRun == pc \in {"reading", "stepped", "callback", "closing", "returned"}

LoopInv ==
  /\ outcome = "live" <=> pc # "settled"
  /\ reconnectCount <= MaxReconnects
  /\ pc = "start" => opened = 0 /\ attempts = 0 /\ reconnectCount = 0
  /\ pc \in {"backoff", "slept"} =>
       opened = reconnectCount /\ attempts = reconnectCount
  /\ pc \in {"connecting", "connected"} =>
       opened = reconnectCount + 1 /\ attempts = reconnectCount
  /\ InRun => opened = reconnectCount + 1 /\ attempts = reconnectCount + 1

ReasonInv ==
  /\ pc \in {"reading", "stepped", "callback"} =>
       conn.reason = "none" /\ ~conn.matched
  /\ pc \in {"closing", "returned"} => conn.reason # "none"
  /\ pc \notin {"closing", "returned", "settled"} => ~conn.matched
  /\ pc \in {"closing", "returned"} =>
       /\ conn.matched <=> conn.reason = "until-matched"
       /\ conn.reason = "aborted" => stopped
       /\ conn.reason \in {"until-matched", "max-events"} => delivered > 0
  /\ pc = "callback" => delivered > 0 /\ conn.queue # <<>>

BodyInv ==
  /\ pc \notin {"connected", "reading", "stepped", "callback", "closing"} =>
       body # "open"
  /\ body = "unread" =>
       /\ pc = "settled" /\ outcome = "failed" /\ ~stopped
       /\ reconnectCount > 0 /\ attempts < opened
  /\ pendingRead => pc = "closing"
  /\ InRun /\ conn.ended => body # "open" /\ pc \notin {"reading", "closing"}

IInv == LoopInv /\ ReasonInv /\ BodyInv

\* What the user is promised: see SseStream.  In particular nothing is opened
\* or delivered after a stop or a predicate match, the reconnect loop never
\* runs off its end, and the reported reason is the true one.
Stream == INSTANCE SseStream WITH
  Budget <- MaxReconnects + 1,
  final <- conn.matched

ImplementsStream == Stream!Spec

\* The count of a finished run is the number of events onEvent has seen over
\* all its connections; while a connection is live its own count is missing.
EventCountExact ==
  /\ pc \in {"start", "connecting", "connected", "backoff", "slept"} =>
       totalEvents = delivered
  /\ InRun => totalEvents + conn.count = delivered
  /\ (pc = "settled" /\ outcome # "failed") => totalEvents = delivered

\* However the run settles, no read is pending and no body the driver was
\* given is still open.  The one body left behind is the answer to a reconnect
\* that was no event stream: the run then failed, unstopped, before that
\* attempt became a connection.
NoBodyLeft ==
  pc = "settled" =>
    /\ body # "open" /\ ~pendingRead
    /\ body = "unread" =>
         /\ outcome = "failed" /\ ~stopped
         /\ reconnectCount > 0 /\ attempts < opened

\* A chunk that carries several events does not run past a cap: an event is
\* dispatched only while none of this connection's caps is reached.
NoDispatchPastCap ==
  [][delivered' # delivered =>
       /\ ~Reached(conn.count, MaxEvents)
       /\ ~Reached(conn.age, MaxDuration)
       /\ ~Reached(conn.idle, IdleLimit)]_vars

\* Destroying the body makes the abandoned read and connect fail; that failure
\* is never mistaken for a failure of the stream.  Once the user has stopped
\* it, only an exception of the running onEvent, or of the parser over a chunk
\* that won its race, can still fail the run.
StopIsNotAFailure ==
  [][stopped /\ pc \notin {"stepped", "callback"} /\ conn.reason # "failed" =>
       /\ conn'.reason # "failed"
       /\ outcome' = "failed" => outcome = "failed"]_vars

\* The pause before a reconnect is the last hint that an event, of whichever
\* connection, gave to the consumer: raised or lowered to the driver's limits,
\* and the fallback if there was none or it was zero.
BackoffFollowsHint ==
  pc \in {"backoff", "slept"} =>
    /\ hinted \in {None, 0} => wait = FallbackRetry
    /\ hinted \in 1..MinRetry => wait = MinRetry
    /\ hinted \in MinRetry..MaxRetry => wait = hinted
    /\ hinted \notin {None} \cup 0..MaxRetry => wait = MaxRetry

\* A stop is honoured promptly whatever the server does, connected or not:
\* a hanging connect, a stalled read and a long backoff all give way.
StopSettles == stopped ~> pc = "settled"
=============================================================================
