--------------------------- MODULE Sse_proofs -----------------------------
(***************************************************************************)
(* Proofs about the SSE transport driver, for any server alphabet, any     *)
(* caps and any reconnect budget, and about the requests that share one    *)
(* extension host, for any number of requests, views and events.           *)
(***************************************************************************)
EXTENDS SseTransport, SseSessions, SequenceTheorems, TLAPS

----------------------------------------------------------------------------
(* The helpers return what the driver stores.                              *)

\* Merging an observation of id and retry into an older one keeps its shape.
LEMMA NewerField ==
  ASSUME NEW old \in Field, NEW new \in Field
  PROVE  Newer(old, new) \in Field
BY DEF Newer, Field

\* The same for an observation merged into a parsed event.
LEMMA NewerEvent ==
  ASSUME NEW old \in Field, NEW e \in Event
  PROVE  Newer(old, e) \in Event
BY DEF Newer, Field, Event

\* Whatever the server hints, the backoff lies between the driver's limits.
LEMMA ClampRetryBounds ==
  ASSUME NEW hint \in Retries \cup {None}
  PROVE  ClampRetry(hint) \in MinRetry..MaxRetry
<1>1. CASE hint = None
  BY <1>1 DEF ClampRetry, FallbackRetry, MinRetry, MaxRetry
<1>2. CASE hint # None
  <2>1. hint \in Nat
    BY <1>2, TransportAssumption
  <2>2. QED BY <1>2, <2>1 DEF ClampRetry, FallbackRetry, MinRetry, MaxRetry
<1>3. QED BY <1>1, <1>2

\* What the parser hands over is a queue of events.
LEMMA ParsedConn ==
  ASSUME NEW c \in Conn, NEW n \in Nat, NEW batch \in Batches(n),
         NEW trail \in Trails
  PROVE  Parsed(c, batch, trail) \in Conn
<1>1. PICK k \in 0..n : batch \in [1..k -> Events]
  BY DEF Batches
<1>2. trail \in Field /\ c.trail \in Field
  BY TransportAssumption DEF Conn
<1>3. CASE batch = <<>>
  BY <1>2, <1>3, NewerField DEF Parsed, Conn
<1>4. CASE batch # <<>>
  <2>1. \A i \in 1..k : batch[i] \in Event
    BY <1>1, TransportAssumption
  <2>2. batch \in Seq(Event)
    BY <1>1, <2>1, IsASeq
  <2>3. [batch EXCEPT ![1] = Newer(c.trail, @)] \in Seq(Event)
    BY <2>2, <1>2, <1>4, NewerEvent, ExceptSeq, EmptySeq, LenProperties, ElementOfSeq
  <2>4. QED BY <1>2, <1>4, <2>3 DEF Parsed, Conn
<1>5. QED BY <1>3, <1>4

\* Advancing the counters of a connection keeps it well formed.
LEMMA CountersConn ==
  ASSUME NEW c \in Conn
  PROVE  /\ [c EXCEPT !.count = @ + 1, !.idle = 0] \in Conn
         /\ \A a, i \in Nat : [c EXCEPT !.age = a, !.idle = i] \in Conn
<1>1. c.count + 1 \in Nat
  BY DEF Conn
<1>2. \A n \in Nat : [c EXCEPT !.count = n, !.idle = 0] \in Conn
  BY DEF Conn
<1>3. \A a, i \in Nat : [c EXCEPT !.age = a, !.idle = i] \in Conn
  BY DEF Conn
<1>4. [c EXCEPT !.count = @ + 1, !.idle = 0]
        = [c EXCEPT !.count = c.count + 1, !.idle = 0]
  OBVIOUS
<1>5. QED BY <1>1, <1>2, <1>3, <1>4

\* A run of the event loop between two awaits keeps the driver's types.
LEMMA FlushType ==
  ASSUME TypeOK, NEW c \in Conn, Flush(c)
  PROVE  pc' \in Places /\ conn' \in Conn /\ reconnect' \in Field
         /\ delivered' \in Nat /\ hinted' \in Retries \cup {None}
<1>1. ASSUME NEW r \in ConnReasons, Finish(c, r)
      PROVE  pc' \in Places /\ conn' \in Conn /\ reconnect' \in Field
             /\ delivered' \in Nat /\ hinted' \in Retries \cup {None}
  BY <1>1 DEF Finish, TypeOK, Places, Conn
<1>2. CASE c.queue = <<>> /\ ReadOn(c)
  BY <1>1, <1>2 DEF ReadOn, ConnReasons, TypeOK, Places
<1>3. CASE HaltBefore(c) # "none" /\ Finish(c, HaltBefore(c))
  BY <1>1, <1>3 DEF HaltBefore, ConnReasons
<1>4. CASE c.queue # <<>> /\ Dispatch(c)
  <2>1. Head(c.queue) \in Event
    BY <1>4, HeadTailProperties DEF Conn
  <2>2. Newer(reconnect, Head(c.queue)) \in Event
    BY <2>1, NewerEvent DEF TypeOK
  <2>3. reconnect' \in Field
    BY <1>4, <2>2 DEF Dispatch, Event, Field
  <2>4. conn' \in Conn
    BY <1>4, CountersConn DEF Dispatch
  <2>5. pc' \in Places /\ delivered' \in Nat
    BY <1>4 DEF Dispatch, TypeOK, Places
  <2>6. hinted' \in Retries \cup {None}
    BY <1>4, <2>1 DEF Dispatch, TypeOK, Event
  <2>7. QED BY <2>3, <2>4, <2>5, <2>6
<1>5. QED BY <1>2, <1>3, <1>4 DEF Flush

\* The connection's locals after onEvent has returned for its head event.
LEMMA CallbackConn ==
  ASSUME NEW c \in Conn, c.queue # <<>>, NEW m \in BOOLEAN, NEW e \in BOOLEAN
  PROVE  [c EXCEPT !.queue = Tail(@), !.matched = m,
                   !.untilError = @ \/ e] \in Conn
BY HeadTailProperties DEF Conn

----------------------------------------------------------------------------
(* Types.                                                                  *)

\* Two steps are typed by what an earlier one left in conn: the callback has
\* its event at hand, and a finished connection has a reason.
Handover ==
  /\ pc = "callback" => conn.queue # <<>>
  /\ pc \in {"closing", "returned"} => conn.reason \in ConnReasons

TypeInv == TypeOK /\ Handover

\* Leaving the read loop hands the caller well-typed locals.
LEMMA FinishHandover ==
  ASSUME NEW c \in Conn, NEW r \in ConnReasons, Finish(c, r)
  PROVE  Handover'
BY DEF Finish, Conn, Handover

\* So does one pass of flushDispatched, whichever way it ends.
LEMMA FlushHandover ==
  ASSUME NEW c \in Conn, Flush(c)
  PROVE  Handover'
<1>1. CASE \E r \in ConnReasons : Finish(c, r)
  BY <1>1, FinishHandover
<1>2. CASE pc' = "reading"
  BY <1>2 DEF Handover
<1>3. CASE c.queue # <<>> /\ Dispatch(c)
  BY <1>3 DEF Dispatch, Conn, Handover
<1>4. HaltBefore(c) # "none" => HaltBefore(c) \in ConnReasons
  BY DEF HaltBefore, ConnReasons
<1>5. QED BY <1>1, <1>2, <1>3, <1>4 DEF Flush, ReadOn, ConnReasons

\* Every connection starts from well-typed locals.
LEMMA FreshConnType == FreshConn \in Conn
BY EmptySeq DEF FreshConn, Conn, Field

\* The driver starts with every variable in its type.
LEMMA InitType == Init => TypeInv
<1> SUFFICES ASSUME Init PROVE TypeInv
  OBVIOUS
<1>1. conn \in Conn /\ reconnect \in Field
  BY FreshConnType DEF Init, Field
<1>2. pc \in Places /\ outcome \in Outcomes
  BY DEF Init, Places, Outcomes
<1>3. wait \in {0} \cup MinRetry..MaxRetry
  BY DEF Init
<1>4. QED BY <1>1, <1>2, <1>3 DEF Init, TypeInv, TypeOK, Handover

\* Each step of the driver or its environment keeps the types.
LEMMA NextType == TypeInv /\ [Next]_vars => TypeInv'
<1> SUFFICES ASSUME TypeInv, [Next]_vars
             PROVE  TypeInv'
  OBVIOUS
<1> USE DEF TypeInv, Handover, loopVars
<1>1. CASE Begin
  <2>1. pc' \in {"connecting", "settled"} /\ outcome' \in Outcomes
        /\ opened' \in Nat
    BY <1>1 DEF Begin, NextAttempt, Settle, TypeOK, Places, Outcomes, ConnReasons
  <2>2. QED BY <1>1, <2>1 DEF Begin, TypeOK, Places
<1>2. CASE ConnectResolves
  BY <1>2 DEF ConnectResolves, TypeOK, Places
<1>3. CASE ConnectRejects \/ ConnectMistyped
  BY <1>3 DEF ConnectRejects, ConnectMistyped, Settle, TypeOK, Places, Outcomes,
              ConnReasons
<1>4. CASE StopConnect
  BY <1>4 DEF StopConnect, Settle, TypeOK, Places, Outcomes, ConnReasons
<1>5. CASE LateConnect
  BY <1>5 DEF LateConnect, TypeOK
<1>6. CASE Drive
  <2>1. [FreshConn EXCEPT !.reason = "aborted"] \in Conn
    BY FreshConnType DEF Conn, ConnReasons
  <2>2. Handover'
    BY <1>6, FreshConnType DEF Drive, Conn, ConnReasons
  <2>3. QED BY <1>6, <2>1, <2>2, FreshConnType DEF Drive, TypeOK, Places
<1>7. CASE ChunkArrives
  <2>1. PICK batch \in Batches(MaxBatch), trail \in Trails :
          conn' = [Parsed(conn, batch, trail) EXCEPT !.chunks = @ + 1]
    BY <1>7 DEF ChunkArrives
  <2>2. Parsed(conn, batch, trail) \in Conn
    BY ParsedConn, TransportAssumption DEF TypeOK
  <2>3. conn' \in Conn
    BY <2>1, <2>2 DEF Conn
  <2>4. QED BY <1>7, <2>3 DEF ChunkArrives, TypeOK, Places
<1>8. CASE BodyEnds
  <2>1. PICK batch \in Batches(1), trail \in Trails :
          conn' = [Parsed(conn, batch, trail) EXCEPT !.ended = TRUE]
    BY <1>8 DEF BodyEnds
  <2>2. Parsed(conn, batch, trail) \in Conn
    BY ParsedConn DEF TypeOK
  <2>3. conn' \in Conn
    BY <2>1, <2>2 DEF Conn
  <2>4. QED BY <1>8, <2>3 DEF BodyEnds, TypeOK, Places
<1>9. CASE BodyFails
  BY <1>9 DEF BodyFails, Finish, TypeOK, Places, Conn, ConnReasons
<1>10. CASE StopRead
  BY <1>10 DEF StopRead, Finish, TypeOK, Places, Conn, ConnReasons
<1>11. CASE Process
  <2>1. conn \in Conn BY DEF TypeOK
  <2>2. QED BY <1>11, <2>1, FlushType, FlushHandover DEF Process, TypeOK
<1>12. CASE CallbackReturns
  <2> DEFINE e == Head(conn.queue)
             c == [conn EXCEPT !.queue = Tail(@),
                               !.matched = (e.until = "yes"),
                               !.untilError = @ \/ (e.until = "error")]
  <2>1. c \in Conn
    BY <1>12, CallbackConn DEF CallbackReturns, TypeOK
  <2>2. CASE HaltAfter(c) # "none" /\ Finish(c, HaltAfter(c))
    <3>1. HaltAfter(c) \in ConnReasons
      BY <2>2 DEF HaltAfter, ConnReasons
    <3> HIDE DEF c
    <3>2. conn' \in Conn
      BY <2>1, <2>2, <3>1 DEF Finish, Conn
    <3>3. pc' \in Places \ {"callback"} /\ reconnect' \in Field
          /\ delivered' \in Nat /\ hinted' = hinted
      BY <2>2 DEF Finish, TypeOK, Places
    <3>4. Handover'
      BY <2>1, <2>2, <3>1, FinishHandover
    <3>5. QED BY <1>12, <3>2, <3>3, <3>4 DEF CallbackReturns, TypeOK
  <2>3. CASE Flush(c)
    BY <1>12, <2>1, <2>3, FlushType, FlushHandover DEF CallbackReturns, TypeOK
  <2>4. QED BY <1>12, <2>2, <2>3 DEF CallbackReturns
<1>13. CASE ParseThrows \/ CallbackThrows
  BY <1>13 DEF ParseThrows, CallbackThrows, Finish, TypeOK, Places, Conn, ConnReasons
<1>14. CASE ReadSettles
  BY <1>14 DEF ReadSettles, TypeOK
<1>15. CASE CloseCompletes
  BY <1>15 DEF CloseCompletes, TypeOK, Places
<1>16. CASE AfterRun
  <2>1. reconnect.retry \in Retries \cup {None}
    BY DEF TypeOK, Field
  <2>2. ClampRetry(reconnect.retry) \in MinRetry..MaxRetry
    BY <2>1, ClampRetryBounds
  <2>3. conn.count \in Nat /\ conn.untilError \in BOOLEAN
        /\ (conn.reason # "none" => conn.reason \in Outcomes)
    BY DEF TypeOK, Conn, Outcomes
  <2>4. conn.reason \in ConnReasons \cup {"none"}
    BY DEF TypeOK, Conn
  <2>5. pc' \in {"settled", "backoff"} /\ outcome' \in Outcomes
    <3>1. CASE outcome' = outcome /\ pc' = "backoff"
      BY <3>1 DEF TypeOK
    <3>2. CASE Settle(conn.reason)
      BY <1>16, <3>2 DEF AfterRun, Settle, Outcomes
    <3>3. CASE \E o \in {"failed", "aborted", "reconnect-limit"} : Settle(o)
      BY <3>3 DEF Settle, Outcomes, ConnReasons
    <3>4. QED BY <1>16, <3>1, <3>2, <3>3 DEF AfterRun, Settle
  <2>6. totalEvents' \in Nat /\ reconnectCount' \in Nat
        /\ untilError' \in BOOLEAN
    BY <1>16, <2>3 DEF AfterRun, TypeOK
  <2>7. wait' \in {0} \cup MinRetry..MaxRetry
    BY <1>16, <2>2 DEF AfterRun, TypeOK
  <2>8. QED BY <1>16, <2>5, <2>6, <2>7 DEF AfterRun, TypeOK, Places
<1>17. CASE SleepElapses
  BY <1>17 DEF SleepElapses, TypeOK, Places
<1>18. CASE StopSleep
  BY <1>18 DEF StopSleep, Settle, TypeOK, Places, Outcomes, ConnReasons
<1>19. CASE AfterSleep
  BY <1>19 DEF AfterSleep, NextAttempt, Settle, TypeOK, Places, Outcomes, ConnReasons
<1>20. CASE Stop
  BY <1>20 DEF Stop, TypeOK
<1>21. CASE Tick
  <2> DEFINE a == IF conn.age < MaxDuration THEN conn.age + 1 ELSE conn.age
             i == IF conn.idle < IdleLimit THEN conn.idle + 1 ELSE conn.idle
  <2>1. a \in Nat /\ i \in Nat
    BY DEF TypeOK, Conn
  <2>2. conn' = [conn EXCEPT !.age = a, !.idle = i]
    BY <1>21 DEF Tick
  <2> HIDE DEF a, i
  <2>3. conn' \in Conn
    BY <2>1, <2>2, CountersConn DEF TypeOK
  <2>4. conn'.queue = conn.queue
    BY <2>2 DEF TypeOK, Conn
  <2>5. QED BY <1>21, <2>3, <2>4 DEF Tick, TypeOK
<1>22. CASE Settled \/ UNCHANGED vars
  BY <1>22 DEF Settled, vars, TypeOK
<1>23. QED
  BY <1>1, <1>2, <1>3, <1>4, <1>5, <1>6, <1>7, <1>8, <1>9, <1>10, <1>11,
     <1>12, <1>13, <1>14, <1>15, <1>16, <1>17, <1>18, <1>19, <1>20, <1>21,
     <1>22
  DEF Next, Driver, Environment

\* Every variable keeps its type, whatever the server sends.
THEOREM TypeCorrect == Spec => []TypeOK
<1>1. TypeInv => TypeOK
  BY DEF TypeInv
<1>2. QED BY <1>1, InitType, NextType, PTL DEF Spec

----------------------------------------------------------------------------
(* The inductive invariant.                                                *)

\* What the steps that do not touch the connection do to it is nothing; what
\* Flush and Finish leave behind, whatever connection locals they start from.
LEMMA FinishInv ==
  ASSUME NEW c \in Conn, NEW r \in ConnReasons, Finish(c, r)
  PROVE  /\ pc' = IF c.ended THEN "returned" ELSE "closing"
         /\ conn'.reason = r /\ conn'.ended = c.ended
         /\ conn'.matched = c.matched /\ conn'.count = c.count
         /\ delivered' = delivered
BY DEF Finish, Conn

\* One run of flushDispatched: it returns with a justified reason, reads on,
\* or delivers one more event, and the last only if nobody has stopped it.
LEMMA FlushInv ==
  ASSUME TypeOK, NEW c \in Conn, ~c.matched, c.reason = "none", Flush(c)
  PROVE  /\ conn'.ended = c.ended /\ ~conn'.matched
         /\ \/ /\ pc' = IF c.ended THEN "returned" ELSE "closing"
               /\ conn'.reason \in ConnReasons
                                   \ {"until-matched", "max-events"}
               /\ conn'.reason = "aborted" => stopped
               /\ conn'.count = c.count /\ delivered' = delivered
            \/ /\ pc' = "reading" /\ ~c.ended /\ conn' = c
               /\ delivered' = delivered
            \/ /\ pc' = "callback" /\ ~stopped
               /\ conn'.queue # <<>> /\ conn'.reason = "none"
               /\ conn'.count = c.count + 1 /\ delivered' = delivered + 1
<1>1. CASE \E r \in ConnReasons \ {"until-matched", "max-events"} :
             Finish(c, r) /\ (r = "aborted" => stopped)
  BY <1>1, FinishInv
<1>2. CASE pc' = "reading" /\ conn' = c /\ ~c.ended /\ delivered' = delivered
  BY <1>2
<1>3. CASE c.queue # <<>> /\ HaltBefore(c) = "none" /\ Dispatch(c)
  <2>1. ~stopped
    BY <1>3 DEF HaltBefore
  <2>2. /\ conn'.ended = c.ended /\ conn'.matched = c.matched
        /\ conn'.queue = c.queue /\ conn'.reason = c.reason
        /\ conn'.count = c.count + 1
    BY <1>3 DEF Dispatch, Conn
  <2>3. QED BY <1>3, <2>1, <2>2 DEF Dispatch
<1>4. HaltBefore(c) # "none" =>
        /\ HaltBefore(c) \in ConnReasons \ {"until-matched", "max-events"}
        /\ HaltBefore(c) = "aborted" => stopped
  BY DEF HaltBefore, ConnReasons
<1>5. QED BY <1>1, <1>2, <1>3, <1>4 DEF Flush, ReadOn, ConnReasons

\* A flush that leaves the loop does so for one of the stated conditions.
LEMMA FlushReason ==
  ASSUME TypeOK, NEW c \in Conn, ~c.matched, c.reason = "none", Flush(c),
         stopped' = stopped
  PROVE  ReasonInv'
<1>1. ~conn'.matched
  BY FlushInv
<1>2. CASE /\ pc' \in {"returned", "closing"}
           /\ conn'.reason \in ConnReasons \ {"until-matched", "max-events"}
           /\ conn'.reason = "aborted" => stopped
  BY <1>1, <1>2 DEF ReasonInv, ConnReasons
<1>3. CASE pc' = "reading" /\ conn' = c
  BY <1>1, <1>3 DEF ReasonInv
<1>4. CASE /\ pc' = "callback" /\ conn'.queue # <<>>
           /\ conn'.reason = "none" /\ delivered' = delivered + 1
  <2>1. delivered' > 0
    BY <1>4 DEF TypeOK
  <2>2. QED BY <1>1, <1>4, <2>1 DEF ReasonInv
<1>5. QED BY <1>2, <1>3, <1>4, FlushInv

\* Parsing a chunk touches neither the count nor the stop reason.
LEMMA ParsedInv ==
  ASSUME NEW c \in Conn, NEW batch, NEW trail
  PROVE  LET p == Parsed(c, batch, trail)
         IN  /\ p.reason = c.reason /\ p.matched = c.matched
             /\ p.ended = c.ended /\ p.count = c.count
BY DEF Parsed, Conn

\* The inductive invariant holds before the first connection.
LEMMA InitInv == Init => IInv
BY TransportAssumption
   DEF Init, IInv, LoopInv, ReasonInv, BodyInv, InRun, FreshConn

\* Each step preserves the inductive invariant.
LEMMA NextInv == TypeInv /\ IInv /\ [Next]_vars => IInv'
<1> SUFFICES ASSUME TypeInv, IInv, [Next]_vars
             PROVE  IInv'
  OBVIOUS
<1> USE TransportAssumption DEF TypeInv, IInv, InRun, loopVars
<1>0. conn \in Conn
  BY DEF TypeOK
<1>1. CASE Begin
  BY <1>1 DEF Begin, NextAttempt, Settle, LoopInv, ReasonInv, BodyInv, TypeOK
<1>2. CASE ConnectResolves
  BY <1>2 DEF ConnectResolves, LoopInv, ReasonInv, BodyInv
<1>3. CASE ConnectRejects
  BY <1>3 DEF ConnectRejects, Settle, LoopInv, ReasonInv, BodyInv
<1>3a. CASE ConnectMistyped
  BY <1>3a DEF ConnectMistyped, Settle, LoopInv, ReasonInv, BodyInv, TypeOK
<1>4. CASE StopConnect
  BY <1>4 DEF StopConnect, Settle, LoopInv, ReasonInv, BodyInv
<1>5. CASE LateConnect
  BY <1>5 DEF LateConnect, LoopInv, ReasonInv, BodyInv
<1>6. CASE Drive
  BY <1>6 DEF Drive, FreshConn, LoopInv, ReasonInv, BodyInv, TypeOK
<1>7. CASE ChunkArrives
  <2>1. PICK batch \in Batches(MaxBatch), trail \in Trails :
          conn' = [Parsed(conn, batch, trail) EXCEPT !.chunks = @ + 1]
    BY <1>7 DEF ChunkArrives
  <2>2. Parsed(conn, batch, trail) \in Conn
    BY <1>0, ParsedConn
  <2>3. /\ conn'.reason = conn.reason /\ conn'.matched = conn.matched
        /\ conn'.ended = conn.ended
    BY <1>0, <2>1, <2>2, ParsedInv DEF Conn
  <2>4. QED BY <1>7, <2>3 DEF ChunkArrives, LoopInv, ReasonInv, BodyInv
<1>8. CASE BodyEnds
  <2>1. PICK batch \in Batches(1), trail \in Trails :
          conn' = [Parsed(conn, batch, trail) EXCEPT !.ended = TRUE]
    BY <1>8 DEF BodyEnds
  <2>2. Parsed(conn, batch, trail) \in Conn
    BY <1>0, ParsedConn
  <2>3. conn'.reason = conn.reason /\ conn'.matched = conn.matched
    BY <1>0, <2>1, <2>2, ParsedInv DEF Conn
  <2>4. QED BY <1>8, <2>3 DEF BodyEnds, LoopInv, ReasonInv, BodyInv
<1>9. CASE BodyFails
  <2>1. "failed" \in ConnReasons BY DEF ConnReasons
  <2>2. QED BY <1>9, <1>0, <2>1, FinishInv
            DEF BodyFails, LoopInv, ReasonInv, BodyInv
<1>10. CASE StopRead
  <2>1. "aborted" \in ConnReasons BY DEF ConnReasons
  <2>2. ~conn.ended
    BY <1>10 DEF StopRead, BodyInv
  <2>3. QED BY <1>10, <1>0, <2>1, <2>2, FinishInv
            DEF StopRead, LoopInv, ReasonInv, BodyInv
<1>11. CASE Process
  <2>1. ~conn.matched /\ conn.reason = "none"
    BY <1>11 DEF Process, ReasonInv
  <2>2. Flush(conn)
    BY <1>11 DEF Process
  <2>3. pc' \in {"reading", "callback", "closing", "returned"}
    BY <1>0, <2>1, <2>2, FlushInv
  <2>4. LoopInv'
    BY <1>11, <2>3 DEF Process, LoopInv
  <2>5. ReasonInv'
    BY <1>0, <1>11, <2>1, <2>2, FlushReason DEF Process
  <2>6. BodyInv'
    BY <1>11, <1>0, <2>1, <2>2, FlushInv DEF Process, BodyInv
  <2>7. QED BY <2>4, <2>5, <2>6
<1>12. CASE CallbackReturns
  <2> DEFINE e == Head(conn.queue)
             c == [conn EXCEPT !.queue = Tail(@),
                               !.matched = (e.until = "yes"),
                               !.untilError = @ \/ (e.until = "error")]
  <2>1. c \in Conn
    BY <1>0, <1>12, CallbackConn DEF CallbackReturns, Handover
  <2>2. c.ended = conn.ended /\ c.reason = "none" /\ delivered > 0
    BY <1>0, <1>12 DEF CallbackReturns, ReasonInv, Conn
  <2>3. \/ HaltAfter(c) # "none" /\ Finish(c, HaltAfter(c))
        \/ HaltAfter(c) = "none" /\ Flush(c)
    BY <1>12 DEF CallbackReturns
  <2> HIDE DEF c
  <2>4. CASE HaltAfter(c) # "none" /\ Finish(c, HaltAfter(c))
    <3>1. /\ HaltAfter(c) \in ConnReasons
          /\ c.matched <=> HaltAfter(c) = "until-matched"
          /\ HaltAfter(c) = "aborted" => stopped
      BY <2>1, <2>4 DEF HaltAfter, ConnReasons, Conn
    <3>2. /\ pc' = IF conn.ended THEN "returned" ELSE "closing"
          /\ conn'.reason = HaltAfter(c) /\ conn'.ended = conn.ended
          /\ conn'.matched = c.matched /\ delivered' = delivered
      BY <2>1, <2>2, <2>4, <3>1, FinishInv
    <3>3. LoopInv'
      BY <1>12, <3>2 DEF CallbackReturns, LoopInv
    <3>4. ReasonInv'
      BY <1>12, <2>2, <2>4, <3>1, <3>2 DEF CallbackReturns, ReasonInv
    <3>5. BodyInv'
      BY <1>12, <3>2 DEF CallbackReturns, BodyInv
    <3>6. QED BY <3>3, <3>4, <3>5
  <2>5. CASE HaltAfter(c) = "none" /\ Flush(c)
    <3>1. ~c.matched
      BY <2>5 DEF HaltAfter
    <3>2. pc' \in {"reading", "callback", "closing", "returned"}
      BY <2>1, <2>2, <2>5, <3>1, FlushInv
    <3>3. LoopInv'
      BY <1>12, <3>2 DEF CallbackReturns, LoopInv
    <3>4. ReasonInv'
      BY <1>12, <2>1, <2>2, <2>5, <3>1, FlushReason DEF CallbackReturns
    <3>5. BodyInv'
      BY <1>12, <2>1, <2>2, <2>5, <3>1, FlushInv DEF CallbackReturns, BodyInv
    <3>6. QED BY <3>3, <3>4, <3>5
  <2>6. QED BY <2>3, <2>4, <2>5
<1>13. CASE ParseThrows \/ CallbackThrows
  <2>1. "failed" \in ConnReasons BY DEF ConnReasons
  <2>2. QED BY <1>13, <1>0, <2>1, FinishInv
            DEF ParseThrows, CallbackThrows, LoopInv, ReasonInv, BodyInv
<1>14. CASE ReadSettles
  BY <1>14 DEF ReadSettles, LoopInv, ReasonInv, BodyInv
<1>15. CASE CloseCompletes
  BY <1>15 DEF CloseCompletes, LoopInv, ReasonInv, BodyInv
<1>16. CASE AfterRun
  BY <1>16 DEF AfterRun, Settle, LoopInv, ReasonInv, BodyInv, TypeOK, Handover, ConnReasons
<1>17. CASE SleepElapses
  BY <1>17 DEF SleepElapses, LoopInv, ReasonInv, BodyInv
<1>18. CASE StopSleep
  BY <1>18 DEF StopSleep, Settle, LoopInv, ReasonInv, BodyInv
<1>19. CASE AfterSleep
  BY <1>19 DEF AfterSleep, NextAttempt, Settle, LoopInv, ReasonInv, BodyInv, TypeOK
<1>20. CASE Stop
  BY <1>20 DEF Stop, LoopInv, ReasonInv, BodyInv
<1>21. CASE Tick
  <2>1. /\ conn'.reason = conn.reason /\ conn'.matched = conn.matched
        /\ conn'.ended = conn.ended /\ conn'.queue = conn.queue
    BY <1>21, <1>0 DEF Tick, Conn
  <2>2. QED BY <1>21, <2>1 DEF Tick, LoopInv, ReasonInv, BodyInv
<1>22. CASE Settled \/ UNCHANGED vars
  BY <1>22 DEF Settled, vars, LoopInv, ReasonInv, BodyInv
<1>23. QED
  BY <1>1, <1>2, <1>3, <1>3a, <1>4, <1>5, <1>6, <1>7, <1>8, <1>9, <1>10, <1>11,
     <1>12, <1>13, <1>14, <1>15, <1>16, <1>17, <1>18, <1>19, <1>20, <1>21,
     <1>22
  DEF Next, Driver, Environment

\* Types and the inductive invariant hold throughout every run.
LEMMA Invariance == Spec => [](TypeInv /\ IInv)
<1>1. Init => TypeInv /\ IInv
  BY InitType, InitInv
<1>2. TypeInv /\ IInv /\ [Next]_vars => TypeInv' /\ IInv'
  BY NextType, NextInv
<1>3. QED BY <1>1, <1>2, PTL DEF Spec

\* No settled run leaves a response body open or a read pending: the reader of
\* transport.ts's finally block may rely on it for every schedule of stops,
\* failures and callbacks.
THEOREM NoBodyIsLeft == Spec => []NoBodyLeft
<1>1. IInv => NoBodyLeft
  BY DEF IInv, BodyInv, NoBodyLeft
<1>2. QED BY <1>1, Invariance, PTL

----------------------------------------------------------------------------
(* The reported event count.                                               *)

\* A flush counts an event exactly when it hands it to onEvent.
LEMMA FlushCount ==
  ASSUME TypeOK, NEW c \in Conn, ~c.matched, c.reason = "none", Flush(c),
         totalEvents + c.count = delivered, totalEvents' = totalEvents
  PROVE  /\ totalEvents' + conn'.count = delivered'
         /\ pc' \in {"reading", "callback", "closing", "returned"}
<1>1. c.count \in Nat /\ totalEvents \in Nat /\ delivered \in Nat
  BY DEF Conn, TypeOK
<1>2. CASE conn'.count = c.count /\ delivered' = delivered
  BY <1>1, <1>2, FlushInv
<1>3. CASE conn'.count = c.count + 1 /\ delivered' = delivered + 1
  BY <1>1, <1>3, FlushInv
<1>4. QED BY <1>2, <1>3, FlushInv

\* Each step keeps the per-connection count and the total in balance.
LEMMA NextCount ==
  TypeInv /\ IInv /\ EventCountExact /\ [Next]_vars => EventCountExact'
<1> SUFFICES ASSUME TypeInv, IInv, EventCountExact, [Next]_vars
             PROVE  EventCountExact'
  OBVIOUS
<1> USE DEF TypeInv, IInv, InRun, loopVars
<1>0. conn \in Conn
  BY DEF TypeOK
<1>1. CASE Begin \/ AfterSleep \/ ConnectResolves \/ ConnectRejects
           \/ ConnectMistyped
           \/ StopConnect \/ SleepElapses \/ StopSleep
  BY <1>1 DEF Begin, AfterSleep, NextAttempt, ConnectResolves, ConnectRejects,
              ConnectMistyped,
              StopConnect, SleepElapses, StopSleep, Settle, EventCountExact
<1>2. CASE LateConnect \/ ReadSettles \/ Stop \/ CloseCompletes
  BY <1>2 DEF LateConnect, ReadSettles, Stop, CloseCompletes, EventCountExact
<1>3. CASE Drive
  BY <1>3 DEF Drive, FreshConn, EventCountExact, TypeOK
<1>4. CASE ChunkArrives
  <2>1. PICK batch \in Batches(MaxBatch), trail \in Trails :
          conn' = [Parsed(conn, batch, trail) EXCEPT !.chunks = @ + 1]
    BY <1>4 DEF ChunkArrives
  <2>2. Parsed(conn, batch, trail) \in Conn
    BY <1>0, ParsedConn, TransportAssumption
  <2>3. conn'.count = conn.count
    BY <1>0, <2>1, <2>2, ParsedInv DEF Conn
  <2>4. QED BY <1>4, <2>3 DEF ChunkArrives, EventCountExact
<1>5. CASE BodyEnds
  <2>1. PICK batch \in Batches(1), trail \in Trails :
          conn' = [Parsed(conn, batch, trail) EXCEPT !.ended = TRUE]
    BY <1>5 DEF BodyEnds
  <2>2. Parsed(conn, batch, trail) \in Conn
    BY <1>0, ParsedConn
  <2>3. conn'.count = conn.count
    BY <1>0, <2>1, <2>2, ParsedInv DEF Conn
  <2>4. QED BY <1>5, <2>3 DEF BodyEnds, EventCountExact
<1>6. CASE BodyFails \/ StopRead \/ ParseThrows \/ CallbackThrows
  <2>1. /\ conn'.count = conn.count /\ delivered' = delivered
        /\ pc' \in {"returned", "closing"} /\ totalEvents' = totalEvents
    BY <1>0, <1>6 DEF BodyFails, StopRead, ParseThrows, CallbackThrows, Finish, Conn
  <2>2. totalEvents + conn.count = delivered
    BY <1>6 DEF BodyFails, StopRead, ParseThrows, CallbackThrows, EventCountExact
  <2>3. QED BY <2>1, <2>2 DEF EventCountExact
<1>7. CASE Process
  <2>1. /\ Flush(conn) /\ ~conn.matched /\ conn.reason = "none"
        /\ totalEvents + conn.count = delivered /\ totalEvents' = totalEvents
    BY <1>7 DEF Process, ReasonInv, EventCountExact
  <2>2. QED BY <1>0, <2>1, FlushCount DEF EventCountExact
<1>8. CASE CallbackReturns
  <2> DEFINE e == Head(conn.queue)
             c == [conn EXCEPT !.queue = Tail(@),
                               !.matched = (e.until = "yes"),
                               !.untilError = @ \/ (e.until = "error")]
  <2>1. c \in Conn
    BY <1>0, <1>8, CallbackConn DEF CallbackReturns, Handover
  <2>2. c.reason = "none" /\ c.count = conn.count
        /\ totalEvents + conn.count = delivered /\ totalEvents' = totalEvents
    BY <1>0, <1>8 DEF CallbackReturns, ReasonInv, EventCountExact, Conn
  <2>3. \/ HaltAfter(c) # "none" /\ Finish(c, HaltAfter(c))
        \/ HaltAfter(c) = "none" /\ Flush(c)
    BY <1>8 DEF CallbackReturns
  <2> HIDE DEF c
  <2>4. CASE Finish(c, HaltAfter(c))
    <3>1. /\ conn'.count = c.count /\ delivered' = delivered
          /\ pc' \in {"returned", "closing"}
      BY <2>1, <2>4 DEF Finish, Conn
    <3>2. QED BY <2>2, <3>1 DEF EventCountExact
  <2>5. CASE HaltAfter(c) = "none" /\ Flush(c)
    <3>1. ~c.matched
      BY <2>5 DEF HaltAfter
    <3>2. QED BY <2>1, <2>2, <2>5, <3>1, FlushCount DEF EventCountExact
  <2>6. QED BY <2>3, <2>4, <2>5
<1>9. CASE AfterRun
  BY <1>9 DEF AfterRun, Settle, EventCountExact
<1>10. CASE Tick
  <2>1. conn'.count = conn.count
    BY <1>0, <1>10 DEF Tick, Conn
  <2>2. QED BY <1>10, <2>1 DEF Tick, EventCountExact
<1>11. CASE Settled \/ UNCHANGED vars
  BY <1>11 DEF Settled, vars, EventCountExact
<1>12. QED
  BY <1>1, <1>2, <1>3, <1>4, <1>5, <1>6, <1>7, <1>8, <1>9, <1>10, <1>11
  DEF Next, Driver, Environment

\* The event count of a run is exact across all of its connections: no event
\* is counted twice or dropped from the sum when the driver reconnects.
THEOREM EventCountIsExact == Spec => []EventCountExact
<1>1. Init => EventCountExact
  BY DEF Init, EventCountExact, InRun
<1>2. QED BY <1>1, NextCount, Invariance, PTL DEF Spec

----------------------------------------------------------------------------
(* The caps, the hint and the stop.                                        *)

\* While no event is at the consumer the cap on events is not reached.
BelowCap ==
  pc \in {"reading", "stepped"} => ~Reached(conn.count, MaxEvents)

\* A flush that goes on reading, or dispatches, found no cap reached.
LEMMA FlushCaps ==
  ASSUME NEW c \in Conn, Flush(c)
  PROVE  /\ pc' = "reading" => conn' = c
         /\ delivered' # delivered =>
              ~Reached(c.age, MaxDuration) /\ ~Reached(c.idle, IdleLimit)
         /\ pc' # "stepped"
BY DEF Flush, ReadOn, Finish, Dispatch, HaltBefore

\* The locals with which flushDispatched goes on after a callback.
LEMMA CallbackCaps ==
  ASSUME TypeInv, IInv, CallbackReturns
  PROVE  \E c \in Conn :
           /\ c.count = conn.count /\ c.age = conn.age /\ c.idle = conn.idle
           /\ \/ Finish(c, HaltAfter(c))
              \/ ~Reached(c.count, MaxEvents) /\ Flush(c)
<1> DEFINE e == Head(conn.queue)
           c == [conn EXCEPT !.queue = Tail(@),
                             !.matched = (e.until = "yes"),
                             !.untilError = @ \/ (e.until = "error")]
<1>1. conn \in Conn
  BY DEF TypeInv, TypeOK
<1>2. c \in Conn
  BY <1>1, CallbackConn DEF CallbackReturns, TypeInv, Handover
<1>3. c.count = conn.count /\ c.age = conn.age /\ c.idle = conn.idle
  BY <1>1 DEF Conn
<1>4. \/ HaltAfter(c) # "none" /\ Finish(c, HaltAfter(c))
      \/ HaltAfter(c) = "none" /\ Flush(c)
  BY DEF CallbackReturns
<1> HIDE DEF c
<1>5. HaltAfter(c) = "none" => ~Reached(c.count, MaxEvents)
  BY DEF HaltAfter
<1> QED
  BY <1>2, <1>3, <1>4, <1>5

\* Each step keeps the event count of a connection that reads below its cap.
LEMMA NextBelowCap == TypeInv /\ IInv /\ BelowCap /\ [Next]_vars => BelowCap'
<1> SUFFICES ASSUME TypeInv, IInv, BelowCap, [Next]_vars
             PROVE  BelowCap'
  OBVIOUS
<1>0. conn \in Conn
  BY DEF TypeInv, TypeOK
<1>1. CASE pc' \notin {"reading", "stepped"}
  BY <1>1 DEF BelowCap
<1>2. CASE conn'.count = conn.count /\ pc \in {"reading", "stepped"}
  BY <1>2 DEF BelowCap
<1>3. CASE Drive
  <2>1. MaxEvents \in Nat
    BY TransportAssumption
  <2> QED
    BY <1>3, <2>1 DEF Drive, FreshConn, BelowCap, Reached
<1>4. CASE ChunkArrives
  <2>1. PICK batch \in Batches(MaxBatch), trail \in Trails :
          conn' = [Parsed(conn, batch, trail) EXCEPT !.chunks = @ + 1]
    BY <1>4 DEF ChunkArrives
  <2>2. Parsed(conn, batch, trail) \in Conn
    BY <1>0, ParsedConn, TransportAssumption
  <2>3. conn'.count = conn.count
    BY <1>0, <2>1, <2>2, ParsedInv DEF Conn
  <2> QED
    BY <1>2, <1>4, <2>3 DEF ChunkArrives
<1>5. CASE BodyEnds
  <2>1. PICK batch \in Batches(1), trail \in Trails :
          conn' = [Parsed(conn, batch, trail) EXCEPT !.ended = TRUE]
    BY <1>5 DEF BodyEnds
  <2>2. Parsed(conn, batch, trail) \in Conn
    BY <1>0, ParsedConn
  <2>3. conn'.count = conn.count
    BY <1>0, <2>1, <2>2, ParsedInv DEF Conn
  <2> QED
    BY <1>2, <1>5, <2>3 DEF BodyEnds
<1>6. CASE Process
  <2>1. CASE pc' = "reading"
    <3>1. conn' = conn /\ pc = "stepped"
      BY <1>0, <1>6, <2>1, FlushCaps DEF Process
    <3> QED
      BY <1>2, <3>1
  <2>2. pc' # "stepped"
    BY <1>0, <1>6, FlushCaps DEF Process
  <2> QED
    BY <1>1, <2>1, <2>2
<1>7. CASE CallbackReturns
  <2>1. PICK c \in Conn :
          \/ Finish(c, HaltAfter(c))
          \/ ~Reached(c.count, MaxEvents) /\ Flush(c)
    BY <1>7, CallbackCaps
  <2>2. CASE Finish(c, HaltAfter(c))
    BY <1>1, <2>2 DEF Finish
  <2>3. CASE ~Reached(c.count, MaxEvents) /\ Flush(c)
    <3>1. pc' = "reading" => conn' = c
      BY <2>3, FlushCaps
    <3>2. pc' # "stepped"
      BY <2>3, FlushCaps
    <3> QED
      BY <2>3, <3>1, <3>2 DEF BelowCap
  <2> QED
    BY <2>1, <2>2, <2>3
<1>8. CASE Tick
  <2>1. conn'.count = conn.count
    BY <1>0, <1>8 DEF Tick, Conn
  <2> QED
    BY <1>1, <1>2, <1>8, <2>1 DEF Tick
<1>9. CASE LateConnect \/ ReadSettles \/ Stop \/ Settled \/ UNCHANGED vars
  BY <1>9 DEF LateConnect, ReadSettles, Stop, Settled, vars, BelowCap
<1>10. CASE \/ Begin \/ ConnectResolves \/ ConnectRejects \/ StopConnect
            \/ ConnectMistyped
            \/ BodyFails \/ StopRead \/ ParseThrows \/ CallbackThrows
            \/ CloseCompletes \/ AfterRun \/ SleepElapses \/ StopSleep
            \/ AfterSleep
  <2>1. pc' \notin {"reading", "stepped"}
    BY <1>10 DEF Begin, ConnectResolves, ConnectRejects, ConnectMistyped,
       StopConnect, BodyFails,
       StopRead, ParseThrows, CallbackThrows, CloseCompletes, AfterRun,
       SleepElapses, StopSleep, AfterSleep, NextAttempt, Settle, Finish
  <2> QED
    BY <1>1, <2>1
<1> QED
  BY <1>3, <1>4, <1>5, <1>6, <1>7, <1>8, <1>9, <1>10 DEF Next, Driver, Environment

\* However many events a chunk carries, none is dispatched once a cap of the
\* connection is reached (NoDispatchPastCap).
THEOREM DispatchStopsAtCaps == Spec => NoDispatchPastCap
<1> DEFINE Allowed ==
      delivered' # delivered =>
        /\ ~Reached(conn.count, MaxEvents)
        /\ ~Reached(conn.age, MaxDuration)
        /\ ~Reached(conn.idle, IdleLimit)
<1>1. ASSUME TypeInv, IInv, BelowCap, [Next]_vars PROVE Allowed
  <2>0. conn \in Conn
    BY <1>1 DEF TypeInv, TypeOK
  <2>1. CASE Process
    BY <1>1, <2>0, <2>1, FlushCaps DEF Process, BelowCap
  <2>2. CASE CallbackReturns
    <3>1. PICK c \in Conn :
            /\ c.count = conn.count /\ c.age = conn.age /\ c.idle = conn.idle
            /\ \/ Finish(c, HaltAfter(c))
               \/ ~Reached(c.count, MaxEvents) /\ Flush(c)
      BY <1>1, <2>2, CallbackCaps
    <3>2. CASE Finish(c, HaltAfter(c))
      BY <3>2 DEF Finish
    <3>3. CASE ~Reached(c.count, MaxEvents) /\ Flush(c)
      BY <3>1, <3>3, FlushCaps
    <3> QED
      BY <3>1, <3>2, <3>3
  <2>3. Process \/ CallbackReturns \/ delivered' = delivered
    BY <1>1 DEF Next, Driver, Environment, Settled, vars, Begin,
       ConnectResolves, ConnectRejects, ConnectMistyped, StopConnect,
       LateConnect, Drive,
       ChunkArrives, BodyEnds, BodyFails, StopRead, ParseThrows,
       CallbackThrows, ReadSettles, CloseCompletes, AfterRun, SleepElapses,
       StopSleep, AfterSleep, Stop, Tick, Finish
  <2> QED
    BY <2>1, <2>2, <2>3
<1>2. Init => BelowCap
  BY DEF Init, BelowCap
<1>3. Spec => []BelowCap
  BY <1>2, NextBelowCap, Invariance, PTL DEF Spec
<1>4. TypeInv /\ IInv /\ BelowCap /\ [Next]_vars => [Allowed]_vars
  BY <1>1
<1> QED
  BY <1>3, <1>4, Invariance, PTL DEF Spec, NoDispatchPastCap

\* What clampRetryMs makes of every hint.
LEMMA ClampRetryLimits ==
  ASSUME NEW hint \in Retries \cup {None}
  PROVE  /\ hint \in {None, 0} => ClampRetry(hint) = FallbackRetry
         /\ hint \in 1..MinRetry => ClampRetry(hint) = MinRetry
         /\ hint \in MinRetry..MaxRetry => ClampRetry(hint) = hint
         /\ hint \notin {None} \cup 0..MaxRetry => ClampRetry(hint) = MaxRetry
<1>1. CASE hint = None
  <2>1. 1..MinRetry \subseteq Nat /\ MinRetry..MaxRetry \subseteq Nat
    BY DEF MinRetry, MaxRetry
  <2>2. hint \notin Nat
    BY <1>1, TransportAssumption
  <2>3. ClampRetry(hint) = FallbackRetry
    BY <1>1 DEF ClampRetry, FallbackRetry, MinRetry, MaxRetry
  <2>4. hint \notin 1..MinRetry /\ hint \notin MinRetry..MaxRetry
    BY <2>1, <2>2
  <2> QED
    BY <1>1, <2>3, <2>4
<1>2. CASE hint # None
  <2>1. hint \in Nat
    BY <1>2, TransportAssumption
  <2>2. ASSUME hint # 0
        PROVE  ClampRetry(hint) = IF hint < 100 THEN 100
                                  ELSE IF hint > 30000 THEN 30000 ELSE hint
    BY <1>2, <2>1, <2>2 DEF ClampRetry, FallbackRetry, MinRetry, MaxRetry
  <2>3. hint = 0 => ClampRetry(hint) = FallbackRetry
    BY DEF ClampRetry, FallbackRetry, MinRetry, MaxRetry
  <2>4. hint \in {None, 0} => hint = 0
    BY <1>2
  <2>5. hint \notin {None} \cup 0..MaxRetry => hint > 30000
    BY <2>1 DEF MaxRetry
  <2>6. hint \notin {None} \cup 0..MaxRetry => ClampRetry(hint) = MaxRetry
    BY <2>1, <2>2, <2>5 DEF MaxRetry
  <2>7. hint \in 1..MinRetry => ClampRetry(hint) = MinRetry
    BY <2>1, <2>2 DEF MinRetry
  <2>8. hint \in MinRetry..MaxRetry => ClampRetry(hint) = hint
    BY <2>1, <2>2 DEF MinRetry, MaxRetry
  <2> QED
    BY <2>3, <2>4, <2>6, <2>7, <2>8
<1> QED
  BY <1>1, <1>2

\* The driver's own note of the hint is the last one that onEvent was given.
Noted == hinted = reconnect.retry

\* No step of the driver parts the two.
LEMMA NextNoted == TypeInv /\ Noted /\ [Next]_vars => Noted'
<1> SUFFICES ASSUME TypeInv, Noted, [Next]_vars
             PROVE  Noted'
  OBVIOUS
<1>1. ASSUME NEW c \in Conn, Dispatch(c)
      PROVE  Noted'
  BY <1>1 DEF Noted, Dispatch, Newer
<1>2. CASE UNCHANGED <<reconnect, hinted>>
  BY <1>2 DEF Noted
<1>3. \/ UNCHANGED <<reconnect, hinted>>
      \/ \E c \in Conn : Dispatch(c)
  <2>1. conn \in Conn
    BY DEF TypeInv, TypeOK
  <2>2. ASSUME NEW c \in Conn, Flush(c)
        PROVE  UNCHANGED <<reconnect, hinted>> \/ Dispatch(c)
    BY <2>2 DEF Flush, ReadOn, Finish
  <2>3. CASE Process
    BY <2>1, <2>2, <2>3 DEF Process
  <2>4. CASE CallbackReturns
    <3>1. PICK c \in Conn : Finish(c, HaltAfter(c)) \/ Flush(c)
      <4> DEFINE e == Head(conn.queue)
                 c == [conn EXCEPT !.queue = Tail(@),
                                   !.matched = (e.until = "yes"),
                                   !.untilError = @ \/ (e.until = "error")]
      <4>1. c \in Conn
        BY <2>1, <2>4, CallbackConn DEF CallbackReturns, TypeInv, Handover
      <4>2. Finish(c, HaltAfter(c)) \/ Flush(c)
        BY <2>4 DEF CallbackReturns
      <4> HIDE DEF c
      <4> QED
        BY <4>1, <4>2
    <3>2. CASE Finish(c, HaltAfter(c))
      BY <3>2 DEF Finish
    <3> QED
      BY <2>2, <3>1, <3>2
  <2>5. CASE ~(Process \/ CallbackReturns)
    BY <2>5 DEF Next, Driver, Environment, Settled, vars, Begin,
       ConnectResolves, ConnectRejects, ConnectMistyped, StopConnect,
       LateConnect, Drive, ChunkArrives, BodyEnds, BodyFails, StopRead,
       ParseThrows, CallbackThrows, ReadSettles, CloseCompletes, AfterRun,
       SleepElapses, StopSleep, AfterSleep, Stop, Tick, Finish
  <2> QED
    BY <2>3, <2>4, <2>5
<1> QED
  BY <1>1, <1>2, <1>3

\* The pause before every reconnect is the last hint the consumer was given,
\* within the limits, whatever came after it (BackoffFollowsHint).
THEOREM BackoffObeysHint == Spec => []BackoffFollowsHint
<1> DEFINE Paced == pc \in {"backoff", "slept"} => wait = ClampRetry(hinted)
<1>1. Init => Noted /\ Paced
  BY DEF Init, Noted
<1>2. ASSUME TypeInv, Noted, Paced, [Next]_vars
      PROVE  Noted' /\ Paced'
  <2>1. CASE AfterRun /\ pc' = "backoff"
    <3>1. wait' = ClampRetry(reconnect.retry) /\ hinted' = hinted
      BY <2>1 DEF AfterRun, Settle
    <3> QED
      BY <1>2, <3>1, NextNoted DEF Noted
  <2>2. CASE pc \in {"backoff", "slept"} /\ UNCHANGED <<wait, hinted>>
    BY <1>2, <2>2, NextNoted
  <2>3. CASE pc' \notin {"backoff", "slept"}
    BY <1>2, <2>3, NextNoted
  <2>4. \/ AfterRun /\ pc' = "backoff"
        \/ pc \in {"backoff", "slept"} /\ UNCHANGED <<wait, hinted>>
        \/ pc' \notin {"backoff", "slept"}
    BY <1>2 DEF Next, Driver, Environment, Settled, vars, loopVars, Begin,
       ConnectResolves, ConnectRejects, ConnectMistyped, StopConnect,
       LateConnect, Drive,
       ChunkArrives, BodyEnds, BodyFails, StopRead, ParseThrows, Process,
       CallbackReturns, CallbackThrows, ReadSettles, CloseCompletes, AfterRun,
       SleepElapses, StopSleep, AfterSleep, Stop, Tick, Finish, Flush, ReadOn,
       Dispatch, NextAttempt, Settle
  <2> QED
    BY <2>1, <2>2, <2>3, <2>4
<1>3. TypeInv /\ Paced => BackoffFollowsHint
  <2>1. TypeInv => hinted \in Retries \cup {None}
    BY DEF TypeInv, TypeOK
  <2> QED
    BY <2>1, ClampRetryLimits DEF BackoffFollowsHint
<1>4. Spec => []TypeInv
  BY Invariance, PTL
<1> QED
  BY <1>1, <1>2, <1>3, <1>4, PTL DEF Spec

\* Once the user has stopped the stream, no read, close or connect that fails
\* because of it fails the run (StopIsNotAFailure).
THEOREM StopNeverFails == Spec => StopIsNotAFailure
<1> DEFINE Spared ==
      stopped /\ pc \notin {"stepped", "callback"} /\ conn.reason # "failed" =>
        /\ conn'.reason # "failed"
        /\ outcome' = "failed" => outcome = "failed"
<1>1. ASSUME TypeInv, [Next]_vars, stopped, pc \notin {"stepped", "callback"},
             conn.reason # "failed"
      PROVE  /\ conn'.reason # "failed"
             /\ outcome' = "failed" => outcome = "failed"
  <2>0. conn \in Conn
    BY <1>1 DEF TypeInv, TypeOK
  <2>1. CASE Begin \/ AfterSleep
    BY <1>1, <2>1 DEF Begin, AfterSleep, NextAttempt, Settle
  <2>2. CASE StopConnect \/ StopSleep
    BY <1>1, <2>2 DEF StopConnect, StopSleep, Settle
  <2>3. CASE Drive
    BY <1>1, <2>3 DEF Drive, FreshConn
  <2>4. CASE StopRead
    <3>1. conn' = [conn EXCEPT !.reason = "aborted"] /\ outcome' = outcome
      BY <2>4 DEF StopRead, Finish
    <3> QED
      BY <2>0, <3>1 DEF Conn
  <2>5. CASE AfterRun
    BY <1>1, <2>5 DEF AfterRun, Settle
  <2>6. CASE LateConnect \/ ReadSettles \/ CloseCompletes \/ Stop
    BY <1>1, <2>6 DEF LateConnect, ReadSettles, CloseCompletes, Stop
  <2>7. CASE Tick
    <3>1. conn'.reason = conn.reason /\ outcome' = outcome
      BY <2>0, <2>7 DEF Tick, Conn
    <3> QED
      BY <1>1, <3>1
  <2>8. CASE Settled \/ UNCHANGED vars
    BY <1>1, <2>8 DEF Settled, vars
  <2>9. ~(\/ ConnectResolves \/ ConnectRejects \/ ConnectMistyped
          \/ ChunkArrives \/ BodyEnds
          \/ BodyFails \/ Process \/ CallbackReturns \/ ParseThrows
          \/ CallbackThrows \/ SleepElapses)
    BY <1>1 DEF ConnectResolves, ConnectRejects, ConnectMistyped, ChunkArrives,
       BodyEnds,
       BodyFails, Process, CallbackReturns, ParseThrows, CallbackThrows,
       SleepElapses
  <2> QED
    BY <1>1, <2>1, <2>2, <2>3, <2>4, <2>5, <2>6, <2>7, <2>8, <2>9
    DEF Next, Driver, Environment
<1>2. TypeInv /\ [Next]_vars => [Spared]_vars
  BY <1>1
<1> QED
  BY <1>2, Invariance, PTL DEF Spec, StopIsNotAFailure

----------------------------------------------------------------------------
(* The driver implements SseStream.                                        *)

\* The driver starts as a stream nobody has opened or stopped.
LEMMA InitRefines == Init => Stream!Init
BY DEF Init, FreshConn, Stream!Init

\* Every step of the driver is a step of the promised stream or invisible.
LEMMA NextRefines ==
  TypeInv /\ IInv /\ [Next]_vars => [Stream!Next]_(Stream!streamVars)
<1> SUFFICES ASSUME TypeInv, IInv, [Next]_vars
             PROVE  [Stream!Next]_(Stream!streamVars)
  OBVIOUS
<1> USE TransportAssumption DEF TypeInv, IInv, InRun, loopVars
<1> DEFINE Unseen == UNCHANGED <<stopped, opened, delivered, outcome>>
                    /\ conn'.matched = conn.matched
<1>0. conn \in Conn
  BY DEF TypeOK
<1>c. conn.matched \in BOOLEAN /\ conn'.matched \in BOOLEAN
  BY <1>0, NextType DEF TypeOK, Conn
<1>a. Unseen => UNCHANGED Stream!streamVars
  BY DEF Stream!streamVars
<1>b. ASSUME pc # "settled", pc' = "settled", outcome' \in Stream!Reasons,
             Stream!Justified(outcome'), UNCHANGED <<stopped, opened, delivered>>,
             conn'.matched = conn.matched
      PROVE  Stream!Next
  BY <1>b DEF Stream!Next, Stream!Settle, Stream!Live, LoopInv
<1>1. CASE Begin \/ AfterSleep
  <2>1. attempts <= MaxReconnects /\ opened <= MaxReconnects /\ ~conn.matched
        /\ outcome = "live"
    BY <1>1 DEF Begin, AfterSleep, LoopInv, ReasonInv, TypeOK
  <2>2. CASE stopped
    <3>0. ~(attempts > MaxReconnects)
      BY <2>1 DEF TypeOK
    <3>1. pc' = "settled" /\ outcome' = "aborted"
      BY <1>1, <2>2, <3>0 DEF Begin, AfterSleep, NextAttempt, Settle
    <3>2. Stream!Justified(outcome') /\ outcome' \in Stream!Reasons
      BY <2>1, <2>2, <3>1 DEF Stream!Justified, Stream!Reasons
    <3>3. QED BY <1>1, <1>b, <2>1, <2>2, <3>1, <3>2
              DEF Begin, AfterSleep, NextAttempt, Settle
  <2>3. CASE ~stopped
    BY <1>1, <2>1, <2>3
    DEF Begin, AfterSleep, NextAttempt, Settle, TypeOK, Stream!Next,
        Stream!Open, Stream!Live
  <2>4. QED BY <2>2, <2>3
<1>2. CASE ConnectResolves \/ LateConnect \/ ReadSettles \/ CloseCompletes
           \/ SleepElapses
  BY <1>2, <1>a DEF ConnectResolves, LateConnect, ReadSettles,
                    CloseCompletes, SleepElapses
<1>3. CASE ConnectRejects \/ ConnectMistyped
  <2>1. ~conn.matched
    BY <1>3 DEF ConnectRejects, ConnectMistyped, ReasonInv
  <2>2. QED BY <1>3, <1>b, <2>1
            DEF ConnectRejects, ConnectMistyped, Settle, Stream!Justified, Stream!Reasons
<1>4. CASE StopConnect \/ StopSleep
  <2>1. ~conn.matched
    BY <1>4 DEF StopConnect, StopSleep, ReasonInv
  <2>2. QED BY <1>4, <1>b, <2>1
            DEF StopConnect, StopSleep, Settle, Stream!Justified, Stream!Reasons
<1>6. CASE Drive
  <2>1. ~conn'.matched /\ ~conn.matched
    BY <1>6 DEF Drive, FreshConn, ReasonInv
  <2>2. conn'.matched = conn.matched
    BY <1>c, <2>1
  <2>3. QED BY <1>6, <1>a, <2>2 DEF Drive
<1>7. CASE ChunkArrives
  <2>1. PICK batch \in Batches(MaxBatch), trail \in Trails :
          conn' = [Parsed(conn, batch, trail) EXCEPT !.chunks = @ + 1]
    BY <1>7 DEF ChunkArrives
  <2>2. Parsed(conn, batch, trail) \in Conn
    BY <1>0, ParsedConn
  <2>3. conn'.matched = conn.matched
    BY <1>0, <2>1, <2>2, ParsedInv DEF Conn
  <2>4. QED BY <1>7, <1>a, <2>3 DEF ChunkArrives
<1>8. CASE BodyEnds
  <2>1. PICK batch \in Batches(1), trail \in Trails :
          conn' = [Parsed(conn, batch, trail) EXCEPT !.ended = TRUE]
    BY <1>8 DEF BodyEnds
  <2>2. Parsed(conn, batch, trail) \in Conn
    BY <1>0, ParsedConn
  <2>3. conn'.matched = conn.matched
    BY <1>0, <2>1, <2>2, ParsedInv DEF Conn
  <2>4. QED BY <1>8, <1>a, <2>3 DEF BodyEnds
<1>9. CASE BodyFails \/ StopRead \/ ParseThrows \/ CallbackThrows
  <2>1. conn'.matched = conn.matched /\ delivered' = delivered
    BY <1>0, <1>9 DEF BodyFails, StopRead, ParseThrows, CallbackThrows, Finish, Conn
  <2>2. QED BY <1>9, <1>a, <2>1 DEF BodyFails, StopRead, ParseThrows, CallbackThrows
<1>10. ASSUME NEW c \in Conn, c.reason = "none", ~c.matched, ~conn.matched,
              Flush(c), outcome = "live", opened > 0,
              UNCHANGED <<stopped, opened, outcome>>
       PROVE  [Stream!Next]_(Stream!streamVars)
  <2>1. ~conn'.matched
    BY <1>10, FlushInv
  <2>a. conn'.matched = conn.matched
    BY <1>c, <1>10, <2>1
  <2>2. CASE delivered' = delivered
    BY <1>10, <1>a, <2>a, <2>2
  <2>3. CASE ~stopped /\ delivered' = delivered + 1
    BY <1>10, <2>a, <2>3 DEF Stream!Next, Stream!Deliver, Stream!Live
  <2>4. QED BY <1>10, <2>2, <2>3, FlushInv
<1>11. CASE Process
  BY <1>0, <1>10, <1>11 DEF Process, ReasonInv, LoopInv, TypeOK
<1>12. CASE CallbackReturns
  <2> DEFINE e == Head(conn.queue)
             c == [conn EXCEPT !.queue = Tail(@),
                               !.matched = (e.until = "yes"),
                               !.untilError = @ \/ (e.until = "error")]
  <2>1. c \in Conn
    BY <1>0, <1>12, CallbackConn DEF CallbackReturns, Handover
  <2>2. c.reason = "none" /\ ~conn.matched /\ delivered > 0
        /\ outcome = "live" /\ opened > 0
    BY <1>0, <1>12 DEF CallbackReturns, ReasonInv, LoopInv, Conn, TypeOK
  <2>3. \/ HaltAfter(c) # "none" /\ Finish(c, HaltAfter(c))
        \/ HaltAfter(c) = "none" /\ Flush(c)
    BY <1>12 DEF CallbackReturns
  <2>4. UNCHANGED <<stopped, opened, outcome>>
    BY <1>12 DEF CallbackReturns
  <2> HIDE DEF c
  <2>5. CASE HaltAfter(c) # "none" /\ Finish(c, HaltAfter(c))
    <3>1. conn'.matched = c.matched /\ delivered' = delivered
      BY <2>1, <2>5 DEF Finish, Conn
    <3>2. c.matched \in BOOLEAN
      BY <2>1 DEF Conn
    <3>3. CASE c.matched
      BY <2>2, <2>4, <3>1, <3>3
      DEF Stream!Next, Stream!Match, Stream!Live
    <3>4. CASE ~c.matched
      <4>1. conn.matched \in BOOLEAN
        BY <1>0 DEF Conn
      <4>2. conn'.matched = conn.matched
        BY <2>2, <3>1, <3>2, <3>4, <4>1
      <4>3. QED BY <1>a, <2>4, <3>1, <4>2
    <3>5. QED BY <3>2, <3>3, <3>4
  <2>6. CASE HaltAfter(c) = "none" /\ Flush(c)
    <3>1. ~c.matched
      BY <2>6 DEF HaltAfter
    <3>2. QED BY <1>10, <2>1, <2>2, <2>4, <2>6, <3>1
  <2>7. QED BY <2>3, <2>5, <2>6
<1>16. CASE AfterRun
  <2>1. conn' = conn /\ UNCHANGED <<stopped, opened, delivered>>
    BY <1>16 DEF AfterRun
  <2>2. CASE pc' = "backoff"
    BY <1>16, <1>a, <2>1, <2>2 DEF AfterRun, Settle
  <2>3. CASE pc' = "settled"
    <3>1. /\ conn.matched <=> conn.reason = "until-matched"
          /\ conn.reason = "aborted" => stopped
          /\ conn.reason = "max-events" => delivered > 0
          /\ conn.reason \in ConnReasons
          /\ opened = reconnectCount + 1 /\ reconnectCount <= MaxReconnects
      BY <1>16 DEF AfterRun, ReasonInv, LoopInv, Handover
    <3>2. \/ outcome' = conn.reason /\ conn.reason # "end-of-stream"
          \/ outcome' = "aborted" /\ stopped /\ conn.reason = "end-of-stream"
          \/ /\ outcome' = "reconnect-limit" /\ ~stopped
             /\ conn.reason = "end-of-stream" /\ reconnectCount >= MaxReconnects
      BY <1>16, <2>3 DEF AfterRun, Settle
    <3>3. outcome' \in Stream!Reasons
      BY <3>1, <3>2 DEF Stream!Reasons, ConnReasons
    <3>4. Stream!Justified(outcome')
      BY <3>1, <3>2 DEF Stream!Justified, ConnReasons, TypeOK
    <3>5. QED BY <1>16, <1>b, <2>1, <2>3, <3>3, <3>4 DEF AfterRun
  <2>4. QED BY <1>16, <2>2, <2>3 DEF AfterRun, Settle
<1>20. CASE Stop
  BY <1>20 DEF Stop, Stream!Next, Stream!Stop, Stream!Live
<1>21. CASE Tick
  <2>1. conn'.matched = conn.matched
    BY <1>21, <1>0 DEF Tick, Conn
  <2>2. QED BY <1>21, <1>a, <2>1 DEF Tick
<1>22. CASE Settled \/ UNCHANGED vars
  BY <1>22, <1>a DEF Settled, vars
<1>23. QED
  BY <1>1, <1>2, <1>3, <1>4, <1>6, <1>7, <1>8, <1>9, <1>11, <1>12, <1>16,
     <1>20, <1>21, <1>22
  DEF Next, Driver, Environment

\* The reconnecting driver keeps the promise of SseStream: after a stop or a
\* predicate match no connection starts and no event is delivered, the loop
\* never exceeds its budget nor runs off its end, and the reason is justified.
THEOREM DriverImplementsStream == Spec => ImplementsStream
<1>1. QED
  BY InitRefines, NextRefines, Invariance, PTL
  DEF Spec, ImplementsStream, Stream!Spec

----------------------------------------------------------------------------
(* What the refinement gives.                                              *)

\* Whatever the promised stream keeps, the driver keeps: the reported reason
\* is true of the run, and no more connections were opened than allowed.
StreamTruth ==
  /\ outcome # "live" => Stream!Justified(outcome)
  /\ opened \in Nat /\ opened <= MaxReconnects + 1
  /\ delivered \in Nat
  /\ delivered > 0 => opened > 0
  /\ conn.matched => delivered > 0

\* The driver's reports are true, as those of the promised stream are.
THEOREM ReportIsTrue == Spec => []StreamTruth
<1>1. ASSUME Stream!Init PROVE StreamTruth
  BY <1>1, TransportAssumption DEF Stream!Init, StreamTruth
<1>2. ASSUME StreamTruth, [Stream!Next]_(Stream!streamVars)
      PROVE  StreamTruth'
  <2>1. CASE Stream!Open
    BY <1>2, <2>1, TransportAssumption DEF Stream!Open, Stream!Live, StreamTruth
  <2>2. CASE Stream!Deliver
    BY <1>2, <2>2 DEF Stream!Deliver, Stream!Live, StreamTruth
  <2>3. CASE Stream!Match
    BY <1>2, <2>3 DEF Stream!Match, Stream!Live, StreamTruth
  <2>4. CASE Stream!Stop
    BY <1>2, <2>4 DEF Stream!Stop, Stream!Live, StreamTruth
  <2>5. CASE Stream!Settle
    BY <1>2, <2>5 DEF Stream!Settle, Stream!Live, Stream!Justified, StreamTruth
  <2>6. CASE UNCHANGED Stream!streamVars
    BY <1>2, <2>6 DEF Stream!streamVars, Stream!Justified, StreamTruth
  <2> QED
    BY <1>2, <2>1, <2>2, <2>3, <2>4, <2>5, <2>6 DEF Stream!Next
<1> QED
  BY <1>1, <1>2, DriverImplementsStream, PTL DEF ImplementsStream, Stream!Spec

\* After a stop or a match nothing is opened or delivered, and once the run
\* has settled its report is final.
THEOREM StopEndsTheStream ==
  Spec => [][/\ stopped \/ conn.matched => UNCHANGED <<opened, delivered>>
             /\ outcome # "live" =>
                  UNCHANGED <<outcome, opened, delivered, stopped>>]_vars
<1>1. ASSUME [Stream!Next]_(Stream!streamVars)
      PROVE  [/\ stopped \/ conn.matched => UNCHANGED <<opened, delivered>>
              /\ outcome # "live" =>
                   UNCHANGED <<outcome, opened, delivered, stopped>>]_vars
  BY <1>1 DEF Stream!Next, Stream!Open, Stream!Deliver, Stream!Match,
     Stream!Stop, Stream!Settle, Stream!Live, Stream!streamVars
<1> QED
  BY <1>1, DriverImplementsStream, PTL DEF ImplementsStream, Stream!Spec

----------------------------------------------------------------------------
(* The requests of one extension host.                                     *)

\* The registry is exact because nothing is aborted before it is sent.
RegistryInv ==
  /\ RegistryIsExact
  /\ \A s \in Sessions : phase[s] = "idle" => ~aborted[s]

\* The three owners agree, and an owner is a live stream.
ChannelInv ==
  /\ OneLiveListener
  /\ listener = owner

\* The flag tells the truth about the panel; handles only name panels that
\* run scripts, and the owner of the present one was the last to take it.
PanelInv ==
  /\ panel <= turn
  /\ panelScripts = enabled
  /\ panel = 0 => ~enabled /\ shown = NoPage
  /\ panel # 0 => /\ enabled = (shown.by \in Sessions)
                  /\ shown.turn = turn
  /\ \A s \in Sessions :
       /\ handle[s].panel <= turn
       /\ (panel # 0 /\ handle[s].panel = panel) => enabled
       /\ OwnsPanel(s) => handle[s].turn = turn

SessionsInv == SessionsTypeOK /\ RegistryInv /\ ChannelInv /\ PanelInv

----------------------------------------------------------------------------
(* Types.                                                                  *)

\* Only the page of a stream has a Stop button.
SessionsTypeInv == SessionsTypeOK /\ (shown.button => shown.by \in Sessions)

\* The session starts with every variable in its type.
LEMMA SessionsStart == SessionsInit => SessionsTypeInv
<1> SUFFICES ASSUME SessionsInit PROVE SessionsTypeInv
  OBVIOUS
<1>1. NoPage \in Page
  BY DEF NoPage, Page
<1>2. [by |-> Nobody, of |-> Nobody]
        \in [by : Sessions \cup {Nobody}, of : Sessions \cup {Nobody}]
  OBVIOUS
<1>3. handle \in [Sessions -> Handle]
  BY DEF SessionsInit, Handle
<1>4. QED BY <1>1, <1>2, <1>3 DEF SessionsInit, SessionsTypeInv, SessionsTypeOK, Phases, NoPage

\* A plain view leaves the panel variables well typed.
LEMMA RenderPlainType ==
  ASSUME SessionsTypeInv, RenderPlain
  PROVE  /\ panel' \in Nat /\ turn' \in Nat
         /\ enabled' \in BOOLEAN /\ panelScripts' \in BOOLEAN
         /\ shown' \in Page /\ (shown'.button => shown'.by \in Sessions)
<1>1. turn \in Nat /\ turn + 1 \in Nat
  BY DEF SessionsTypeInv, SessionsTypeOK
<1>2. shown' \in Page /\ ~shown'.button
  BY <1>1 DEF RenderPlain, Page
<1>3. QED BY <1>1, <1>2 DEF RenderPlain, TakePanel, SessionsTypeInv, SessionsTypeOK

\* So does the view of a stream.
LEMMA RenderSseType ==
  ASSUME SessionsTypeInv, NEW s \in Sessions, RenderSse(s)
  PROVE  /\ panel' \in Nat /\ turn' \in Nat
         /\ enabled' \in BOOLEAN /\ panelScripts' \in BOOLEAN
         /\ owner' \in Sessions \cup {Nobody} /\ listener' \in Sessions \cup {Nobody}
         /\ subscribed' \subseteq Sessions
         /\ handle' \in [Sessions -> Handle]
         /\ shown' \in Page /\ (shown'.button => shown'.by \in Sessions)
<1>1. turn \in Nat /\ turn + 1 \in Nat
  BY DEF SessionsTypeInv, SessionsTypeOK
<1>2. shown' \in Page /\ shown'.by \in Sessions
  BY <1>1 DEF RenderSse, Page
<1>3. panel' \in Nat
  BY <1>1 DEF RenderSse, TakePanel, SessionsTypeInv, SessionsTypeOK
<1>4. [panel |-> panel', turn |-> turn + 1] \in Handle
  BY <1>1, <1>3 DEF Handle
<1>5. handle' \in [Sessions -> Handle]
  BY <1>4 DEF RenderSse, SessionsTypeInv, SessionsTypeOK
<1>6. QED BY <1>1, <1>2, <1>3, <1>5
          DEF RenderSse, TakePanel, SessionsTypeInv, SessionsTypeOK

\* An update of a view, painted or dropped, leaves a page.
LEMMA PaintType ==
  ASSUME SessionsTypeInv, NEW s \in Sessions, NEW b \in BOOLEAN, Paint(s, b)
  PROVE  shown' \in Page /\ (shown'.button => shown'.by \in Sessions)
<1>1. handle[s].turn \in Nat
  BY DEF SessionsTypeInv, SessionsTypeOK, Handle
<1>2. QED BY <1>1 DEF Paint, SessionsTypeInv, SessionsTypeOK, Page

\* Each step keeps the types.
LEMMA SessionsKeepTypes == SessionsTypeInv /\ [SessionsNext]_sessionsVars => SessionsTypeInv'
<1> SUFFICES ASSUME SessionsTypeInv, [SessionsNext]_sessionsVars
             PROVE  SessionsTypeInv'
  OBVIOUS
<1> USE SessionsAssumption DEF Phases, SessionsTypeInv
<1>1. CASE \E s \in Sessions : Send(s) \/ HeadersArrive(s) \/ TextArrives(s)
                                \/ RequestFails(s)
  BY <1>1 DEF Send, HeadersArrive, TextArrives, RequestFails, SessionsTypeOK,
              panelVars, cacheVars
<1>2. CASE \E s \in Sessions : ShowResponse(s)
  <2>1. PICK s \in Sessions : ShowResponse(s)
    BY <1>2
  <2>2. RenderPlain /\ Leave(s)
    BY <2>1 DEF ShowResponse
  <2>3. QED BY <2>1, <2>2, RenderPlainType
            DEF ShowResponse, Leave, RenderPlain, SessionsTypeOK, cacheVars
<1>3. CASE \E s \in Sessions : HandleFailure(s)
  <2>1. PICK s \in Sessions : HandleFailure(s)
    BY <1>3
  <2>2. CASE aborted[s]
    BY <2>1, <2>2 DEF HandleFailure, Leave, SessionsTypeOK, panelVars, cacheVars
  <2>3. CASE ~aborted[s]
    <3>1. RenderPlain /\ UNCHANGED previews
      BY <2>1, <2>3 DEF HandleFailure
    <3>2. QED BY <2>1, <3>1, RenderPlainType
              DEF HandleFailure, Leave, RenderPlain, SessionsTypeOK, cacheVars
  <2>4. QED BY <2>2, <2>3
<1>4. CASE \E s \in Sessions : StartStream(s)
  <2>1. PICK s \in Sessions : StartStream(s)
    BY <1>4
  <2>2. RenderSse(s)
    BY <2>1 DEF StartStream
  <2>3. QED BY <2>1, <2>2, RenderSseType DEF StartStream, SessionsTypeOK
<1>5. CASE \E s \in Sessions : DeliverEvent(s)
  <2>1. PICK s \in Sessions : DeliverEvent(s)
    BY <1>5
  <2>2. shown' \in Page /\ (shown'.button => shown'.by \in Sessions)
    BY <2>1, PaintType DEF DeliverEvent
  <2>3. QED BY <2>1, <2>2 DEF DeliverEvent, SessionsTypeOK, cacheVars
<1>6. CASE \E s \in Sessions : StreamEnds(s) \/ StreamFails(s)
  <2>1. PICK s \in Sessions : StreamEnds(s) \/ StreamFails(s)
    BY <1>6
  <2>2. /\ shown' \in Page /\ (shown'.button => shown'.by \in Sessions)
        /\ lastTranscript' \in Sessions \cup {Nobody}
    BY <2>1, PaintType DEF StreamEnds, StreamFails, Transcript
  <2>3. phase' \in [Sessions -> Phases] /\ active' \subseteq Sessions
    BY <2>1 DEF StreamEnds, StreamFails, Leave, SessionsTypeOK
  <2>4. /\ subscribed' \subseteq Sessions
        /\ owner' \in Sessions \cup {Nobody}
        /\ listener' \in Sessions \cup {Nobody}
    BY <2>1 DEF StreamEnds, StreamFails, Dispose, SessionsTypeOK
  <2>5. offered' \in [Sessions -> Sessions \cup {Nobody}]
    <3>1. CASE offered' = offered
      BY <3>1 DEF SessionsTypeOK
    <3>2. CASE offered' = [offered EXCEPT ![s] = lastTranscript']
      BY <2>2, <3>2 DEF SessionsTypeOK
    <3>3. QED BY <2>1, <3>1, <3>2 DEF StreamEnds, StreamFails
  <2>6. QED BY <2>1, <2>2, <2>3, <2>4, <2>5
            DEF StreamEnds, StreamFails, SessionsTypeOK
<1>7. CASE \E s \in Sessions : AnswerPrompt(s)
  BY <1>7 DEF AnswerPrompt, SessionsTypeOK, panelVars
<1>8. CASE \E c \in clicks : DeliverClick(c)
  BY <1>8 DEF DeliverClick, SessionsTypeOK, panelVars, cacheVars
<1>9. CASE Click
  <2>1. shown.by \in Sessions
    BY <1>9 DEF Click
  <2>2. shown' \in Page /\ ~shown'.button
    BY <1>9 DEF Click, SessionsTypeOK, Page
  <2>3. clicks' \subseteq [panel : Nat, token : Sessions]
    BY <1>9, <2>1 DEF Click, SessionsTypeOK
  <2>4. QED BY <1>9, <2>2, <2>3 DEF Click, SessionsTypeOK, cacheVars
<1>10. CASE StopAll
  BY <1>10 DEF StopAll, SessionsTypeOK, panelVars, cacheVars
<1>11. CASE ClosePanel
  BY <1>11 DEF ClosePanel, SessionsTypeOK, Page, NoPage, cacheVars
<1>12. CASE PreviewGrpc
  BY <1>12, RenderPlainType DEF PreviewGrpc, RenderPlain, SessionsTypeOK, cacheVars
<1>13. CASE UNCHANGED sessionsVars
  BY <1>13 DEF SessionsTypeOK, sessionsVars, panelVars, cacheVars
<1>14. QED BY <1>1, <1>2, <1>3, <1>4, <1>5, <1>6, <1>7, <1>8, <1>9, <1>10,
              <1>11, <1>12, <1>13 DEF SessionsNext, Step, Quiet

\* Every variable keeps its type.
THEOREM SessionsTyped == SessionsSpec => []SessionsTypeOK
<1>1. SessionsTypeInv => SessionsTypeOK
  BY DEF SessionsTypeInv
<1>2. QED BY <1>1, SessionsStart, SessionsKeepTypes, PTL DEF SessionsSpec

----------------------------------------------------------------------------
(* The registry.                                                           *)

\* Each step keeps the registry exact.
LEMMA NextRegistry ==
  SessionsTypeInv /\ RegistryInv /\ [SessionsNext]_sessionsVars => RegistryInv'
<1> SUFFICES ASSUME SessionsTypeInv, RegistryInv, [SessionsNext]_sessionsVars
             PROVE  RegistryInv'
  OBVIOUS
<1> USE DEF SessionsTypeInv, SessionsTypeOK, RegistryInv, RegistryIsExact, Underway, Phases
<1> DEFINE Kept(r) ==
             /\ r \in active' <=>
                  /\ phase'[r] \notin {"idle", "prompting", "done"}
                  /\ ~aborted'[r]
             /\ phase'[r] = "idle" => ~aborted'[r]
<1>a. SUFFICES \A r \in Sessions : Kept(r)
  <2>1. active' \subseteq Sessions
    BY SessionsKeepTypes
  <2>2. active' = {s \in Sessions :
                    /\ phase'[s] \notin {"idle", "prompting", "done"}
                    /\ ~aborted'[s]}
    BY <1>a, <2>1
  <2>3. QED BY <1>a, <2>2
<1>0. SUFFICES ASSUME NEW r \in Sessions PROVE Kept(r)
  OBVIOUS
<1>1. CASE \E s \in Sessions : Send(s) \/ HeadersArrive(s) \/ TextArrives(s)
                                \/ RequestFails(s)
  <2>1. PICK s \in Sessions : Send(s) \/ HeadersArrive(s) \/ TextArrives(s)
                              \/ RequestFails(s)
    BY <1>1
  <2>2. CASE r = s
    BY <2>1, <2>2 DEF Send, HeadersArrive, TextArrives, RequestFails
  <2>3. CASE r # s
    BY <2>1, <2>3 DEF Send, HeadersArrive, TextArrives, RequestFails
  <2>4. QED BY <2>2, <2>3
<1>2. CASE \E s \in Sessions : ShowResponse(s) \/ HandleFailure(s)
  <2>1. PICK s \in Sessions : ShowResponse(s) \/ HandleFailure(s)
    BY <1>2
  <2>2. CASE r = s
    BY <2>1, <2>2 DEF ShowResponse, HandleFailure, Leave
  <2>3. CASE r # s
    BY <2>1, <2>3 DEF ShowResponse, HandleFailure, Leave
  <2>4. QED BY <2>2, <2>3
<1>3. CASE \E s \in Sessions : StartStream(s) \/ DeliverEvent(s)
  BY <1>3 DEF StartStream, DeliverEvent
<1>4. CASE \E s \in Sessions : StreamEnds(s) \/ StreamFails(s)
  BY <1>4 DEF StreamEnds, StreamFails, Leave
<1>5. CASE \E s \in Sessions : AnswerPrompt(s)
  BY <1>5 DEF AnswerPrompt
<1>6. CASE \E c \in clicks : DeliverClick(c)
  <2>1. PICK c \in clicks : DeliverClick(c)
    BY <1>6
  <2> DEFINE hit == {s \in active : Heeds(s, c)}
  <2>2. /\ active' = active \ hit
        /\ \A s \in Sessions : aborted'[s] = (aborted[s] \/ s \in hit)
        /\ phase' = phase /\ hit \subseteq active
    BY <2>1 DEF DeliverClick
  <2> HIDE DEF hit
  <2>3. QED BY <2>2
<1>7. CASE StopAll
  <2>1. \A s \in Sessions : aborted'[s] = (aborted[s] \/ s \in active)
    BY <1>7 DEF StopAll
  <2>2. QED BY <1>7, <2>1 DEF StopAll
<1>8. CASE Click \/ ClosePanel \/ PreviewGrpc \/ UNCHANGED sessionsVars
  BY <1>8 DEF Click, ClosePanel, PreviewGrpc, sessionsVars
<1>9. QED BY <1>1, <1>2, <1>3, <1>4, <1>5, <1>6, <1>7, <1>8
          DEF SessionsNext, Step, Quiet

\* The Stop command reaches exactly the requests under way, at every moment.
THEOREM RegistryStaysExact == SessionsSpec => []RegistryIsExact
<1>1. SessionsInit => RegistryInv
  BY DEF SessionsInit, RegistryInv, RegistryIsExact, Underway
<1>2. RegistryInv => RegistryIsExact
  BY DEF RegistryInv
<1>3. QED BY <1>1, <1>2, SessionsStart, SessionsKeepTypes, NextRegistry, PTL DEF SessionsSpec

----------------------------------------------------------------------------
(* The message channel.                                                    *)

\* Each step hands the channel over to a live stream or closes it.
LEMMA NextChannel ==
  SessionsTypeInv /\ ChannelInv /\ [SessionsNext]_sessionsVars => ChannelInv'
<1> SUFFICES ASSUME SessionsTypeInv, ChannelInv, [SessionsNext]_sessionsVars
             PROVE  ChannelInv'
  OBVIOUS
<1> USE SessionsAssumption DEF SessionsTypeInv, SessionsTypeOK, ChannelInv, OneLiveListener
<1>1. CASE \E s \in Sessions : Send(s) \/ HeadersArrive(s) \/ TextArrives(s)
                                \/ RequestFails(s) \/ AnswerPrompt(s)
  BY <1>1 DEF Send, HeadersArrive, TextArrives, RequestFails, AnswerPrompt,
              panelVars
<1>2. CASE \E s \in Sessions : ShowResponse(s) \/ HandleFailure(s)
  <2>1. PICK s \in Sessions : ShowResponse(s) \/ HandleFailure(s)
    BY <1>2
  <2>2. /\ UNCHANGED <<owner, listener, subscribed>>
        /\ phase[s] \in {"text", "rejected"}
        /\ \A r \in Sessions \ {s} : phase'[r] = phase[r]
    BY <2>1 DEF ShowResponse, HandleFailure, Leave, RenderPlain, panelVars
  <2>3. QED BY <2>2
<1>3. CASE \E s \in Sessions : StartStream(s)
  BY <1>3 DEF StartStream, RenderSse
<1>4. CASE \E s \in Sessions : DeliverEvent(s)
  BY <1>4 DEF DeliverEvent
<1>5. CASE \E s \in Sessions : StreamEnds(s) \/ StreamFails(s)
  <2>1. PICK s \in Sessions : StreamEnds(s) \/ StreamFails(s)
    BY <1>5
  <2>2. Dispose(s) /\ \A r \in Sessions \ {s} : phase'[r] = phase[r]
    BY <2>1 DEF StreamEnds, StreamFails, Leave
  <2>3. CASE owner = s
    BY <2>2, <2>3 DEF Dispose
  <2>4. CASE owner # s
    BY <2>2, <2>4 DEF Dispose
  <2>5. QED BY <2>3, <2>4
<1>6. CASE (\E c \in clicks : DeliverClick(c)) \/ StopAll \/ UNCHANGED sessionsVars
  BY <1>6 DEF DeliverClick, StopAll, panelVars, sessionsVars
<1>7. CASE Click \/ ClosePanel \/ PreviewGrpc
  BY <1>7 DEF Click, ClosePanel, PreviewGrpc, RenderPlain
<1>8. QED BY <1>1, <1>2, <1>3, <1>4, <1>5, <1>6, <1>7 DEF SessionsNext, Step, Quiet

\* At most one stream listens to the panel; it is live and owns it.
THEOREM ListenerIsLive == SessionsSpec => []OneLiveListener
<1>1. SessionsInit => ChannelInv
  BY DEF SessionsInit, ChannelInv, OneLiveListener
<1>2. ChannelInv => OneLiveListener
  BY DEF ChannelInv
<1>3. QED BY <1>1, <1>2, SessionsStart, SessionsKeepTypes, NextChannel, PTL DEF SessionsSpec

----------------------------------------------------------------------------
(* The panel.                                                              *)

\* A plain view takes the panel: no stream's handle names a plain panel, so
\* no stream owns it any more.
LEMMA PlainPanel ==
  ASSUME SessionsTypeInv, PanelInv, RenderPlain
  PROVE  PanelInv'
<1> USE SessionsAssumption DEF SessionsTypeInv, SessionsTypeOK, PanelInv, OwnsPanel
<1>1. /\ turn \in Nat /\ turn' = turn + 1 /\ handle' = handle
      /\ shown'.by = "plain" /\ shown'.turn = turn'
      /\ panelScripts' = FALSE
  BY DEF RenderPlain, TakePanel
<1>2. enabled' = FALSE
  BY DEF RenderPlain, TakePanel
<1>3. \/ panel' = panel /\ panel # 0 /\ enabled = FALSE
      \/ panel' = turn + 1
  BY DEF RenderPlain, TakePanel
<1>4. panel' <= turn' /\ panel' # 0
  BY <1>1, <1>3
<1>5. ASSUME NEW r \in Sessions
      PROVE  /\ handle'[r].panel <= turn'
             /\ handle'[r].panel # panel'
  <2>1. handle[r].panel \in Nat /\ handle[r].panel <= turn
    BY DEF Handle
  <2>2. CASE panel' = panel /\ panel # 0 /\ enabled = FALSE
    BY <1>1, <2>1, <2>2
  <2>3. CASE panel' = turn + 1
    BY <1>1, <2>1, <2>3
  <2>4. QED BY <1>3, <2>2, <2>3
<1>6. panelScripts' = enabled'
  BY <1>1, <1>2
<1>7. enabled' = (shown'.by \in Sessions)
  <2>1. shown'.by \notin Sessions
    BY <1>1
  <2>2. (shown'.by \in Sessions) = FALSE
    BY <2>1
  <2>3. QED BY <1>2, <2>2
<1>8. QED BY <1>1, <1>4, <1>5, <1>6, <1>7

\* A stream's view takes the panel: of the streams, only it owns it.
LEMMA SsePanel ==
  ASSUME SessionsTypeInv, PanelInv, NEW s \in Sessions, RenderSse(s)
  PROVE  PanelInv'
<1> USE SessionsAssumption DEF SessionsTypeInv, SessionsTypeOK, PanelInv, OwnsPanel
<1>1. /\ turn \in Nat /\ turn' = turn + 1
      /\ enabled' = TRUE /\ panelScripts' = TRUE
      /\ panel' \in {panel, turn + 1} /\ panel' # 0
      /\ shown'.by = s /\ shown'.turn = turn'
      /\ owner' = s
      /\ handle' = [handle EXCEPT ![s] = [panel |-> panel', turn |-> turn + 1]]
  BY DEF RenderSse, TakePanel
<1>2. panel' <= turn'
  BY <1>1
<1>3. handle'[s].panel = panel' /\ handle'[s].turn = turn'
  BY <1>1
<1>4. ASSUME NEW r \in Sessions, r # s
      PROVE  handle'[r].panel <= turn'
  <2>1. handle[r].panel \in Nat /\ handle[r].panel <= turn
    BY DEF Handle
  <2>2. handle'[r] = handle[r]
    BY <1>1, <1>4
  <2>3. QED BY <1>1, <2>1, <2>2
<1>5. ASSUME NEW r \in Sessions
      PROVE  /\ handle'[r].panel <= turn'
             /\ (panel' # 0 /\ handle'[r].panel = panel') => enabled'
             /\ OwnsPanel(r)' => handle'[r].turn = turn'
  <2>1. CASE r = s
    BY <1>1, <1>2, <1>3, <2>1
  <2>2. CASE r # s
    BY <1>1, <1>4, <2>2
  <2>3. QED BY <2>1, <2>2
<1>6. QED BY <1>1, <1>2, <1>5

\* An update paints only a panel that runs scripts, as the newest view.
LEMMA PaintPanel ==
  ASSUME SessionsTypeInv, PanelInv, NEW s \in Sessions, NEW b \in BOOLEAN,
         Paint(s, b)
  PROVE  /\ panel = 0 => shown' = NoPage
         /\ panel # 0 => /\ enabled = (shown'.by \in Sessions)
                         /\ shown'.turn = turn
<1>1. CASE OwnsPanel(s)
  BY <1>1 DEF Paint, PanelInv, OwnsPanel
<1>2. CASE ~OwnsPanel(s)
  BY <1>2 DEF Paint, PanelInv
<1>3. QED BY <1>1, <1>2

\* Each step keeps the flag, the page and the handles in line with the panel.
LEMMA NextPanel ==
  SessionsTypeInv /\ PanelInv /\ [SessionsNext]_sessionsVars => PanelInv'
<1> SUFFICES ASSUME SessionsTypeInv, PanelInv, [SessionsNext]_sessionsVars
             PROVE  PanelInv'
  OBVIOUS
<1>1. CASE UNCHANGED panelVars
  BY <1>1 DEF PanelInv, OwnsPanel, panelVars
<1>2. CASE \E s \in Sessions : StartStream(s)
  BY <1>2, SsePanel DEF StartStream
<1>3. CASE RenderPlain
  BY <1>3, PlainPanel
<1>4. CASE \E s \in Sessions : DeliverEvent(s)
  <2>1. PICK s \in Sessions : DeliverEvent(s)
    BY <1>4
  <2>2. Paint(s, TRUE)
    BY <2>1 DEF DeliverEvent
  <2>3. UNCHANGED <<panel, enabled, panelScripts, owner, handle, turn>>
    BY <2>1 DEF DeliverEvent
  <2>4. /\ panel = 0 => shown' = NoPage
        /\ panel # 0 => /\ enabled = (shown'.by \in Sessions)
                        /\ shown'.turn = turn
    BY <2>2, PaintPanel
  <2>5. QED BY <2>3, <2>4 DEF PanelInv, OwnsPanel
<1>5. CASE \E s \in Sessions : StreamEnds(s) \/ StreamFails(s)
  <2>1. PICK s \in Sessions : StreamEnds(s) \/ StreamFails(s)
    BY <1>5
  <2>2. Paint(s, FALSE) /\ Dispose(s)
    BY <2>1 DEF StreamEnds, StreamFails
  <2>3. UNCHANGED <<panel, enabled, panelScripts, handle, turn>>
    BY <2>1 DEF StreamEnds, StreamFails
  <2>4. \A r \in Sessions : OwnsPanel(r)' => OwnsPanel(r)
    BY <2>2, <2>3, SessionsAssumption DEF Dispose, OwnsPanel
  <2>5. /\ panel = 0 => shown' = NoPage
        /\ panel # 0 => /\ enabled = (shown'.by \in Sessions)
                        /\ shown'.turn = turn
    BY <2>2, PaintPanel
  <2>6. \A r \in Sessions : OwnsPanel(r)' => handle'[r].turn = turn'
    BY <2>3, <2>4 DEF PanelInv
  <2>7. QED BY <2>3, <2>5, <2>6 DEF PanelInv
<1>6. CASE Click
  <2>1. panel # 0 /\ UNCHANGED <<panel, enabled, panelScripts, owner, handle, turn>>
    BY <1>6 DEF Click
  <2>2. shown'.by = shown.by /\ shown'.turn = shown.turn
    BY <1>6 DEF Click, SessionsTypeInv, SessionsTypeOK, Page
  <2>3. QED BY <2>1, <2>2 DEF PanelInv, OwnsPanel
<1>7. CASE ClosePanel
  <2>1. panel' = 0 /\ ~enabled' /\ shown' = NoPage /\ UNCHANGED <<handle, turn>>
    BY <1>7 DEF ClosePanel
  <2>2. panelScripts' = enabled'
    <3>1. CASE enabled
      BY <1>7, <3>1 DEF ClosePanel
    <3>2. CASE ~enabled
      <4>1. enabled = FALSE /\ panelScripts = enabled
        BY <3>2 DEF PanelInv, SessionsTypeInv, SessionsTypeOK
      <4>2. QED BY <1>7, <4>1 DEF ClosePanel
    <3>3. QED BY <3>1, <3>2
  <2>3. panel' <= turn'
    BY <2>1 DEF SessionsTypeInv, SessionsTypeOK
  <2>4. QED BY <2>1, <2>2, <2>3 DEF PanelInv, OwnsPanel
<1>8. ASSUME NEW s \in Sessions,
             \/ Send(s) \/ HeadersArrive(s) \/ TextArrives(s)
             \/ RequestFails(s) \/ AnswerPrompt(s)
      PROVE  UNCHANGED panelVars
  BY <1>8 DEF Send, HeadersArrive, TextArrives, RequestFails, AnswerPrompt
<1>9. ASSUME NEW s \in Sessions, ShowResponse(s) \/ HandleFailure(s)
      PROVE  RenderPlain \/ UNCHANGED panelVars
  BY <1>9 DEF ShowResponse, HandleFailure
<1>10. (\E c \in clicks : DeliverClick(c)) \/ StopAll \/ UNCHANGED sessionsVars
        => UNCHANGED panelVars
  BY DEF DeliverClick, StopAll, sessionsVars, panelVars
<1>11. PreviewGrpc => RenderPlain
  BY DEF PreviewGrpc
<1>12. QED BY <1>1, <1>2, <1>3, <1>4, <1>5, <1>6, <1>7, <1>8, <1>9, <1>10,
              <1>11 DEF SessionsNext, Step, Quiet

\* The panel starts closed.
LEMMA InitPanel == SessionsInit => PanelInv
<1> SUFFICES ASSUME SessionsInit PROVE PanelInv
  OBVIOUS
<1>1. /\ panel = 0 /\ turn = 0 /\ shown = NoPage
      /\ ~enabled /\ panelScripts = enabled
  BY DEF SessionsInit
<1>2. \A s \in Sessions : handle[s].panel = 0
  BY DEF SessionsInit
<1>3. QED BY <1>1, <1>2 DEF PanelInv, OwnsPanel

\* A page with a Stop button can run its script, and no other page can run
\* one, whoever took, closed or replaced the panel before.
THEOREM ScriptsAlwaysMatch == SessionsSpec => []ScriptsMatchPage
<1>1. PanelInv => ScriptsMatchPage
  BY DEF PanelInv, ScriptsMatchPage
<1>2. QED BY <1>1, SessionsStart, SessionsKeepTypes, InitPanel, NextPanel, PTL DEF SessionsSpec

\* Only the newest view paints, in every step.
LEMMA StepPaints ==
  SessionsTypeInv /\ PanelInv /\ [SessionsNext]_sessionsVars
    => [shown' # shown /\ shown'.by # Nobody => shown'.turn = turn']_sessionsVars
<1> SUFFICES ASSUME SessionsTypeInv, PanelInv, [SessionsNext]_sessionsVars,
                    shown' # shown, shown'.by # Nobody
             PROVE  shown'.turn = turn'
  OBVIOUS
<1>1. PanelInv'
  BY NextPanel
<1>2. panel' # 0
  BY <1>1 DEF PanelInv, NoPage
<1>3. QED BY <1>1, <1>2 DEF PanelInv

\* Once a newer request shows its response, no older stream draws over it.
THEOREM NewestViewAlwaysPaints == SessionsSpec => NewestViewPaints
  BY StepPaints, SessionsStart, SessionsKeepTypes, InitPanel, NextPanel, PTL
     DEF SessionsSpec, NewestViewPaints

\* A delivered click aborts no session but the one whose token it carries.
LEMMA StepStops ==
  SessionsTypeInv /\ [SessionsNext]_sessionsVars
    => [\A c \in clicks \ clicks' : \A s \in Sessions :
          aborted'[s] # aborted[s] => s = c.token]_sessionsVars
<1> SUFFICES ASSUME SessionsTypeInv, [SessionsNext]_sessionsVars, NEW c \in clicks \ clicks',
                    NEW s \in Sessions, aborted'[s] # aborted[s]
             PROVE  s = c.token
  OBVIOUS
<1>1. PICK d \in clicks : DeliverClick(d)
  BY DEF SessionsNext, Step, Quiet, Send, HeadersArrive, TextArrives, RequestFails,
         ShowResponse, HandleFailure, StartStream, DeliverEvent, StreamEnds,
         StreamFails, AnswerPrompt, Click, StopAll, ClosePanel, PreviewGrpc,
         sessionsVars
<1>2. c = d
  BY <1>1 DEF DeliverClick
<1>3. aborted'[s] = (aborted[s] \/ s \in {r \in active : Heeds(r, d)})
  BY <1>1 DEF DeliverClick
<1>4. CASE Heeds(s, d)
  BY <1>2, <1>4 DEF Heeds
<1>5. CASE ~Heeds(s, d)
  <2>1. aborted[s] \in BOOLEAN
    BY DEF SessionsTypeInv, SessionsTypeOK
  <2>2. s \notin {r \in active : Heeds(r, d)}
    BY <1>5
  <2>3. aborted'[s] = aborted[s]
    BY <1>3, <2>1, <2>2
  <2>4. QED BY <2>3
<1>6. QED BY <1>4, <1>5

\* A click stops the session whose page was clicked, or nothing.
THEOREM ClickStopsOnlyItsSession == SessionsSpec => ClickStopsItsSession
  BY StepStops, SessionsStart, SessionsKeepTypes, PTL DEF SessionsSpec, ClickStopsItsSession

----------------------------------------------------------------------------
(* The save prompt.                                                        *)

\* An open prompt is about the transcript of its own session, whatever is
\* cached since.
PromptInv ==
  /\ PromptSavesItsOwn
  /\ \A s \in Sessions : phase[s] = "prompting" => offered[s] = s

\* No step saves or offers the transcript of another session.
LEMMA NextPrompt == SessionsTypeInv /\ PromptInv /\ [SessionsNext]_sessionsVars => PromptInv'
<1> SUFFICES ASSUME SessionsTypeInv, PromptInv, [SessionsNext]_sessionsVars
             PROVE  PromptInv'
  OBVIOUS
<1>0. /\ phase \in [Sessions -> Phases]
      /\ offered \in [Sessions -> Sessions \cup {Nobody}]
  BY DEF SessionsTypeInv, SessionsTypeOK
<1>1. ASSUME NEW s \in Sessions, NEW p, p # "prompting",
             phase' = [phase EXCEPT ![s] = p], UNCHANGED <<offered, saved>>
      PROVE  PromptInv'
  BY <1>0, <1>1 DEF PromptInv, PromptSavesItsOwn
<1>2. ASSUME UNCHANGED <<phase, offered, saved>>
      PROVE  PromptInv'
  BY <1>2 DEF PromptInv, PromptSavesItsOwn
<1>3. ASSUME NEW s \in Sessions, StreamEnds(s)
      PROVE  PromptInv'
  <2>1. CASE lastTranscript' = Nobody
    BY <1>1, <1>3, <2>1 DEF StreamEnds
  <2>2. CASE lastTranscript' # Nobody
    <3>1. /\ phase' = [phase EXCEPT ![s] = "prompting"]
          /\ offered' = [offered EXCEPT ![s] = s] /\ saved' = saved
      BY <1>3, <2>2 DEF StreamEnds, Transcript
    <3> QED
      BY <1>0, <3>1 DEF PromptInv, PromptSavesItsOwn
  <2> QED
    BY <2>1, <2>2
<1>4. ASSUME NEW s \in Sessions, AnswerPrompt(s)
      PROVE  PromptInv'
  <2>1. /\ phase' = [phase EXCEPT ![s] = "done"] /\ offered' = offered
        /\ offered[s] = s
        /\ saved' \in {saved, [by |-> s, of |-> offered[s]]}
    BY <1>4 DEF AnswerPrompt, PromptInv
  <2>2. PromptSavesItsOwn'
    BY <2>1 DEF PromptInv, PromptSavesItsOwn
  <2>3. \A r \in Sessions : phase'[r] = "prompting" => offered'[r] = r
    BY <1>0, <2>1 DEF PromptInv
  <2> QED
    BY <2>2, <2>3 DEF PromptInv
<1>5. ASSUME NEW s \in Sessions, Step(s)
      PROVE  PromptInv'
  <2>1. CASE Send(s)
    BY <1>1, <2>1 DEF Send, cacheVars
  <2>2. CASE HeadersArrive(s)
    BY <1>1, <2>2 DEF HeadersArrive, cacheVars
  <2>3. CASE TextArrives(s) \/ RequestFails(s)
    BY <1>1, <2>3 DEF TextArrives, RequestFails, cacheVars
  <2>4. CASE ShowResponse(s) \/ HandleFailure(s) \/ StreamFails(s)
    BY <1>1, <2>4 DEF ShowResponse, HandleFailure, StreamFails, Leave, cacheVars
  <2>5. CASE StartStream(s)
    BY <1>1, <2>5 DEF StartStream
  <2>6. CASE DeliverEvent(s)
    BY <1>2, <2>6 DEF DeliverEvent, cacheVars
  <2> QED
    BY <1>3, <1>4, <1>5, <2>1, <2>2, <2>3, <2>4, <2>5, <2>6 DEF Step
<1>6. CASE \/ \E c \in clicks : DeliverClick(c)
           \/ Click \/ StopAll \/ ClosePanel \/ PreviewGrpc \/ Quiet
           \/ UNCHANGED sessionsVars
  BY <1>2, <1>6 DEF DeliverClick, Click, StopAll, ClosePanel, PreviewGrpc,
     Quiet, sessionsVars, cacheVars
<1>7. QED BY <1>5, <1>6 DEF SessionsNext

\* However many streams start and end while a prompt is open, it saves the
\* transcript it asked about.
THEOREM PromptsSaveTheirOwn == SessionsSpec => []PromptSavesItsOwn
<1>1. SessionsInit => PromptInv
  BY DEF SessionsInit, PromptInv, PromptSavesItsOwn
<1>2. PromptInv => PromptSavesItsOwn
  BY DEF PromptInv
<1>3. QED BY <1>1, <1>2, SessionsStart, SessionsKeepTypes, NextPrompt, PTL DEF SessionsSpec
=============================================================================
