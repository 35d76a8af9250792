----------------------------- MODULE SseStream -----------------------------
(***************************************************************************)
(* What one "Send Request" on an SSE endpoint promises its user, without   *)
(* saying how: connections are opened, events are delivered, the user may  *)
(* stop the stream at any time, and the run settles once with an outcome   *)
(* that tells the truth about why it ended.  SseTransport implements it.   *)
(***************************************************************************)
EXTENDS Naturals

CONSTANT Budget    \* how many connections one run may open

VARIABLES
  stopped,    \* the user (or deactivation) has aborted the stream's signal
  opened,     \* connections started so far
  delivered,  \* events handed to the consumer so far
  final,      \* the @sse-until predicate has matched a delivered event
  outcome     \* "live" until the run settles

streamVars == <<stopped, opened, delivered, final, outcome>>

Reasons == {"aborted", "until-matched", "max-events", "max-duration",
            "idle-timeout", "reconnect-limit", "failed"}

Init ==
  /\ stopped = FALSE
  /\ opened = 0
  /\ delivered = 0
  /\ final = FALSE
  /\ outcome = "live"

Live == outcome = "live"

\* A connection is only ever started for a stream the user still wants.
Open ==
  /\ Live /\ ~stopped /\ ~final
  /\ opened < Budget
  /\ opened' = opened + 1
  /\ UNCHANGED <<stopped, delivered, final, outcome>>

\* The same holds for an event; it always comes from some connection.
Deliver ==
  /\ Live /\ ~stopped /\ ~final
  /\ opened > 0
  /\ delivered' = delivered + 1
  /\ UNCHANGED <<stopped, opened, final, outcome>>

\* The predicate is evaluated on an event already delivered, possibly one
\* whose delivery was under way when the stop came.
Match ==
  /\ Live /\ delivered > 0
  /\ final' = TRUE
  /\ UNCHANGED <<stopped, opened, delivered, outcome>>

Stop ==
  /\ Live /\ ~stopped
  /\ stopped' = TRUE
  /\ UNCHANGED <<opened, delivered, final, outcome>>

\* The reported reason is justified: "aborted" needs a stop, a match is
\* reported as a match whatever else happened since, and a stopped stream is
\* never blamed on the reconnect budget.
Justified(o) ==
  /\ (o = "aborted") => stopped
  /\ (o = "until-matched") <=> final
  /\ (o = "max-events") => delivered > 0
  /\ (o = "reconnect-limit") => (~stopped /\ opened = Budget)

Settle ==
  /\ Live
  /\ \E o \in Reasons : Justified(o) /\ outcome' = o
  /\ UNCHANGED <<stopped, opened, delivered, final>>

Next == Open \/ Deliver \/ Match \/ Stop \/ Settle

Spec == Init /\ [][Next]_streamVars
=============================================================================
