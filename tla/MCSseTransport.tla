--------------------------- MODULE MCSseTransport ---------------------------
(* Small instances of SseTransport: the alphabets a server sends from.     *)
EXTENDS SseTransport

Ev(i, r, u) == [id |-> i, retry |-> r, until |-> u]
Tr(i, r) == [id |-> i, retry |-> r]

MCIds == {"a", "b"}
MCRetries == {0, 50, 5000, 60000}

\* Events that end the stream, break the predicate, or only hint an interval:
\* none, zero, one below the driver's floor or one above its ceiling.
DriverEvents ==
  {Ev(None, None, "yes"), Ev("a", None, "error"), Ev(None, None, "no"),
   Ev("b", 60000, "no"), Ev(None, 0, "no"), Ev(None, 50, "no")}

\* What follows the last event of a read hints one within the limits.
StopTrails == {Tr("b", 5000)}
=============================================================================
