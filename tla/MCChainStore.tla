--------------------------- MODULE MCChainStore ---------------------------
(* A small instance of ChainStore: two names, two captures, two sends.     *)
EXTENDS ChainStore, TLC

CONSTANTS login, other, tok, alt, p, q, v1, v2

Open(cap, path) == [cap |-> cap, path |-> path, typed |-> FALSE, secret |-> FALSE]
Secret(cap, path) == [cap |-> cap, path |-> path, typed |-> TRUE, secret |-> TRUE]
NoRef == [kind |-> "none"]
ResponseRef(n, path) == [kind |-> "response", name |-> n, path |-> path]
Req(name, directives, ref) == [name |-> name, captures |-> directives, ref |-> ref]

\* One name's secret also wanted by another and by unnamed requests; twice in
\* one request; a capture that hides a secret; references to all of them.
MCRequests ==
  {Req(login, <<Secret(tok, p)>>, NoRef),
   Req(login, <<Open(tok, q), Secret(tok, p)>>, [kind |-> "capture", cap |-> alt]),
   Req(other, <<Secret(tok, p), Secret(alt, q)>>, ResponseRef(login, p)),
   Req(Unnamed, <<Secret(tok, q), Secret(alt, p)>>, [kind |-> "request", name |-> other]),
   Req(Invalid, <<Secret(alt, p)>>, NoRef)}

\* Two secrets, one and nothing or an empty one, or nothing at all.
MCResponses ==
  [Paths -> {v1, v2}] \cup {[x \in Paths |-> None]}
  \cup {(p :> v @@ q :> None) : v \in {v1, v2}}
  \cup {(p :> Blank @@ q :> v) : v \in {v1, v2}}

Interchangeable == Permutations(Sends) \cup Permutations({v1, v2})
=============================================================================
