--------------------------- MODULE MCRequestsTree ---------------------------
(* A small instance of RequestsTree: one folder with an .http file in a     *)
(* directory, and one with a .grpc file.                                    *)
EXTENDS RequestsTree, TLC

CONSTANTS root, w1, w2, dir, http, grpc

MCParent == dir :> w1 @@ http :> dir @@ grpc :> w2

Request(line, method, tags, favorite) ==
  [line |-> line, method |-> method, name |-> tags, url |-> tags,
   tags |-> tags, words |-> tags, favorite |-> favorite]

\* One request; another at its line and a favorite; a file that is too large
\* to search.
One == Request(1, "GET", {"a"}, FALSE)
Two == Request(1, "POST", {"b"}, FALSE)
Liked == Request(2, "GET", {"a", "b"}, TRUE)
Unnamed == [Request(3, "GET", {}, FALSE) EXCEPT !.url = {"a"}]
MCTexts ==
  http :> {[big |-> FALSE, requests |-> <<One>>],
           [big |-> TRUE, requests |-> <<Two, Liked, Unnamed>>]} @@
  grpc :> {[big |-> FALSE, requests |-> <<Liked>>]}

MCEarlier == {<<>>, <<Recorded(http, One), Recorded(http, Liked)>>}

MCQueries ==
  [method |-> {None, "GET"}, name |-> {None, "a"}, url |-> {None, "a"},
   tag |-> {None, "b"}, text |-> {None, "b"}]

\* The window starts with both files on the disk.
MCInit == Init /\ open = {w1} /\ \A f \in Files : disk[f] # None
MCSpec == MCInit /\ [][Next]_vars
=============================================================================
