--------------------------- MODULE MCSseSessions ---------------------------
(* A small instance of SseSessions: the requests are interchangeable.      *)
EXTENDS SseSessions, TLC

Interchangeable == Permutations(Sessions)
=============================================================================
