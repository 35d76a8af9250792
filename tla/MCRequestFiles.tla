--------------------------- MODULE MCRequestFiles ---------------------------
(* A small instance of RequestFiles: two folders, one directory below each   *)
(* .requests, and one import, of two files and one variable.                 *)
EXTENDS RequestFiles, TLC

CONSTANTS w1, w2, top, sub, keep, hello, var, other, local, user, c1, c2

MCParent == sub :> top
MCScaffold == <<hello, keep>>
MCImports == {[files |-> <<>>, vars |-> {}],
              [files |-> <<hello, keep>>, vars |-> {var}]}

Symmetric == Permutations(Commands)

\* One folder has its directories, a file and an environment; the other, when
\* it is open, has nothing yet.
MCInit ==
  /\ Init
  /\ w1 \in open
  /\ \A p \in Places : dirs[p] = IF p[1] = w1 THEN "dir" ELSE "missing"
  /\ disk = [f \in Files |-> IF f = [ws |-> w1, dir |-> top, name |-> hello]
                            THEN user ELSE None]
  /\ env[w1] = [state |-> "valid",
                entries |-> {[env |-> local, var |-> var, by |-> user],
                             [env |-> local, var |-> other, by |-> user]}]
  /\ env[w2].state = "missing"
MCSpec == MCInit /\ [][Next]_vars
=============================================================================
