--------------------------- MODULE MCEnvManager ---------------------------
(* A small instance of EnvManager: two environments and two variables.     *)
EXTENDS EnvManager, TLC

CONSTANTS default, staging, url, token

Defines(u, t) == url :> u @@ token :> t

\* Both environments, and one alone.
MCFiles ==
  {default :> Defines("plain", "plain") @@ staging :> Defines("secret", "secret"),
   staging :> Defines("absent", "secret")}

\* The reloads are interchangeable.
Symmetric == Permutations(Reloads)
=============================================================================
