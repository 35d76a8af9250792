------------------------- MODULE MCReflectionCache -------------------------
(* A small instance of ReflectionCache.  Calls and targets only differ in  *)
(* their names, and no property is temporal.                               *)
EXTENDS ReflectionCache, TLC

CONSTANTS t1, t2, c1, c2, c3

Symmetric == Permutations(Calls) \cup Permutations(Targets)
=============================================================================
