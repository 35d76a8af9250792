------------------------------ MODULE Ordered ------------------------------
(* Finite sets of numbers in ascending order.                              *)
EXTENDS Naturals, FiniteSets

InOrder(E) ==
  [k \in 1..Cardinality(E) |->
     CHOOSE e \in E : Cardinality({d \in E : d <= e}) = k]

\* The members of a sequence at the given places.
Picked(s, E) == LET at == InOrder(E) IN [k \in DOMAIN at |-> s[at[k]]]
=============================================================================
