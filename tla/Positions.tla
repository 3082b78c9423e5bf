------------------------------ MODULE Positions ------------------------------
(***************************************************************************)
(* Which places of an array Array.prototype.filter keeps, and in which     *)
(* order: that of the array.                                               *)
(***************************************************************************)
EXTENDS Naturals, FiniteSets

\* The member of a set of numbers that is the k-th from below.
Nth(S, k) == CHOOSE i \in S : Cardinality({j \in S : j <= i}) = k
==============================================================================
