------------------------------- MODULE Least -------------------------------
(* The first index a loop from 0 up stops at. *)
EXTENDS Naturals

First(S) == CHOOSE i \in S : \A j \in S : i <= j
=============================================================================
