------------------------------ MODULE MCFpiSsm ------------------------------
(***************************************************************************)
(* Machines for FpiSsm: an outer one with cleanup states, and others that  *)
(* may run in it or after it, with and without cleanup states.             *)
(***************************************************************************)
EXTENDS FpiSsm

CONSTANTS outer, inner, leaf

MCNrStates ==
  [m \in Machines |-> CASE m = outer -> 4 [] m = inner -> 2 [] OTHER -> 1]
MCStartCleanup == [m \in Machines |-> IF m = outer THEN 2 ELSE 1]
=============================================================================
