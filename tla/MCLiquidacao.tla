----------------------------- MODULE MCLiquidacao -----------------------------
(***************************************************************************)
(* Liquidacao on small instances. Requests are interchangeable, but with   *)
(* liveness among the properties no symmetry is taken.                     *)
(***************************************************************************)
EXTENDS Liquidacao
===============================================================================
