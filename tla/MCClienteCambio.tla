---------------------------- MODULE MCClienteCambio ----------------------------
(***************************************************************************)
(* ClienteCambio on small instances.                                       *)
(***************************************************************************)
EXTENDS ClienteCambio
================================================================================
