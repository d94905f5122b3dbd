------------------------------- MODULE MCCarga -------------------------------
(***************************************************************************)
(* Carga on small instances.                                               *)
(***************************************************************************)
EXTENDS Carga, TLC

Simetria == Permutations(Execucoes)
===============================================================================
