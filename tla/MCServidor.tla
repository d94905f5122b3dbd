------------------------------ MODULE MCServidor ------------------------------
(***************************************************************************)
(* Servidor on small instances.                                            *)
(***************************************************************************)
EXTENDS Servidor
===============================================================================
