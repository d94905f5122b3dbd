----------------------------- MODULE MCPaginacao -----------------------------
(***************************************************************************)
(* Paginacao on small instances.                                           *)
(***************************************************************************)
EXTENDS Paginacao

Tudo == [status |-> Qualquer, de |-> Qualquer, ate |-> Qualquer]

\* No filter, a filter rows enter by being settled, one they leave, a period,
\* a period that ends before it starts.
FiltrosMC ==
    {Tudo,
     [Tudo EXCEPT !.status = "LIQUIDADA"],
     [Tudo EXCEPT !.status = "PENDENTE"],
     [Tudo EXCEPT !.de = 2, !.ate = 2],
     [Tudo EXCEPT !.de = 2, !.ate = 1]}
===============================================================================
