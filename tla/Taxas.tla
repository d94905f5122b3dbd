--------------------------------- MODULE Taxas ---------------------------------
(***************************************************************************)
(* The table of base rates as registrations leave it, each in one step:    *)
(* what the pricing of a request (module Precificacao) relies on, and what *)
(* the sessions of TaxaBaseRepo.Criar (module TaxaBase) implement.         *)
(*                                                                         *)
(* A registration closes the open rates among those that were committed    *)
(* when its UPDATE started, which may be a while ago: some first part of   *)
(* the table in the order of commits. It promises no more than that.       *)
(***************************************************************************)
EXTENDS Integers, Sequences

CONSTANTS Moedas,     \* codes in the table moedas
          Inicios,    \* values of vigencia_inicio
          Aberta      \* vigencia_fim IS NULL

VARIABLE taxas        \* the rows, in the order of commits

Init == taxas = <<>>

\* The open rows of a currency among the first n.
Abertas(m, n) == {k \in 1..n : taxas[k].moeda = m /\ taxas[k].fim = Aberta}

\* All of them must have started before; they end where the new one starts.
Registrar(m, i) ==
    \E visiveis \in 0..Len(taxas) :
        LET fechar == Abertas(m, visiveis)
        IN  /\ \A k \in fechar : taxas[k].inicio < i
            /\ taxas' = Append([k \in DOMAIN taxas |->
                                   [taxas[k] EXCEPT !.fim = IF k \in fechar THEN i ELSE @]],
                               [moeda |-> m, inicio |-> i, fim |-> Aberta])

Next == \E m \in Moedas, i \in Inicios : Registrar(m, i)

Spec == Init /\ [][Next]_taxas
================================================================================
