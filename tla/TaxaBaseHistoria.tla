--------------------------- MODULE TaxaBaseHistoria ---------------------------
(***************************************************************************)
(* TaxaBase with two history variables: in which order registrations       *)
(* committed, and how far that had gone when each UPDATE took its          *)
(* snapshot. With them the table of TaxaBase is the one of module Taxas.   *)
(***************************************************************************)
EXTENDS TaxaBase, Integers, Sequences

VARIABLES
    ordem,    \* the rows in the order of commits
    visao     \* how many there were at the snapshot of each request

historia == <<ordem, visao>>
varsH == <<vars, historia>>

InitH ==
    /\ Init
    /\ ordem = <<>>
    /\ visao = [p \in Pedidos |-> 0]

PassoH(p) ==
    \/ FotografarAbertas(p) /\ visao' = [visao EXCEPT ![p] = Len(ordem)] /\ UNCHANGED ordem
    \/ ConfirmarBD(p) /\ ordem' = Append(ordem, p) /\ UNCHANGED visao
    \/ OutroPasso(p) /\ UNCHANGED historia

NextH ==
    \/ \E p \in Pedidos : PassoH(p)
    \/ Queda /\ UNCHANGED historia

SpecH == InitH /\ [][NextH]_varsH
FairSpecH == SpecH /\ Fairness

-------------------------------------------------------------------------------
(* The abstract table.                                                     *)

Tabela ==
    [k \in DOMAIN ordem |->
        [moeda |-> moeda[ordem[k]], inicio |-> inicio[ordem[k]], fim |-> fim[ordem[k]]]]

Abstrata == INSTANCE Taxas WITH Inicios <- Instantes, taxas <- Tabela

\* Sessions that overlap, wait for locks, fail or lose their client leave the
\* table as registrations would that take effect in one step at their COMMIT,
\* each closing what was open in some earlier table (TaxaBaseRepo.Criar): what
\* one session closed and another was waiting for is never closed twice, left
\* open, or closed for a rate that is not stored.
ImplementaTaxas == Abstrata!Spec

-------------------------------------------------------------------------------
(* When rates are unique.                                                  *)

\* The row of q was not in the table yet when the UPDATE of p took its snapshot.
NaoViu(p, q) == \A k \in 1..visao[p] : ordem[k] # q

\* Two registrations of a currency, neither of which saw the other.
SemCruzamento(m) ==
    \A p, q \in Linhas(m) : p # q => ~ (NaoViu(p, q) /\ NaoViu(q, p))

\* Registrations that cross are the only way to two rates valid at one instant:
\* where each saw those committed before it, however long they waited for one
\* another's locks and whatever failed in between, there is one at most
\* (encerrarVigenciaAnterior).
UnicaSemCruzamento ==
    \A m \in Moedas : SemCruzamento(m) =>
        \A em \in Instantes : \A p, q \in Vigentes(m, em) : p = q
===============================================================================
