---------------------------- MODULE MCPrecificacao ----------------------------
(***************************************************************************)
(* Precificacao on small instances.                                        *)
(***************************************************************************)
EXTENDS Precificacao, TLC

CONSTANTS BRL, USD, XXX

\* A title in BRL paid in BRL, priced today, due in three days.
Simples ==
    [valor_face |-> "positivo", moeda_titulo |-> BRL, moeda_pagamento |-> BRL,
     tipo_recebivel |-> "DUPLICATA_MERCANTIL", cedente_id |-> 1,
     data_vencimento |-> 3, data_operacao |-> Ausente]

Cambio == [Simples EXCEPT !.moeda_pagamento = USD, !.data_operacao = 1]

\* The date left out, the date given, and what a caller may get wrong.
CorposMC ==
    {Simples, Cambio,
     [Simples EXCEPT !.valor_face = "invalido"],
     [Simples EXCEPT !.valor_face = "naoPositivo"],
     [Simples EXCEPT !.valor_face = "foraDeAlcance"],
     [Simples EXCEPT !.moeda_pagamento = XXX],
     [Simples EXCEPT !.tipo_recebivel = "OUTRO"],
     [Simples EXCEPT !.cedente_id = 2],
     [Simples EXCEPT !.data_operacao = Invalida],
     [Simples EXCEPT !.data_vencimento = 0, !.data_operacao = 0]}

CorposCertos == {Simples, Cambio}
===============================================================================
