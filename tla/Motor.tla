--------------------------------- MODULE Motor ---------------------------------
(***************************************************************************)
(* The amounts: what the pricing engine computes, what the database keeps  *)
(* of it at the scale of its columns, and the exchange quotes that change  *)
(* meanwhile. How a request finds its rate and quote by date is the matter *)
(* of module Precificacao; here an operation carries its base rate.        *)
(*                                                                         *)
(* Amounts are counted in mils, thousandths of the currency, and rates in  *)
(* units of 1/Um; on the way they are fractions [n, d]. The discount       *)
(* factor is the decimal that the library's power returns, any fraction    *)
(* for all this module says of it (Pow); sums, quotients and products of   *)
(* the code's 34 digits are exact here. The present value is kept to the   *)
(* mil where the code keeps eight places.                                  *)
(*                                                                         *)
(* A definition commented "Fault:" is not part of the model: it is its     *)
(* successor with a plausible bug, which some property has to notice.      *)
(***************************************************************************)
EXTENDS Integers

CONSTANTS Pedidos,        \* requests; one that is stored is its transaction
          Operacoes,      \* what prepararEntrada may come with
          Cotacoes,       \* quotes given to POST /cotacoes, in hundredths
          Um,             \* units of rate in 1: 10^10 in the code
          Pow,            \* Pow[base, dias]: what Decimal.Pow returns for (base / Um)^(dias / 30)
          NaoFinito,      \* a face value such as Infinity
          Recusado,       \* the engine returned an error
          Nenhum

\* Spread of each strategy of DefaultRegistry.
Spread == [DUPLICATA_MERCANTIL |-> 15 * (Um \div 1000), CHEQUE_PRE_DATADO |-> 25 * (Um \div 1000)]

\* 1 + taxa base + spread.
Base(o) == Um + o.taxa + Spread[o.tipo]

\* base.Pow(prazo), prazo being dias / 30.
Fator(o) == Pow[Base(o), o.dias]

\* What the engine returns, and the row that is made of it.
Resultado == [vp : Int, liquido : Int, desagio : Int]
Transacao == [face : Nat \ {0}, vp : Int, liquido : Int, desagio : Int,
              taxa : Nat \ {0}, spread : Nat, cotacao : (Nat \ {0}) \cup {Nenhum}]

ASSUME MotorAssumption ==
    /\ {Nenhum, Recusado, NaoFinito} \cap Int = {}
    /\ {Nenhum, Recusado} \cap Resultado = {} /\ Nenhum \notin Transacao
    /\ Nenhum # Recusado
    /\ Cotacoes \subseteq Int
    /\ Um \in Nat \ {0} /\ Um % 1000 = 0
    /\ Nenhum \notin Operacoes
    /\ Operacoes \subseteq [face : Int \cup {NaoFinito}, dias : Int, taxa : Nat \ {0},
                            tipo : DOMAIN Spread, cambio : BOOLEAN]

\* A power of a positive base is a positive decimal. Nothing else is asked of
\* Pow, but for the order of costs.
ASSUME FatorAssumption ==
    \A o \in Operacoes : o.dias > 0 => Fator(o) \in [n : Nat \ {0}, d : Nat \ {0}]

\* Powers of more than 1 are more than 1, and more for a longer term at a higher
\* rate, rounded as they may be: a day, or the last place of a rate, makes a
\* difference that 34 digits do not lose.
ASSUME FatorCrescente ==
    \A o, u \in Operacoes : u.dias > 0 =>
        /\ Fator(u).d < Fator(u).n
        /\ o.dias >= u.dias /\ Base(o) >= Base(u) =>
              Fator(u).n * Fator(o).d <= Fator(o).n * Fator(u).d

VARIABLES
    cotacao,      \* the quote in force, in tenths, or Nenhum
    operacao,     \* the operation of each request
    aplicada,     \* the quote it was given
    resultado,    \* what the engine made of it
    linha         \* the row of its transaction

vars == <<cotacao, operacao, aplicada, resultado, linha>>

TypeOK ==
    /\ cotacao \in (Nat \ {0}) \cup {Nenhum}
    /\ operacao \in [Pedidos -> Operacoes \cup {Nenhum}]
    /\ aplicada \in [Pedidos -> (Nat \ {0}) \cup {Nenhum}]
    /\ resultado \in [Pedidos -> Resultado \cup {Nenhum, Recusado}]
    /\ linha \in [Pedidos -> Transacao \cup {Nenhum}]

Init ==
    /\ cotacao = Nenhum
    /\ operacao = [p \in Pedidos |-> Nenhum]
    /\ aplicada = [p \in Pedidos |-> Nenhum]
    /\ resultado = [p \in Pedidos |-> Nenhum]
    /\ linha = [p \in Pedidos |-> Nenhum]

--------------------------------------------------------------------------------
(* Decimals.                                                               *)

\* RoundHalfUp of apd, and the rounding of NUMERIC: a half goes away from zero.
Arredondar(n, d) ==
    IF n >= 0 THEN (2 * n + d) \div (2 * d) ELSE - ((d - 2 * n) \div (2 * d))

\* Decimal.Quantize to a multiple of so many mils.
Quantizar(x, passo) == Arredondar(x.n, x.d * passo)

Mil == 1
Centavo == 10

\* Decimal.Div by the factor.
Descontar(x, o) == [n |-> x.n * Fator(o).d, d |-> x.d * Fator(o).n]

--------------------------------------------------------------------------------
(* The engine.                                                             *)

\* validarPrazo, MustFinite. A term, a rate or a quote that is not positive are
\* the other refusals; a finite operation has the last two from the database.
Recusada(o, cot) ==
    \/ o.dias <= 0
    \/ o.face = NaoFinito
    \/ Base(o) <= 0
    \/ o.cambio /\ cot <= 0

\* Fault: the one reverted in docs/incidente.md, conversion before the discount
\* (and after it).
calcularValorPresenteConvertido(o, cot) ==
    Descontar(IF o.cambio THEN [n |-> 10 * o.face, d |-> cot] ELSE [n |-> o.face, d |-> 1], o)

\* VP = VF / (1 + Taxa Base + Spread)^Prazo, the quote being no part of it.
calcularValorPresente(o, cot) == Descontar([n |-> o.face, d |-> 1], o)

\* Fault: the quote multiplies.
converterParaMoedaPagamentoMultiplicando(o, cot, vp) ==
    IF o.cambio THEN [n |-> vp.n * cot, d |-> 10 * vp.d] ELSE vp

converterParaMoedaPagamento(o, cot, vp) ==
    IF o.cambio THEN [n |-> 10 * vp.n, d |-> vp.d * cot] ELSE vp

\* Fault: the conversion starts from the present value as it is stored.
finalizarValoresDuasVezes(o, cot, vp) ==
    LET vp8 == Quantizar(vp, Mil)
        liquido == Quantizar(converterParaMoedaPagamento(o, cot, [n |-> vp8, d |-> 1]), Centavo)
    IN  [vp |-> vp8, liquido |-> liquido, desagio |-> o.face - Centavo * liquido]

\* The present value is rounded for the record and converted as it was; the
\* discount is exact, in mils, and the only one to see the net amount rounded.
finalizarValores(o, cot, vp) ==
    LET liquido == Quantizar(converterParaMoedaPagamento(o, cot, vp), Centavo)
    IN  [vp |-> Quantizar(vp, Mil), liquido |-> liquido,
         desagio |-> o.face - Centavo * liquido]

Motor(o, cot) == finalizarValores(o, cot, calcularValorPresente(o, cot))

--------------------------------------------------------------------------------
(* The steps.                                                              *)

\* Fault: the column without its CHECK.
RegistrarCotacaoSemCheck(v) ==
    /\ v > 0
    /\ cotacao' = Arredondar(v, 10)
    /\ UNCHANGED <<operacao, aplicada, resultado, linha>>

\* POST /cotacoes: the handler wants it positive, the column rounds it, and
\* ck_cotacoes_taxa_positiva wants the rounded one positive.
RegistrarCotacao(v) ==
    /\ v > 0 /\ Arredondar(v, 10) > 0
    /\ cotacao' = Arredondar(v, 10)
    /\ UNCHANGED <<operacao, aplicada, resultado, linha>>

\* prepararEntrada found the rate, and the quote when it takes one; Precificar.
Precificar(p, o) ==
    /\ operacao[p] = Nenhum
    /\ o.cambio => cotacao # Nenhum
    /\ operacao' = [operacao EXCEPT ![p] = o]
    /\ aplicada' = [aplicada EXCEPT ![p] = IF o.cambio THEN cotacao ELSE Nenhum]
    /\ resultado' = [resultado EXCEPT ![p] =
                        IF Recusada(o, cotacao) THEN Recusado ELSE Motor(o, cotacao)]
    /\ UNCHANGED <<cotacao, linha>>

\* Fault: the discount is stored as an integer number of cents too soon.
montarTransacaoTruncada(p) ==
    LET o == operacao[p]
        r == resultado[p]
    IN  [face |-> Arredondar(o.face, Centavo), vp |-> r.vp, liquido |-> r.liquido,
         desagio |-> r.desagio \div Centavo,
         taxa |-> o.taxa, spread |-> Spread[o.tipo], cotacao |-> aplicada[p]]

\* Fault: the quote is looked up once more for the row.
montarTransacaoCotacaoAtual(p) ==
    LET o == operacao[p]
        r == resultado[p]
    IN  [face |-> Arredondar(o.face, Centavo), vp |-> r.vp, liquido |-> r.liquido,
         desagio |-> Arredondar(r.desagio, Centavo), taxa |-> o.taxa,
         spread |-> Spread[o.tipo], cotacao |-> IF o.cambio THEN cotacao ELSE Nenhum]

\* The row in cents, the present value in mils: NUMERIC(20, 2), NUMERIC(24, 8).
\* The rates have the scale they were stored with.
montarTransacao(p) ==
    LET o == operacao[p]
        r == resultado[p]
    IN  [face |-> Arredondar(o.face, Centavo), vp |-> r.vp, liquido |-> r.liquido,
         desagio |-> Arredondar(r.desagio, Centavo),
         taxa |-> o.taxa, spread |-> Spread[o.tipo], cotacao |-> aplicada[p]]

\* Fault: the column without its CHECK.
GravarSemCheck(p) ==
    /\ resultado[p] \notin {Nenhum, Recusado} /\ linha[p] = Nenhum
    /\ linha' = [linha EXCEPT ![p] = montarTransacao(p)]
    /\ UNCHANGED <<cotacao, operacao, aplicada, resultado>>

\* TransacaoRepo.Criar; ck_transacoes_valor_face refuses what is no cent. A
\* simulation has no such step.
Gravar(p) ==
    /\ resultado[p] \notin {Nenhum, Recusado} /\ linha[p] = Nenhum
    /\ montarTransacao(p).face > 0
    /\ linha' = [linha EXCEPT ![p] = montarTransacao(p)]
    /\ UNCHANGED <<cotacao, operacao, aplicada, resultado>>

Next ==
    \/ \E v \in Cotacoes : RegistrarCotacao(v)
    \/ \E p \in Pedidos :
          \/ \E o \in Operacoes : Precificar(p, o)
          \/ Gravar(p)

Spec == Init /\ [][Next]_vars

--------------------------------------------------------------------------------
(* Properties.                                                             *)

Precificados == {p \in Pedidos : resultado[p] \notin {Nenhum, Recusado}}
Gravados == {p \in Pedidos : linha[p] # Nenhum}
Modulo(n) == IF n < 0 THEN -n ELSE n

\* The net amount is the nearest cent to VF / base.Pow(prazo) / quote, ties away
\* from zero, whatever Pow returned: one rounding after it, at the end (ADR-005).
UmSoArredondamento ==
    \A p \in Precificados :
        LET o == operacao[p]
            exato == Descontar([n |-> o.face * IF o.cambio THEN 10 ELSE 1,
                                d |-> Centavo * IF o.cambio THEN aplicada[p] ELSE 1], o)
            erro == 2 * (resultado[p].liquido * exato.d - exato.n)
        IN  /\ Modulo(erro) <= exato.d
            /\ Modulo(erro) = exato.d =>
                  Modulo(resultado[p].liquido) * exato.d > Modulo(exato.n)

\* The present value is that of the title: the same operation has the same one
\* under any quote, whatever currency it is paid in (docs/incidente.md).
VPIndependeDaCotacao ==
    \A p, q \in Precificados :
        [operacao[p] EXCEPT !.cambio = FALSE] = [operacao[q] EXCEPT !.cambio = FALSE]
        => resultado[p].vp = resultado[q].vp

\* p costs at least as much as q: it is longer, riskier, or paid in a currency
\* that is worth more.
CustaMais(p, q) ==
    /\ operacao[p].face = operacao[q].face
    /\ operacao[p].dias >= operacao[q].dias
    /\ Base(operacao[p]) >= Base(operacao[q])
    /\ operacao[p].cambio = operacao[q].cambio
    /\ operacao[p].cambio => aplicada[p] >= aplicada[q]

\* Rounding never turns the order of two transactions round: the one that costs
\* more pays no more, and in its own currency none pays more than its face value
\* (calcularValorPresente, converterParaMoedaPagamento).
CustoNaoRende ==
    \A p, q \in Gravados :
        /\ CustaMais(p, q) => linha[p].liquido <= linha[q].liquido
        /\ ~ operacao[p].cambio => linha[p].liquido <= linha[p].face /\ linha[p].desagio >= 0

\* In a row the net amount and the discount make up the face value, each rounded
\* by itself; a cent may be missing only when the discount is negative and the
\* face value came with less than a cent (montarTransacao).
LinhaFecha ==
    \A p \in Gravados :
        LET resto == linha[p].face - linha[p].liquido - linha[p].desagio
        IN  /\ resto \in {0, 1}
            /\ resto = 1 => linha[p].desagio < 0 /\ operacao[p].face % Centavo # 0

\* A row prices again to itself from what it keeps, its rates and its quote at
\* the scale of their columns, provided that its face value is one in cents
\* (ADR-004, ADR-005).
Recalculavel ==
    \A p \in Gravados : operacao[p].face % Centavo = 0 =>
        LET l == linha[p]
            r == Motor([operacao[p] EXCEPT !.face = Centavo * l.face, !.taxa = l.taxa], l.cotacao)
        IN  <<r.vp, r.liquido, r.desagio>> = <<l.vp, l.liquido, Centavo * l.desagio>>

\* The engine refuses a term or a face value, never what the database gave it:
\* no stored quote is zero, however small the one that was registered
\* (BaseNaoPositivaError, CotacaoInvalidaError are unreachable).
RecusaEDoPedido ==
    \A p \in Pedidos : resultado[p] = Recusado =>
        operacao[p].dias <= 0 \/ operacao[p].face = NaoFinito
================================================================================
