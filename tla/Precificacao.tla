----------------------------- MODULE Precificacao -----------------------------
(***************************************************************************)
(* Pricing requests, POST /api/v1/simulacoes and POST /api/v1/transacoes,  *)
(* as ServicoPrecificacao runs them: one statement after another on the    *)
(* pool, with no transaction around them, while base rates and exchange    *)
(* quotes are registered. Money is left out: a rate or a quote is the row  *)
(* it was read from. Time is counted in instants, Dia of them in a day of  *)
(* UTC, and America/Sao_Paulo is Fuso instants behind.                     *)
(*                                                                         *)
(* Currencies and receivable types are reference data: nothing writes      *)
(* them, so the reads that only look one up are part of the next step.     *)
(*                                                                         *)
(* A definition commented "Fault:" is not part of the model: it is its     *)
(* successor with a plausible bug, which some property has to notice.      *)
(***************************************************************************)
EXTENDS Integers, Sequences

CONSTANTS Pedidos,      \* requests; each carries the UUID of the row it inserts
          Corpos,       \* request bodies
          Moedas,       \* codes in the table moedas
          Tipos,        \* active codes in tipos_recebivel, all in the strategy registry
          Cedentes,     \* ids in the table cedentes
          Inicios,      \* values of vigencia_inicio
          Dia, Fuso,    \* instants in a day, instants America/Sao_Paulo is behind UTC
          RelogioMax, TaxasMax, CotacoesMax,   \* bounds of the exploration
          Ausente,      \* data_operacao is not given
          Invalida,     \* a date that does not parse
          Aberta,       \* vigencia_fim IS NULL
          Nenhuma       \* no row, no rate, no quote

\* The 422 codes; 200, 201, 404 and 500 are the other answers.
Recusas == {"entrada_invalida", "moeda_invalida", "tipo_invalido",
            "taxa_ausente", "cotacao_ausente"}
Respostas == Recusas \cup {"200", "201", "nao_encontrado", "erro_interno"}

ASSUME PrecificacaoAssumption ==
    /\ Dia \in Nat \ {0} /\ Fuso \in 0..(Dia - 1)
    /\ RelogioMax \in Nat /\ RelogioMax >= Fuso /\ TaxasMax \in Nat /\ CotacoesMax \in Nat
    /\ Inicios \subseteq Nat
    /\ \A x \in {Ausente, Invalida, Aberta, Nenhuma} : x \notin Int
    /\ Nenhuma \notin Respostas
    /\ \A c \in Corpos :
          /\ c.valor_face \in {"positivo", "naoPositivo", "foraDeAlcance", "invalido"}
          /\ c.data_vencimento \in Int \cup {Invalida}
          /\ c.data_operacao \in Int \cup {Ausente, Invalida}

VARIABLES
    relogio,                 \* the current instant
    taxas, cotacoes,         \* committed tables, in the order of registration
    transacoes,              \* committed table: the rows of the requests that have one
    corpo, quer,             \* body and operation of each request
    leitura,                 \* what each request has read so far
    pc, resposta,            \* handlers: where they are, what they answer
    falhou                   \* history: a statement of the request failed

tabelas == <<taxas, cotacoes, transacoes>>
vars == <<relogio, tabelas, corpo, quer, leitura, pc, resposta, falhou>>

EmCurso == {"preparar", "taxa", "cotacao", "motor", "referencias", "inserir", "reler"}

\* dataOp with its date, what was found, and (history) how much of each table
\* was there when it was looked up.
LeituraVazia ==
    [em |-> 0, data |-> 0, taxa |-> Nenhuma, cotacao |-> Nenhuma,
     taxasVistas |-> 0, cotacoesVistas |-> 0]

TypeOK ==
    /\ relogio \in Fuso..RelogioMax
    /\ \A k \in DOMAIN taxas :
          taxas[k] \in [moeda : Moedas, inicio : Inicios, fim : Inicios \cup {Aberta}]
    /\ \A k \in DOMAIN cotacoes :
          cotacoes[k] \in [base : Moedas, cotacao : Moedas, inicio : Inicios]
    /\ \A p \in Pedidos :
          /\ corpo[p] \in Corpos \cup {Nenhuma}
          /\ quer[p] \in {"simular", "criar", Nenhuma}
          /\ leitura[p] \in [em : Int, data : Int,
                             taxa : DOMAIN taxas \cup {Nenhuma},
                             cotacao : DOMAIN cotacoes \cup {Nenhuma},
                             taxasVistas : 0..Len(taxas),
                             cotacoesVistas : 0..Len(cotacoes)]
          /\ pc[p] \in EmCurso \cup {"livre", "respondido", "perdido"}
          /\ resposta[p] \in Respostas \cup {Nenhuma}
          /\ falhou[p] \in BOOLEAN
    /\ DOMAIN transacoes \subseteq Pedidos
    /\ \A p \in DOMAIN transacoes :
          transacoes[p] \in [titulo : Moedas, pagamento : Moedas, data : Int,
                             vencimento : Int, taxa : DOMAIN taxas,
                             cotacao : DOMAIN cotacoes \cup {Nenhuma}]

Init ==
    /\ relogio = Fuso
    /\ taxas = <<>> /\ cotacoes = <<>>
    /\ transacoes = <<>>
    /\ corpo = [p \in Pedidos |-> Nenhuma]
    /\ quer = [p \in Pedidos |-> Nenhuma]
    /\ leitura = [p \in Pedidos |-> LeituraVazia]
    /\ pc = [p \in Pedidos |-> "livre"]
    /\ resposta = [p \in Pedidos |-> Nenhuma]
    /\ falhou = [p \in Pedidos |-> FALSE]

-------------------------------------------------------------------------------
(* The tables of rates and quotes.                                         *)

\* The rows with the latest start in a set of rows: ORDER BY vigencia_inicio
\* DESC LIMIT 1 returns any of them.
MaisRecentes(tabela, S) == {k \in S : \A j \in S : tabela[j].inicio <= tabela[k].inicio}

\* Fault: only open rates are looked up, the current rate for any date.
TaxasVigentesSoAbertas(m, em) ==
    MaisRecentes(taxas,
        {k \in DOMAIN taxas : taxas[k].moeda = m /\ taxas[k].inicio <= em /\ taxas[k].fim = Aberta})

\* TaxaBaseRepo.Vigente
TaxasVigentes(m, em) ==
    MaisRecentes(taxas,
        {k \in DOMAIN taxas :
            /\ taxas[k].moeda = m
            /\ taxas[k].inicio <= em
            /\ taxas[k].fim = Aberta \/ taxas[k].fim > em})

\* Fault: the pair is looked up the other way round.
DoParInvertido(b, c) == {k \in DOMAIN cotacoes : cotacoes[k].base = c /\ cotacoes[k].cotacao = b}

\* Rows of a pair of currencies.
DoPar(b, c) == {k \in DOMAIN cotacoes : cotacoes[k].base = b /\ cotacoes[k].cotacao = c}

\* CotacaoRepo.Vigente; nothing ever writes vigencia_fim of a quote.
CotacoesVigentes(b, c, em) ==
    MaisRecentes(cotacoes, {k \in DoPar(b, c) : cotacoes[k].inicio <= em})

\* TaxaBaseRepo.Criar, in one step: what its sessions come to (module TaxaBase).
Tabela == INSTANCE Taxas

RegistrarTaxa(m, i) ==
    /\ Len(taxas) < TaxasMax
    /\ Tabela!Registrar(m, i)
    /\ UNCHANGED <<relogio, cotacoes, transacoes, corpo, quer, leitura, pc, resposta, falhou>>

\* CotacaoRepo.Criar: an INSERT alone, refused by ck_cotacoes_pares.
RegistrarCotacao(b, c, i) ==
    /\ Len(cotacoes) < CotacoesMax
    /\ b # c
    /\ cotacoes' = Append(cotacoes, [base |-> b, cotacao |-> c, inicio |-> i])
    /\ UNCHANGED <<relogio, taxas, transacoes, corpo, quer, leitura, pc, resposta, falhou>>

Passar ==
    /\ relogio < RelogioMax
    /\ relogio' = relogio + 1
    /\ UNCHANGED <<tabelas, corpo, quer, leitura, pc, resposta, falhou>>

-------------------------------------------------------------------------------
(* A request.                                                              *)

Ir(p, destino) == pc' = [pc EXCEPT ![p] = destino] /\ UNCHANGED resposta

Responder(p, r) ==
    /\ pc' = [pc EXCEPT ![p] = "respondido"]
    /\ resposta' = [resposta EXCEPT ![p] = r]

Receber(p, c, q) ==
    /\ pc[p] = "livre"
    /\ corpo' = [corpo EXCEPT ![p] = c]
    /\ quer' = [quer EXCEPT ![p] = q]
    /\ Ir(p, "preparar")
    /\ UNCHANGED <<relogio, tabelas, leitura, falhou>>

\* The refusal of prepararEntrada up to parseDatas, Nenhuma when there is none.
RecusaDaEntrada(c) ==
    IF c.valor_face = "invalido" THEN "entrada_invalida"
    ELSE IF ~ ({c.moeda_titulo, c.moeda_pagamento} \subseteq Moedas) THEN "moeda_invalida"
    ELSE IF Invalida \in {c.data_vencimento, c.data_operacao} THEN "entrada_invalida"
    ELSE Nenhuma

\* Fault: the offset is added instead of taken away.
DataLocalAdiantada(instante) == (instante + Fuso) \div Dia

\* OperacaoDataCorrente: the date on the calendar of America/Sao_Paulo.
DataLocal(instante) == (instante - Fuso) \div Dia

\* The instant a date stands for, in UTC.
MeiaNoite(data) == Dia * data

\* parseDatas: a date that is given is its midnight; one that is not is the
\* present instant, with its hour.
Datar(c) ==
    IF c.data_operacao = Ausente
      THEN [LeituraVazia EXCEPT !.em = relogio, !.data = DataLocal(relogio)]
      ELSE [LeituraVazia EXCEPT !.em = MeiaNoite(c.data_operacao), !.data = c.data_operacao]

Preparar(p) ==
    /\ pc[p] = "preparar"
    /\ LET c == corpo[p]
           recusa == RecusaDaEntrada(c)
       IN  \/ /\ recusa = Nenhuma
              /\ leitura' = [leitura EXCEPT ![p] = Datar(c)]
              /\ Ir(p, "taxa")
           \/ recusa # Nenhuma /\ Responder(p, recusa) /\ UNCHANGED leitura
    /\ UNCHANGED <<relogio, tabelas, corpo, quer, falhou>>

\* validarTipoEResolverTaxa
LerTaxa(p) ==
    /\ pc[p] = "taxa"
    /\ LET c == corpo[p]
           achadas == TaxasVigentes(c.moeda_titulo, leitura[p].em)
       IN  \/ /\ c.tipo_recebivel \notin Tipos
              /\ Responder(p, "tipo_invalido")
              /\ UNCHANGED leitura
           \/ /\ c.tipo_recebivel \in Tipos /\ achadas = {}
              /\ leitura' = [leitura EXCEPT ![p].taxasVistas = Len(taxas)]
              /\ Responder(p, "taxa_ausente")
           \/ /\ c.tipo_recebivel \in Tipos
              /\ \E k \in achadas :
                    leitura' = [leitura EXCEPT ![p].taxa = k, ![p].taxasVistas = Len(taxas)]
              /\ Ir(p, "cotacao")
    /\ UNCHANGED <<relogio, tabelas, corpo, quer, falhou>>

\* aplicarCotacaoSeNecessario
LerCotacao(p) ==
    /\ pc[p] = "cotacao"
    /\ LET c == corpo[p]
           achadas == CotacoesVigentes(c.moeda_pagamento, c.moeda_titulo, leitura[p].em)
       IN  \/ /\ c.moeda_titulo = c.moeda_pagamento
              /\ Ir(p, "motor")
              /\ UNCHANGED leitura
           \/ /\ c.moeda_titulo # c.moeda_pagamento /\ achadas = {}
              /\ leitura' = [leitura EXCEPT ![p].cotacoesVistas = Len(cotacoes)]
              /\ Responder(p, "cotacao_ausente")
           \/ /\ c.moeda_titulo # c.moeda_pagamento
              /\ \E k \in achadas :
                    leitura' = [leitura EXCEPT ![p].cotacao = k,
                                               ![p].cotacoesVistas = Len(cotacoes)]
              /\ Ir(p, "motor")
    /\ UNCHANGED <<relogio, tabelas, corpo, quer, falhou>>

\* validarPrazo
PrazoValido(p) == corpo[p].data_vencimento > leitura[p].data

\* The motor refuses the term, or an amount on the way is not finite; its errors
\* are none of those ClassificarErro knows.
FalharNoMotor(p) ==
    /\ pc[p] = "motor"
    /\ ~ PrazoValido(p) \/ corpo[p].valor_face = "foraDeAlcance"
    /\ Responder(p, "erro_interno")
    /\ UNCHANGED <<relogio, tabelas, corpo, quer, leitura, falhou>>

\* A simulation ends when it is priced.
Simular(p) ==
    /\ pc[p] = "motor" /\ quer[p] = "simular"
    /\ PrazoValido(p)
    /\ Responder(p, "200")
    /\ UNCHANGED <<relogio, tabelas, corpo, quer, leitura, falhou>>

Precificar(p) ==
    /\ pc[p] = "motor" /\ quer[p] = "criar"
    /\ PrazoValido(p)
    /\ Ir(p, "referencias")
    /\ UNCHANGED <<relogio, tabelas, corpo, quer, leitura, falhou>>

ResolverReferencias(p) ==
    /\ pc[p] = "referencias"
    /\ IF corpo[p].cedente_id \in Cedentes THEN Ir(p, "inserir")
       ELSE Responder(p, "nao_encontrado")
    /\ UNCHANGED <<relogio, tabelas, corpo, quer, leitura, falhou>>

montarTransacao(p) ==
    [titulo |-> corpo[p].moeda_titulo, pagamento |-> corpo[p].moeda_pagamento,
     data |-> leitura[p].data, vencimento |-> corpo[p].data_vencimento,
     taxa |-> leitura[p].taxa, cotacao |-> leitura[p].cotacao]

Gravada(p) ==
    transacoes' = [q \in DOMAIN transacoes \cup {p} |->
                      IF q = p THEN montarTransacao(p) ELSE transacoes[q]]

\* TransacaoRepo.Criar; ck_transacoes_valor_face and NUMERIC(20, 2) are the
\* only checks of the face value.
Inserir(p) ==
    /\ pc[p] = "inserir"
    /\ IF corpo[p].valor_face = "positivo"
         THEN Gravada(p) /\ Ir(p, "reler")
         ELSE Responder(p, "erro_interno") /\ UNCHANGED transacoes
    /\ UNCHANGED <<relogio, taxas, cotacoes, corpo, quer, leitura, falhou>>

Reler(p) ==
    /\ pc[p] = "reler"
    /\ Responder(p, "201")
    /\ UNCHANGED <<relogio, tabelas, corpo, quer, leitura, falhou>>

\* Fault: the failure of the INSERT is reported as those of the lookups are.
ErroDaFalhaTodos422(p) ==
    CASE pc[p] = "preparar" -> "moeda_invalida"
      [] pc[p] = "taxa"     -> "taxa_ausente"
      [] pc[p] = "cotacao"  -> "cotacao_ausente"
      [] OTHER              -> "entrada_invalida"

\* What a request answers when a statement fails.
ErroDaFalha(p) ==
    CASE pc[p] = "preparar" -> "moeda_invalida"
      [] pc[p] = "taxa"     -> IF corpo[p].tipo_recebivel \in Tipos THEN "taxa_ausente"
                                                                  ELSE "tipo_invalido"
      [] pc[p] = "cotacao"  -> "cotacao_ausente"
      [] OTHER              -> "erro_interno"

\* A statement fails (connection, timeout, cancelled request); the INSERT may
\* have taken effect.
Falhar(p) ==
    /\ \/ pc[p] \in {"taxa", "referencias", "inserir", "reler"}
       \/ pc[p] = "preparar" /\ corpo[p].valor_face # "invalido"
       \/ pc[p] = "cotacao" /\ corpo[p].moeda_titulo # corpo[p].moeda_pagamento
    /\ Responder(p, ErroDaFalha(p))
    /\ falhou' = [falhou EXCEPT ![p] = TRUE]
    /\ \/ UNCHANGED transacoes
       \/ pc[p] = "inserir" /\ corpo[p].valor_face = "positivo" /\ Gravada(p)
    /\ UNCHANGED <<relogio, taxas, cotacoes, corpo, quer, leitura>>

\* The process dies: requests in progress get no answer.
Queda ==
    /\ pc' = [p \in Pedidos |-> IF pc[p] \in EmCurso THEN "perdido" ELSE pc[p]]
    /\ UNCHANGED <<relogio, tabelas, corpo, quer, leitura, resposta, falhou>>

Next ==
    \/ Passar
    \/ \E i \in Inicios, m, n \in Moedas : RegistrarTaxa(m, i) \/ RegistrarCotacao(m, n, i)
    \/ \E p \in Pedidos :
          \/ \E c \in Corpos, q \in {"simular", "criar"} : Receber(p, c, q)
          \/ Preparar(p) \/ LerTaxa(p) \/ LerCotacao(p)
          \/ FalharNoMotor(p) \/ Simular(p) \/ Precificar(p)
          \/ ResolverReferencias(p) \/ Inserir(p) \/ Reler(p) \/ Falhar(p)
    \/ Queda

Spec == Init /\ [][Next]_vars

-------------------------------------------------------------------------------
(* Properties.                                                             *)

\* The rows in force at an instant by their starts alone, among the first n of
\* a set of rows: what a lookup ought to have found.
Devidas(tabela, S, n, em) == MaisRecentes(tabela, {k \in S : k <= n /\ tabela[k].inicio <= em})

DaMoeda(m) == {k \in DOMAIN taxas : taxas[k].moeda = m}
DoCambio(titulo, pagamento) ==
    {k \in DOMAIN cotacoes : cotacoes[k].base = pagamento /\ cotacoes[k].cotacao = titulo}

\* Nothing registered since the lookup of p reaches back to its instant.
SemTaxaRetroativa(p) ==
    \A k \in DaMoeda(corpo[p].moeda_titulo) :
        k > leitura[p].taxasVistas => taxas[k].inicio > leitura[p].em
SemCotacaoRetroativa(p) ==
    \A k \in DoCambio(corpo[p].moeda_titulo, corpo[p].moeda_pagamento) :
        k > leitura[p].cotacoesVistas => cotacoes[k].inicio > leitura[p].em

\* A transaction stays priced by the rate and the quote its instant calls for,
\* and can be priced again, unless one was registered with an earlier start
\* after it was read; a quote is applied to exactly the operations in two
\* currencies, in the direction of ADR-006 (prepararEntrada, aplicarCotacao).
Reproduzivel ==
    \A p \in DOMAIN transacoes :
        LET t == transacoes[p]
            em == leitura[p].em
            cambio == DoCambio(t.titulo, t.pagamento)
        IN  /\ SemTaxaRetroativa(p) =>
                  t.taxa \in Devidas(taxas, DaMoeda(t.titulo), Len(taxas), em)
                             \cap TaxasVigentes(t.titulo, em)
            /\ IF t.titulo = t.pagamento THEN t.cotacao = Nenhuma
               ELSE SemCotacaoRetroativa(p) =>
                       t.cotacao \in Devidas(cotacoes, cambio, Len(cotacoes), em)

\* Unless a statement failed, "no rate" and "no quote" are answered only when
\* none had started by the date: closing rates never makes a date unpriceable.
RecusaTemCausa ==
    \A p \in Pedidos : ~ falhou[p] =>
        LET c == corpo[p]
            l == leitura[p]
        IN  /\ resposta[p] = "taxa_ausente" =>
                  Devidas(taxas, DaMoeda(c.moeda_titulo), l.taxasVistas, l.em) = {}
            /\ resposta[p] = "cotacao_ausente" =>
                  Devidas(cotacoes, DoCambio(c.moeda_titulo, c.moeda_pagamento),
                          l.cotacoesVistas, l.em) = {}

\* The caller of POST /transacoes may trust any answer but a 500: a 201 has its
\* row, a refusal or a simulation has none (CriarTransacao, Simular).
RespostaFiel ==
    \A p \in Pedidos :
        /\ resposta[p] = "201" => p \in DOMAIN transacoes
        /\ resposta[p] \in Recusas \cup {"nao_encontrado", "200"} => p \notin DOMAIN transacoes

\* Pricing an operation again from the date in its row finds the rate it was
\* priced with, when no rate reaching back was registered since (ADR-004,
\* "Reprocessar uma operação antiga com a taxa vigente na data dela é
\* determinístico").
ReprocessoPelaData ==
    \A p \in DOMAIN transacoes : SemTaxaRetroativa(p) =>
        transacoes[p].taxa \in TaxasVigentes(transacoes[p].titulo, MeiaNoite(transacoes[p].data))

\* No rate of the currency started between the midnight of the operation's date
\* and its instant.
SemTaxaNoDia(p) ==
    \A k \in DaMoeda(corpo[p].moeda_titulo) :
        taxas[k].inicio <= leitura[p].em => taxas[k].inicio <= MeiaNoite(leitura[p].data)

\* ReprocessoPelaData fails in one way only: a date that was given is always
\* enough, and so is the present one unless a rate started since its midnight
\* (parseDatas, montarTransacao).
ReprocessoDoDia ==
    \A p \in DOMAIN transacoes :
        SemTaxaRetroativa(p) /\ (corpo[p].data_operacao # Ausente \/ SemTaxaNoDia(p)) =>
            transacoes[p].taxa \in TaxasVigentes(transacoes[p].titulo,
                                                MeiaNoite(transacoes[p].data))
===============================================================================
