------------------------------- MODULE Paginacao -------------------------------
(***************************************************************************)
(* Paged listings of transactions by LIMIT/OFFSET: GET /api/v1/transacoes  *)
(* (TransacaoRepo.Listar) and GET /api/v1/relatorios/extrato-liquidacao    *)
(* (Extrato.Consultar), read page by page while transactions are created   *)
(* and settled. Each page is one statement, hence one snapshot; a walk     *)
(* through the pages is not.                                               *)
(*                                                                         *)
(* A definition commented "Fault:" is not part of the model: it is its     *)
(* successor with a plausible bug, which some property has to notice.      *)
(***************************************************************************)
EXTENDS Integers, FiniteSets

CONSTANTS Ids,            \* identifiers, in the order of UUIDs
          Datas,          \* values of data_operacao
          Leitores,       \* callers of the listings
          Filtros,        \* filters callers may send, on the status and on the date
          Paginas, Tamanhos,   \* integers callers may send
          TamanhoMaximo,
          Limite,         \* 2^(w-1), for the w-bit int of Pagina and Tamanho
          Qualquer,       \* a filter field that was not sent
          Ausente         \* no such row

Status == {"PENDENTE", "LIQUIDADA", "CANCELADA"}

ASSUME PaginacaoAssumption ==
    /\ Ids \subseteq Nat /\ IsFiniteSet(Ids) /\ Cardinality(Ids) < Limite
    /\ Datas \subseteq Nat
    /\ Filtros # {}
    /\ Filtros \subseteq [status: Status \cup {Qualquer},
                          de: Datas \cup {Qualquer}, ate: Datas \cup {Qualquer}]
    /\ Limite \in Nat \ {0} /\ TamanhoMaximo \in 1 .. Limite - 1
    /\ Paginas \subseteq -Limite .. Limite - 1 /\ Tamanhos \subseteq -Limite .. Limite - 1
    /\ Qualquer \notin Status /\ Qualquer \notin Datas
    /\ Ausente \notin [data: Datas, status: Status]

VARIABLES
    tabela,          \* the row of each identifier
    fase,            \* what each caller is doing
    pedido,          \* the filter, page and page size it asks for
    resposta,        \* the answer to a single request, with the rows that matched then
    \* the walk of a caller through the pages
    vistas,          \* rows it has been sent
    recebidas,       \* how many items it has been sent
    desdeInicio,     \* rows that matched its filter when it started
    entradas         \* rows that came to match it since

percurso == <<vistas, recebidas, desdeInicio, entradas>>
vars == <<tabela, fase, pedido, resposta, percurso>>

Pedido == [filtro: Filtros, pagina: 1 .. Limite - 1, tamanho: 1 .. TamanhoMaximo]
Resposta == [codigo: {0, 200, 422, 500}, total: Nat, total_paginas: Nat,
             itens: SUBSET Ids, casavam: SUBSET Ids]
SemResposta ==
    [codigo |-> 0, total |-> 0, total_paginas |-> 0, itens |-> {}, casavam |-> {}]

TypeOK ==
    /\ tabela \in [Ids -> [data: Datas, status: Status] \cup {Ausente}]
    /\ fase \in [Leitores -> {"livre", "respondido", "percorrendo", "terminou",
                              "desistiu"}]
    /\ pedido \in [Leitores -> Pedido]
    /\ resposta \in [Leitores -> Resposta]
    /\ vistas \in [Leitores -> SUBSET Ids]
    /\ recebidas \in [Leitores -> Nat]
    /\ desdeInicio \in [Leitores -> SUBSET Ids]
    /\ entradas \in [Leitores -> SUBSET Ids]

Init ==
    /\ tabela = [t \in Ids |-> Ausente]
    /\ fase = [l \in Leitores |-> "livre"]
    /\ pedido = [l \in Leitores |->
          [filtro |-> CHOOSE f \in Filtros : TRUE, pagina |-> 1, tamanho |-> 1]]
    /\ resposta = [l \in Leitores |-> SemResposta]
    /\ vistas = [l \in Leitores |-> {}]
    /\ recebidas = [l \in Leitores |-> 0]
    /\ desdeInicio = [l \in Leitores |-> {}]
    /\ entradas = [l \in Leitores |-> {}]

-------------------------------------------------------------------------------
(* One page.                                                               *)

\* aplicarFiltros; the period stands for every filter on a column that never
\* changes (cedente, moeda, tipo). Listar sends no filter.
Casa(linha, f) ==
    /\ linha # Ausente
    /\ f.status # Qualquer => linha.status = f.status
    /\ f.de # Qualquer => linha.data >= f.de
    /\ f.ate # Qualquer => linha.data <= f.ate

Casam(f) == {t \in Ids : Casa(tabela[t], f)}

\* ORDER BY data_operacao DESC, id
Antes(p, q) ==
    \/ tabela[p].data > tabela[q].data
    \/ tabela[p].data = tabela[q].data /\ p < q

Posicao(S, t) == Cardinality({q \in S : Antes(q, t)})

\* Fault: one row more, to know whether there is another page.
RecorteComSobra(S, desloc, n) ==
    {t \in S : desloc <= Posicao(S, t) /\ Posicao(S, t) <= desloc + n}

\* OFFSET desloc LIMIT n
Recorte(S, desloc, n) ==
    {t \in S : desloc <= Posicao(S, t) /\ Posicao(S, t) < desloc + n}

\* (pagina - 1) * tamanho in w-bit integers, as the database reads it: from
\* Limite on it is a negative number or no bigint, and the statement fails.
Deslocamento(p) == ((p.pagina - 1) * p.tamanho) % (2 * Limite)

\* Fault: integer division without rounding up.
TotalPaginasTruncado(total, tamanho) == total \div tamanho

TotalPaginas(total, tamanho) == (total + tamanho - 1) \div tamanho

\* A page that was read to its end. COUNT(*) OVER() comes with each row, so a
\* page without rows has total 0.
PaginaLida(p) ==
    LET casam == Casam(p.filtro)
        itens == Recorte(casam, Deslocamento(p), p.tamanho)
        total == IF itens = {} THEN 0 ELSE Cardinality(casam)
    IN  [codigo |-> 200, total |-> total,
         total_paginas |-> IF total > 0 THEN TotalPaginas(total, p.tamanho) ELSE 0,
         itens |-> itens, casavam |-> casam]

PaginaFalha(p) == [SemResposta EXCEPT !.codigo = 500, !.casavam = Casam(p.filtro)]

\* Fault: rows.Err is not looked at, so that an iteration that breaks off is
\* taken for one that has come to its end.
ConsultarSemErr(p) ==
    IF Deslocamento(p) >= Limite THEN {PaginaFalha(p)}
    ELSE {PaginaFalha(p)} \cup
         {[PaginaLida(p) EXCEPT !.itens = Recorte(Casam(p.filtro), Deslocamento(p), n)] :
             n \in 1..p.tamanho}

\* The answers a page may have. The query, the scan of any row or the iteration
\* may fail, and then the rows that did come are dropped; the query of an offset
\* that is no integer does.
Consultar(p) ==
    IF Deslocamento(p) >= Limite THEN {PaginaFalha(p)} ELSE {PaginaLida(p), PaginaFalha(p)}

\* parsePaginacao and parsePeriodo; for Listar, the schema of its parameters.
Valida(p) ==
    /\ p.pagina >= 1
    /\ p.tamanho \in 1 .. TamanhoMaximo
    /\ Qualquer \notin {p.filtro.de, p.filtro.ate} => p.filtro.de <= p.filtro.ate

-------------------------------------------------------------------------------
(* Steps.                                                                  *)

\* A row that starts to match a filter enters the walks that use it.
Alterar(t, linha) ==
    /\ tabela' = [tabela EXCEPT ![t] = linha]
    /\ entradas' = [l \in Leitores |->
          IF /\ fase[l] = "percorrendo"
             /\ Casa(linha, pedido[l].filtro) /\ ~ Casa(tabela[t], pedido[l].filtro)
          THEN entradas[l] \cup {t} ELSE entradas[l]]
    /\ UNCHANGED <<fase, pedido, resposta, vistas, recebidas, desdeInicio>>

\* TransacaoRepo.Criar: a random identifier, any date, born PENDENTE (or
\* CANCELADA, by the demonstration load).
Criar(t, d, s) ==
    /\ tabela[t] = Ausente
    /\ Alterar(t, [data |-> d, status |-> s])

\* TransacaoRepo.Liquidar, seen from outside.
Liquidar(t) ==
    /\ tabela[t] # Ausente
    /\ tabela[t].status = "PENDENTE"
    /\ Alterar(t, [tabela[t] EXCEPT !.status = "LIQUIDADA"])

\* A single request for any page.
Pedir(l, p) ==
    /\ fase[l] = "livre"
    /\ Valida(p)
    /\ pedido' = [pedido EXCEPT ![l] = p]
    /\ \E r \in Consultar(p) : resposta' = [resposta EXCEPT ![l] = r]
    /\ fase' = [fase EXCEPT ![l] = "respondido"]
    /\ UNCHANGED <<tabela, percurso>>

Recusar(l, p) ==
    /\ fase[l] = "livre"
    /\ ~ Valida(p)
    /\ resposta' = [resposta EXCEPT ![l] = [SemResposta EXCEPT !.codigo = 422]]
    /\ fase' = [fase EXCEPT ![l] = "respondido"]
    /\ UNCHANGED <<tabela, pedido, percurso>>

\* A caller starts at page 1 and asks for the next while there is one.
Iniciar(l, f, n) ==
    /\ fase[l] = "livre"
    /\ Valida([filtro |-> f, pagina |-> 1, tamanho |-> n])
    /\ fase' = [fase EXCEPT ![l] = "percorrendo"]
    /\ pedido' = [pedido EXCEPT ![l] = [filtro |-> f, pagina |-> 1, tamanho |-> n]]
    /\ desdeInicio' = [desdeInicio EXCEPT ![l] = Casam(f)]
    /\ UNCHANGED <<tabela, resposta, vistas, recebidas, entradas>>

LerPagina(l) ==
    /\ fase[l] = "percorrendo"
    /\ \E r \in Consultar(pedido[l]) :
       LET fim == pedido[l].pagina >= r.total_paginas
       IN  /\ r.codigo = 200
           /\ vistas' = [vistas EXCEPT ![l] = @ \cup r.itens]
           /\ recebidas' = [recebidas EXCEPT ![l] = @ + Cardinality(r.itens)]
           /\ fase' = [fase EXCEPT ![l] = IF fim THEN "terminou" ELSE @]
           /\ pedido' = [pedido EXCEPT ![l].pagina = IF fim THEN @ ELSE @ + 1]
    /\ UNCHANGED <<tabela, resposta, desdeInicio, entradas>>

\* A page fails and its caller gives up. One that asks for it again is where it
\* was.
Desistir(l) ==
    /\ fase[l] = "percorrendo"
    /\ \E r \in Consultar(pedido[l]) : r.codigo = 500
    /\ fase' = [fase EXCEPT ![l] = "desistiu"]
    /\ UNCHANGED <<tabela, pedido, resposta, percurso>>

Next ==
    \/ \E t \in Ids, d \in Datas, s \in {"PENDENTE", "CANCELADA"} : Criar(t, d, s)
    \/ \E t \in Ids : Liquidar(t)
    \/ \E l \in Leitores, f \in Filtros, n \in Tamanhos :
          \/ Iniciar(l, f, n)
          \/ \E p \in Paginas :
                LET q == [filtro |-> f, pagina |-> p, tamanho |-> n]
                IN  Pedir(l, q) \/ Recusar(l, q)
    \/ \E l \in Leitores : LerPagina(l) \/ Desistir(l)

Spec == Init /\ [][Next]_vars

-------------------------------------------------------------------------------
(* Properties.                                                             *)

\* Rows leave a filter only by being settled.
SoEntra(f) == f.status # "PENDENTE"

\* A walk misses no row that was there when it started, whatever is created or
\* settled meanwhile: rows are never deleted and never move in the order, so
\* those still to be sent are only pushed to later pages. (Filtered by
\* PENDENTE, settled rows leave, the others move up, and some are missed.)
SemSalto ==
    \A l \in Leitores :
        fase[l] = "terminou" /\ SoEntra(pedido[l].filtro) => desdeInicio[l] \subseteq vistas[l]

\* A walk is sent no row twice but for the rows that came in meanwhile, one
\* repetition for each at most.
RepeticoesLimitadas ==
    \A l \in Leitores :
        SoEntra(pedido[l].filtro) =>
            recebidas[l] - Cardinality(vistas[l]) <= Cardinality(entradas[l])

\* The total of an answer counts the rows that matched (Listar, "com o total
\* de registros para paginação").
TotalVerdadeiro ==
    \A l \in Leitores :
        resposta[l].codigo = 200 => resposta[l].total = Cardinality(resposta[l].casavam)

\* A page that is answered is the page that was asked for, all of it, whether or
\* not it is past the end and wherever its reading may have broken off, as long
\* as its offset is an int. (Beyond, a page that was let through, "f.Pagina já
\* validado >=1 em parseFiltros", may be another one: the product wraps around.)
PaginaPedida ==
    \A l \in Leitores :
        LET desloc == (pedido[l].pagina - 1) * pedido[l].tamanho
        IN  resposta[l].codigo = 200 /\ desloc < Limite =>
                resposta[l].itens = Recorte(resposta[l].casavam, desloc, pedido[l].tamanho)
===============================================================================
