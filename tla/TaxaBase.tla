------------------------------- MODULE TaxaBase -------------------------------
(***************************************************************************)
(* Versioned base rates: concurrent POST /api/v1/taxas-base, each running  *)
(* TaxaBaseRepo.Criar in a PostgreSQL session (READ COMMITTED), and what   *)
(* TaxaBaseRepo.Vigente finds in the table they leave.                     *)
(*                                                                         *)
(* A request inserts at most one row, so a row is named by the request     *)
(* that inserted it; its currency and start are those of the request.      *)
(*                                                                         *)
(* A definition commented "Fault:" is not part of the model: it is its     *)
(* successor with a plausible bug, which some property has to notice.      *)
(***************************************************************************)
EXTENDS Naturals

CONSTANTS Pedidos,       \* requests, and the rows they insert
          Moedas,        \* currencies in the table moedas
          Codigos,       \* currency codes requests may carry
          Instantes,     \* values of vigencia_inicio
          Ninguem,       \* "no session holds the row lock"
          Aberta,        \* vigencia_fim IS NULL
          Inexistente    \* no such row

ASSUME TaxaBaseAssumption ==
    /\ Instantes \subseteq Nat
    /\ Moedas \subseteq Codigos
    /\ Ninguem \notin Pedidos
    /\ Aberta \notin Nat /\ Inexistente \notin Nat /\ Aberta # Inexistente

VARIABLES
    moeda, inicio,   \* the body of each request
    fim,             \* committed table: vigencia_fim of the row of each request
    sessao,          \* database session of each request
    trava,           \* who holds the lock of each row
    foto,            \* open rows the UPDATE of a session saw when it started
    fechadas,        \* rows a session has closed and not committed
    pc, codigo       \* handlers: where they are, the status they answer

pedido == <<moeda, inicio>>
sessoes == <<sessao, trava, foto, fechadas>>
vars == <<pedido, fim, sessoes, pc, codigo>>

Viva == {"aberta", "confirmando", "orfa"}
EmSessao == {"resolver", "encerrar", "esperar", "inserir", "confirmar"}

TypeOK ==
    /\ moeda \in [Pedidos -> Codigos]
    /\ inicio \in [Pedidos -> Instantes]
    /\ fim \in [Pedidos -> Instantes \cup {Aberta, Inexistente}]
    /\ sessao \in [Pedidos -> Viva \cup {"nenhuma", "confirmada", "abortada"}]
    /\ trava \in [Pedidos -> Pedidos \cup {Ninguem}]
    /\ foto \in [Pedidos -> SUBSET Pedidos]
    /\ fechadas \in [Pedidos -> SUBSET Pedidos]
    /\ pc \in [Pedidos -> EmSessao \cup {"iniciar", "aguardando", "respondido", "perdido"}]
    /\ codigo \in [Pedidos -> {0, 201, 500}]

Init ==
    /\ moeda \in [Pedidos -> Codigos]
    /\ inicio \in [Pedidos -> Instantes]
    /\ fim = [p \in Pedidos |-> Inexistente]
    /\ sessao = [p \in Pedidos |-> "nenhuma"]
    /\ trava = [p \in Pedidos |-> Ninguem]
    /\ foto = [p \in Pedidos |-> {}]
    /\ fechadas = [p \in Pedidos |-> {}]
    /\ pc = [p \in Pedidos |-> "iniciar"]
    /\ codigo = [p \in Pedidos |-> 0]

-------------------------------------------------------------------------------
(* The table.                                                              *)

Linhas(m) == {p \in Pedidos : fim[p] # Inexistente /\ moeda[p] = m}
Abertas(m) == {p \in Linhas(m) : fim[p] = Aberta}

\* vigencia_inicio <= $2 AND (vigencia_fim IS NULL OR vigencia_fim > $2)
Vigentes(m, em) ==
    {p \in Linhas(m) : inicio[p] <= em /\ (fim[p] = Aberta \/ fim[p] > em)}

\* The rows with the latest start in a set of rows.
MaisRecentes(S) == {p \in S : \A q \in S : inicio[q] <= inicio[p]}

\* ORDER BY vigencia_inicio DESC LIMIT 1: any of these may be the answer.
Vigente(m, em) == MaisRecentes(Vigentes(m, em))

-------------------------------------------------------------------------------
(* The session of a request.                                               *)

Ir(p, destino) == pc' = [pc EXCEPT ![p] = destino]

Encerrar(p, como) ==
    /\ sessao' = [sessao EXCEPT ![p] = como]
    /\ trava' = [q \in Pedidos |-> IF trava[q] = p THEN Ninguem ELSE trava[q]]
    /\ fechadas' = [fechadas EXCEPT ![p] = {}]
    /\ UNCHANGED foto

Begin(p) ==
    /\ pc[p] = "iniciar"
    /\ Ir(p, "resolver")
    /\ sessao' = [sessao EXCEPT ![p] = "aberta"]
    /\ UNCHANGED <<pedido, fim, trava, foto, fechadas, codigo>>

FalharBegin(p) ==
    /\ pc[p] = "iniciar"
    /\ Ir(p, "respondido")
    /\ codigo' = [codigo EXCEPT ![p] = 500]
    /\ UNCHANGED <<pedido, fim, sessoes>>

\* SELECT id FROM moedas: a currency that is not registered is a failure (below).
ResolverMoeda(p) ==
    /\ pc[p] = "resolver"
    /\ sessao[p] = "aberta"
    /\ moeda[p] \in Moedas
    /\ Ir(p, "encerrar")
    /\ UNCHANGED <<pedido, fim, sessoes, codigo>>

\* The UPDATE of encerrarVigenciaAnterior starts: its snapshot holds the rows
\* committed so far. A row another session has inserted meanwhile is not in it.
FotografarAbertas(p) ==
    /\ pc[p] = "encerrar"
    /\ sessao[p] = "aberta"
    /\ foto' = [foto EXCEPT ![p] = Abertas(moeda[p])]
    /\ Ir(p, "esperar")
    /\ UNCHANGED <<pedido, fim, sessao, trava, fechadas, codigo>>

\* Fault: a rate that started later is left alone, so that the CHECK is kept.
AEncerrarSoAnteriores(p) == {q \in foto[p] : fim[q] = Aberta /\ inicio[q] < inicio[p]}

\* Rows of the snapshot that are still open when their locks are free.
AEncerrar(p) == {q \in foto[p] : fim[q] = Aberta}

\* Fault: the CHECK constraint is missing.
RespeitaCheckAusente(p) == TRUE

\* ck_taxas_base_vigencia, for every row the UPDATE touches.
RespeitaCheck(p) == \A q \in AEncerrar(p) : inicio[p] > inicio[q]

Destravadas(p) == \A q \in foto[p] : trava[q] = Ninguem

\* Fault: WHERE vigencia_fim IS NULL AND id = (SELECT ... LIMIT 1).
EncerrarUmaSo(p) ==
    /\ pc[p] = "esperar"
    /\ sessao[p] = "aberta"
    /\ Destravadas(p)
    /\ RespeitaCheck(p)
    /\ \E S \in SUBSET AEncerrar(p) :
          /\ S = {} <=> AEncerrar(p) = {}
          /\ \A q, s \in S : q = s
          /\ fechadas' = [fechadas EXCEPT ![p] = S]
          /\ trava' = [q \in Pedidos |-> IF q \in S THEN p ELSE trava[q]]
    /\ Ir(p, "inserir")
    /\ UNCHANGED <<pedido, fim, sessao, foto, codigo>>

\* The UPDATE ends: it waited for the sessions that held its rows, looked at
\* their newest versions again and closed those still open at the new start.
EncerrarVigenciaAnterior(p) ==
    /\ pc[p] = "esperar"
    /\ sessao[p] = "aberta"
    /\ Destravadas(p)
    /\ RespeitaCheck(p)
    /\ fechadas' = [fechadas EXCEPT ![p] = AEncerrar(p)]
    /\ trava' = [q \in Pedidos |-> IF q \in AEncerrar(p) THEN p ELSE trava[q]]
    /\ Ir(p, "inserir")
    /\ UNCHANGED <<pedido, fim, sessao, foto, codigo>>

\* INSERT ... RETURNING: the new row is the session's own until COMMIT.
Inserir(p) ==
    /\ pc[p] = "inserir"
    /\ sessao[p] = "aberta"
    /\ Ir(p, "confirmar")
    /\ UNCHANGED <<pedido, fim, sessoes, codigo>>

Commit(p) ==
    /\ pc[p] = "confirmar"
    /\ sessao[p] = "aberta"
    /\ sessao' = [sessao EXCEPT ![p] = "confirmando"]
    /\ Ir(p, "aguardando")
    /\ UNCHANGED <<pedido, fim, trava, foto, fechadas, codigo>>

\* Fault: the old rate is closed one instant before the new one starts.
PublicadoComBuraco(p) ==
    [q \in Pedidos |-> IF q = p THEN Aberta
                       ELSE IF q \in fechadas[p] THEN inicio[p] - 1 ELSE fim[q]]

\* What COMMIT publishes: the new open row, the rows closed at its start.
Publicado(p) ==
    [q \in Pedidos |-> IF q = p THEN Aberta
                       ELSE IF q \in fechadas[p] THEN inicio[p] ELSE fim[q]]

ConfirmarBD(p) ==
    /\ sessao[p] = "confirmando"
    /\ fim' = Publicado(p)
    /\ Encerrar(p, "confirmada")
    /\ UNCHANGED <<pedido, pc, codigo>>

\* PostgreSQL ends the session of a client that is gone or rolled back, cannot
\* complete a COMMIT, or terminates a backend.
AbortarBD(p) ==
    /\ sessao[p] \in Viva
    /\ Encerrar(p, "abortada")
    /\ UNCHANGED <<pedido, fim, pc, codigo>>

Sucesso(p) ==
    /\ pc[p] = "aguardando"
    /\ sessao[p] = "confirmada"
    /\ codigo' = [codigo EXCEPT ![p] = 201]
    /\ Ir(p, "respondido")
    /\ UNCHANGED <<pedido, fim, sessoes>>

\* Fault: the error of Commit is dropped like the one of Rollback.
CommitSemChecarErro(p) ==
    /\ pc[p] = "aguardando"
    /\ codigo' = [codigo EXCEPT ![p] = 201]
    /\ Ir(p, "respondido")
    /\ UNCHANGED <<pedido, fim, sessoes>>

FalharCommit(p) ==
    /\ pc[p] = "aguardando"
    /\ codigo' = [codigo EXCEPT ![p] = 500]
    /\ Ir(p, "respondido")
    /\ UNCHANGED <<pedido, fim, sessoes>>

\* Fault: an early return without the deferred Rollback.
FalharSemRollback(p) ==
    /\ pc[p] \in EmSessao
    /\ codigo' = [codigo EXCEPT ![p] = 500]
    /\ Ir(p, "respondido")
    /\ UNCHANGED <<pedido, fim, sessoes>>

\* A statement fails: unknown currency (pgx.ErrNoRows, which nothing maps to
\* 404), the CHECK of RespeitaCheck, any other error. The deferred Rollback
\* reaches the database now or leaves the session for it to find.
Falhar(p) ==
    /\ pc[p] \in EmSessao
    /\ codigo' = [codigo EXCEPT ![p] = 500]
    /\ Ir(p, "respondido")
    /\ sessao' = [sessao EXCEPT ![p] = IF @ = "aberta" THEN "orfa" ELSE @]
    /\ UNCHANGED <<pedido, fim, trava, foto, fechadas>>

\* The API process dies under its handlers.
Queda ==
    /\ \E p \in Pedidos : pc[p] \in EmSessao \cup {"aguardando"}
    /\ pc' = [p \in Pedidos |->
                IF pc[p] \in EmSessao \cup {"aguardando"} THEN "perdido" ELSE pc[p]]
    /\ sessao' = [p \in Pedidos |-> IF sessao[p] = "aberta" THEN "orfa" ELSE sessao[p]]
    /\ UNCHANGED <<pedido, fim, trava, foto, fechadas, codigo>>

-------------------------------------------------------------------------------
\* The failures that are bound to come: an unknown currency, the CHECK, a
\* session the database has ended.
FalhaCerta(p) ==
    \/ pc[p] = "resolver" /\ moeda[p] \notin Moedas
    \/ pc[p] = "esperar" /\ Destravadas(p) /\ ~ RespeitaCheck(p)
    \/ sessao[p] = "abortada"

Andar(p) ==
    \/ ResolverMoeda(p) \/ FotografarAbertas(p) \/ EncerrarVigenciaAnterior(p)
    \/ Inserir(p) \/ Commit(p) \/ Sucesso(p)
    \/ FalhaCerta(p) /\ (Falhar(p) \/ FalharCommit(p))

OutroPasso(p) ==
    \/ Begin(p) \/ FalharBegin(p) \/ ResolverMoeda(p) \/ EncerrarVigenciaAnterior(p)
    \/ Inserir(p) \/ Commit(p) \/ Sucesso(p) \/ FalharCommit(p) \/ Falhar(p)
    \/ AbortarBD(p)

Next ==
    \/ \E p \in Pedidos : FotografarAbertas(p) \/ ConfirmarBD(p) \/ OutroPasso(p)
    \/ Queda

Fairness ==
    \A p \in Pedidos :
        /\ WF_vars(Andar(p))
        /\ WF_vars(ConfirmarBD(p) \/ (sessao[p] = "confirmando" /\ AbortarBD(p)))
        /\ WF_vars(sessao[p] = "orfa" /\ AbortarBD(p))

Spec == Init /\ [][Next]_vars
FairSpec == Spec /\ Fairness

-------------------------------------------------------------------------------
(* Properties.                                                             *)

\* 201 means that the rate is in the table (Commit's error is not dropped).
SucessoPublicado == \A p \in Pedidos : codigo[p] = 201 => fim[p] # Inexistente

\* A committed registration closed every rate that was open when its UPDATE
\* started, itself or by waiting for the session that did.
FechaOQueViu ==
    \A p \in Pedidos : fim[p] # Inexistente =>
        \A q \in foto[p] : fim[q] \in Instantes

\* A closed validity is a real interval that ends where another rate of the
\* currency starts: no closing leaves a gap or an empty validity.
FechamentoTemSucessora ==
    \A q \in Pedidos : fim[q] \in Instantes =>
        /\ inicio[q] < fim[q]
        /\ \E p \in Linhas(moeda[q]) : inicio[p] = fim[q]

\* Whatever registrations interleave, Vigente finds a rate with the latest
\* start not after the date: its filter on vigencia_fim never hides that row.
VigenteEhAMaisRecente ==
    \A m \in Moedas, em \in Instantes :
        Vigente(m, em) = MaisRecentes({p \in Linhas(m) : inicio[p] <= em})

\* A registration changes no lookup before its start, so a date is priced
\* again as it was; and a date that has a rate never loses it.
PassadoEstavel ==
    [][\A m \in Moedas, em \in Instantes :
          /\ Vigente(m, em) # {} => Vigente(m, em)' # {}
          /\ (\A p \in Linhas(m)' \ Linhas(m) : inicio[p] > em) =>
                Vigente(m, em)' = Vigente(m, em)]_vars

\* No two rates of a currency are valid at one instant (encerrarVigenciaAnterior,
\* "garantindo que nunca haja duas taxas vigentes simultaneamente").
VigenciaUnica ==
    \A m \in Moedas, em \in Instantes :
        \A p, q \in Vigentes(m, em) : p = q

\* Every request is answered unless the process dies under it.
TodoPedidoTermina ==
    \A p \in Pedidos : pc[p] = "resolver" ~> pc[p] \in {"respondido", "perdido"}
===============================================================================
