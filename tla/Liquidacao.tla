------------------------------ MODULE Liquidacao ------------------------------
(***************************************************************************)
(* Concurrent settlements of receivable transactions: the handler of       *)
(* POST /api/v1/transacoes/{id}/liquidacao, TransacaoRepo.Liquidar and the *)
(* PostgreSQL session (READ COMMITTED) it drives, statement by statement.  *)
(* Statements fail, the answer to COMMIT is lost, sessions outlive the     *)
(* connection that opened them, the API process dies.                      *)
(*                                                                         *)
(* A definition commented "Fault:" is not part of the model: it is its     *)
(* successor with a plausible bug, which some property has to notice.      *)
(***************************************************************************)
EXTENDS Naturals, FiniteSets

CONSTANTS Requisicoes,   \* settlement requests; a retry is another request
          Transacoes,    \* identifiers of transactions
          Instantes,     \* readings of the wall clock, in no order
          MaxConns,      \* size of the connection pool
          Ninguem,       \* "no session holds the row lock"
          SemInstante    \* NULL in liquidada_em

ASSUME LiquidacaoAssumption ==
    /\ Ninguem \notin Requisicoes
    /\ SemInstante \notin Instantes
    /\ MaxConns \in Nat \ {0}

VARIABLES
    \* committed tables
    transacoes,    \* transacoes[t]: the row of t
    auditoria,     \* the rows of transacao_auditoria; a request inserts at most one
    \* database sessions, one per call of Liquidar
    sessao,        \* state of the session of a request
    trava,         \* trava[t]: whose session holds the row lock of t
    escrita,       \* the uncommitted version of its target row
    trilha,        \* the uncommitted audit rows
    \* handlers
    pc,            \* where the handler of a request is
    alvo,          \* the id in the path
    lida,          \* atual.Versao
    instante,      \* LiquidadaEm
    saida          \* the answer so far: status code and body

bd == <<transacoes, auditoria>>
sessoes == <<sessao, trava, escrita, trilha>>
locais == <<lida, instante, saida>>
vars == <<bd, sessoes, pc, alvo, locais>>

Linha == [status: {"AUSENTE", "PENDENTE", "LIQUIDADA", "CANCELADA"},
          versao: Nat, liquidada_em: Instantes \cup {SemInstante}]
Auditoria == [transacao: Transacoes, versao: Nat, instante: Instantes,
              autora: Requisicoes]
SemLinha == [status |-> "AUSENTE", versao |-> 0, liquidada_em |-> SemInstante]

\* Where the handler runs inside Liquidar, holding a pooled connection.
EmLiquidar == {"atualizar", "auditar", "reler", "confirmar", "aguardando", "reverter"}
Ativa == {"buscar", "iniciar"} \cup EmLiquidar
\* Sessions that PostgreSQL still runs.
Viva == {"aberta", "confirmando", "orfa"}

TypeOK ==
    /\ transacoes \in [Transacoes -> Linha]
    /\ auditoria \subseteq Auditoria
    /\ sessao \in [Requisicoes -> Viva \cup {"nenhuma", "confirmada", "abortada"}]
    /\ trava \in [Transacoes -> Requisicoes \cup {Ninguem}]
    /\ escrita \in [Requisicoes -> Linha]
    /\ trilha \in [Requisicoes -> SUBSET Auditoria]
    /\ pc \in [Requisicoes -> Ativa \cup {"livre", "respondida", "perdida"}]
    /\ alvo \in [Requisicoes -> Transacoes]
    /\ lida \in [Requisicoes -> Nat]
    /\ instante \in [Requisicoes -> Instantes \cup {SemInstante}]
    /\ saida \in [Requisicoes -> [codigo: {0, 200, 404, 409, 500}, corpo: Linha]]

Init ==
    /\ transacoes = [t \in Transacoes |-> SemLinha]
    /\ auditoria = {}
    /\ sessao = [r \in Requisicoes |-> "nenhuma"]
    /\ trava = [t \in Transacoes |-> Ninguem]
    /\ escrita = [r \in Requisicoes |-> SemLinha]
    /\ trilha = [r \in Requisicoes |-> {}]
    /\ pc = [r \in Requisicoes |-> "livre"]
    /\ alvo \in [Requisicoes -> Transacoes]
    /\ lida = [r \in Requisicoes |-> 0]
    /\ instante = [r \in Requisicoes |-> SemInstante]
    /\ saida = [r \in Requisicoes |-> [codigo |-> 0, corpo |-> SemLinha]]

-------------------------------------------------------------------------------
(* The statements, as PostgreSQL executes them in a session.               *)

\* Fault: the WHERE clause trusts the version alone.
CasaSemStatus(linha, versao) == linha.versao = versao

\* WHERE id = $2 AND versao = $3 AND status = 'PENDENTE'. PostgreSQL evaluates
\* it on the committed row, and again on its newest version after a lock wait.
Casa(linha, versao) == linha.versao = versao /\ linha.status = "PENDENTE"

\* SET status = 'LIQUIDADA', versao = versao + 1, liquidada_em = $1
Liquidada(linha, em) ==
    [status |-> "LIQUIDADA", versao |-> linha.versao + 1, liquidada_em |-> em]

\* Fault: the audit row carries the version that was read.
LinhaAuditoriaVersaoLida(r) ==
    [transacao |-> alvo[r], versao |-> lida[r], instante |-> instante[r],
     autora |-> r]

\* VALUES (in.ID, 'LIQUIDADA', in.Versao+1, in.LiquidadaEm)
LinhaAuditoria(r) ==
    [transacao |-> alvo[r], versao |-> lida[r] + 1, instante |-> instante[r],
     autora |-> r]

\* A session sees its own uncommitted version of the row, else the committed one.
LinhaVista(r) == IF trava[alvo[r]] = r THEN escrita[r] ELSE transacoes[alvo[r]]

\* The end of a session drops what it had not committed and its row locks.
Encerrar(r, fim) ==
    /\ sessao' = [sessao EXCEPT ![r] = fim]
    /\ trava' = [t \in Transacoes |-> IF trava[t] = r THEN Ninguem ELSE trava[t]]
    /\ escrita' = [escrita EXCEPT ![r] = SemLinha]
    /\ trilha' = [trilha EXCEPT ![r] = {}]

\* COMMIT publishes both writes at once.
ConfirmarBD(r) ==
    /\ sessao[r] = "confirmando"
    /\ transacoes' = [transacoes EXCEPT ![alvo[r]] = LinhaVista(r)]
    /\ auditoria' = auditoria \cup trilha[r]
    /\ Encerrar(r, "confirmada")
    /\ UNCHANGED <<pc, alvo, locais>>

\* PostgreSQL ends a session by itself: it finds its connection gone, it cannot
\* complete the COMMIT, it restarts or is told to terminate the backend.
AbortarBD(r) ==
    /\ sessao[r] \in Viva
    /\ Encerrar(r, "abortada")
    /\ UNCHANGED <<bd, pc, alvo, locais>>

-------------------------------------------------------------------------------
(* The handler.                                                            *)

\* INSERT of TransacaoRepo.Criar, by POST /transacoes (PENDENTE) or by the
\* demonstration load (any status but LIQUIDADA); it commits by itself.
Criar(t, status) ==
    /\ transacoes[t] = SemLinha
    /\ transacoes' = [transacoes EXCEPT
          ![t] = [status |-> status, versao |-> 1, liquidada_em |-> SemInstante]]
    /\ UNCHANGED <<auditoria, sessoes, pc, alvo, locais>>

ConexaoLivre == Cardinality({r \in Requisicoes : pc[r] \in EmLiquidar}) < MaxConns

Receber(r) ==
    /\ pc[r] = "livre"
    /\ pc' = [pc EXCEPT ![r] = "buscar"]
    /\ UNCHANGED <<bd, sessoes, alvo, locais>>

\* HumaErr(ctx, err): the handler answers an error and no body.
ResponderErro(r, codigo) ==
    /\ saida' = [saida EXCEPT ![r] = [codigo |-> codigo, corpo |-> SemLinha]]
    /\ pc' = [pc EXCEPT ![r] = "respondida"]

\* txRepo.PorID finds the row; the clock is read for LiquidacaoInput.
PorID(r) ==
    /\ pc[r] = "buscar"
    /\ ConexaoLivre
    /\ transacoes[alvo[r]] # SemLinha
    /\ lida' = [lida EXCEPT ![r] = transacoes[alvo[r]].versao]
    /\ \E em \in Instantes : instante' = [instante EXCEPT ![r] = em]
    /\ pc' = [pc EXCEPT ![r] = "iniciar"]
    /\ UNCHANGED <<bd, sessoes, alvo, saida>>

PorIDSemLinha(r) ==
    /\ pc[r] = "buscar"
    /\ ConexaoLivre
    /\ transacoes[alvo[r]] = SemLinha
    /\ ResponderErro(r, 404)
    /\ UNCHANGED <<bd, sessoes, alvo, lida, instante>>

Begin(r) ==
    /\ pc[r] = "iniciar"
    /\ ConexaoLivre
    /\ sessao' = [sessao EXCEPT ![r] = "aberta"]
    /\ pc' = [pc EXCEPT ![r] = "atualizar"]
    /\ UNCHANGED <<bd, trava, escrita, trilha, alvo, locais>>

\* PorID or Begin fails: no connection to be had, or the statement fails.
FalharSemSessao(r) ==
    /\ pc[r] \in {"buscar", "iniciar"}
    /\ ResponderErro(r, 500)
    /\ UNCHANGED <<bd, sessoes, alvo, lida, instante>>

\* Fault: the condition is checked by a query of its own, before the write.
LiquidarUpdateSemTrava(r) ==
    /\ pc[r] = "atualizar"
    /\ sessao[r] = "aberta"
    /\ Casa(transacoes[alvo[r]], lida[r])
    /\ trava' = [trava EXCEPT ![alvo[r]] = r]
    /\ escrita' = [escrita EXCEPT ![r] = Liquidada(transacoes[alvo[r]], instante[r])]
    /\ pc' = [pc EXCEPT ![r] = "auditar"]
    /\ UNCHANGED <<bd, sessao, trilha, alvo, locais>>

\* liquidarUpdate changes one row. While another session holds the row lock,
\* the UPDATE waits: neither this action nor the next is enabled.
LiquidarUpdate(r) ==
    /\ pc[r] = "atualizar"
    /\ sessao[r] = "aberta"
    /\ Casa(transacoes[alvo[r]], lida[r])
    /\ trava[alvo[r]] = Ninguem
    /\ trava' = [trava EXCEPT ![alvo[r]] = r]
    /\ escrita' = [escrita EXCEPT ![r] = Liquidada(transacoes[alvo[r]], instante[r])]
    /\ pc' = [pc EXCEPT ![r] = "auditar"]
    /\ UNCHANGED <<bd, sessao, trilha, alvo, locais>>

\* RowsAffected() == 0: ErroConflitoLiquidacao, after the deferred Rollback.
LiquidarUpdateConflito(r) ==
    /\ pc[r] = "atualizar"
    /\ sessao[r] = "aberta"
    /\ ~ Casa(transacoes[alvo[r]], lida[r])
    /\ saida' = [saida EXCEPT ![r] = [codigo |-> 409, corpo |-> SemLinha]]
    /\ pc' = [pc EXCEPT ![r] = "reverter"]
    /\ UNCHANGED <<bd, sessoes, alvo, lida, instante>>

\* Fault: the audit row is inserted through the pool, not through tx.
InserirAuditoriaForaDaTransacao(r) ==
    /\ pc[r] = "auditar"
    /\ sessao[r] = "aberta"
    /\ auditoria' = auditoria \cup {LinhaAuditoria(r)}
    /\ pc' = [pc EXCEPT ![r] = "reler"]
    /\ UNCHANGED <<transacoes, sessoes, alvo, locais>>

InserirAuditoriaLiquidacao(r) ==
    /\ pc[r] = "auditar"
    /\ sessao[r] = "aberta"
    /\ trilha' = [trilha EXCEPT ![r] = @ \cup {LinhaAuditoria(r)}]
    /\ pc' = [pc EXCEPT ![r] = "reler"]
    /\ UNCHANGED <<bd, sessao, trava, escrita, alvo, locais>>

\* The SELECT inside the transaction fills the body of the future answer.
Reler(r) ==
    /\ pc[r] = "reler"
    /\ sessao[r] = "aberta"
    /\ saida' = [saida EXCEPT ![r] = [codigo |-> 200, corpo |-> LinhaVista(r)]]
    /\ pc' = [pc EXCEPT ![r] = "confirmar"]
    /\ UNCHANGED <<bd, sessoes, alvo, lida, instante>>

\* tx.Commit sends COMMIT; the database decides on its own time.
Commit(r) ==
    /\ pc[r] = "confirmar"
    /\ sessao[r] = "aberta"
    /\ sessao' = [sessao EXCEPT ![r] = "confirmando"]
    /\ pc' = [pc EXCEPT ![r] = "aguardando"]
    /\ UNCHANGED <<bd, trava, escrita, trilha, alvo, locais>>

\* The answer to COMMIT arrives. The deferred Rollback finds tx closed.
Sucesso(r) ==
    /\ pc[r] = "aguardando"
    /\ sessao[r] = "confirmada"
    /\ pc' = [pc EXCEPT ![r] = "respondida"]
    /\ UNCHANGED <<bd, sessoes, alvo, locais>>

\* Fault: the error of Commit is dropped like the one of Rollback.
CommitSemChecarErro(r) ==
    /\ pc[r] = "aguardando"
    /\ pc' = [pc EXCEPT ![r] = "respondida"]
    /\ UNCHANGED <<bd, sessoes, alvo, locais>>

\* Fault: any failure of Commit is taken for a conflict.
CommitFalhoViraConflito(r) ==
    /\ pc[r] = "aguardando"
    /\ ResponderErro(r, 409)
    /\ UNCHANGED <<bd, sessoes, alvo, lida, instante>>

\* The answer to COMMIT is an error or never comes (connection lost, context
\* cancelled), whatever the database did or will do with the COMMIT.
FalharCommit(r) ==
    /\ pc[r] = "aguardando"
    /\ ResponderErro(r, 500)
    /\ UNCHANGED <<bd, sessoes, alvo, lida, instante>>

\* A statement before COMMIT fails; the deferred Rollback runs next.
Falhar(r) ==
    /\ pc[r] \in {"atualizar", "auditar", "reler", "confirmar"}
    /\ saida' = [saida EXCEPT ![r] = [codigo |-> 500, corpo |-> SemLinha]]
    /\ pc' = [pc EXCEPT ![r] = "reverter"]
    /\ UNCHANGED <<bd, sessoes, alvo, lida, instante>>

\* Fault: an early return without the deferred Rollback.
SemRollback(r) ==
    /\ pc[r] = "reverter"
    /\ pc' = [pc EXCEPT ![r] = "respondida"]
    /\ UNCHANGED <<bd, sessoes, alvo, locais>>

\* defer tx.Rollback, whose error is dropped: over a live connection it ends
\* the session, over a lost one the session stays until PostgreSQL notices.
Rollback(r) ==
    /\ pc[r] = "reverter"
    /\ pc' = [pc EXCEPT ![r] = "respondida"]
    /\ \/ sessao[r] = "aberta" /\ Encerrar(r, "abortada")
       \/ sessao[r] = "aberta" /\ sessao' = [sessao EXCEPT ![r] = "orfa"]
                               /\ UNCHANGED <<trava, escrita, trilha>>
       \/ sessao[r] # "aberta" /\ UNCHANGED sessoes
    /\ UNCHANGED <<bd, alvo, locais>>

\* The API process dies: handlers vanish unanswered, their sessions are left
\* to the database, a COMMIT already sent is still in flight.
Queda ==
    /\ \E r \in Requisicoes : pc[r] \in Ativa
    /\ pc' = [r \in Requisicoes |-> IF pc[r] \in Ativa THEN "perdida" ELSE pc[r]]
    /\ sessao' = [r \in Requisicoes |->
                     IF sessao[r] = "aberta" THEN "orfa" ELSE sessao[r]]
    /\ UNCHANGED <<bd, trava, escrita, trilha, alvo, locais>>

-------------------------------------------------------------------------------
\* What a handler does when nothing new goes wrong: it answers a session that
\* the database ended with an error.
Andar(r) ==
    \/ PorID(r) \/ PorIDSemLinha(r) \/ Begin(r)
    \/ LiquidarUpdate(r) \/ LiquidarUpdateConflito(r)
    \/ InserirAuditoriaLiquidacao(r) \/ Reler(r) \/ Commit(r)
    \/ Sucesso(r) \/ Rollback(r)
    \/ sessao[r] = "abortada" /\ (Falhar(r) \/ FalharCommit(r))

Next ==
    \/ \E t \in Transacoes, s \in {"PENDENTE", "CANCELADA"} : Criar(t, s)
    \/ \E r \in Requisicoes :
          \/ Receber(r) \/ PorID(r) \/ PorIDSemLinha(r) \/ Begin(r)
          \/ FalharSemSessao(r)
          \/ LiquidarUpdate(r) \/ LiquidarUpdateConflito(r)
          \/ InserirAuditoriaLiquidacao(r) \/ Reler(r) \/ Commit(r)
          \/ Sucesso(r) \/ FalharCommit(r) \/ Falhar(r) \/ Rollback(r)
          \/ ConfirmarBD(r) \/ AbortarBD(r)
    \/ Queda

\* Goroutines are scheduled, so a handler that can go on goes on; PostgreSQL
\* decides a COMMIT it was sent and ends a session whose client is gone.
\* Requests need not arrive, and nothing need fail.
Fairness ==
    \A r \in Requisicoes :
        /\ WF_vars(Andar(r))
        /\ WF_vars(ConfirmarBD(r) \/ (sessao[r] = "confirmando" /\ AbortarBD(r)))
        /\ WF_vars(sessao[r] = "orfa" /\ AbortarBD(r))

Spec == Init /\ [][Next]_vars
FairSpec == Spec /\ Fairness

-------------------------------------------------------------------------------
(* Properties.                                                             *)

Final(t) == transacoes[t].status \in {"LIQUIDADA", "CANCELADA"}
Respondida(r, codigo) == pc[r] = "respondida" /\ saida[r].codigo = codigo
Autoras == {a.autora : a \in auditoria}

\* The audit trail tells what happened to the table: a settled row has one
\* audit row, which carries its version and its instant, and no audit row
\* speaks of a transaction that is not settled (the same-transaction insert of
\* Liquidar, in.Versao+1 against versao + 1).
AuditoriaFiel ==
    /\ \A a \in auditoria :
          transacoes[a.transacao] = [status |-> "LIQUIDADA", versao |-> a.versao,
                                     liquidada_em |-> a.instante]
    /\ \A t \in Transacoes :
          transacoes[t].status = "LIQUIDADA" => \E a \in auditoria : a.transacao = t
    /\ \A a, b \in auditoria : a.transacao = b.transacao => a = b

\* A caller who got 200 settled the transaction itself, and the body it was
\* sent is the row as it still is: the SELECT before COMMIT did not describe
\* something that was never published or was overwritten.
SucessoDuravel ==
    \A r \in Requisicoes : Respondida(r, 200) =>
        /\ saida[r].corpo = transacoes[alvo[r]]
        /\ \E a \in auditoria : a.autora = r /\ a.transacao = alvo[r]

\* A refusal is final: the caller who got 409 (or 404) settled nothing, has no
\* COMMIT in flight, and after a 409 the row is one nobody can settle any more.
RecusaSemEfeito ==
    \A r \in Requisicoes : Respondida(r, 404) \/ Respondida(r, 409) =>
        /\ r \notin Autoras
        /\ sessao[r] # "confirmando"
        /\ Respondida(r, 409) => Final(alvo[r])

\* Optimistic locking loses no update: while a session holds the row, what it
\* will publish was computed from the very version it will replace, the one
\* its handler had read.
SemAtualizacaoPerdida ==
    \A r \in Requisicoes : escrita[r] # SemLinha =>
        /\ trava[alvo[r]] = r
        /\ Casa(transacoes[alvo[r]], lida[r])
        /\ escrita[r] = Liquidada(transacoes[alvo[r]], instante[r])

\* No step changes a settled or cancelled row or removes an audit row; a
\* pending row changes only by being settled, one version up.
HistoricoImutavel ==
    [][/\ auditoria \subseteq auditoria'
       /\ \A t \in Transacoes :
             /\ Final(t) => transacoes'[t] = transacoes[t]
             /\ transacoes[t].status = "PENDENTE" /\ transacoes'[t] # transacoes[t] =>
                   \E em \in Instantes : transacoes'[t] = Liquidada(transacoes[t], em)]_vars

\* Every request is answered unless the process dies under it, however many
\* wait for the same row lock and for the pool's connections.
TodaRequisicaoTermina ==
    \A r \in Requisicoes : pc[r] = "buscar" ~> pc[r] \in {"respondida", "perdida"}

\* No row stays locked by a session nobody drives any more.
TravaSempreLiberada ==
    \A t \in Transacoes : trava[t] # Ninguem ~> trava[t] = Ninguem

-------------------------------------------------------------------------------
(* The abstract specification this one implements.                         *)

Liquidante ==
    [t \in Transacoes |->
        IF \E a \in auditoria : a.transacao = t
        THEN (CHOOSE a \in auditoria : a.transacao = t).autora
        ELSE Ninguem]

\* The verdict a caller reads in the status code.
VereditoDe(codigo) ==
    CASE codigo = 200 -> "sucesso"
      [] codigo = 404 -> "inexistente"
      [] codigo = 409 -> "conflito"
      [] OTHER -> "erro"

Veredito ==
    [r \in Requisicoes |->
        IF pc[r] = "respondida" THEN VereditoDe(saida[r].codigo) ELSE "nenhum"]

Situacao == [t \in Transacoes |-> transacoes[t].status]

Abstrata == INSTANCE LiquidacaoAbstrata WITH
    situacao <- Situacao, liquidante <- Liquidante, veredito <- Veredito

\* Statement by statement, with every failure, a settlement looks to its
\* callers like one indivisible step.
ImplementaAbstrata == Abstrata!Spec
===============================================================================
