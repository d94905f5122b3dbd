--------------------------- MODULE LiquidacaoProofs ---------------------------
(***************************************************************************)
(* Proofs about Liquidacao, for any number of requests, transactions,      *)
(* clock readings and connections.                                         *)
(***************************************************************************)
EXTENDS Liquidacao, TLAPS

(***************************************************************************)
(* The inductive invariant.  The properties speak of committed rows and of *)
(* answers; a step preserves them because of what sessions and handlers    *)
(* agree on in between, which the conjuncts below say.                     *)
(***************************************************************************)

\* Before a row exists it is SemLinha, and nothing else looks absent.
LinhaInv(t) == transacoes[t].status = "AUSENTE" => transacoes[t] = SemLinha

\* A lock is held by the session of a request that writes that row.
TravaInv(t) ==
    trava[t] # Ninguem => alvo[trava[t]] = t /\ escrita[trava[t]] # SemLinha

\* Which states of the session go with which point of the handler.
FaseInv(r) ==
    /\ pc[r] \in {"livre", "buscar", "iniciar"} => sessao[r] = "nenhuma"
    /\ pc[r] \in EmLiquidar \ {"aguardando"} => sessao[r] \in {"aberta", "abortada"}
    /\ pc[r] = "aguardando" => sessao[r] \in {"confirmando", "confirmada", "abortada"}
    /\ pc[r] \in {"respondida", "perdida"} => sessao[r] # "aberta"

\* What was read under optimistic locking is stale only once the row is final.
LidaInv(r) ==
    pc[r] \in {"iniciar"} \cup EmLiquidar =>
        /\ transacoes[alvo[r]] # SemLinha
        /\ transacoes[alvo[r]].status = "PENDENTE" => lida[r] = transacoes[alvo[r]].versao
        /\ instante[r] \in Instantes

\* What a session has written so far, and what it may not have written yet.
EscritaInv(r) ==
    /\ sessao[r] \notin Viva => escrita[r] = SemLinha /\ trilha[r] = {}
    /\ escrita[r] # SemLinha =>
          /\ trava[alvo[r]] = r
          /\ Casa(transacoes[alvo[r]], lida[r])
          /\ escrita[r] = Liquidada(transacoes[alvo[r]], instante[r])
    /\ pc[r] \in {"atualizar", "auditar"} => trilha[r] = {}
    /\ pc[r] \in {"auditar", "reler", "confirmar"} /\ sessao[r] = "aberta" => escrita[r] # SemLinha
    /\ pc[r] \in {"reler", "confirmar"} /\ sessao[r] = "aberta" => trilha[r] = {LinhaAuditoria(r)}
    /\ sessao[r] = "confirmando" =>
          /\ escrita[r] # SemLinha
          /\ trilha[r] = {LinhaAuditoria(r)}
          /\ instante[r] \in Instantes

\* The answer a handler carries or has given, against the tables.
SaidaInv(r) ==
    /\ pc[r] = "confirmar" /\ sessao[r] = "aberta" =>
          saida[r] = [codigo |-> 200, corpo |-> escrita[r]]
    /\ pc[r] = "aguardando" /\ sessao[r] = "confirmando" =>
          saida[r] = [codigo |-> 200, corpo |-> escrita[r]]
    /\ pc[r] = "aguardando" /\ sessao[r] = "confirmada" =>
          saida[r] = [codigo |-> 200, corpo |-> transacoes[alvo[r]]]
    /\ pc[r] = "reverter" => saida[r].codigo \in {409, 500}
    /\ pc[r] = "reverter" /\ saida[r].codigo = 409 => Final(alvo[r]) /\ escrita[r] = SemLinha
    /\ Respondida(r, 200) =>
          sessao[r] = "confirmada" /\ saida[r].corpo = transacoes[alvo[r]]
    /\ Respondida(r, 404) => sessao[r] = "nenhuma"
    /\ Respondida(r, 409) => sessao[r] \in {"abortada", "orfa"} /\ Final(alvo[r])
    /\ pc[r] = "respondida" => saida[r].codigo # 0

\* The audit table holds exactly the rows of the sessions that committed.
AuditoriaInv ==
    /\ \A a \in auditoria :
          /\ a.transacao = alvo[a.autora]
          /\ sessao[a.autora] = "confirmada"
          /\ transacoes[a.transacao] = [status |-> "LIQUIDADA", versao |-> a.versao,
                                        liquidada_em |-> a.instante]
    /\ \A r \in Requisicoes : sessao[r] = "confirmada" =>
          \E a \in auditoria : a.autora = r
    /\ \A t \in Transacoes :
          transacoes[t].status = "LIQUIDADA" => \E a \in auditoria : a.transacao = t
    /\ \A a, b \in auditoria : a.transacao = b.transacao => a = b

IInv ==
    /\ TypeOK
    /\ \A t \in Transacoes : LinhaInv(t) /\ TravaInv(t)
    /\ \A r \in Requisicoes :
          FaseInv(r) /\ LidaInv(r) /\ EscritaInv(r) /\ SaidaInv(r)
    /\ AuditoriaInv

-------------------------------------------------------------------------------
USE DEF Viva, EmLiquidar, Ativa, Respondida, Final

\* The initial state: nothing exists and nothing runs.
LEMMA InicioInv == Init => IInv
<1> SUFFICES ASSUME Init PROVE IInv
  OBVIOUS
<1>1. TypeOK
  BY DEF Init, TypeOK, Linha, SemLinha
<1>2. ASSUME NEW t \in Transacoes PROVE LinhaInv(t) /\ TravaInv(t)
  BY DEF Init, LinhaInv, TravaInv, SemLinha
<1>3. ASSUME NEW r \in Requisicoes PROVE FaseInv(r) /\ LidaInv(r) /\ EscritaInv(r) /\ SaidaInv(r)
  BY DEF Init, FaseInv, LidaInv, EscritaInv, SaidaInv
<1>4. AuditoriaInv
  BY DEF Init, AuditoriaInv, SemLinha
<1> QED
  BY <1>1, <1>2, <1>3, <1>4 DEF IInv

\* The absent row is a row.
LEMMA SemLinhaEhLinha == SemLinha \in Linha
  BY DEF SemLinha, Linha

\* What the UPDATE writes is a row, and no longer an absent one.
LEMMA LiquidadaLinha ==
    ASSUME NEW l \in Linha, NEW em \in Instantes
    PROVE  /\ Liquidada(l, em) \in Linha
           /\ Liquidada(l, em).status = "LIQUIDADA"
           /\ Liquidada(l, em) # SemLinha
<1>1. l.versao + 1 \in Nat
  BY DEF Linha
<1> QED
  BY <1>1 DEF Liquidada, Linha, SemLinha

\* A session that committed left its row settled and its audit row behind.
LEMMA Publicada ==
    ASSUME IInv, NEW r \in Requisicoes, sessao[r] = "confirmada"
    PROVE  /\ transacoes[alvo[r]].status = "LIQUIDADA"
           /\ \E a \in auditoria : a.autora = r /\ a.transacao = alvo[r]
<1>1. PICK a \in auditoria : a.autora = r
  BY DEF IInv, AuditoriaInv
<1>2. a.transacao = alvo[r]
  BY <1>1 DEF IInv, AuditoriaInv
<1>3. transacoes[a.transacao] = [status |-> "LIQUIDADA", versao |-> a.versao,
                                 liquidada_em |-> a.instante]
  BY <1>1 DEF IInv, AuditoriaInv
<1> QED
  BY <1>1, <1>2, <1>3

\* A step that commits nothing keeps the audit table in agreement.
LEMMA TabelasParadas ==
    ASSUME IInv, UNCHANGED <<bd, alvo>>,
           \A q \in Requisicoes : sessao'[q] = "confirmada" <=> sessao[q] = "confirmada"
    PROVE  AuditoriaInv'
<1>1. ASSUME NEW a \in auditoria
      PROVE  /\ a.transacao = alvo[a.autora]
             /\ sessao'[a.autora] = "confirmada"
             /\ transacoes[a.transacao] = [status |-> "LIQUIDADA", versao |-> a.versao,
                                            liquidada_em |-> a.instante]
  <2>1. a.autora \in Requisicoes /\ sessao[a.autora] = "confirmada"
    BY <1>1 DEF IInv, TypeOK, Auditoria, AuditoriaInv
  <2> QED
    BY <1>1, <2>1 DEF IInv, AuditoriaInv
<1> QED
  BY <1>1 DEF bd, IInv, AuditoriaInv

\* A step of the handler that leaves the database alone has to be looked at
\* only for what it tells of requests.
LEMMA HandlerInv ==
    ASSUME IInv, UNCHANGED <<bd, sessoes, alvo>>, TypeOK',
           \A q \in Requisicoes : (FaseInv(q) /\ LidaInv(q) /\ EscritaInv(q) /\ SaidaInv(q))'
    PROVE  IInv'
<1> USE DEF bd, sessoes
<1>1. ASSUME NEW u \in Transacoes PROVE (LinhaInv(u) /\ TravaInv(u))'
  BY DEF IInv, LinhaInv, TravaInv
<1>2. AuditoriaInv'
  BY DEF IInv, AuditoriaInv
<1> QED
  BY <1>1, <1>2 DEF IInv

\* Registering a transaction disturbs no session: it touches only a row that
\* no handler has found yet.
LEMMA CriarInv ==
    ASSUME IInv, NEW t \in Transacoes, NEW s \in {"PENDENTE", "CANCELADA"}, Criar(t, s)
    PROVE  IInv'
<1> USE DEF Criar, bd, sessoes, locais
<1>1. TypeOK'
  BY DEF IInv, TypeOK, Linha, SemLinha
<1>2. ASSUME NEW u \in Transacoes PROVE (LinhaInv(u) /\ TravaInv(u))'
  BY DEF IInv, TypeOK, LinhaInv, TravaInv, SemLinha
<1>3. ASSUME NEW r \in Requisicoes PROVE (FaseInv(r) /\ LidaInv(r) /\ EscritaInv(r) /\ SaidaInv(r))'
  <2> USE DEF IInv, TypeOK, SemLinha
  <2>1. FaseInv(r)'
    BY DEF FaseInv
  <2>2. LidaInv(r)'
    BY DEF LidaInv
  <2>3. EscritaInv(r)'
    BY DEF EscritaInv, Casa, LinhaAuditoria
  <2>4. SaidaInv(r)'
    BY Publicada DEF SaidaInv
  <2> QED
    BY <2>1, <2>2, <2>3, <2>4
<1>4. AuditoriaInv'
  BY DEF IInv, TypeOK, AuditoriaInv, SemLinha, Auditoria
<1> QED
  BY <1>1, <1>2, <1>3, <1>4 DEF IInv

\* The handler starts: nothing but pc moves.
LEMMA ReceberInv ==
    ASSUME IInv, NEW r \in Requisicoes, Receber(r)
    PROVE  IInv'
<1> USE DEF Receber, bd, sessoes, locais, ResponderErro
<1>1. TypeOK'
  BY DEF IInv, TypeOK, LinhaVista, Linha, SemLinha
<1>2. ASSUME NEW q \in Requisicoes
      PROVE  (FaseInv(q) /\ LidaInv(q) /\ EscritaInv(q) /\ SaidaInv(q))'
  BY DEF IInv, TypeOK, FaseInv, LidaInv, EscritaInv, SaidaInv, LinhaVista, LinhaAuditoria
<1> QED
  BY <1>1, <1>2, HandlerInv

\* PorID found the row: what it read is the committed version.
LEMMA PorIDInv ==
    ASSUME IInv, NEW r \in Requisicoes, PorID(r)
    PROVE  IInv'
<1> USE DEF PorID, bd, sessoes, locais, ResponderErro
<1>1. TypeOK'
  BY DEF IInv, TypeOK, LinhaVista, Linha, SemLinha
<1>2. ASSUME NEW q \in Requisicoes
      PROVE  (FaseInv(q) /\ LidaInv(q) /\ EscritaInv(q) /\ SaidaInv(q))'
  BY DEF IInv, TypeOK, FaseInv, LidaInv, EscritaInv, SaidaInv, LinhaVista, LinhaAuditoria
<1> QED
  BY <1>1, <1>2, HandlerInv

\* 404: no session was opened.
LEMMA PorIDSemLinhaInv ==
    ASSUME IInv, NEW r \in Requisicoes, PorIDSemLinha(r)
    PROVE  IInv'
<1> USE DEF PorIDSemLinha, bd, sessoes, locais, ResponderErro
<1>1. TypeOK'
  BY DEF IInv, TypeOK, LinhaVista, Linha, SemLinha
<1>2. ASSUME NEW q \in Requisicoes
      PROVE  (FaseInv(q) /\ LidaInv(q) /\ EscritaInv(q) /\ SaidaInv(q))'
  BY DEF IInv, TypeOK, FaseInv, LidaInv, EscritaInv, SaidaInv, LinhaVista, LinhaAuditoria
<1> QED
  BY <1>1, <1>2, HandlerInv

\* A new session has written nothing and holds nothing.
LEMMA BeginInv ==
    ASSUME IInv, NEW r \in Requisicoes, Begin(r)
    PROVE  IInv'
<1> USE DEF Begin, bd, sessoes, locais, ResponderErro
<1>1. TypeOK'
  BY DEF IInv, TypeOK, LidaInv, Casa, Liquidada, LinhaVista, LinhaAuditoria, Auditoria, Linha, SemLinha
<1>2. ASSUME NEW u \in Transacoes PROVE (LinhaInv(u) /\ TravaInv(u))'
  BY LiquidacaoAssumption DEF IInv, TypeOK, LinhaInv, TravaInv, Liquidada, SemLinha
<1>3. ASSUME NEW q \in Requisicoes PROVE (FaseInv(q) /\ LidaInv(q) /\ EscritaInv(q) /\ SaidaInv(q))'
  <2> USE DEF IInv, TypeOK
  <2>1. FaseInv(q)'
    BY DEF FaseInv
  <2>2. LidaInv(q)'
    BY DEF LidaInv
  <2>3. EscritaInv(q)'
    BY DEF EscritaInv, FaseInv, LinhaAuditoria
  <2>4. SaidaInv(q)'
    BY DEF SaidaInv, FaseInv, LidaInv, EscritaInv, LinhaVista, Casa, LinhaInv
  <2> QED
    BY <2>1, <2>2, <2>3, <2>4
<1>4. AuditoriaInv'
  <2>1. \A q \in Requisicoes : sessao'[q] = "confirmada" <=> sessao[q] = "confirmada"
    BY DEF IInv, TypeOK, FaseInv
  <2> QED
    BY <2>1, TabelasParadas
<1> QED
  BY <1>1, <1>2, <1>3, <1>4 DEF IInv

\* 500 before any session.
LEMMA FalharSemSessaoInv ==
    ASSUME IInv, NEW r \in Requisicoes, FalharSemSessao(r)
    PROVE  IInv'
<1> USE DEF FalharSemSessao, bd, sessoes, locais, ResponderErro
<1>1. TypeOK'
  BY DEF IInv, TypeOK, LinhaVista, Linha, SemLinha
<1>2. ASSUME NEW q \in Requisicoes
      PROVE  (FaseInv(q) /\ LidaInv(q) /\ EscritaInv(q) /\ SaidaInv(q))'
  BY DEF IInv, TypeOK, FaseInv, LidaInv, EscritaInv, SaidaInv, LinhaVista, LinhaAuditoria
<1> QED
  BY <1>1, <1>2, HandlerInv

\* The UPDATE takes the free row lock, so no other session writes the row.
LEMMA LiquidarUpdateInv ==
    ASSUME IInv, NEW r \in Requisicoes, LiquidarUpdate(r)
    PROVE  IInv'
<1> USE DEF LiquidarUpdate, bd, sessoes, locais, ResponderErro
<1>0. /\ transacoes[alvo[r]] \in Linha
      /\ instante[r] \in Instantes
      /\ Liquidada(transacoes[alvo[r]], instante[r]) \in Linha
      /\ Liquidada(transacoes[alvo[r]], instante[r]) # SemLinha
  <2>1. transacoes[alvo[r]] \in Linha /\ instante[r] \in Instantes
    BY DEF IInv, TypeOK, LidaInv
  <2> QED
    BY <2>1, LiquidadaLinha
<1>1. TypeOK'
  BY <1>0 DEF IInv, TypeOK
<1>2. ASSUME NEW u \in Transacoes PROVE (LinhaInv(u) /\ TravaInv(u))'
  BY <1>0, LiquidacaoAssumption DEF IInv, TypeOK, LinhaInv, TravaInv
<1>3. ASSUME NEW q \in Requisicoes PROVE (FaseInv(q) /\ LidaInv(q) /\ EscritaInv(q) /\ SaidaInv(q))'
  <2> USE DEF IInv, TypeOK
  <2>1. FaseInv(q)'
    BY DEF FaseInv
  <2>2. LidaInv(q)'
    BY DEF LidaInv
  <2>3. EscritaInv(q)'
    <3>1. CASE q = r
      BY <3>1, <1>0 DEF EscritaInv, FaseInv, LinhaAuditoria
    <3>2. CASE q # r
      <4>1. alvo[q] = alvo[r] => escrita[q] = SemLinha
        BY <3>2, LiquidacaoAssumption DEF EscritaInv
      <4> QED
        BY <3>2, <4>1, <1>0 DEF EscritaInv, FaseInv, LinhaAuditoria
    <3> QED
      BY <3>1, <3>2
  <2>4. SaidaInv(q)'
    BY DEF SaidaInv, FaseInv, LidaInv, EscritaInv, LinhaVista, Casa, LinhaInv
  <2> QED
    BY <2>1, <2>2, <2>3, <2>4
<1>4. AuditoriaInv'
  <2>1. \A q \in Requisicoes : sessao'[q] = "confirmada" <=> sessao[q] = "confirmada"
    BY DEF IInv, TypeOK, FaseInv
  <2> QED
    BY <2>1, TabelasParadas
<1> QED
  BY <1>1, <1>2, <1>3, <1>4 DEF IInv

\* No row matched: by LidaInv the row is final.
LEMMA LiquidarUpdateConflitoInv ==
    ASSUME IInv, NEW r \in Requisicoes, LiquidarUpdateConflito(r)
    PROVE  IInv'
<1> USE DEF LiquidarUpdateConflito, bd, sessoes, locais, ResponderErro
<1>0. Final(alvo[r]) /\ escrita[r] = SemLinha
  <2>1. /\ transacoes[alvo[r]] # SemLinha
        /\ transacoes[alvo[r]].status # "PENDENTE"
    BY DEF IInv, LidaInv, Casa
  <2>2. transacoes[alvo[r]].status # "AUSENTE"
    BY <2>1 DEF IInv, TypeOK, LinhaInv
  <2>3. transacoes[alvo[r]].status \in {"AUSENTE", "PENDENTE", "LIQUIDADA", "CANCELADA"}
    BY DEF IInv, TypeOK, Linha
  <2> QED
    BY <2>1, <2>2, <2>3 DEF IInv, EscritaInv
<1>1. TypeOK'
  BY DEF IInv, TypeOK, LinhaVista, Linha, SemLinha
<1>2. ASSUME NEW q \in Requisicoes
      PROVE  (FaseInv(q) /\ LidaInv(q) /\ EscritaInv(q) /\ SaidaInv(q))'
  BY <1>0 DEF IInv, TypeOK, FaseInv, LidaInv, EscritaInv, SaidaInv, LinhaVista, LinhaAuditoria
<1> QED
  BY <1>1, <1>2, HandlerInv

\* The audit row repeats what the UPDATE wrote.
LEMMA InserirAuditoriaLiquidacaoInv ==
    ASSUME IInv, NEW r \in Requisicoes, InserirAuditoriaLiquidacao(r)
    PROVE  IInv'
<1> USE DEF InserirAuditoriaLiquidacao, bd, sessoes, locais, ResponderErro
<1>1. TypeOK'
  BY DEF IInv, TypeOK, LidaInv, Casa, Liquidada, LinhaVista, LinhaAuditoria, Auditoria, Linha, SemLinha
<1>2. ASSUME NEW u \in Transacoes PROVE (LinhaInv(u) /\ TravaInv(u))'
  BY LiquidacaoAssumption DEF IInv, TypeOK, LinhaInv, TravaInv, Liquidada, SemLinha
<1>3. ASSUME NEW q \in Requisicoes PROVE (FaseInv(q) /\ LidaInv(q) /\ EscritaInv(q) /\ SaidaInv(q))'
  <2> USE DEF IInv, TypeOK
  <2>1. FaseInv(q)'
    BY DEF FaseInv
  <2>2. LidaInv(q)'
    BY DEF LidaInv
  <2>3. EscritaInv(q)'
    BY DEF EscritaInv, FaseInv, LinhaAuditoria
  <2>4. SaidaInv(q)'
    BY DEF SaidaInv, FaseInv, LidaInv, EscritaInv, LinhaVista, Casa, LinhaInv
  <2> QED
    BY <2>1, <2>2, <2>3, <2>4
<1>4. AuditoriaInv'
  <2>1. \A q \in Requisicoes : sessao'[q] = "confirmada" <=> sessao[q] = "confirmada"
    BY DEF IInv, TypeOK, FaseInv
  <2> QED
    BY <2>1, TabelasParadas
<1> QED
  BY <1>1, <1>2, <1>3, <1>4 DEF IInv

\* The body is the uncommitted row, which COMMIT publishes.
LEMMA RelerInv ==
    ASSUME IInv, NEW r \in Requisicoes, Reler(r)
    PROVE  IInv'
<1> USE DEF Reler, bd, sessoes, locais, ResponderErro
<1>1. TypeOK'
  BY DEF IInv, TypeOK, LinhaVista, Linha, SemLinha
<1>2. ASSUME NEW q \in Requisicoes
      PROVE  (FaseInv(q) /\ LidaInv(q) /\ EscritaInv(q) /\ SaidaInv(q))'
  BY DEF IInv, TypeOK, FaseInv, LidaInv, EscritaInv, SaidaInv, LinhaVista, LinhaAuditoria
<1> QED
  BY <1>1, <1>2, HandlerInv

\* Only sessions with both writes reach COMMIT.
LEMMA CommitInv ==
    ASSUME IInv, NEW r \in Requisicoes, Commit(r)
    PROVE  IInv'
<1> USE DEF Commit, bd, sessoes, locais, ResponderErro
<1>1. TypeOK'
  BY DEF IInv, TypeOK, LidaInv, Casa, Liquidada, LinhaVista, LinhaAuditoria, Auditoria, Linha, SemLinha
<1>2. ASSUME NEW u \in Transacoes PROVE (LinhaInv(u) /\ TravaInv(u))'
  BY LiquidacaoAssumption DEF IInv, TypeOK, LinhaInv, TravaInv, Liquidada, SemLinha
<1>3. ASSUME NEW q \in Requisicoes PROVE (FaseInv(q) /\ LidaInv(q) /\ EscritaInv(q) /\ SaidaInv(q))'
  <2> USE DEF IInv, TypeOK
  <2>1. FaseInv(q)'
    BY DEF FaseInv
  <2>2. LidaInv(q)'
    BY DEF LidaInv
  <2>3. EscritaInv(q)'
    BY DEF EscritaInv, FaseInv, LidaInv, LinhaAuditoria
  <2>4. SaidaInv(q)'
    BY DEF SaidaInv, FaseInv, LidaInv, EscritaInv, LinhaVista, Casa, LinhaInv
  <2> QED
    BY <2>1, <2>2, <2>3, <2>4
<1>4. AuditoriaInv'
  <2>1. \A q \in Requisicoes : sessao'[q] = "confirmada" <=> sessao[q] = "confirmada"
    BY DEF IInv, TypeOK, FaseInv
  <2> QED
    BY <2>1, TabelasParadas
<1> QED
  BY <1>1, <1>2, <1>3, <1>4 DEF IInv

\* 200 only over a committed session.
LEMMA SucessoInv ==
    ASSUME IInv, NEW r \in Requisicoes, Sucesso(r)
    PROVE  IInv'
<1> USE DEF Sucesso, bd, sessoes, locais, ResponderErro
<1>1. TypeOK'
  BY DEF IInv, TypeOK, LinhaVista, Linha, SemLinha
<1>2. ASSUME NEW q \in Requisicoes
      PROVE  (FaseInv(q) /\ LidaInv(q) /\ EscritaInv(q) /\ SaidaInv(q))'
  BY DEF IInv, TypeOK, FaseInv, LidaInv, EscritaInv, SaidaInv, LinhaVista, LinhaAuditoria
<1> QED
  BY <1>1, <1>2, HandlerInv

\* A 500 claims nothing.
LEMMA FalharCommitInv ==
    ASSUME IInv, NEW r \in Requisicoes, FalharCommit(r)
    PROVE  IInv'
<1> USE DEF FalharCommit, bd, sessoes, locais, ResponderErro
<1>1. TypeOK'
  BY DEF IInv, TypeOK, LinhaVista, Linha, SemLinha
<1>2. ASSUME NEW q \in Requisicoes
      PROVE  (FaseInv(q) /\ LidaInv(q) /\ EscritaInv(q) /\ SaidaInv(q))'
  BY DEF IInv, TypeOK, FaseInv, LidaInv, EscritaInv, SaidaInv, LinhaVista, LinhaAuditoria
<1> QED
  BY <1>1, <1>2, HandlerInv

\* A failed statement leaves the session to Rollback.
LEMMA FalharInv ==
    ASSUME IInv, NEW r \in Requisicoes, Falhar(r)
    PROVE  IInv'
<1> USE DEF Falhar, bd, sessoes, locais, ResponderErro
<1>1. TypeOK'
  BY DEF IInv, TypeOK, LinhaVista, Linha, SemLinha
<1>2. ASSUME NEW q \in Requisicoes
      PROVE  (FaseInv(q) /\ LidaInv(q) /\ EscritaInv(q) /\ SaidaInv(q))'
  BY DEF IInv, TypeOK, FaseInv, LidaInv, EscritaInv, SaidaInv, LinhaVista, LinhaAuditoria
<1> QED
  BY <1>1, <1>2, HandlerInv

\* A session that ends without committing takes only its own writes with it.
LEMMA AbortarBDInv ==
    ASSUME IInv, NEW r \in Requisicoes, AbortarBD(r)
    PROVE  IInv'
<1> USE DEF AbortarBD, Encerrar, bd, locais
<1>1. TypeOK'
  BY DEF IInv, TypeOK, Linha, SemLinha
<1>2. ASSUME NEW u \in Transacoes PROVE (LinhaInv(u) /\ TravaInv(u))'
  BY LiquidacaoAssumption DEF IInv, TypeOK, LinhaInv, TravaInv, EscritaInv
<1>3. ASSUME NEW q \in Requisicoes PROVE (FaseInv(q) /\ LidaInv(q) /\ EscritaInv(q) /\ SaidaInv(q))'
  <2> USE DEF IInv, TypeOK
  <2>1. FaseInv(q)'
    BY DEF FaseInv
  <2>2. LidaInv(q)'
    BY DEF LidaInv
  <2>3. EscritaInv(q)'
    BY LiquidacaoAssumption DEF EscritaInv, FaseInv, LinhaAuditoria
  <2>4. SaidaInv(q)'
    BY DEF SaidaInv, FaseInv
  <2> QED
    BY <2>1, <2>2, <2>3, <2>4
<1>4. AuditoriaInv'
  <2>1. \A q \in Requisicoes : sessao'[q] = "confirmada" <=> sessao[q] = "confirmada"
    BY DEF IInv, TypeOK, FaseInv
  <2> QED
    BY <2>1, TabelasParadas
<1> QED
  BY <1>1, <1>2, <1>3, <1>4 DEF IInv

\* The deferred Rollback ends the session or leaves it to the database.
LEMMA RollbackInv ==
    ASSUME IInv, NEW r \in Requisicoes, Rollback(r)
    PROVE  IInv'
<1> USE DEF Rollback, Encerrar, bd, sessoes, locais
<1>1. TypeOK'
  <2> USE DEF IInv, TypeOK
  <2>1. CASE sessao[r] = "aberta" /\ Encerrar(r, "abortada")
    BY <2>1, SemLinhaEhLinha
  <2>2. CASE sessao' = [sessao EXCEPT ![r] = "orfa"] /\ UNCHANGED <<trava, escrita, trilha>>
    BY <2>2
  <2>3. CASE UNCHANGED sessoes
    BY <2>3
  <2> QED
    BY <2>1, <2>2, <2>3
<1>2. ASSUME NEW u \in Transacoes PROVE (LinhaInv(u) /\ TravaInv(u))'
  BY LiquidacaoAssumption DEF IInv, TypeOK, LinhaInv, TravaInv, EscritaInv
<1>3. ASSUME NEW q \in Requisicoes PROVE (FaseInv(q) /\ LidaInv(q) /\ EscritaInv(q) /\ SaidaInv(q))'
  <2> USE DEF IInv, TypeOK
  <2>1. FaseInv(q)'
    BY DEF FaseInv
  <2>2. LidaInv(q)'
    BY DEF LidaInv
  <2>3. EscritaInv(q)'
    BY LiquidacaoAssumption DEF EscritaInv, FaseInv, LinhaAuditoria
  <2>4. SaidaInv(q)'
    BY DEF SaidaInv, FaseInv
  <2> QED
    BY <2>1, <2>2, <2>3, <2>4
<1>4. AuditoriaInv'
  <2>1. \A q \in Requisicoes : sessao'[q] = "confirmada" <=> sessao[q] = "confirmada"
    BY DEF IInv, TypeOK, FaseInv
  <2> QED
    BY <2>1, TabelasParadas
<1> QED
  BY <1>1, <1>2, <1>3, <1>4 DEF IInv

\* A crash opens no session and leaves none open.
LEMMA QuedaInv ==
    ASSUME IInv, Queda
    PROVE  IInv'
<1> USE DEF Queda, bd, locais
<1>1. TypeOK'
  BY DEF IInv, TypeOK, Linha, SemLinha
<1>2. ASSUME NEW u \in Transacoes PROVE (LinhaInv(u) /\ TravaInv(u))'
  BY LiquidacaoAssumption DEF IInv, TypeOK, LinhaInv, TravaInv, EscritaInv
<1>3. ASSUME NEW q \in Requisicoes PROVE (FaseInv(q) /\ LidaInv(q) /\ EscritaInv(q) /\ SaidaInv(q))'
  <2> USE DEF IInv, TypeOK
  <2>1. FaseInv(q)'
    BY DEF FaseInv
  <2>2. LidaInv(q)'
    BY DEF LidaInv
  <2>3. EscritaInv(q)'
    BY LiquidacaoAssumption DEF EscritaInv, FaseInv, LinhaAuditoria
  <2>4. SaidaInv(q)'
    BY DEF SaidaInv, FaseInv
  <2> QED
    BY <2>1, <2>2, <2>3, <2>4
<1>4. AuditoriaInv'
  <2>1. \A q \in Requisicoes : sessao'[q] = "confirmada" <=> sessao[q] = "confirmada"
    BY DEF IInv, TypeOK, FaseInv
  <2> QED
    BY <2>1, TabelasParadas
<1> QED
  BY <1>1, <1>2, <1>3, <1>4 DEF IInv

\* What COMMIT publishes: the row the handler had read, settled, and the audit
\* row that says so.
LEMMA EfeitoDoCommit ==
    ASSUME IInv, NEW r \in Requisicoes, ConfirmarBD(r)
    PROVE  /\ transacoes' = [transacoes EXCEPT
                 ![alvo[r]] = Liquidada(transacoes[alvo[r]], instante[r])]
           /\ auditoria' = auditoria \cup {LinhaAuditoria(r)}
           /\ transacoes[alvo[r]].status = "PENDENTE"
           /\ instante[r] \in Instantes
           /\ \A a \in auditoria : a.transacao # alvo[r]
<1>1. /\ trava[alvo[r]] = r
      /\ Casa(transacoes[alvo[r]], lida[r])
      /\ escrita[r] = Liquidada(transacoes[alvo[r]], instante[r])
      /\ trilha[r] = {LinhaAuditoria(r)}
      /\ instante[r] \in Instantes
  BY DEF ConfirmarBD, IInv, EscritaInv
<1>2. ASSUME NEW a \in auditoria PROVE a.transacao # alvo[r]
  <2>1. transacoes[a.transacao] = [status |-> "LIQUIDADA", versao |-> a.versao,
                                   liquidada_em |-> a.instante]
    BY <1>2 DEF IInv, AuditoriaInv
  <2> QED
    BY <1>1, <2>1 DEF Casa
<1> QED
  BY <1>1, <1>2 DEF ConfirmarBD, LinhaVista, Casa

\* COMMIT makes the row final and adds its only audit row; no other session
\* was writing that row, and no answer had been given about it.
LEMMA ConfirmarBDInv ==
    ASSUME IInv, NEW r \in Requisicoes, ConfirmarBD(r)
    PROVE  IInv'
<1> USE DEF ConfirmarBD, Encerrar, locais
<1> DEFINE nova == Liquidada(transacoes[alvo[r]], instante[r])
<1>0. /\ alvo[r] \in Transacoes
      /\ transacoes[alvo[r]] \in Linha
      /\ instante[r] \in Instantes
      /\ Casa(transacoes[alvo[r]], lida[r])
      /\ trava[alvo[r]] = r
      /\ escrita[r] = nova
      /\ trilha[r] = {LinhaAuditoria(r)}
  BY DEF IInv, TypeOK, EscritaInv
<1>a. nova \in Linha /\ nova.status = "LIQUIDADA" /\ nova # SemLinha
  BY <1>0, LiquidadaLinha
<1>b. /\ transacoes[alvo[r]].status = "PENDENTE"
      /\ nova = [status |-> "LIQUIDADA", versao |-> lida[r] + 1, liquidada_em |-> instante[r]]
  BY <1>0 DEF Casa, Liquidada
<1>c. transacoes' = [transacoes EXCEPT ![alvo[r]] = nova]
  BY EfeitoDoCommit
<1>d. auditoria' = auditoria \cup {LinhaAuditoria(r)}
  BY EfeitoDoCommit
<1>e. LinhaAuditoria(r) \in Auditoria
  BY <1>0 DEF IInv, TypeOK, LinhaAuditoria, Auditoria
<1> HIDE DEF nova
<1>f. ASSUME NEW q \in Requisicoes, sessao[q] = "confirmada" PROVE alvo[q] # alvo[r]
  BY <1>f, <1>b, Publicada
<1>g. ASSUME NEW q \in Requisicoes, q # r, escrita[q] # SemLinha PROVE alvo[q] # alvo[r]
  BY <1>g, <1>0 DEF IInv, EscritaInv
<1>h. ASSUME NEW q \in Requisicoes, Final(alvo[q]) PROVE alvo[q] # alvo[r]
  BY <1>h, <1>b
<1>1. TypeOK'
  BY <1>0, <1>a, <1>c, <1>d, <1>e, SemLinhaEhLinha DEF IInv, TypeOK
<1>2. ASSUME NEW u \in Transacoes PROVE (LinhaInv(u) /\ TravaInv(u))'
  BY <1>0, <1>a, <1>c, LiquidacaoAssumption DEF IInv, TypeOK, LinhaInv, TravaInv
<1>3. ASSUME NEW q \in Requisicoes PROVE (FaseInv(q) /\ LidaInv(q) /\ EscritaInv(q) /\ SaidaInv(q))'
  <2> USE DEF IInv, TypeOK
  <2>1. FaseInv(q)'
    BY DEF FaseInv
  <2>2. LidaInv(q)'
    BY <1>0, <1>a, <1>c DEF LidaInv
  <2>3. EscritaInv(q)'
    BY <1>0, <1>c, <1>g, LiquidacaoAssumption DEF EscritaInv, FaseInv, LinhaAuditoria
  <2>4. SaidaInv(q)'
    BY <1>0, <1>a, <1>c, <1>f, <1>h DEF SaidaInv, FaseInv
  <2> QED
    BY <2>1, <2>2, <2>3, <2>4
<1>4. AuditoriaInv'
  <2> DEFINE nv == LinhaAuditoria(r)
  <2>0. /\ nv.transacao = alvo[r] /\ nv.autora = r
        /\ nova = [status |-> "LIQUIDADA", versao |-> nv.versao, liquidada_em |-> nv.instante]
    BY <1>b DEF LinhaAuditoria
  <2> HIDE DEF nv
  <2>1. ASSUME NEW a \in auditoria
        PROVE  /\ a.transacao \in Transacoes /\ a.autora \in Requisicoes
               /\ a.transacao # alvo[r]
               /\ a.transacao = alvo[a.autora]
               /\ sessao[a.autora] = "confirmada"
               /\ a.autora # r
               /\ transacoes[a.transacao] = [status |-> "LIQUIDADA", versao |-> a.versao,
                                              liquidada_em |-> a.instante]
    BY <1>b, <1>f DEF IInv, TypeOK, AuditoriaInv, Auditoria
  <2>2. auditoria' = auditoria \cup {nv}
    BY <1>d DEF nv
  <2>3. ASSUME NEW a \in auditoria'
        PROVE  /\ a.transacao = alvo'[a.autora]
               /\ sessao'[a.autora] = "confirmada"
               /\ transacoes'[a.transacao] = [status |-> "LIQUIDADA", versao |-> a.versao,
                                               liquidada_em |-> a.instante]
    <3>1. CASE a \in auditoria
      BY <3>1, <2>1, <1>c DEF IInv, TypeOK
    <3>2. CASE a = nv
      BY <3>2, <2>0, <1>0, <1>c DEF IInv, TypeOK
    <3> QED
      BY <3>1, <3>2, <2>2
  <2>4. ASSUME NEW q \in Requisicoes, sessao'[q] = "confirmada"
        PROVE  \E a \in auditoria' : a.autora = q
    BY <2>4, <2>0, <2>2 DEF IInv, TypeOK, AuditoriaInv
  <2>5. ASSUME NEW u \in Transacoes, transacoes'[u].status = "LIQUIDADA"
        PROVE  \E a \in auditoria' : a.transacao = u
    BY <2>5, <2>0, <2>2, <1>c DEF IInv, TypeOK, AuditoriaInv
  <2>6. ASSUME NEW a \in auditoria', NEW b \in auditoria', a.transacao = b.transacao
        PROVE  a = b
    <3>1. CASE a \in auditoria /\ b \in auditoria
      BY <3>1, <2>6 DEF IInv, AuditoriaInv
    <3>2. CASE a = nv \/ b = nv
      BY <3>2, <2>6, <2>0, <2>1, <2>2
    <3> QED
      BY <3>1, <3>2, <2>2
  <2> QED
    BY <2>3, <2>4, <2>5, <2>6 DEF AuditoriaInv
<1> QED
  BY <1>1, <1>2, <1>3, <1>4 DEF IInv

-------------------------------------------------------------------------------
\* Every step preserves the inductive invariant.
LEMMA PassoInv == IInv /\ [Next]_vars => IInv'
<1> SUFFICES ASSUME IInv, [Next]_vars PROVE IInv'
  OBVIOUS
<1>1. CASE \E t \in Transacoes, s \in {"PENDENTE", "CANCELADA"} : Criar(t, s)
  BY <1>1, CriarInv
<1>2. ASSUME NEW r \in Requisicoes,
             \/ Receber(r) \/ PorID(r) \/ PorIDSemLinha(r) \/ Begin(r) \/ FalharSemSessao(r)
      PROVE  IInv'
  BY <1>2, ReceberInv, PorIDInv, PorIDSemLinhaInv, BeginInv, FalharSemSessaoInv
<1>3. ASSUME NEW r \in Requisicoes,
             \/ LiquidarUpdate(r) \/ LiquidarUpdateConflito(r)
             \/ InserirAuditoriaLiquidacao(r) \/ Reler(r) \/ Commit(r)
      PROVE  IInv'
  BY <1>3, LiquidarUpdateInv, LiquidarUpdateConflitoInv,
     InserirAuditoriaLiquidacaoInv, RelerInv, CommitInv
<1>4. ASSUME NEW r \in Requisicoes,
             \/ Sucesso(r) \/ FalharCommit(r) \/ Falhar(r) \/ Rollback(r)
             \/ ConfirmarBD(r) \/ AbortarBD(r)
      PROVE  IInv'
  BY <1>4, SucessoInv, FalharCommitInv, FalharInv, RollbackInv, ConfirmarBDInv, AbortarBDInv
<1>5. CASE Queda
  BY <1>5, QuedaInv
<1>6. CASE UNCHANGED vars
  <2> USE <1>6 DEF vars, locais, bd, sessoes
  <2>1. TypeOK'
    BY DEF IInv, TypeOK
  <2>2. ASSUME NEW q \in Requisicoes
        PROVE  (FaseInv(q) /\ LidaInv(q) /\ EscritaInv(q) /\ SaidaInv(q))'
    BY DEF IInv, FaseInv, LidaInv, EscritaInv, SaidaInv, LinhaAuditoria
  <2> QED
    BY <2>1, <2>2, HandlerInv
<1> QED
  BY <1>1, <1>2, <1>3, <1>4, <1>5, <1>6 DEF Next

\* Handlers, sessions, locks and tables stay in step: the inductive invariant
\* every result below is read from.
THEOREM Invariante == Spec => []IInv
<1>1. Init => IInv
  BY InicioInv
<1>2. IInv /\ [Next]_vars => IInv'
  BY PassoInv
<1> QED
  BY <1>1, <1>2, PTL DEF Spec

\* The model is well typed; an audit row, in particular, always has an instant.
THEOREM TipoCorreto == Spec => []TypeOK
<1>1. IInv => TypeOK
  BY DEF IInv
<1> QED
  BY <1>1, Invariante, PTL

\* However many requests, failures and crashes, the audit table and the
\* transaction table tell the same story.
THEOREM AuditoriaSempreFiel == Spec => []AuditoriaFiel
<1>1. IInv => AuditoriaFiel
  BY DEF IInv, AuditoriaInv, AuditoriaFiel
<1> QED
  BY <1>1, Invariante, PTL

\* 200 means settled by this request, for ever, with the body it was sent.
THEOREM SucessoSempreDuravel == Spec => []SucessoDuravel
<1>1. IInv => SucessoDuravel
  <2> SUFFICES ASSUME IInv, NEW r \in Requisicoes, Respondida(r, 200)
               PROVE  /\ saida[r].corpo = transacoes[alvo[r]]
                      /\ \E a \in auditoria : a.autora = r /\ a.transacao = alvo[r]
    BY DEF SucessoDuravel
  <2>1. sessao[r] = "confirmada" /\ saida[r].corpo = transacoes[alvo[r]]
    BY DEF IInv, SaidaInv
  <2> QED
    BY <2>1, Publicada
<1> QED
  BY <1>1, Invariante, PTL

\* 404 and 409 mean that the request did nothing and will do nothing.
THEOREM RecusaSempreSemEfeito == Spec => []RecusaSemEfeito
<1>1. IInv => RecusaSemEfeito
  <2> SUFFICES ASSUME IInv, NEW r \in Requisicoes, Respondida(r, 404) \/ Respondida(r, 409)
               PROVE  /\ r \notin Autoras
                      /\ sessao[r] # "confirmando"
                      /\ Respondida(r, 409) => Final(alvo[r])
    BY DEF RecusaSemEfeito
  <2>0. /\ Respondida(r, 404) => sessao[r] = "nenhuma"
        /\ Respondida(r, 409) => sessao[r] \in {"abortada", "orfa"} /\ Final(alvo[r])
    BY DEF IInv, SaidaInv, TypeOK
  <2>1. /\ sessao[r] \in {"nenhuma", "abortada", "orfa"}
        /\ Respondida(r, 409) => Final(alvo[r])
    BY <2>0
  <2>2. ASSUME NEW a \in auditoria PROVE a.autora # r
    <3>1. sessao[a.autora] = "confirmada"
      BY <2>2 DEF IInv, AuditoriaInv
    <3> QED
      BY <3>1, <2>1
  <2> QED
    BY <2>1, <2>2 DEF Autoras
<1> QED
  BY <1>1, Invariante, PTL

\* Two sessions never write one row from one version.
THEOREM SemprePreservaEscritas == Spec => []SemAtualizacaoPerdida
<1>1. IInv => SemAtualizacaoPerdida
  BY DEF IInv, EscritaInv, SemAtualizacaoPerdida
<1> QED
  BY <1>1, Invariante, PTL

-------------------------------------------------------------------------------
\* Only two actions write the tables, and neither rewrites history: a row that
\* is settled or cancelled stays as it is and no audit row is removed.
THEOREM HistoricoSempreImutavel == Spec => HistoricoImutavel
<1> DEFINE Passo ==
      /\ auditoria \subseteq auditoria'
      /\ \A t \in Transacoes :
            /\ Final(t) => transacoes'[t] = transacoes[t]
            /\ transacoes[t].status = "PENDENTE" /\ transacoes'[t] # transacoes[t] =>
                  \E em \in Instantes : transacoes'[t] = Liquidada(transacoes[t], em)
<1>1. IInv /\ [Next]_vars => [Passo]_vars
  <2> SUFFICES ASSUME IInv, Next PROVE Passo
    OBVIOUS
  <2>1. ASSUME NEW t \in Transacoes, NEW s \in {"PENDENTE", "CANCELADA"}, Criar(t, s)
        PROVE  Passo
    BY <2>1 DEF Criar, IInv, TypeOK, SemLinha
  <2>2. ASSUME NEW r \in Requisicoes, ConfirmarBD(r) PROVE Passo
    <3>1. auditoria \subseteq auditoria'
      BY <2>2, EfeitoDoCommit
    <3>2. ASSUME NEW t \in Transacoes
          PROVE  /\ Final(t) => transacoes'[t] = transacoes[t]
                 /\ transacoes'[t] # transacoes[t] =>
                       transacoes'[t] = Liquidada(transacoes[t], instante[r])
      BY <2>2, EfeitoDoCommit DEF IInv, TypeOK
    <3> QED
      BY <2>2, <3>1, <3>2, EfeitoDoCommit
  <2>3. CASE UNCHANGED bd
    BY <2>3 DEF bd
  <2>4. \/ \E t \in Transacoes, s \in {"PENDENTE", "CANCELADA"} : Criar(t, s)
        \/ \E r \in Requisicoes : ConfirmarBD(r)
        \/ UNCHANGED bd
    BY DEF Next, Receber, PorID, PorIDSemLinha, Begin, FalharSemSessao, LiquidarUpdate,
       LiquidarUpdateConflito, InserirAuditoriaLiquidacao, Reler, Commit, Sucesso,
       FalharCommit, Falhar, Rollback, AbortarBD, Queda
  <2> QED
    BY <2>1, <2>2, <2>3, <2>4
<1> QED
  BY <1>1, Invariante, PTL DEF Spec, HistoricoImutavel

-------------------------------------------------------------------------------
(***************************************************************************)
(* Refinement: registering maps to Criar, COMMIT taking effect in the      *)
(* database maps to Efetivar, the answer to the caller maps to Responder,  *)
(* every other step is a stutter.                                          *)
(***************************************************************************)

\* The audit row of a transaction names its settler without ambiguity.
LEMMA LiquidanteDe ==
    ASSUME AuditoriaInv, NEW a \in auditoria, a.transacao \in Transacoes
    PROVE  Liquidante[a.transacao] = a.autora
<1>1. \A b \in auditoria : b.transacao = a.transacao => b = a
  BY DEF AuditoriaInv
<1>2. (CHOOSE b \in auditoria : b.transacao = a.transacao) = a
  BY <1>1
<1> QED
  BY <1>2 DEF Liquidante

\* The same in the next state.
LEMMA LiquidanteDeDepois ==
    ASSUME AuditoriaInv', NEW a \in auditoria', a.transacao \in Transacoes
    PROVE  Liquidante'[a.transacao] = a.autora
<1>1. \A b \in auditoria' : b.transacao = a.transacao => b = a
  BY DEF AuditoriaInv
<1>2. (CHOOSE b \in auditoria' : b.transacao = a.transacao) = a
  BY <1>1
<1> QED
  BY <1>2 DEF Liquidante

\* COMMIT taking effect is the abstract settlement.
LEMMA CommitEfetiva ==
    ASSUME IInv, IInv', NEW r \in Requisicoes, ConfirmarBD(r)
    PROVE  Abstrata!Efetivar(r)
<1> USE DEF IInv, TypeOK
<1>1. /\ transacoes' = [transacoes EXCEPT ![alvo[r]] = Liquidada(transacoes[alvo[r]], instante[r])]
      /\ auditoria' = auditoria \cup {LinhaAuditoria(r)}
      /\ transacoes[alvo[r]].status = "PENDENTE"
      /\ \A a \in auditoria : a.transacao # alvo[r]
  BY EfeitoDoCommit
<1>2. Situacao[alvo[r]] = "PENDENTE"
  BY <1>1 DEF Situacao
<1>3. Veredito[r] \in {"nenhum", "erro"}
  <2>1. pc[r] = "respondida" => saida[r].codigo \notin {200, 404, 409}
    <3>1. SaidaInv(r) /\ sessao[r] = "confirmando"
      BY DEF ConfirmarBD
    <3> QED
      BY <3>1 DEF SaidaInv
  <2> QED
    BY <2>1 DEF Veredito, VereditoDe
<1>4. Situacao' = [Situacao EXCEPT ![alvo[r]] = "LIQUIDADA"]
  BY <1>1 DEF Situacao, Liquidada
<1>5. Liquidante' = [Liquidante EXCEPT ![alvo[r]] = r]
  <2>1. LinhaAuditoria(r) \in auditoria' /\ LinhaAuditoria(r).transacao = alvo[r]
        /\ LinhaAuditoria(r).autora = r
    BY <1>1 DEF LinhaAuditoria
  <2>2. Liquidante'[alvo[r]] = r
    BY <2>1, LiquidanteDeDepois
  <2>3. ASSUME NEW t \in Transacoes, t # alvo[r] PROVE Liquidante'[t] = Liquidante[t]
    <3>1. CASE \E a \in auditoria : a.transacao = t
      <4>1. PICK a \in auditoria : a.transacao = t
        BY <3>1
      <4>2. Liquidante[t] = a.autora
        BY <4>1, LiquidanteDe
      <4>3. Liquidante'[t] = a.autora
        BY <4>1, <1>1, LiquidanteDeDepois
      <4> QED
        BY <4>2, <4>3
    <3>2. CASE ~ \E a \in auditoria : a.transacao = t
      <4>1. ~ \E a \in auditoria' : a.transacao = t
        BY <3>2, <2>1, <2>3, <1>1
      <4> QED
        BY <3>2, <4>1 DEF Liquidante
    <3> QED
      BY <3>1, <3>2
  <2>4. DOMAIN Liquidante' = Transacoes /\ DOMAIN Liquidante = Transacoes
    BY DEF Liquidante
  <2>5. Liquidante' = [t \in Transacoes |-> Liquidante'[t]]
    BY DEF Liquidante
  <2>6. [Liquidante EXCEPT ![alvo[r]] = r]
          = [t \in Transacoes |-> IF t = alvo[r] THEN r ELSE Liquidante[t]]
    BY <2>4
  <2> QED
    BY <2>2, <2>3, <2>5, <2>6
<1>6. UNCHANGED <<alvo, Veredito>>
  BY DEF ConfirmarBD, locais, Veredito
<1> QED
  BY <1>2, <1>3, <1>4, <1>5, <1>6 DEF Abstrata!Efetivar

\* A request whose session did not commit settled nothing.
LEMMA NaoLiquidou ==
    ASSUME IInv, NEW r \in Requisicoes, sessao[r] # "confirmada"
    PROVE  Liquidante[alvo[r]] # r
<1>1. CASE \E a \in auditoria : a.transacao = alvo[r]
  <2>1. PICK a \in auditoria : a.transacao = alvo[r]
    BY <1>1
  <2>2. Liquidante[alvo[r]] = a.autora
    BY <2>1, LiquidanteDe DEF IInv, TypeOK
  <2>3. sessao[a.autora] = "confirmada"
    BY <2>1 DEF IInv, AuditoriaInv
  <2> QED
    BY <2>2, <2>3
<1>2. CASE ~ \E a \in auditoria : a.transacao = alvo[r]
  BY <1>2, LiquidacaoAssumption DEF Liquidante, IInv, TypeOK
<1> QED
  BY <1>1, <1>2

\* Answering a caller is the abstract answer, if the caller is entitled to it.
LEMMA RespostaResponde ==
    ASSUME IInv, NEW r \in Requisicoes, UNCHANGED <<bd, alvo>>,
           pc[r] # "respondida", pc' = [pc EXCEPT ![r] = "respondida"],
           \A q \in Requisicoes : q # r => saida'[q] = saida[q],
           NEW v \in {"sucesso", "inexistente", "conflito", "erro"},
           VereditoDe(saida'[r].codigo) = v,
           Abstrata!Cabe(r, v)
    PROVE  Abstrata!Responder(r)
<1>1. Veredito[r] = "nenhum"
  BY DEF Veredito
<1>2. Veredito' = [Veredito EXCEPT ![r] = v]
  <2>1. Veredito' = [q \in Requisicoes |-> Veredito'[q]]
    BY DEF Veredito
  <2>2. [Veredito EXCEPT ![r] = v] = [q \in Requisicoes |-> IF q = r THEN v ELSE Veredito[q]]
    BY DEF Veredito
  <2>3. ASSUME NEW q \in Requisicoes PROVE Veredito'[q] = IF q = r THEN v ELSE Veredito[q]
    BY <2>3 DEF Veredito, IInv, TypeOK
  <2> QED
    BY <2>1, <2>2, <2>3
<1>3. UNCHANGED <<alvo, Situacao, Liquidante>>
  BY DEF bd, Situacao, Liquidante
<1>4. v \in Abstrata!Vereditos \ {"nenhum"}
  BY DEF Abstrata!Vereditos
<1> QED
  BY <1>1, <1>2, <1>3, <1>4 DEF Abstrata!Responder

\* A step that neither writes the tables nor answers anybody is a stutter.
LEMMA Gagueja ==
    ASSUME UNCHANGED <<bd, alvo>>,
           \A q \in Requisicoes :
              /\ pc'[q] = "respondida" <=> pc[q] = "respondida"
              /\ pc[q] = "respondida" => saida'[q] = saida[q]
    PROVE  UNCHANGED Abstrata!vars
<1>1. Veredito' = Veredito
  BY DEF Veredito
<1>2. UNCHANGED <<alvo, Situacao, Liquidante>>
  BY DEF bd, Situacao, Liquidante
<1> QED
  BY <1>1, <1>2 DEF Abstrata!vars

\* The caller of POST .../liquidacao sees an indivisible settlement: every
\* behaviour of handlers, sessions and crashes is one of LiquidacaoAbstrata.
THEOREM Refinamento == Spec => ImplementaAbstrata
<1>1. Init => Abstrata!Init
  BY DEF Init, Abstrata!Init, Situacao, Liquidante, Veredito, SemLinha
<1>2. IInv /\ IInv' /\ [Next]_vars => [Abstrata!Next]_(Abstrata!vars)
  <2> SUFFICES ASSUME IInv, IInv', [Next]_vars
               PROVE  Abstrata!Next \/ UNCHANGED Abstrata!vars
    OBVIOUS
  <2> USE DEF bd, sessoes, locais, ResponderErro
  <2>1. ASSUME NEW t \in Transacoes, NEW s \in {"PENDENTE", "CANCELADA"}, Criar(t, s)
        PROVE  Abstrata!Criar(t)
    <3>1. Situacao[t] = "AUSENTE"
      BY <2>1 DEF Criar, SemLinha, Situacao
    <3>2. Situacao' = [Situacao EXCEPT ![t] = s]
      <4>1. transacoes' = [transacoes EXCEPT
               ![t] = [status |-> s, versao |-> 1, liquidada_em |-> SemInstante]]
        BY <2>1 DEF Criar
      <4> QED
        BY <4>1 DEF Situacao, IInv, TypeOK
    <3>3. UNCHANGED <<alvo, Liquidante, Veredito>>
      BY <2>1 DEF Criar, Liquidante, Veredito
    <3> QED
      BY <3>1, <3>2, <3>3 DEF Abstrata!Criar
  <2>2. ASSUME NEW r \in Requisicoes, ConfirmarBD(r) PROVE Abstrata!Efetivar(r)
    BY <2>2, CommitEfetiva
  <2>3. ASSUME NEW r \in Requisicoes, PorIDSemLinha(r) PROVE Abstrata!Responder(r)
    <3>1. sessao[r] # "confirmada"
      BY <2>3 DEF PorIDSemLinha, IInv, FaseInv
    <3>2. Abstrata!Cabe(r, "inexistente")
      BY <3>1, NaoLiquidou DEF Abstrata!Cabe
    <3>3. VereditoDe(saida'[r].codigo) = "inexistente"
      BY <2>3 DEF PorIDSemLinha, VereditoDe, IInv, TypeOK
    <3> QED
      BY <2>3, <3>2, <3>3, RespostaResponde DEF PorIDSemLinha, IInv, TypeOK
  <2>4. ASSUME NEW r \in Requisicoes, FalharSemSessao(r) \/ FalharCommit(r)
        PROVE  Abstrata!Responder(r)
    <3>1. Abstrata!Cabe(r, "erro")
      BY DEF Abstrata!Cabe
    <3>2. VereditoDe(saida'[r].codigo) = "erro"
      BY <2>4 DEF FalharSemSessao, FalharCommit, VereditoDe, IInv, TypeOK
    <3> QED
      BY <2>4, <3>1, <3>2, RespostaResponde DEF FalharSemSessao, FalharCommit, IInv, TypeOK
  <2>5. ASSUME NEW r \in Requisicoes, Sucesso(r) PROVE Abstrata!Responder(r)
    <3>1. PICK a \in auditoria : a.autora = r /\ a.transacao = alvo[r]
      BY <2>5, Publicada DEF Sucesso
    <3>2. Liquidante[alvo[r]] = r
      BY <3>1, LiquidanteDe DEF IInv, TypeOK
    <3>3. Abstrata!Cabe(r, "sucesso")
      BY <3>2 DEF Abstrata!Cabe
    <3>4. VereditoDe(saida'[r].codigo) = "sucesso"
      <4>1. saida'[r] = [codigo |-> 200, corpo |-> transacoes[alvo[r]]]
        <5>1. /\ pc[r] = "aguardando" /\ sessao[r] = "confirmada"
              /\ saida'[r] = saida[r]
          BY <2>5 DEF Sucesso
        <5>2. SaidaInv(r)
          BY DEF IInv
        <5> QED
          BY <5>1, <5>2 DEF SaidaInv
      <4>2. saida'[r].codigo = 200
        BY <4>1
      <4> QED
        BY <4>2 DEF VereditoDe
    <3> QED
      BY <2>5, <3>3, <3>4, RespostaResponde DEF Sucesso, IInv, TypeOK
  <2>6. ASSUME NEW r \in Requisicoes, Rollback(r) PROVE Abstrata!Responder(r)
    <3>1. sessao[r] # "confirmada" /\ saida'[r] = saida[r] /\ saida[r].codigo \in {409, 500}
      <4>1. pc[r] = "reverter" /\ saida'[r] = saida[r]
        BY <2>6 DEF Rollback
      <4>2. FaseInv(r) /\ SaidaInv(r)
        BY DEF IInv
      <4> QED
        BY <4>1, <4>2 DEF FaseInv, SaidaInv
    <3>2. CASE saida[r].codigo = 409
      <4>1. Final(alvo[r])
        <5>1. pc[r] = "reverter"
          BY <2>6 DEF Rollback
        <5>2. SaidaInv(r)
          BY DEF IInv
        <5> QED
          BY <3>2, <5>1, <5>2 DEF SaidaInv
      <4>2. Abstrata!Cabe(r, "conflito")
        BY <3>1, <4>1, NaoLiquidou DEF Abstrata!Cabe, Situacao, IInv, TypeOK
      <4>3. VereditoDe(saida'[r].codigo) = "conflito"
        BY <3>1, <3>2 DEF VereditoDe
      <4> QED
        BY <2>6, <4>2, <4>3, RespostaResponde DEF Rollback
    <3>3. CASE saida[r].codigo = 500
      <4>1. Abstrata!Cabe(r, "erro")
        BY DEF Abstrata!Cabe
      <4>2. VereditoDe(saida'[r].codigo) = "erro"
        BY <3>1, <3>3 DEF VereditoDe
      <4> QED
        BY <2>6, <4>1, <4>2, RespostaResponde DEF Rollback
    <3> QED
      BY <3>1, <3>2, <3>3
  <2>7. ASSUME NEW r \in Requisicoes,
               \/ Receber(r) \/ PorID(r) \/ Begin(r) \/ LiquidarUpdate(r)
               \/ LiquidarUpdateConflito(r) \/ InserirAuditoriaLiquidacao(r)
               \/ Reler(r) \/ Commit(r) \/ Falhar(r) \/ AbortarBD(r)
        PROVE  UNCHANGED Abstrata!vars
    BY <2>7, Gagueja DEF Receber, PorID, Begin, LiquidarUpdate, LiquidarUpdateConflito,
       InserirAuditoriaLiquidacao, Reler, Commit, Falhar, AbortarBD, IInv, TypeOK
  <2>8. CASE Queda
    BY <2>8, Gagueja DEF Queda
  <2>9. CASE UNCHANGED vars
    BY <2>9, Gagueja DEF vars
  <2> QED
    BY <2>1, <2>2, <2>3, <2>4, <2>5, <2>6, <2>7, <2>8, <2>9 DEF Next, Abstrata!Next
<1> QED
  BY <1>1, <1>2, Invariante, PTL DEF Spec, ImplementaAbstrata, Abstrata!Spec
===============================================================================
