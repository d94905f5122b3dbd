-------------------------- MODULE LiquidacaoAbstrata --------------------------
(***************************************************************************)
(* What POST /api/v1/transacoes/{id}/liquidacao promises to its callers,   *)
(* without the database session that carries it out: a receivable is       *)
(* settled in one indivisible step, by one request, and only while it is   *)
(* PENDENTE; an answer never contradicts what was settled.                 *)
(***************************************************************************)

CONSTANTS Requisicoes,   \* settlement requests
          Transacoes,    \* identifiers of receivable transactions
          Ninguem        \* "no request has settled it"

VARIABLES alvo,          \* the transaction each request names in its path
          situacao,      \* the status the world sees of each transaction
          liquidante,    \* the request whose audit row each transaction has
          veredito       \* what each request was answered

vars == <<alvo, situacao, liquidante, veredito>>

Situacoes == {"AUSENTE", "PENDENTE", "LIQUIDADA", "CANCELADA"}
Vereditos == {"nenhum", "sucesso", "inexistente", "conflito", "erro"}

Init ==
    /\ alvo \in [Requisicoes -> Transacoes]
    /\ situacao = [t \in Transacoes |-> "AUSENTE"]
    /\ liquidante = [t \in Transacoes |-> Ninguem]
    /\ veredito = [r \in Requisicoes |-> "nenhum"]

\* A transaction is registered, already cancelled or still to be settled.
Criar(t) ==
    /\ situacao[t] = "AUSENTE"
    /\ \E s \in {"PENDENTE", "CANCELADA"} :
          situacao' = [situacao EXCEPT ![t] = s]
    /\ UNCHANGED <<alvo, liquidante, veredito>>

\* The settlement takes effect. It may come after the request was answered
\* with an error (the answer to COMMIT was lost), never after a refusal.
Efetivar(r) ==
    /\ situacao[alvo[r]] = "PENDENTE"
    /\ veredito[r] \in {"nenhum", "erro"}
    /\ situacao' = [situacao EXCEPT ![alvo[r]] = "LIQUIDADA"]
    /\ liquidante' = [liquidante EXCEPT ![alvo[r]] = r]
    /\ UNCHANGED <<alvo, veredito>>

\* The verdicts the state of the transaction entitles a request to.
Cabe(r, v) ==
    /\ v = "sucesso" => liquidante[alvo[r]] = r
    /\ v \in {"conflito", "inexistente"} => liquidante[alvo[r]] # r
    /\ v = "conflito" => situacao[alvo[r]] \in {"LIQUIDADA", "CANCELADA"}

Responder(r) ==
    /\ veredito[r] = "nenhum"
    /\ \E v \in Vereditos \ {"nenhum"} :
          /\ Cabe(r, v)
          /\ veredito' = [veredito EXCEPT ![r] = v]
    /\ UNCHANGED <<alvo, situacao, liquidante>>

Next ==
    \/ \E t \in Transacoes : Criar(t)
    \/ \E r \in Requisicoes : Efetivar(r) \/ Responder(r)

Spec == Init /\ [][Next]_vars
===============================================================================
