---------------------------- MODULE TaxaBaseProofs ----------------------------
(***************************************************************************)
(* Proofs about TaxaBase, for any number of concurrent registrations, any  *)
(* currencies and any starts.                                              *)
(***************************************************************************)
EXTENDS TaxaBaseHistoria, TLAPS

(***************************************************************************)
(* The inductive invariant.                                                *)
(***************************************************************************)

\* Which states of the session go with which point of the handler; a row is
\* in the table once its session committed.
FaseInv(p) ==
    /\ pc[p] = "iniciar" => sessao[p] = "nenhuma"
    /\ pc[p] \in EmSessao => sessao[p] \in {"aberta", "abortada"}
    /\ pc[p] = "aguardando" => sessao[p] \in {"confirmando", "confirmada", "abortada"}
    /\ pc[p] \in {"respondido", "perdido"} => sessao[p] # "aberta"
    /\ fim[p] # Inexistente <=> sessao[p] = "confirmada"
    /\ codigo[p] = 201 => sessao[p] = "confirmada"

\* The snapshot holds rows of the currency, never the row being inserted.
FotoInv(p) ==
    \A q \in foto[p] : q # p /\ moeda[q] = moeda[p] /\ fim[q] # Inexistente

\* The rows a session closes are its own until it ends: locked, still open,
\* older than the new rate.
FechadasInv(p) ==
    /\ fechadas[p] \subseteq foto[p]
    /\ \A q \in fechadas[p] : trava[q] = p /\ fim[q] = Aberta /\ inicio[q] < inicio[p]
    /\ \A q \in Pedidos : trava[q] = p => q \in fechadas[p]
    /\ pc[p] \in {"iniciar", "resolver", "encerrar", "esperar"} => fechadas[p] = {}
    /\ sessao[p] = "confirmada" => fechadas[p] = {}

\* Past the UPDATE, what was open in the snapshot is closed: by an earlier
\* commit, or by this session.
UpdateInv(p) ==
    (sessao[p] = "confirmando" \/ (sessao[p] = "aberta" /\ pc[p] \in {"inserir", "confirmar"}))
        => \A q \in foto[p] : fim[q] \in Instantes \/ q \in fechadas[p]

\* From the start of a rate on there is always a valid rate at least as recent.
CoberturaInv ==
    \A q \in Pedidos, em \in Nat :
        fim[q] # Inexistente /\ inicio[q] <= em =>
            \E v \in Vigentes(moeda[q], em) : inicio[v] >= inicio[q]

IInv ==
    /\ TypeOK
    /\ \A p \in Pedidos : FaseInv(p) /\ FotoInv(p) /\ FechadasInv(p) /\ UpdateInv(p)
    /\ FechaOQueViu
    /\ FechamentoTemSucessora
    /\ CoberturaInv

-------------------------------------------------------------------------------
USE DEF Viva, EmSessao

\* The empty table satisfies the invariant.
LEMMA InicioInv == Init => IInv
<1> SUFFICES ASSUME Init PROVE IInv
  OBVIOUS
<1> USE TaxaBaseAssumption DEF Init
<1>1. TypeOK
  BY DEF TypeOK
<1>2. ASSUME NEW p \in Pedidos PROVE FaseInv(p) /\ FotoInv(p) /\ FechadasInv(p) /\ UpdateInv(p)
  BY DEF FaseInv, FotoInv, FechadasInv, UpdateInv
<1>3. FechaOQueViu /\ FechamentoTemSucessora /\ CoberturaInv
  BY DEF FechaOQueViu, FechamentoTemSucessora, CoberturaInv
<1> QED
  BY <1>1, <1>2, <1>3 DEF IInv

\* A step that leaves the table alone has to be looked at only for what it
\* tells of sessions.
LEMMA TabelaParada ==
    ASSUME IInv, UNCHANGED <<pedido, fim>>, TypeOK', FechaOQueViu',
           \A q \in Pedidos : (FaseInv(q) /\ FotoInv(q) /\ FechadasInv(q) /\ UpdateInv(q))'
    PROVE  IInv'
<1> USE DEF pedido
<1>1. FechamentoTemSucessora'
  BY DEF IInv, FechamentoTemSucessora, Linhas
<1>2. CoberturaInv'
  BY DEF IInv, CoberturaInv, Vigentes, Linhas
<1> QED
  BY <1>1, <1>2 DEF IInv


\* A new session has seen and closed nothing.
LEMMA BeginInv ==
    ASSUME IInv, NEW p \in Pedidos, Begin(p)
    PROVE  IInv'
<1> USE DEF Begin, Ir, Encerrar, sessoes, pedido, IInv, TypeOK
<1>1. TypeOK'
  BY DEF AEncerrar, Abertas, Linhas
<1>2. FechaOQueViu'
  BY DEF FechaOQueViu, FaseInv
<1>3. ASSUME NEW q \in Pedidos PROVE (FaseInv(q) /\ FotoInv(q) /\ FechadasInv(q) /\ UpdateInv(q))'
  <2>1. FaseInv(q)'
    BY DEF FaseInv
  <2>2. FotoInv(q)'
    BY DEF FotoInv
  <2>3. FechadasInv(q)'
    BY TaxaBaseAssumption DEF FechadasInv, FaseInv
  <2>4. UpdateInv(q)'
    BY DEF UpdateInv, FaseInv
  <2> QED
    BY <2>1, <2>2, <2>3, <2>4
<1> QED
  BY <1>1, <1>2, <1>3, TabelaParada

\* 500 before any session.
LEMMA FalharBeginInv ==
    ASSUME IInv, NEW p \in Pedidos, FalharBegin(p)
    PROVE  IInv'
<1> USE DEF FalharBegin, Ir, Encerrar, sessoes, pedido, IInv, TypeOK
<1>1. TypeOK'
  BY DEF AEncerrar, Abertas, Linhas
<1>2. FechaOQueViu'
  BY DEF FechaOQueViu, FaseInv
<1>3. ASSUME NEW q \in Pedidos PROVE (FaseInv(q) /\ FotoInv(q) /\ FechadasInv(q) /\ UpdateInv(q))'
  <2>1. FaseInv(q)'
    BY DEF FaseInv
  <2>2. FotoInv(q)'
    BY DEF FotoInv
  <2>3. FechadasInv(q)'
    BY TaxaBaseAssumption DEF FechadasInv, FaseInv
  <2>4. UpdateInv(q)'
    BY DEF UpdateInv, FaseInv
  <2> QED
    BY <2>1, <2>2, <2>3, <2>4
<1> QED
  BY <1>1, <1>2, <1>3, TabelaParada

\* The SELECT only reads.
LEMMA ResolverMoedaInv ==
    ASSUME IInv, NEW p \in Pedidos, ResolverMoeda(p)
    PROVE  IInv'
<1> USE DEF ResolverMoeda, Ir, Encerrar, sessoes, pedido, IInv, TypeOK
<1>1. TypeOK'
  BY DEF AEncerrar, Abertas, Linhas
<1>2. FechaOQueViu'
  BY DEF FechaOQueViu, FaseInv
<1>3. ASSUME NEW q \in Pedidos PROVE (FaseInv(q) /\ FotoInv(q) /\ FechadasInv(q) /\ UpdateInv(q))'
  <2>1. FaseInv(q)'
    BY DEF FaseInv
  <2>2. FotoInv(q)'
    BY DEF FotoInv
  <2>3. FechadasInv(q)'
    BY TaxaBaseAssumption DEF FechadasInv, FaseInv
  <2>4. UpdateInv(q)'
    BY DEF UpdateInv, FaseInv
  <2> QED
    BY <2>1, <2>2, <2>3, <2>4
<1> QED
  BY <1>1, <1>2, <1>3, TabelaParada

\* The snapshot is taken of committed rows of the currency, and p has none.
LEMMA FotografarAbertasInv ==
    ASSUME IInv, NEW p \in Pedidos, FotografarAbertas(p)
    PROVE  IInv'
<1> USE DEF FotografarAbertas, Ir, Encerrar, sessoes, pedido, IInv, TypeOK
<1>1. TypeOK'
  BY DEF AEncerrar, Abertas, Linhas
<1>2. FechaOQueViu'
  BY DEF FechaOQueViu, FaseInv
<1>3. ASSUME NEW q \in Pedidos PROVE (FaseInv(q) /\ FotoInv(q) /\ FechadasInv(q) /\ UpdateInv(q))'
  <2>1. FaseInv(q)'
    BY DEF FaseInv
  <2>2. FotoInv(q)'
    BY DEF FotoInv, FaseInv, Abertas, Linhas
  <2>3. FechadasInv(q)'
    BY TaxaBaseAssumption DEF FechadasInv, FaseInv
  <2>4. UpdateInv(q)'
    BY DEF UpdateInv, FaseInv
  <2> QED
    BY <2>1, <2>2, <2>3, <2>4
<1> QED
  BY <1>1, <1>2, <1>3, TabelaParada

\* The UPDATE locks what it closes; what it leaves in the snapshot was closed before.
LEMMA EncerrarVigenciaAnteriorInv ==
    ASSUME IInv, NEW p \in Pedidos, EncerrarVigenciaAnterior(p)
    PROVE  IInv'
<1> USE DEF EncerrarVigenciaAnterior, Ir, Encerrar, sessoes, pedido, IInv, TypeOK
<1>1. TypeOK'
  BY DEF AEncerrar, Abertas, Linhas
<1>2. FechaOQueViu'
  BY DEF FechaOQueViu, FaseInv
<1>3. ASSUME NEW q \in Pedidos PROVE (FaseInv(q) /\ FotoInv(q) /\ FechadasInv(q) /\ UpdateInv(q))'
  <2>1. FaseInv(q)'
    BY DEF FaseInv
  <2>2. FotoInv(q)'
    BY DEF FotoInv
  <2>3. FechadasInv(q)'
    BY TaxaBaseAssumption DEF FechadasInv, FotoInv, FaseInv, AEncerrar, RespeitaCheck, Destravadas
  <2>4. UpdateInv(q)'
    BY DEF UpdateInv, FotoInv, FechadasInv, FaseInv, AEncerrar
  <2> QED
    BY <2>1, <2>2, <2>3, <2>4
<1> QED
  BY <1>1, <1>2, <1>3, TabelaParada

\* The new row is not in the table yet.
LEMMA InserirInv ==
    ASSUME IInv, NEW p \in Pedidos, Inserir(p)
    PROVE  IInv'
<1> USE DEF Inserir, Ir, Encerrar, sessoes, pedido, IInv, TypeOK
<1>1. TypeOK'
  BY DEF AEncerrar, Abertas, Linhas
<1>2. FechaOQueViu'
  BY DEF FechaOQueViu, FaseInv
<1>3. ASSUME NEW q \in Pedidos PROVE (FaseInv(q) /\ FotoInv(q) /\ FechadasInv(q) /\ UpdateInv(q))'
  <2>1. FaseInv(q)'
    BY DEF FaseInv
  <2>2. FotoInv(q)'
    BY DEF FotoInv
  <2>3. FechadasInv(q)'
    BY TaxaBaseAssumption DEF FechadasInv, FaseInv
  <2>4. UpdateInv(q)'
    BY DEF UpdateInv, FaseInv
  <2> QED
    BY <2>1, <2>2, <2>3, <2>4
<1> QED
  BY <1>1, <1>2, <1>3, TabelaParada

\* COMMIT is sent over an open session.
LEMMA CommitInv ==
    ASSUME IInv, NEW p \in Pedidos, Commit(p)
    PROVE  IInv'
<1> USE DEF Commit, Ir, Encerrar, sessoes, pedido, IInv, TypeOK
<1>1. TypeOK'
  BY DEF AEncerrar, Abertas, Linhas
<1>2. FechaOQueViu'
  BY DEF FechaOQueViu, FaseInv
<1>3. ASSUME NEW q \in Pedidos PROVE (FaseInv(q) /\ FotoInv(q) /\ FechadasInv(q) /\ UpdateInv(q))'
  <2>1. FaseInv(q)'
    BY DEF FaseInv
  <2>2. FotoInv(q)'
    BY DEF FotoInv
  <2>3. FechadasInv(q)'
    BY TaxaBaseAssumption DEF FechadasInv, FaseInv
  <2>4. UpdateInv(q)'
    BY DEF UpdateInv, FaseInv
  <2> QED
    BY <2>1, <2>2, <2>3, <2>4
<1> QED
  BY <1>1, <1>2, <1>3, TabelaParada

\* A session that ends gives back its locks with what it had closed.
LEMMA AbortarBDInv ==
    ASSUME IInv, NEW p \in Pedidos, AbortarBD(p)
    PROVE  IInv'
<1> USE DEF AbortarBD, Ir, Encerrar, sessoes, pedido, IInv, TypeOK
<1>1. TypeOK'
  BY DEF AEncerrar, Abertas, Linhas
<1>2. FechaOQueViu'
  BY DEF FechaOQueViu, FaseInv
<1>3. ASSUME NEW q \in Pedidos PROVE (FaseInv(q) /\ FotoInv(q) /\ FechadasInv(q) /\ UpdateInv(q))'
  <2>1. FaseInv(q)'
    BY DEF FaseInv
  <2>2. FotoInv(q)'
    BY DEF FotoInv
  <2>3. FechadasInv(q)'
    BY TaxaBaseAssumption DEF FechadasInv, FaseInv
  <2>4. UpdateInv(q)'
    BY DEF UpdateInv, FaseInv
  <2> QED
    BY <2>1, <2>2, <2>3, <2>4
<1> QED
  BY <1>1, <1>2, <1>3, TabelaParada

\* 201 over a committed session.
LEMMA SucessoInv ==
    ASSUME IInv, NEW p \in Pedidos, Sucesso(p)
    PROVE  IInv'
<1> USE DEF Sucesso, Ir, Encerrar, sessoes, pedido, IInv, TypeOK
<1>1. TypeOK'
  BY DEF AEncerrar, Abertas, Linhas
<1>2. FechaOQueViu'
  BY DEF FechaOQueViu, FaseInv
<1>3. ASSUME NEW q \in Pedidos PROVE (FaseInv(q) /\ FotoInv(q) /\ FechadasInv(q) /\ UpdateInv(q))'
  <2>1. FaseInv(q)'
    BY DEF FaseInv
  <2>2. FotoInv(q)'
    BY DEF FotoInv
  <2>3. FechadasInv(q)'
    BY TaxaBaseAssumption DEF FechadasInv, FaseInv
  <2>4. UpdateInv(q)'
    BY DEF UpdateInv, FaseInv
  <2> QED
    BY <2>1, <2>2, <2>3, <2>4
<1> QED
  BY <1>1, <1>2, <1>3, TabelaParada

\* A 500 claims nothing.
LEMMA FalharCommitInv ==
    ASSUME IInv, NEW p \in Pedidos, FalharCommit(p)
    PROVE  IInv'
<1> USE DEF FalharCommit, Ir, Encerrar, sessoes, pedido, IInv, TypeOK
<1>1. TypeOK'
  BY DEF AEncerrar, Abertas, Linhas
<1>2. FechaOQueViu'
  BY DEF FechaOQueViu, FaseInv
<1>3. ASSUME NEW q \in Pedidos PROVE (FaseInv(q) /\ FotoInv(q) /\ FechadasInv(q) /\ UpdateInv(q))'
  <2>1. FaseInv(q)'
    BY DEF FaseInv
  <2>2. FotoInv(q)'
    BY DEF FotoInv
  <2>3. FechadasInv(q)'
    BY TaxaBaseAssumption DEF FechadasInv, FaseInv
  <2>4. UpdateInv(q)'
    BY DEF UpdateInv, FaseInv
  <2> QED
    BY <2>1, <2>2, <2>3, <2>4
<1> QED
  BY <1>1, <1>2, <1>3, TabelaParada

\* A failed statement leaves the session to the database.
LEMMA FalharInv ==
    ASSUME IInv, NEW p \in Pedidos, Falhar(p)
    PROVE  IInv'
<1> USE DEF Falhar, Ir, Encerrar, sessoes, pedido, IInv, TypeOK
<1>1. TypeOK'
  BY DEF AEncerrar, Abertas, Linhas
<1>2. FechaOQueViu'
  BY DEF FechaOQueViu, FaseInv
<1>3. ASSUME NEW q \in Pedidos PROVE (FaseInv(q) /\ FotoInv(q) /\ FechadasInv(q) /\ UpdateInv(q))'
  <2>1. FaseInv(q)'
    BY DEF FaseInv
  <2>2. FotoInv(q)'
    BY DEF FotoInv
  <2>3. FechadasInv(q)'
    BY TaxaBaseAssumption DEF FechadasInv, FaseInv
  <2>4. UpdateInv(q)'
    BY DEF UpdateInv, FaseInv
  <2> QED
    BY <2>1, <2>2, <2>3, <2>4
<1> QED
  BY <1>1, <1>2, <1>3, TabelaParada

\* A crash leaves no session open.
LEMMA QuedaInv ==
    ASSUME IInv, Queda
    PROVE  IInv'
<1> USE DEF Queda, pedido, IInv, TypeOK
<1>1. TypeOK'
  OBVIOUS
<1>2. FechaOQueViu'
  BY DEF FechaOQueViu
<1>3. ASSUME NEW q \in Pedidos PROVE (FaseInv(q) /\ FotoInv(q) /\ FechadasInv(q) /\ UpdateInv(q))'
  BY DEF FaseInv, FotoInv, FechadasInv, UpdateInv
<1> QED
  BY <1>1, <1>2, <1>3, TabelaParada

\* What COMMIT does to the table: the new row opens, the rows the session had
\* closed end at its start, no other row changes.
LEMMA EfeitoDoCommit ==
    ASSUME IInv, NEW p \in Pedidos, ConfirmarBD(p)
    PROVE  /\ fim[p] = Inexistente
           /\ fim' = [q \in Pedidos |-> IF q = p THEN Aberta
                                        ELSE IF q \in fechadas[p] THEN inicio[p] ELSE fim[q]]
           /\ \A q \in fechadas[p] :
                 /\ q \in Pedidos /\ q # p
                 /\ fim[q] = Aberta /\ moeda[q] = moeda[p] /\ inicio[q] < inicio[p]
           /\ UNCHANGED <<moeda, inicio>>
  BY DEF ConfirmarBD, Publicado, pedido, IInv, TypeOK, FaseInv, FotoInv, FechadasInv

\* Starts and ends of validity are numbers.
LEMMA Numeros ==
    ASSUME TypeOK
    PROVE  \A p \in Pedidos : /\ inicio[p] \in Nat
                              /\ fim[p] \in Nat \/ fim[p] = Aberta \/ fim[p] = Inexistente
                              /\ fim[p] \in Nat => fim[p] \in Instantes
<1> SUFFICES ASSUME NEW p \in Pedidos
             PROVE  /\ inicio[p] \in Nat
                    /\ fim[p] \in Nat \/ fim[p] = Aberta \/ fim[p] = Inexistente
                    /\ fim[p] \in Nat => fim[p] \in Instantes
  OBVIOUS
<1>1. inicio[p] \in Instantes /\ fim[p] \in Instantes \cup {Aberta, Inexistente}
  BY DEF TypeOK
<1> QED
  BY <1>1, TaxaBaseAssumption

\* COMMIT: the rows the session closed end where its new rate starts.
LEMMA ConfirmarBDInv ==
    ASSUME IInv, NEW p \in Pedidos, ConfirmarBD(p)
    PROVE  IInv'
<1> USE TaxaBaseAssumption
<1>a. /\ fim[p] = Inexistente
      /\ fim' = [q \in Pedidos |-> IF q = p THEN Aberta
                                   ELSE IF q \in fechadas[p] THEN inicio[p] ELSE fim[q]]
      /\ \A q \in fechadas[p] :
            /\ q \in Pedidos /\ q # p
            /\ fim[q] = Aberta /\ moeda[q] = moeda[p] /\ inicio[q] < inicio[p]
      /\ UNCHANGED <<moeda, inicio>>
  BY EfeitoDoCommit
<1>b. /\ moeda \in [Pedidos -> Codigos] /\ inicio \in [Pedidos -> Instantes]
      /\ fim \in [Pedidos -> Instantes \cup {Aberta, Inexistente}]
  BY DEF IInv, TypeOK
<1>c. \A q \in Pedidos : /\ inicio[q] \in Nat
                         /\ fim[q] \in Nat \/ fim[q] = Aberta \/ fim[q] = Inexistente
  BY Numeros DEF IInv
<1>d. \A q \in Pedidos : fim'[q] # Inexistente <=> q = p \/ fim[q] # Inexistente
  BY <1>a, <1>c
<1>1. TypeOK'
  BY <1>a DEF ConfirmarBD, Encerrar, pedido, IInv, TypeOK
<1>2. ASSUME NEW q \in Pedidos PROVE (FaseInv(q) /\ FotoInv(q) /\ FechadasInv(q) /\ UpdateInv(q))'
  <2> USE DEF ConfirmarBD, Encerrar, IInv, TypeOK
  <2>1. FaseInv(q)'
    BY <1>d DEF FaseInv
  <2>2. FotoInv(q)'
    BY <1>a, <1>d DEF FotoInv
  <2>3. FechadasInv(q)'
    BY <1>a DEF FechadasInv, FaseInv
  <2>4. UpdateInv(q)'
    BY <1>a DEF UpdateInv, FaseInv, FotoInv
  <2> QED
    BY <2>1, <2>2, <2>3, <2>4
<1>3. FechaOQueViu'
  <2> SUFFICES ASSUME NEW q \in Pedidos, fim'[q] # Inexistente, NEW s \in foto'[q]
               PROVE  fim'[s] \in Instantes
    BY DEF FechaOQueViu
  <2>1. foto' = foto /\ sessao[p] = "confirmando"
    BY DEF ConfirmarBD, Encerrar
  <2>2. s \in Pedidos /\ inicio[p] \in Instantes
    BY <2>1, <1>b DEF IInv, TypeOK
  <2>3. CASE q = p
    <3>1. fim[s] \in Instantes \/ s \in fechadas[p]
      BY <2>1, <2>3 DEF IInv, UpdateInv
    <3>2. s # p
      BY <2>1, <2>3 DEF IInv, FotoInv
    <3> QED
      BY <3>1, <3>2, <2>2, <1>a
  <2>4. CASE q # p
    <3>1. fim[q] # Inexistente
      BY <2>4, <1>a, <1>b
    <3>2. fim[s] \in Instantes
      BY <3>1, <2>1 DEF IInv, FechaOQueViu
    <3> QED
      BY <3>2, <2>2, <1>a
  <2> QED
    BY <2>3, <2>4
<1>4. FechamentoTemSucessora'
  <2> SUFFICES ASSUME NEW q \in Pedidos, fim'[q] \in Instantes
               PROVE  /\ inicio[q] < fim'[q]
                      /\ \E s \in Pedidos : fim'[s] # Inexistente /\ moeda[s] = moeda[q]
                                           /\ inicio[s] = fim'[q]
    BY <1>a DEF FechamentoTemSucessora, Linhas
  <2>1. CASE q \in fechadas[p]
    BY <2>1, <1>a, <1>b
  <2>2. CASE q \notin fechadas[p]
    <3>1. fim'[q] = fim[q]
      BY <2>2, <1>a, <1>b
    <3>2. inicio[q] < fim[q] /\ \E s \in Linhas(moeda[q]) : inicio[s] = fim[q]
      BY <3>1 DEF IInv, FechamentoTemSucessora
    <3> QED
      BY <3>1, <3>2, <1>a, <1>b DEF Linhas
  <2> QED
    BY <2>1, <2>2
<1>5. CoberturaInv'
  <2> SUFFICES ASSUME NEW q \in Pedidos, NEW em \in Nat, fim'[q] # Inexistente, inicio[q] <= em
               PROVE  \E v \in Pedidos :
                         /\ fim'[v] # Inexistente /\ moeda[v] = moeda[q] /\ inicio[v] <= em
                         /\ fim'[v] = Aberta \/ fim'[v] > em
                         /\ inicio[v] >= inicio[q]
    BY <1>a DEF CoberturaInv, Vigentes, Linhas
  <2>1. CASE q = p
    BY <2>1, <1>a, <1>c
  <2>2. CASE q # p
    <3>1. fim[q] # Inexistente
      BY <2>2, <1>d
    <3>2. PICK v \in Pedidos :
             /\ fim[v] # Inexistente /\ moeda[v] = moeda[q] /\ inicio[v] <= em
             /\ fim[v] = Aberta \/ fim[v] > em
             /\ inicio[v] >= inicio[q]
      BY <3>1 DEF IInv, CoberturaInv, Vigentes, Linhas
    <3>3. CASE v \in fechadas[p] /\ inicio[p] <= em
      <4>1. inicio[p] >= inicio[q] /\ moeda[p] = moeda[q] /\ fim'[p] = Aberta
        BY <3>2, <3>3, <1>a, <1>c
      <4> QED
        BY <4>1, <3>3
    <3>4. CASE v \in fechadas[p] /\ inicio[p] > em
      <4>1. fim'[v] = inicio[p] /\ fim'[v] # Inexistente
        BY <3>4, <1>a, <1>d
      <4> QED
        BY <4>1, <3>2, <3>4
    <3>5. CASE v \notin fechadas[p]
      <4>1. fim'[v] = fim[v]
        BY <3>2, <3>5, <1>a
      <4> QED
        BY <4>1, <3>2
    <3>6. inicio[p] \in Nat
      BY <1>c
    <3> QED
      BY <3>3, <3>4, <3>5, <3>6
  <2> QED
    BY <2>1, <2>2
<1> QED
  BY <1>1, <1>2, <1>3, <1>4, <1>5 DEF IInv

-------------------------------------------------------------------------------
\* The invariant is inductive: one lemma above per action.
LEMMA PassoInv == IInv /\ [Next]_vars => IInv'
<1> SUFFICES ASSUME IInv, [Next]_vars PROVE IInv'
  OBVIOUS
<1>1. ASSUME NEW p \in Pedidos, FotografarAbertas(p) \/ ConfirmarBD(p) PROVE IInv'
  BY <1>1, FotografarAbertasInv, ConfirmarBDInv
<1>2. ASSUME NEW p \in Pedidos, OutroPasso(p) PROVE IInv'
  BY <1>2, BeginInv, FalharBeginInv, ResolverMoedaInv, EncerrarVigenciaAnteriorInv,
     InserirInv, CommitInv, SucessoInv, FalharCommitInv, FalharInv, AbortarBDInv
     DEF OutroPasso
<1>3. CASE Queda
  BY <1>3, QuedaInv
<1>4. CASE UNCHANGED vars
  <2> USE <1>4 DEF vars, pedido, sessoes, IInv
  <2>1. TypeOK' /\ FechaOQueViu'
    BY DEF TypeOK, FechaOQueViu
  <2>2. ASSUME NEW q \in Pedidos PROVE (FaseInv(q) /\ FotoInv(q) /\ FechadasInv(q) /\ UpdateInv(q))'
    BY DEF FaseInv, FotoInv, FechadasInv, UpdateInv
  <2> QED
    BY <2>1, <2>2, TabelaParada
<1> QED
  BY <1>1, <1>2, <1>3, <1>4 DEF Next

\* The sessions, locks and table of concurrent registrations stay in step: the
\* inductive invariant the results below are read from.
THEOREM Invariante == Spec => []IInv
<1>1. Init => IInv
  BY InicioInv
<1>2. IInv /\ [Next]_vars => IInv'
  BY PassoInv
<1> QED
  BY <1>1, <1>2, PTL DEF Spec

\* The model is well typed; in particular a closed rate ends at an instant.
THEOREM TipoCorreto == Spec => []TypeOK
<1>1. IInv => TypeOK
  BY DEF IInv
<1> QED
  BY <1>1, Invariante, PTL

\* 201 is answered only for a rate that is in the table.
THEOREM SempreSucessoPublicado == Spec => []SucessoPublicado
<1>1. IInv => SucessoPublicado
  BY DEF IInv, FaseInv, SucessoPublicado
<1> QED
  BY <1>1, Invariante, PTL

\* A registration closes what was open when its UPDATE started; two open rates
\* can only come from registrations that did not see one another.
THEOREM SempreFechaOQueViu == Spec => []FechaOQueViu
<1>1. IInv => FechaOQueViu
  BY DEF IInv
<1> QED
  BY <1>1, Invariante, PTL

\* However registrations interleave, closing a rate leaves no gap.
THEOREM SempreTemSucessora == Spec => []FechamentoTemSucessora
<1>1. IInv => FechamentoTemSucessora
  BY DEF IInv
<1> QED
  BY <1>1, Invariante, PTL

\* A part S of C that keeps every one of the latest rows of C, and for every
\* row one as late, has the same latest rows.
LEMMA MesmasMaisRecentes ==
    ASSUME NEW C, NEW S, S \subseteq C, \A q \in C : inicio[q] \in Nat,
           \A q \in C : \E v \in S : inicio[v] >= inicio[q],
           MaisRecentes(C) \subseteq S
    PROVE  MaisRecentes(S) = MaisRecentes(C)
<1>1. ASSUME NEW p \in MaisRecentes(S) PROVE p \in MaisRecentes(C)
  <2>1. p \in S /\ \A v \in S : inicio[v] <= inicio[p]
    BY <1>1 DEF MaisRecentes
  <2>2. ASSUME NEW q \in C PROVE inicio[q] <= inicio[p]
    <3>1. PICK v \in S : inicio[v] >= inicio[q]
      BY <2>2
    <3>2. inicio[v] <= inicio[p]
      BY <2>1, <3>1
    <3>3. inicio[v] \in Nat /\ inicio[q] \in Nat /\ inicio[p] \in Nat
      BY <2>1, <2>2, <3>1
    <3> QED
      BY <3>1, <3>2, <3>3
  <2> QED
    BY <2>1, <2>2 DEF MaisRecentes
<1>2. ASSUME NEW p \in MaisRecentes(C) PROVE p \in MaisRecentes(S)
  BY <1>2 DEF MaisRecentes
<1> QED
  BY <1>1, <1>2

\* Even with several open rates, the lookup by validity finds the rate with
\* the latest start: rows hidden by vigencia_fim are never the latest.
THEOREM SempreAMaisRecente == Spec => []VigenteEhAMaisRecente
<1>1. IInv => VigenteEhAMaisRecente
  <2> SUFFICES ASSUME IInv, NEW m \in Moedas, NEW em \in Instantes
               PROVE  Vigente(m, em) = MaisRecentes({p \in Linhas(m) : inicio[p] <= em})
    BY DEF VigenteEhAMaisRecente
  <2> DEFINE C == {p \in Linhas(m) : inicio[p] <= em}
  <2>1. em \in Nat /\ \A q \in C : q \in Pedidos /\ inicio[q] \in Nat
    BY TaxaBaseAssumption, Numeros DEF IInv, Linhas
  <2>2. Vigentes(m, em) \subseteq C
    BY DEF Vigentes
  <2>3. \A q \in C : \E v \in Vigentes(m, em) : inicio[v] >= inicio[q]
    BY <2>1 DEF IInv, CoberturaInv, Linhas
  <2>4. ASSUME NEW p \in C, p \notin Vigentes(m, em) PROVE p \notin MaisRecentes(C)
    <3>1. p \in Pedidos /\ moeda[p] = m /\ fim[p] # Inexistente /\ inicio[p] \in Nat
      BY <2>1, <2>4 DEF Linhas
    <3>2. fim[p] # Aberta /\ ~(fim[p] > em)
      BY <2>4 DEF Vigentes
    <3>3. fim[p] \in Instantes /\ fim[p] \in Nat
      BY <3>1, <3>2, Numeros DEF IInv
    <3>4. PICK s \in Linhas(m) : inicio[s] = fim[p] /\ inicio[p] < fim[p]
      BY <3>1, <3>3 DEF IInv, FechamentoTemSucessora
    <3>5. inicio[s] <= em /\ ~(inicio[s] <= inicio[p])
      BY <2>1, <3>1, <3>2, <3>3, <3>4
    <3> QED
      BY <3>4, <3>5 DEF MaisRecentes
  <2>5. MaisRecentes(C) \subseteq Vigentes(m, em)
    BY <2>4 DEF MaisRecentes
  <2>6. MaisRecentes(Vigentes(m, em)) = MaisRecentes(C)
    <3> HIDE DEF C
    <3> QED
      BY <2>1, <2>2, <2>3, <2>5, MesmasMaisRecentes
  <2> QED
    BY <2>6 DEF Vigente
<1> QED
  BY <1>1, Invariante, PTL

-------------------------------------------------------------------------------
\* COMMIT only adds the new row to what is valid, and takes away what it closed.
LEMMA VigentesDepois ==
    ASSUME IInv, NEW p \in Pedidos, ConfirmarBD(p), NEW m, NEW em \in Nat
    PROVE  /\ Vigentes(m, em)' \subseteq Vigentes(m, em) \cup {p}
           /\ moeda[p] = m /\ inicio[p] <= em => p \in Vigentes(m, em)'
           /\ \A q \in Vigentes(m, em) :
                 \/ q \in Vigentes(m, em)'
                 \/ moeda[p] = m /\ inicio[p] <= em /\ inicio[q] < inicio[p]
           /\ p \notin Vigentes(m, em)
           /\ p \in Vigentes(m, em)' => moeda[p] = m /\ inicio[p] <= em
<1>a. /\ fim[p] = Inexistente
      /\ fim' = [q \in Pedidos |-> IF q = p THEN Aberta
                                   ELSE IF q \in fechadas[p] THEN inicio[p] ELSE fim[q]]
      /\ \A q \in fechadas[p] :
            /\ q \in Pedidos /\ q # p
            /\ fim[q] = Aberta /\ moeda[q] = moeda[p] /\ inicio[q] < inicio[p]
      /\ UNCHANGED <<moeda, inicio>>
  BY EfeitoDoCommit
<1>b. \A q \in Pedidos : inicio[q] \in Nat
  BY Numeros DEF IInv
<1>c. Aberta # Inexistente /\ Inexistente \notin Nat
  BY TaxaBaseAssumption
<1> USE DEF Vigentes, Linhas
<1>1. ASSUME NEW q \in Vigentes(m, em)', q # p PROVE q \in Vigentes(m, em)
  <2>1. /\ q \in Pedidos /\ moeda[q] = m /\ inicio[q] <= em /\ fim'[q] # Inexistente
        /\ fim'[q] = Aberta \/ fim'[q] > em
    BY <1>1, <1>a
  <2>2. CASE q \in fechadas[p]
    BY <2>1, <2>2, <1>a, <1>c
  <2>3. CASE q \notin fechadas[p]
    BY <2>1, <2>3, <1>1, <1>a
  <2> QED
    BY <2>2, <2>3
<1>2. moeda[p] = m /\ inicio[p] <= em => p \in Vigentes(m, em)'
  BY <1>a, <1>c
<1>3. ASSUME NEW q \in Vigentes(m, em), q \notin Vigentes(m, em)'
      PROVE  moeda[p] = m /\ inicio[p] <= em /\ inicio[q] < inicio[p]
  <2>1. /\ q \in Pedidos /\ moeda[q] = m /\ inicio[q] <= em /\ fim[q] # Inexistente
        /\ fim[q] = Aberta \/ fim[q] > em
    BY <1>3
  <2>2. q \in fechadas[p]
    BY <2>1, <1>3, <1>a
  <2>3. ~(inicio[p] > em)
    <3>1. fim'[q] = inicio[p] /\ inicio[p] # Inexistente
      BY <2>1, <2>2, <1>a, <1>b, <1>c
    <3> QED
      BY <3>1, <2>1, <1>3, <1>a
  <2> QED
    BY <2>1, <2>2, <2>3, <1>a, <1>b
<1>4. p \notin Vigentes(m, em) /\ (p \in Vigentes(m, em)' => moeda[p] = m /\ inicio[p] <= em)
  BY <1>a
<1> QED
  BY <1>1, <1>2, <1>3, <1>4

\* A date that has a rate keeps one: its latest row stays, or the new row is
\* at least as late.
LEMMA SempreHaVigente ==
    ASSUME IInv, NEW p \in Pedidos, ConfirmarBD(p), NEW m, NEW em \in Nat,
           Vigente(m, em) # {}
    PROVE  Vigente(m, em)' # {}
<1>a. \A q \in Pedidos : inicio[q] \in Nat
  BY Numeros DEF IInv
<1>b. inicio' = inicio
  BY EfeitoDoCommit
<1>c. Vigentes(m, em) \subseteq Pedidos
  BY DEF Vigentes, Linhas
<1>1. PICK x \in Vigentes(m, em) : \A q \in Vigentes(m, em) : inicio[q] <= inicio[x]
  BY DEF Vigente, MaisRecentes
<1>2. CASE p \in Vigentes(m, em)' /\ inicio[p] >= inicio[x]
  <2>1. ASSUME NEW q \in Vigentes(m, em)' PROVE inicio[q] <= inicio[p]
    <3>1. CASE q = p
      BY <3>1, <1>a
    <3>2. CASE q # p
      <4>1. q \in Vigentes(m, em)
        BY <2>1, <3>2, VigentesDepois
      <4>2. inicio[q] <= inicio[x]
        BY <4>1, <1>1
      <4>3. inicio[q] \in Nat /\ inicio[x] \in Nat /\ inicio[p] \in Nat
        BY <4>1, <1>1, <1>a, <1>c
      <4> QED
        BY <1>2, <4>2, <4>3
    <3> QED
      BY <3>1, <3>2
  <2>2. p \in Vigente(m, em)'
    BY <2>1, <1>2, <1>b DEF Vigente, MaisRecentes
  <2> QED
    BY <2>2
<1>3. CASE ~ (p \in Vigentes(m, em)' /\ inicio[p] >= inicio[x])
  <2>a. inicio[x] \in Nat /\ inicio[p] \in Nat
    BY <1>1, <1>a, <1>c
  <2>1. x \in Vigentes(m, em)'
    BY <1>1, <1>3, <2>a, VigentesDepois
  <2>2. ASSUME NEW q \in Vigentes(m, em)' PROVE inicio[q] <= inicio[x]
    <3>1. CASE q = p
      BY <3>1, <2>2, <2>a, <1>3
    <3>2. CASE q # p
      BY <3>2, <2>2, <1>1, VigentesDepois
    <3> QED
      BY <3>1, <3>2
  <2>3. x \in Vigente(m, em)'
    BY <2>1, <2>2, <1>b DEF Vigente, MaisRecentes
  <2> QED
    BY <2>3
<1> QED
  BY <1>2, <1>3

\* A registration prices no earlier date differently, and takes its rate from
\* no date.
THEOREM SemprePassadoEstavel == Spec => PassadoEstavel
<1> DEFINE Passo ==
      \A m \in Moedas, em \in Instantes :
          /\ Vigente(m, em) # {} => Vigente(m, em)' # {}
          /\ (\A p \in Linhas(m)' \ Linhas(m) : inicio[p] > em) =>
                Vigente(m, em)' = Vigente(m, em)
<1>1. ASSUME IInv, [Next]_vars, NEW m \in Moedas, NEW em \in Instantes
      PROVE  /\ Vigente(m, em) # {} => Vigente(m, em)' # {}
             /\ (\A p \in Linhas(m)' \ Linhas(m) : inicio[p] > em) =>
                   Vigente(m, em)' = Vigente(m, em)
  <2>1. CASE UNCHANGED <<moeda, inicio, fim>>
    BY <2>1 DEF Vigente, MaisRecentes, Vigentes, Linhas
  <2>2. ASSUME NEW p \in Pedidos, ConfirmarBD(p)
        PROVE  /\ Vigente(m, em) # {} => Vigente(m, em)' # {}
               /\ (\A q \in Linhas(m)' \ Linhas(m) : inicio[q] > em) =>
                     Vigente(m, em)' = Vigente(m, em)
    <3>1. em \in Nat /\ Aberta # Inexistente
      BY TaxaBaseAssumption
    <3>2. inicio' = inicio /\ moeda' = moeda /\ fim[p] = Inexistente /\ fim'[p] = Aberta
      BY <1>1, <2>2, EfeitoDoCommit
    <3>3. Vigente(m, em) # {} => Vigente(m, em)' # {}
      BY <1>1, <2>2, <3>1, SempreHaVigente
    <3>4. ASSUME \A q \in Linhas(m)' \ Linhas(m) : inicio[q] > em
          PROVE  Vigente(m, em)' = Vigente(m, em)
      <4>1. ~(moeda[p] = m /\ inicio[p] <= em)
        <5>1. moeda[p] = m => p \in Linhas(m)' \ Linhas(m)
          BY <3>1, <3>2 DEF Linhas
        <5>2. inicio[p] \in Nat
          BY <1>1, Numeros DEF IInv
        <5> QED
          BY <5>1, <5>2, <3>1, <3>4
      <4>2. Vigentes(m, em)' = Vigentes(m, em)
        BY <2>2, <3>1, <4>1, <1>1, VigentesDepois
      <4> QED
        BY <4>2, <3>2 DEF Vigente, MaisRecentes
    <3> QED
      BY <3>3, <3>4
  <2>3. UNCHANGED <<moeda, inicio, fim>> \/ \E p \in Pedidos : ConfirmarBD(p)
    BY <1>1 DEF Next, OutroPasso, Begin, FalharBegin, ResolverMoeda, FotografarAbertas,
       EncerrarVigenciaAnterior, Inserir, Commit, Sucesso, FalharCommit, Falhar,
       AbortarBD, Queda, vars, pedido
  <2> QED
    BY <2>1, <2>2, <2>3
<1>2. IInv /\ [Next]_vars => Passo
  BY <1>1
<1> QED
  BY <1>2, Invariante, PTL DEF Spec, PassadoEstavel

(***************************************************************************)
(* The history of commits and snapshots.                                   *)
(***************************************************************************)

\* The order lists the rows of the table, each once, all of known currencies.
OrdemInv ==
    /\ ordem \in Seq(Pedidos)
    /\ \A i, j \in 1..Len(ordem) : ordem[i] = ordem[j] => i = j
    /\ \A p \in Pedidos : fim[p] # Inexistente <=> \E k \in 1..Len(ordem) : ordem[k] = p

\* A request gets past the lookup of its currency only if there is one.
MoedaInv(p) ==
    pc[p] \in {"encerrar", "esperar", "inserir", "confirmar", "aguardando"}
    \/ sessao[p] \in {"confirmando", "confirmada"} => moeda[p] \in Moedas

\* The snapshot of a request is what it may be: the rows among the first ones
\* that were open then, and no other row of those is open by now.
VisaoInv(p) ==
    /\ visao[p] \in 0..Len(ordem)
    /\ \A q \in foto[p] : \E k \in 1..visao[p] : ordem[k] = q
    /\ sessao[p] = "confirmando"
       \/ (sessao[p] = "aberta" /\ pc[p] \in {"esperar", "inserir", "confirmar"}) =>
          \A k \in 1..visao[p] :
              moeda[ordem[k]] = moeda[p] /\ fim[ordem[k]] = Aberta => ordem[k] \in foto[p]

\* After a closed rate of a currency there is an open one.
AbertaInv ==
    \A q \in Pedidos : fim[q] \in Instantes =>
        \E s \in Linhas(moeda[q]) : fim[s] = Aberta /\ fim[q] <= inicio[s]

\* Where no registrations crossed, every rate ended before the later ones started.
FilaInv ==
    \A i, j \in 1..Len(ordem) :
        i < j /\ moeda[ordem[i]] = moeda[ordem[j]] /\ SemCruzamento(moeda[ordem[i]]) =>
            fim[ordem[i]] \in Instantes /\ fim[ordem[i]] <= inicio[ordem[j]]

HInv ==
    /\ visao \in [Pedidos -> Nat]
    /\ OrdemInv
    /\ \A p \in Pedidos : MoedaInv(p) /\ VisaoInv(p)
    /\ AbertaInv
    /\ FilaInv

\* At first nothing was committed.
LEMMA InicioHInv == InitH => HInv
<1> SUFFICES ASSUME InitH PROVE HInv
  OBVIOUS
<1> USE TaxaBaseAssumption DEF InitH, Init
<1>1. OrdemInv
  BY DEF OrdemInv
<1>2. ASSUME NEW p \in Pedidos PROVE MoedaInv(p) /\ VisaoInv(p)
  BY DEF MoedaInv, VisaoInv
<1>3. AbertaInv
  BY DEF AbertaInv
<1>4. FilaInv
  <2>1. Len(ordem) = 0
    OBVIOUS
  <2> QED
    BY <2>1 DEF FilaInv
<1> QED
  BY <1>1, <1>2, <1>3, <1>4 DEF HInv

\* Rows and snapshots of registrations that committed do not change any more, so
\* neither does whether they crossed.
LEMMA SemCommitInv ==
    ASSUME IInv, HInv, UNCHANGED <<moeda, inicio, fim, ordem>>, visao' \in [Pedidos -> Nat],
           \A p \in Pedidos : fim[p] # Inexistente => visao'[p] = visao[p],
           \A p \in Pedidos : (MoedaInv(p) /\ VisaoInv(p))'
    PROVE  HInv'
<1>1. OrdemInv'
  BY DEF HInv, OrdemInv
<1>2. AbertaInv'
  BY DEF HInv, AbertaInv, Linhas
<1>3. \A m : SemCruzamento(m)' = SemCruzamento(m)
  BY DEF SemCruzamento, NaoViu, Linhas
<1>4. FilaInv'
  BY <1>3 DEF HInv, FilaInv
<1> QED
  BY <1>1, <1>2, <1>4 DEF HInv

\* The UPDATE takes its snapshot: the open rows among all there are.
LEMMA FotografarAbertasHInv ==
    ASSUME IInv, HInv, NEW p \in Pedidos, FotografarAbertas(p),
           visao' = [visao EXCEPT ![p] = Len(ordem)], UNCHANGED ordem
    PROVE  HInv'
<1> USE DEF FotografarAbertas, Ir, pedido
<1>1. /\ fim[p] = Inexistente /\ Len(ordem) \in Nat
      /\ foto \in [Pedidos -> SUBSET Pedidos] /\ pc \in [Pedidos -> EmSessao \cup {"iniciar", "aguardando", "respondido", "perdido"}]
      /\ visao \in [Pedidos -> Nat]
  BY DEF IInv, TypeOK, FaseInv, HInv, OrdemInv
<1>2. visao' \in [Pedidos -> Nat] /\ \A q \in Pedidos : fim[q] # Inexistente => visao'[q] = visao[q]
  BY <1>1
<1>3. ASSUME NEW q \in Pedidos PROVE MoedaInv(q)'
  BY <1>1 DEF HInv, MoedaInv
<1>4. ASSUME NEW q \in Pedidos PROVE VisaoInv(q)'
  <2>1. CASE q = p
    <3>1. visao'[q] = Len(ordem) /\ foto'[q] = Abertas(moeda[q]) /\ moeda' = moeda /\ fim' = fim
      BY <1>1, <2>1
    <3>2. \A s \in Pedidos : fim[s] # Inexistente <=> \E k \in 1..Len(ordem) : ordem[k] = s
      BY DEF HInv, OrdemInv
    <3>3. \A k \in 1..Len(ordem) : ordem[k] \in Pedidos /\ fim[ordem[k]] # Inexistente
      <4>1. \A k \in 1..Len(ordem) : ordem[k] \in Pedidos
        BY DEF HInv, OrdemInv
      <4> QED
        BY <3>2, <4>1
    <3> QED
      BY <1>1, <3>1, <3>2, <3>3 DEF VisaoInv, Abertas, Linhas
  <2>2. CASE q # p
    <3>1. visao'[q] = visao[q] /\ foto'[q] = foto[q] /\ pc'[q] = pc[q]
      BY <1>1, <2>2
    <3>2. VisaoInv(q)
      BY DEF HInv
    <3> QED
      BY <3>1, <3>2 DEF VisaoInv
  <2> QED
    BY <2>1, <2>2
<1> QED
  BY <1>2, <1>3, <1>4, SemCommitInv

\* A step between the snapshot and the COMMIT, of any session, or a crash.
LEMMA OutroPassoHInv ==
    ASSUME IInv, HInv, UNCHANGED historia,
           Queda \/ \E p \in Pedidos : OutroPasso(p)
    PROVE  HInv'
<1>1. UNCHANGED <<moeda, inicio, fim, foto, ordem, visao>>
  BY DEF Queda, OutroPasso, Begin, FalharBegin, ResolverMoeda, EncerrarVigenciaAnterior, Inserir,
     Commit, Sucesso, FalharCommit, Falhar, AbortarBD, Encerrar, pedido, sessoes, historia
<1>2. visao' \in [Pedidos -> Nat]
  BY <1>1 DEF HInv
<1>3. ASSUME NEW q \in Pedidos PROVE MoedaInv(q)' /\ VisaoInv(q)'
  <2> USE <1>1 DEF IInv, TypeOK, HInv
  <2>1. CASE Queda
    BY <2>1 DEF Queda, MoedaInv, VisaoInv
  <2>2. ASSUME NEW p \in Pedidos, OutroPasso(p) PROVE MoedaInv(q)' /\ VisaoInv(q)'
    <3> USE DEF Ir, Encerrar, sessoes
    <3>1. MoedaInv(q)'
      BY <2>2 DEF MoedaInv, OutroPasso, Begin, FalharBegin, ResolverMoeda, EncerrarVigenciaAnterior,
         Inserir, Commit, Sucesso, FalharCommit, Falhar, AbortarBD
    <3>2. VisaoInv(q)'
      BY <2>2 DEF VisaoInv, OutroPasso, Begin, FalharBegin, ResolverMoeda, EncerrarVigenciaAnterior,
         Inserir, Commit, Sucesso, FalharCommit, Falhar, AbortarBD
    <3> QED
      BY <3>1, <3>2
  <2> QED
    BY <2>1, <2>2
<1> QED
  BY <1>1, <1>2, <1>3, SemCommitInv

\* What COMMIT does to the order, in one piece.
LEMMA EfeitoNaOrdem ==
    ASSUME IInv, HInv, NEW p \in Pedidos, ConfirmarBD(p), ordem' = Append(ordem, p), UNCHANGED visao
    PROVE  /\ ordem \in Seq(Pedidos) /\ Len(ordem) \in Nat
           /\ ordem' \in Seq(Pedidos) /\ Len(ordem') = Len(ordem) + 1
           /\ \A k \in 1..Len(ordem) : /\ k \in 1..Len(ordem')
                                       /\ ordem'[k] = ordem[k] /\ ordem[k] \in Pedidos
                                       /\ ordem[k] # p /\ fim[ordem[k]] # Inexistente
           /\ Len(ordem) + 1 \in 1..Len(ordem') /\ ordem'[Len(ordem) + 1] = p
           /\ \A k \in 1..Len(ordem') : k \in 1..Len(ordem) \/ k = Len(ordem) + 1
           /\ \A q \in Pedidos : visao[q] \in 0..Len(ordem)
<1>1. ordem \in Seq(Pedidos) /\ \A q \in Pedidos : visao[q] \in 0..Len(ordem)
  BY DEF HInv, OrdemInv, VisaoInv
<1>2. fim[p] = Inexistente /\ \A q \in Pedidos : fim[q] # Inexistente <=> \E k \in 1..Len(ordem) : ordem[k] = q
  BY EfeitoDoCommit DEF HInv, OrdemInv
<1>3. \A k \in 1..Len(ordem) : ordem[k] \in Pedidos
  BY <1>1
<1>4. \A k \in 1..Len(ordem) : ordem[k] # p /\ fim[ordem[k]] # Inexistente
  BY <1>2, <1>3
<1> QED
  BY <1>1, <1>3, <1>4

\* The session closes exactly the rows of its first part of the table that are
\* open by now, each of which started before.
LEMMA FechadasNaOrdem ==
    ASSUME IInv, HInv, NEW p \in Pedidos, sessao[p] = "confirmando", NEW k \in 1..Len(ordem)
    PROVE  ordem[k] \in fechadas[p] <=>
              k <= visao[p] /\ moeda[ordem[k]] = moeda[p] /\ fim[ordem[k]] = Aberta
<1>1. /\ ordem \in Seq(Pedidos) /\ ordem[k] \in Pedidos /\ visao[p] \in 0..Len(ordem)
      /\ \A i, j \in 1..Len(ordem) : ordem[i] = ordem[j] => i = j
      /\ \A q \in foto[p] : \E j \in 1..visao[p] : ordem[j] = q
      /\ \A j \in 1..visao[p] :
            moeda[ordem[j]] = moeda[p] /\ fim[ordem[j]] = Aberta => ordem[j] \in foto[p]
  BY DEF HInv, OrdemInv, VisaoInv
<1>2. /\ fechadas[p] \subseteq foto[p] /\ \A q \in fechadas[p] : fim[q] = Aberta
      /\ \A q \in foto[p] : moeda[q] = moeda[p]
      /\ \A q \in foto[p] : fim[q] \in Instantes \/ q \in fechadas[p]
  BY DEF IInv, FechadasInv, FotoInv, UpdateInv
<1>3. ASSUME ordem[k] \in fechadas[p]
      PROVE  k <= visao[p] /\ moeda[ordem[k]] = moeda[p] /\ fim[ordem[k]] = Aberta
  <2>1. PICK j \in 1..visao[p] : ordem[j] = ordem[k]
    BY <1>1, <1>2, <1>3
  <2>2. j = k
    BY <1>1, <2>1
  <2> QED
    BY <1>1, <1>2, <1>3, <2>1, <2>2
<1>4. ASSUME k <= visao[p], moeda[ordem[k]] = moeda[p], fim[ordem[k]] = Aberta
      PROVE  ordem[k] \in fechadas[p]
  <2>1. k \in 1..visao[p]
    BY <1>1, <1>4
  <2>2. ordem[k] \in foto[p] /\ fim[ordem[k]] \notin Instantes
    BY <1>1, <1>4, <2>1, TaxaBaseAssumption
  <2> QED
    BY <1>2, <2>2
<1> QED
  BY <1>3, <1>4

\* COMMIT: a row comes last in the order, and the rows it closed are those of its
\* first part that were still open.
LEMMA ConfirmarBDHInv ==
    ASSUME IInv, HInv, NEW p \in Pedidos, ConfirmarBD(p), ordem' = Append(ordem, p), UNCHANGED visao
    PROVE  HInv'
<1> DEFINE N == Len(ordem)
<1>1. /\ ordem \in Seq(Pedidos) /\ N \in Nat
      /\ ordem' \in Seq(Pedidos) /\ Len(ordem') = N + 1
      /\ \A k \in 1..N : /\ k \in 1..Len(ordem') /\ ordem'[k] = ordem[k] /\ ordem[k] \in Pedidos
                         /\ ordem[k] # p /\ fim[ordem[k]] # Inexistente
      /\ N + 1 \in 1..Len(ordem') /\ ordem'[N + 1] = p
      /\ \A k \in 1..Len(ordem') : k \in 1..N \/ k = N + 1
      /\ \A q \in Pedidos : visao[q] \in 0..N
  BY EfeitoNaOrdem
<1>2. /\ fim[p] = Inexistente
      /\ fim' = [q \in Pedidos |-> IF q = p THEN Aberta
                                   ELSE IF q \in fechadas[p] THEN inicio[p] ELSE fim[q]]
      /\ \A q \in fechadas[p] :
            /\ q \in Pedidos /\ q # p
            /\ fim[q] = Aberta /\ moeda[q] = moeda[p] /\ inicio[q] < inicio[p]
      /\ UNCHANGED <<moeda, inicio>>
  BY EfeitoDoCommit
<1>3. \A q \in Pedidos : /\ inicio[q] \in Nat
                         /\ fim[q] \in Nat \/ fim[q] = Aberta \/ fim[q] = Inexistente
  BY Numeros DEF IInv
<1>4. \A q \in Pedidos : fim'[q] # Inexistente <=> q = p \/ fim[q] # Inexistente
  BY <1>2, <1>3, TaxaBaseAssumption
<1>5. /\ sessao[p] = "confirmando" /\ sessao' = [sessao EXCEPT ![p] = "confirmada"]
      /\ pc' = pc /\ foto' = foto /\ visao' = visao
  BY DEF ConfirmarBD, Encerrar
<1>6. \A q \in Pedidos : fim[q] \in Instantes => fim'[q] = fim[q]
  BY <1>2, TaxaBaseAssumption
<1> HIDE DEF N
<1>7. OrdemInv'
  <2>1. ASSUME NEW i \in 1..Len(ordem'), NEW j \in 1..Len(ordem'), ordem'[i] = ordem'[j]
        PROVE  i = j
    <3>1. \A a, b \in 1..N : ordem[a] = ordem[b] => a = b
      BY DEF HInv, OrdemInv, N
    <3> QED
      BY <1>1, <2>1, <3>1
  <2>2. ASSUME NEW q \in Pedidos
        PROVE  fim'[q] # Inexistente <=> \E k \in 1..Len(ordem') : ordem'[k] = q
    <3>1. fim[q] # Inexistente <=> \E k \in 1..N : ordem[k] = q
      BY DEF HInv, OrdemInv, N
    <3> QED
      BY <1>1, <1>4, <3>1
  <2> QED
    BY <1>1, <2>1, <2>2 DEF OrdemInv
<1>8. ASSUME NEW q \in Pedidos PROVE MoedaInv(q)' /\ VisaoInv(q)'
  <2>1. sessao \in [Pedidos -> Viva \cup {"nenhuma", "confirmada", "abortada"}]
    BY DEF IInv, TypeOK
  <2>2. MoedaInv(q)'
    BY <1>2, <1>5, <2>1 DEF HInv, MoedaInv
  <2>3. visao'[q] \in 0..Len(ordem')
    BY <1>1, <1>5
  <2>4. ASSUME NEW s \in foto'[q] PROVE \E k \in 1..visao'[q] : ordem'[k] = s
    <3>1. PICK k \in 1..visao[q] : ordem[k] = s
      BY <1>5, <2>4 DEF HInv, VisaoInv
    <3>2. k \in 1..N
      BY <1>1
    <3> QED
      BY <1>1, <1>5, <3>1, <3>2
  <2>5. ASSUME sessao'[q] = "confirmando"
               \/ (sessao'[q] = "aberta" /\ pc'[q] \in {"esperar", "inserir", "confirmar"}),
               NEW k \in 1..visao'[q],
               moeda'[ordem'[k]] = moeda'[q], fim'[ordem'[k]] = Aberta
        PROVE  ordem'[k] \in foto'[q]
    <3>1. sessao'[q] = sessao[q]
      BY <1>5, <2>1, <2>5
    <3>2. k \in 1..N /\ k \in 1..visao[q] /\ ordem'[k] = ordem[k] /\ ordem[k] \in Pedidos /\ ordem[k] # p
      BY <1>1, <1>5
    <3>3. fim[ordem[k]] = Aberta
      BY <1>2, <1>3, <2>5, <3>2, TaxaBaseAssumption
    <3>4. ordem[k] \in foto[q]
      BY <1>2, <1>5, <2>5, <3>1, <3>2, <3>3 DEF HInv, VisaoInv
    <3> QED
      BY <1>5, <3>2, <3>4
  <2>6. VisaoInv(q)'
    BY <2>3, <2>4, <2>5 DEF VisaoInv
  <2> QED
    BY <2>2, <2>6
<1>9. AbertaInv'
  <2> SUFFICES ASSUME NEW q \in Pedidos, fim'[q] \in Instantes
               PROVE  \E s \in Pedidos : /\ fim'[s] = Aberta /\ moeda[s] = moeda[q]
                                         /\ fim'[q] <= inicio[s]
    <3>1. \A q, s \in Pedidos : fim'[s] = Aberta /\ moeda[s] = moeda[q] => s \in Linhas(moeda[q])'
      BY <1>2, TaxaBaseAssumption DEF Linhas
    <3> QED
      BY <1>2, <3>1 DEF AbertaInv
  <2>1. CASE q \in fechadas[p]
    BY <1>2, <1>3, <2>1
  <2>2. CASE q \notin fechadas[p]
    <3>1. fim[q] \in Instantes /\ fim'[q] = fim[q] /\ fim[q] \in Nat
      BY <1>2, <2>2, TaxaBaseAssumption
    <3>2. PICK s \in Linhas(moeda[q]) : fim[s] = Aberta /\ fim[q] <= inicio[s]
      BY <3>1 DEF HInv, AbertaInv
    <3>3. s \in Pedidos /\ moeda[s] = moeda[q] /\ inicio[s] \in Nat
      BY <1>3, <3>2 DEF Linhas
    <3>4. CASE s \in fechadas[p]
      <4>1. fim'[p] = Aberta /\ moeda[p] = moeda[q] /\ fim[q] <= inicio[p]
        BY <1>2, <1>3, <3>1, <3>2, <3>3, <3>4
      <4> QED
        BY <3>1, <4>1
    <3>5. CASE s \notin fechadas[p]
      BY <1>2, <3>1, <3>2, <3>3, <3>5
    <3> QED
      BY <3>4, <3>5
  <2> QED
    BY <2>1, <2>2
<1>10. FilaInv'
  <2> SUFFICES ASSUME NEW i \in 1..Len(ordem'), NEW j \in 1..Len(ordem'), i < j,
                      (moeda[ordem[i]] = moeda[ordem[j]])', SemCruzamento(moeda[ordem[i]])'
               PROVE  (fim[ordem[i]] \in Instantes /\ fim[ordem[i]] <= inicio[ordem[j]])'
    BY DEF FilaInv
  <2>1. i \in 1..N /\ ordem'[i] = ordem[i] /\ ordem[i] \in Pedidos
    <3>1. i \in 1..N
      BY <1>1
    <3> QED
      BY <1>1, <3>1
  <2>2. PICK r \in Pedidos, m \in Codigos : r = ordem[i] /\ m = moeda[r]
    BY <2>1 DEF IInv, TypeOK
  <2>3. /\ i \in 1..N /\ ordem[i] = r /\ ordem'[i] = r /\ moeda[r] = m
        /\ r # p /\ fim[r] # Inexistente
    BY <1>1, <2>1, <2>2
  <2>4. moeda[ordem'[j]] = m
    BY <1>2, <2>3
  <2> SUFFICES fim'[r] \in Instantes /\ fim'[r] <= inicio[ordem'[j]]
    BY <1>2, <2>3
  <2>5. \A a, b \in Pedidos :
           a # b /\ fim'[a] # Inexistente /\ fim'[b] # Inexistente /\ moeda[a] = m /\ moeda[b] = m
              => ~ (NaoViu(a, b)' /\ NaoViu(b, a)')
    <3>1. (moeda[ordem[i]])' = m /\ moeda' = moeda
      BY <1>2, <2>3
    <3> QED
      BY <3>1 DEF SemCruzamento, Linhas
  <2>6. \A a, b \in Pedidos :
           fim[a] # Inexistente /\ fim[b] # Inexistente => (NaoViu(a, b)' <=> NaoViu(a, b))
    <3> SUFFICES ASSUME NEW a \in Pedidos
                 PROVE  visao'[a] = visao[a] /\ \A k \in 1..visao[a] : ordem'[k] = ordem[k]
      BY DEF NaoViu
    <3> QED
      BY <1>1, <1>5
  <2>7. SemCruzamento(m)
    <3> SUFFICES ASSUME NEW a \in Linhas(m), NEW b \in Linhas(m), a # b
                 PROVE  ~ (NaoViu(a, b) /\ NaoViu(b, a))
      BY DEF SemCruzamento
    <3>1. /\ a \in Pedidos /\ fim'[a] # Inexistente /\ moeda[a] = m
          /\ b \in Pedidos /\ fim'[b] # Inexistente /\ moeda[b] = m
      BY <1>4 DEF Linhas
    <3>2. ~ (NaoViu(a, b)' /\ NaoViu(b, a)')
      BY <2>5, <3>1
    <3> QED
      BY <2>6, <3>2 DEF Linhas
  <2>8. CASE j \in 1..N
    <3>1. ordem'[j] = ordem[j] /\ ordem[j] \in Pedidos
      BY <1>1, <2>8
    <3>2. fim[r] \in Instantes /\ fim[r] <= inicio[ordem[j]]
      BY <2>3, <2>7, <2>8, <2>4, <3>1 DEF HInv, FilaInv, N
    <3> QED
      BY <1>6, <2>3, <3>1, <3>2
  <2>9. CASE j = N + 1
    <3>1. ordem'[j] = p /\ m = moeda[p]
      BY <1>1, <2>4, <2>9
    \* The later of the two saw the earlier one.
    <3>2. i <= visao[p]
      <4>1. fim'[r] # Inexistente /\ fim'[p] # Inexistente
        BY <1>4, <2>3
      <4>2. ~ (NaoViu(r, p)' /\ NaoViu(p, r)')
        BY <2>5, <2>3, <3>1, <4>1
      <4>3. NaoViu(r, p)'
        BY <1>1, <1>5, <2>3 DEF NaoViu
      <4>4. PICK k \in 1..visao[p] : ordem'[k] = r
        BY <1>5, <4>2, <4>3 DEF NaoViu
      <4>5. k \in 1..N /\ ordem[k] = ordem[i]
        BY <1>1, <2>3, <4>4
      <4>6. k = i
        BY <2>3, <4>5 DEF HInv, OrdemInv, N
      <4> QED
        BY <1>1, <4>4, <4>6
    <3>3. CASE fim[r] = Aberta
      <4>1. r \in fechadas[p]
        BY <1>5, <2>3, <3>1, <3>2, <3>3, FechadasNaOrdem DEF N
      <4>2. inicio[p] \in Instantes
        BY DEF IInv, TypeOK
      <4> QED
        BY <1>2, <1>3, <2>3, <3>1, <4>1, <4>2
    <3>4. CASE fim[r] # Aberta
      <4>1. fim[r] \in Instantes /\ fim'[r] = fim[r] /\ fim[r] \in Nat
        <5>1. fim[r] \in Instantes
          BY <2>3, <3>4 DEF IInv, TypeOK
        <5> QED
          BY <1>6, <2>3, <5>1, TaxaBaseAssumption
      <4>2. PICK s \in Linhas(m) : fim[s] = Aberta /\ fim[r] <= inicio[s]
        BY <2>3, <4>1 DEF HInv, AbertaInv
      <4>3. s \in Pedidos /\ s # p /\ moeda[s] = m /\ fim[s] # Inexistente
        BY <1>2, <4>2 DEF Linhas
      <4>4. PICK k \in 1..N : ordem[k] = s
        BY <4>3 DEF HInv, OrdemInv, N
      \* It saw the open one too, for the same reason.
      <4>5. k <= visao[p]
        <5>1. fim'[s] # Inexistente /\ fim'[p] # Inexistente
          BY <1>4, <4>3
        <5>2. ~ (NaoViu(s, p)' /\ NaoViu(p, s)')
          BY <2>5, <3>1, <4>3, <5>1
        <5>3. NaoViu(s, p)'
          BY <1>1, <1>5, <4>3 DEF NaoViu
        <5>4. PICK h \in 1..visao[p] : ordem'[h] = s
          BY <1>5, <5>2, <5>3 DEF NaoViu
        <5>5. h \in 1..N /\ ordem[h] = ordem[k]
          BY <1>1, <4>4, <5>4
        <5>6. h = k
          BY <4>4, <5>5 DEF HInv, OrdemInv, N
        <5> QED
          BY <1>1, <5>4, <5>6
      <4>6. s \in fechadas[p]
        BY <1>5, <3>1, <4>2, <4>3, <4>4, <4>5, FechadasNaOrdem DEF N
      <4>7. inicio[s] < inicio[p] /\ inicio[s] \in Nat /\ inicio[p] \in Nat
        BY <1>2, <1>3, <4>3, <4>6
      <4> QED
        BY <2>3, <3>1, <4>1, <4>2, <4>7
    <3> QED
      BY <3>3, <3>4
  <2> QED
    BY <1>1, <2>8, <2>9
<1> QED
  BY <1>5, <1>7, <1>8, <1>9, <1>10 DEF HInv

\* Histories only watch.
LEMMA HistoriaSoObserva == SpecH => Spec
<1>1. InitH => Init
  BY DEF InitH
<1>2. [NextH]_varsH => [Next]_vars
  BY DEF NextH, PassoH, Next, varsH, vars, pedido, sessoes
<1> QED
  BY <1>1, <1>2, PTL DEF SpecH, Spec

\* The history agrees with the table and the sessions in every behaviour: the
\* inductive invariant that the next two theorems are read from.
THEOREM InvarianteH == SpecH => [](IInv /\ HInv)
<1>1. InitH => HInv
  BY InicioHInv
<1>2. IInv /\ HInv /\ [NextH]_varsH => HInv'
  <2> SUFFICES ASSUME IInv, HInv, [NextH]_varsH PROVE HInv'
    OBVIOUS
  <2>1. ASSUME NEW p \in Pedidos, PassoH(p) PROVE HInv'
    <3>1. CASE FotografarAbertas(p) /\ visao' = [visao EXCEPT ![p] = Len(ordem)] /\ UNCHANGED ordem
      BY <3>1, FotografarAbertasHInv
    <3>2. CASE ConfirmarBD(p) /\ ordem' = Append(ordem, p) /\ UNCHANGED visao
      BY <3>2, ConfirmarBDHInv
    <3>3. CASE OutroPasso(p) /\ UNCHANGED historia
      BY <3>3, OutroPassoHInv
    <3> QED
      BY <2>1, <3>1, <3>2, <3>3 DEF PassoH
  <2>2. CASE Queda /\ UNCHANGED historia
    BY <2>2, OutroPassoHInv
  <2>3. CASE UNCHANGED varsH
    <3> USE <2>3 DEF varsH, vars, historia, pedido, sessoes
    <3>1. visao' \in [Pedidos -> Nat] /\ \A q \in Pedidos : MoedaInv(q)' /\ VisaoInv(q)'
      BY DEF HInv, MoedaInv, VisaoInv
    <3> QED
      BY <3>1, SemCommitInv
  <2> QED
    BY <2>1, <2>2, <2>3 DEF NextH
<1> QED
  BY <1>1, <1>2, HistoriaSoObserva, Invariante, PTL DEF SpecH

\* Where no two registrations of a currency crossed, no two of its rates are
\* valid at one instant: the code breaks its promise in no other way, whatever
\* fails, waits or dies in between (encerrarVigenciaAnterior).
THEOREM UnicaSeNaoCruzam == SpecH => []UnicaSemCruzamento
<1>1. IInv /\ HInv => UnicaSemCruzamento
  <2> SUFFICES ASSUME IInv, HInv, NEW m \in Moedas, SemCruzamento(m), NEW em \in Instantes,
                      NEW p \in Vigentes(m, em), NEW q \in Vigentes(m, em), p # q
               PROVE  FALSE
    BY DEF UnicaSemCruzamento
  <2>1. em \in Nat /\ \A s \in Vigentes(m, em) :
           /\ s \in Pedidos /\ moeda[s] = m /\ fim[s] # Inexistente /\ inicio[s] <= em
           /\ fim[s] = Aberta \/ fim[s] > em
           /\ inicio[s] \in Nat
    BY TaxaBaseAssumption, Numeros DEF IInv, Vigentes, Linhas
  <2>2. \A s \in Vigentes(m, em) : \E k \in 1..Len(ordem) : ordem[k] = s
    BY <2>1 DEF HInv, OrdemInv
  <2>3. PICK i \in 1..Len(ordem) : ordem[i] = p
    BY <2>2
  <2>4. PICK j \in 1..Len(ordem) : ordem[j] = q
    BY <2>2
  <2>5. i \in 1..Len(ordem) /\ j \in 1..Len(ordem) /\ ordem[i] = p /\ ordem[j] = q
    BY <2>3, <2>4
  \* The one that comes first in the order had ended when the other started.
  <2>6. ASSUME NEW a \in 1..Len(ordem), NEW b \in 1..Len(ordem), a < b,
               ordem[a] \in Vigentes(m, em), ordem[b] \in Vigentes(m, em)
        PROVE  FALSE
    <3>1. fim[ordem[a]] \in Instantes /\ fim[ordem[a]] <= inicio[ordem[b]]
      BY <2>1, <2>6 DEF HInv, FilaInv
    <3>2. fim[ordem[a]] \in Nat /\ fim[ordem[a]] # Aberta
      BY <3>1, TaxaBaseAssumption
    <3> QED
      BY <2>1, <2>6, <3>1, <3>2
  <2>7. i # j /\ i \in Nat /\ j \in Nat
    BY <2>5
  <2> QED
    BY <2>5, <2>6, <2>7
<1> QED
  BY <1>1, InvarianteH, PTL

\* Concurrent registrations, statement by statement, implement registrations in
\* one step that close the open part of some earlier table: the outcomes that
\* Precificacao takes for granted (TaxaBaseRepo.Criar).
THEOREM Refinamento == SpecH => ImplementaTaxas
<1>1. InitH => Abstrata!Init
  <2> SUFFICES ASSUME InitH PROVE Tabela = << >>
    BY DEF Abstrata!Init
  <2>1. DOMAIN ordem = {}
    BY DEF InitH
  <2> QED
    BY <2>1 DEF Tabela
<1>2. ASSUME IInv, HInv, UNCHANGED <<moeda, inicio, fim, ordem>>
      PROVE  Tabela' = Tabela
  BY <1>2 DEF Tabela
<1>3. ASSUME IInv, HInv, NEW p \in Pedidos,
             ConfirmarBD(p), ordem' = Append(ordem, p), UNCHANGED visao
      PROVE  Abstrata!Next
  <2> DEFINE N == Len(ordem)
             T == Tabela
             fechar == Abstrata!Abertas(moeda[p], visao[p])
             nova == [moeda |-> moeda[p], inicio |-> inicio[p], fim |-> Aberta]
             antigas == [k \in DOMAIN T |->
                            [T[k] EXCEPT !.fim = IF k \in fechar THEN inicio[p] ELSE @]]
  <2>1. /\ ordem \in Seq(Pedidos) /\ N \in Nat
        /\ ordem' \in Seq(Pedidos) /\ Len(ordem') = N + 1
        /\ \A k \in 1..N : /\ k \in 1..Len(ordem') /\ ordem'[k] = ordem[k] /\ ordem[k] \in Pedidos
                           /\ ordem[k] # p /\ fim[ordem[k]] # Inexistente
        /\ N + 1 \in 1..Len(ordem') /\ ordem'[N + 1] = p
        /\ \A k \in 1..Len(ordem') : k \in 1..N \/ k = N + 1
        /\ visao[p] \in 0..N
    BY <1>3, EfeitoNaOrdem
  <2>2. /\ fim' = [q \in Pedidos |-> IF q = p THEN Aberta
                                     ELSE IF q \in fechadas[p] THEN inicio[p] ELSE fim[q]]
        /\ \A q \in fechadas[p] : inicio[q] < inicio[p]
        /\ UNCHANGED <<moeda, inicio>>
    BY <1>3, EfeitoDoCommit
  <2>3. /\ DOMAIN T = 1..N /\ T \in Seq([moeda : Codigos, inicio : Instantes,
                                         fim : Instantes \cup {Aberta, Inexistente}])
        /\ \A k \in 1..N : T[k] = [moeda |-> moeda[ordem[k]], inicio |-> inicio[ordem[k]],
                                   fim |-> fim[ordem[k]]]
    <3>1. \A k \in 1..N : [moeda |-> moeda[ordem[k]], inicio |-> inicio[ordem[k]], fim |-> fim[ordem[k]]]
                          \in [moeda : Codigos, inicio : Instantes,
                               fim : Instantes \cup {Aberta, Inexistente}]
      BY <1>3, <2>1 DEF IInv, TypeOK
    <3>2. DOMAIN ordem = 1..N
      BY <2>1
    <3> QED
      BY <2>1, <3>1, <3>2 DEF Tabela
  <2>4. Len(T) = N
    BY <2>1, <2>3
  <2> HIDE DEF N, T
  <2>5. \A k \in 1..N : k \in fechar <=> ordem[k] \in fechadas[p]
    <3>1. ASSUME NEW k \in 1..N
          PROVE  ordem[k] \in fechadas[p] <=>
                    k <= visao[p] /\ moeda[ordem[k]] = moeda[p] /\ fim[ordem[k]] = Aberta
      BY <1>3, FechadasNaOrdem DEF ConfirmarBD, N
    <3>2. fechar = {k \in 1..visao[p] : T[k].moeda = moeda[p] /\ T[k].fim = Aberta}
      BY DEF Abstrata!Abertas, T
    <3> HIDE DEF fechar
    <3>3. ASSUME NEW k \in 1..N
          PROVE  T[k].moeda = moeda[ordem[k]] /\ T[k].fim = fim[ordem[k]]
      BY <2>3
    <3>4. ASSUME NEW k \in 1..N
          PROVE  k \in fechar <=> k <= visao[p] /\ T[k].moeda = moeda[p] /\ T[k].fim = Aberta
      BY <2>1, <3>2
    <3> QED
      BY <3>1, <3>3, <3>4
  <2>6. fechar \subseteq 1..N
    BY <2>1 DEF Abstrata!Abertas
  <2> HIDE DEF fechar
  <2>7. \A k \in fechar : T[k].inicio < inicio[p]
    BY <2>2, <2>3, <2>5, <2>6
  <2>8. T' = Append(antigas, nova)
    <3>1. DOMAIN T' = 1..(N + 1) /\ \A k \in 1..(N + 1) :
             T'[k] = [moeda |-> moeda[ordem'[k]], inicio |-> inicio[ordem'[k]],
                      fim |-> fim'[ordem'[k]]]
      BY <2>1, <2>2 DEF T, Tabela
    <3>2. DOMAIN antigas = 1..N /\ Len(antigas) = N
      BY <2>1, <2>3
    <3>3. DOMAIN Append(antigas, nova) = 1..(N + 1)
      BY <2>1, <3>2
    <3>4. ASSUME NEW k \in 1..N
          PROVE  Append(antigas, nova)[k] = T'[k]
      <4>1. Append(antigas, nova)[k] = antigas[k]
        BY <2>1, <3>2
      <4>2. antigas[k] = [moeda |-> moeda[ordem[k]], inicio |-> inicio[ordem[k]],
                          fim |-> IF k \in fechar THEN inicio[p] ELSE fim[ordem[k]]]
        BY <2>3
      <4>3. fim'[ordem'[k]] = IF k \in fechar THEN inicio[p] ELSE fim[ordem[k]]
        BY <2>1, <2>2, <2>5
      <4>4. T'[k] = [moeda |-> moeda[ordem[k]], inicio |-> inicio[ordem[k]],
                     fim |-> fim'[ordem'[k]]]
        BY <2>1, <3>1
      <4> QED
        BY <4>1, <4>2, <4>3, <4>4
    <3>5. Append(antigas, nova)[N + 1] = nova
      BY <2>1, <3>2
    <3>6. T'[N + 1] = [moeda |-> moeda[p], inicio |-> inicio[p], fim |-> fim'[p]]
      BY <2>1, <3>1
    <3>7. T'[N + 1] = nova
      BY <2>2, <3>6
    <3>8. T' = [k \in 1..(N + 1) |-> T'[k]]
      BY <3>1 DEF T, Tabela
    <3>9. Append(antigas, nova) = [k \in 1..(N + 1) |-> Append(antigas, nova)[k]]
      BY <3>2, <3>3
    <3>10. \A k \in 1..(N + 1) : Append(antigas, nova)[k] = T'[k]
      BY <2>1, <3>4, <3>5, <3>7
    <3> HIDE DEF antigas, nova
    <3> QED
      BY <3>8, <3>9, <3>10
  <2>9. visao[p] \in 0..Len(T)
    BY <2>1, <2>4
  <2>10. Abstrata!Registrar(moeda[p], inicio[p])
    BY <2>7, <2>8, <2>9 DEF Abstrata!Registrar, fechar, T
  <2>11. moeda[p] \in Moedas /\ inicio[p] \in Instantes
    BY <1>3 DEF ConfirmarBD, HInv, MoedaInv, IInv, TypeOK
  <2> QED
    BY <2>10, <2>11 DEF Abstrata!Next
<1>4. IInv /\ HInv /\ [NextH]_varsH => [Abstrata!Next]_Tabela
  <2> SUFFICES ASSUME IInv, HInv, [NextH]_varsH
               PROVE  Abstrata!Next \/ Tabela' = Tabela
    OBVIOUS
  <2>1. \/ UNCHANGED <<moeda, inicio, fim, ordem>>
        \/ \E p \in Pedidos : ConfirmarBD(p) /\ ordem' = Append(ordem, p) /\ UNCHANGED visao
    BY DEF NextH, PassoH, OutroPasso, Begin, FalharBegin, ResolverMoeda, FotografarAbertas,
       EncerrarVigenciaAnterior, Inserir, Commit, Sucesso, FalharCommit, Falhar,
       AbortarBD, Queda, varsH, vars, historia, pedido
  <2> QED
    BY <1>2, <1>3, <2>1
<1> QED
  BY <1>1, <1>4, InvarianteH, PTL DEF SpecH, ImplementaTaxas, Abstrata!Spec
===============================================================================
