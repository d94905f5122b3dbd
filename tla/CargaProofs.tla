------------------------------ MODULE CargaProofs ------------------------------
(***************************************************************************)
(* Proofs about Carga, for any number of executions, of receivable types   *)
(* and of transactions for each.                                           *)
(***************************************************************************)
EXTENDS Carga, TLAPS

(***************************************************************************)
(* The inductive invariant.                                                *)
(***************************************************************************)

\* What is committed by the time an execution is where it is.
EtapaInv(e) ==
    /\ passo[e] \in {"gerarTaxas", "gerarCotacoes", "criar", "liquidar"} => cedentes
    /\ e \in taxas => cedentes /\ passo[e] \in {"gerarCotacoes", "criar", "liquidar", "terminou"}
    /\ passo[e] \in {"gerarCotacoes", "criar", "liquidar"} => e \in taxas
    /\ e \in cotacoes => e \in taxas /\ passo[e] \in {"criar", "liquidar", "terminou"}
    /\ passo[e] \in {"criar", "liquidar"} => e \in cotacoes /\ proxima[e] < Total
    /\ passo[e] \notin {"criar", "liquidar", "terminou"} => proxima[e] = 0
    /\ passo[e] = "liquidar" => statusDemo(proxima[e]) = "LIQUIDADA"
    /\ fim[e] = "sucesso" => passo[e] = "terminou"

\* The status a row was meant to end in, or the one the API gave it.
Serve(status, n) ==
    \/ status = statusDemo(n)
    \/ statusDemo(n) = "PENDENTE" /\ status = "LIQUIDADA"
Pronta(e, n) == Serve(transacoes[e][n], n)

\* Rows come in order: those before the one at hand are done, none is after it.
LinhasInv(e) ==
    \A n \in Numeros :
        /\ Existe(e, n) => e \in cotacoes /\ n <= proxima[e]
        /\ n < proxima[e] => Pronta(e, n)

\* An execution whose check let it through, and that loads or has loaded.
Entrou(e) == passo[e] \in Andando \/ e \in taxas

\* Any two of them overlapped.
ParesInv ==
    \A d, e \in Execucoes :
        d # e /\ Entrou(d) /\ Entrou(e) => d \in sobrepostas[e] \/ e \in sobrepostas[d]

IInv ==
    /\ TypeOK
    /\ \A e \in Execucoes : EtapaInv(e) /\ LinhasInv(e)
    /\ ParesInv

-------------------------------------------------------------------------------
USE DEF Andando

\* There is at least one transaction to load.
LEMMA TotalPositivo == Total \in Nat /\ Total > 0
BY CargaAssumption, SMT DEF Total

\* The status a row is meant to end in is one of three.
LEMMA StatusFinal == \A n : statusDemo(n) \in {"LIQUIDADA", "CANCELADA", "PENDENTE"}
BY DEF statusDemo

\* A step of one execution keeps what the invariant says of the others.
LEMMA Quadro ==
    ASSUME IInv, NEW e \in Execucoes, NEW d \in Execucoes, d # e,
           cedentes => cedentes',
           taxas' \in {taxas, taxas \cup {e}}, cotacoes' \in {cotacoes, cotacoes \cup {e}},
           transacoes'[d] = transacoes[d], passo'[d] = passo[d],
           proxima'[d] = proxima[d], fim'[d] = fim[d]
    PROVE  EtapaInv(d)' /\ LinhasInv(d)'
<1>1. EtapaInv(d) /\ LinhasInv(d)
  BY DEF IInv
<1>2. EtapaInv(d)'
  BY <1>1 DEF EtapaInv
<1>3. LinhasInv(d)'
  BY <1>1 DEF LinhasInv, Existe, Pronta
<1> QED
  BY <1>2, <1>3

\* Overlap is settled when an execution makes its check; later steps only
\* let executions out.
LEMMA ParesFicam ==
    ASSUME IInv, sobrepostas' = sobrepostas,
           \A x \in Execucoes : Entrou(x)' => Entrou(x)
    PROVE  ParesInv'
BY DEF IInv, ParesInv

\* The empty database satisfies the invariant.
LEMMA InicioInv == Init => IInv
<1> SUFFICES ASSUME Init PROVE IInv
  OBVIOUS
<1> USE CargaAssumption, TotalPositivo
<1>1. TypeOK
  <2>1. cedentes \in BOOLEAN /\ inserindo \in Execucoes \cup {Ninguem}
    BY DEF Init
  <2>2. transacoes \in [Execucoes ->
            [Numeros -> {"inexistente", "PENDENTE", "LIQUIDADA", "CANCELADA"}]]
    BY DEF Init
  <2>3. /\ taxas \subseteq Execucoes /\ cotacoes \subseteq Execucoes
        /\ passo \in [Execucoes -> Andando \cup {"verificar", "terminou"}]
        /\ proxima \in [Execucoes -> 0..Total]
        /\ fim \in [Execucoes -> {"nenhum", "sucesso", "recusada", "erro"}]
        /\ sobrepostas \in [Execucoes -> SUBSET Execucoes]
    BY DEF Init
  <2>4. \A e \in Execucoes : fim[e] # "sucesso"
    BY DEF Init
  <2>5. inserindo = Ninguem
    BY DEF Init
  <2> QED
    BY <2>1, <2>2, <2>3, <2>4, <2>5 DEF TypeOK
<1>2. ASSUME NEW e \in Execucoes PROVE EtapaInv(e) /\ LinhasInv(e)
  BY DEF Init, EtapaInv, LinhasInv, Existe, Numeros
<1>3. ParesInv
  BY DEF Init, ParesInv, Entrou
<1> QED
  BY <1>1, <1>2, <1>3 DEF IInv

-------------------------------------------------------------------------------
(* The steps.                                                              *)

\* An execution that goes on after its check meets only executions at work:
\* those that had loaded their rates would have made the check fail.
LEMMA VerificarInv ==
    ASSUME IInv, NEW e \in Execucoes, verificarIdempotencia(e) PROVE IInv'
<1> USE DEF verificarIdempotencia, Anotar, Ir, Terminar, banco
<1>1. TypeOK'
  BY DEF IInv, TypeOK
<1>2. EtapaInv(e)' /\ LinhasInv(e)'
  BY DEF IInv, TypeOK, EtapaInv, LinhasInv, Existe, Pronta
<1>3. ASSUME NEW d \in Execucoes, d # e PROVE EtapaInv(d)' /\ LinhasInv(d)'
  BY <1>3, Quadro DEF IInv, TypeOK
<1>4. ParesInv'
  <2> SUFFICES ASSUME NEW c \in Execucoes, NEW d \in Execucoes, c # d,
                      Entrou(c)', Entrou(d)'
               PROVE  c \in sobrepostas'[d] \/ d \in sobrepostas'[c]
    BY DEF ParesInv
  <2>1. e \notin taxas
    BY DEF IInv, EtapaInv
  <2>2. ASSUME NEW x \in Execucoes, x # e, Entrou(x)', Entrou(e)' PROVE x \in sobrepostas'[e]
    <3>1. ~ cedentes
      BY <2>1, <2>2 DEF Entrou, IInv, TypeOK
    <3>2. x \notin taxas
      BY <3>1 DEF IInv, EtapaInv
    <3> QED
      BY <2>2, <3>2 DEF Entrou, IInv, TypeOK
  <2>3. CASE c # e /\ d # e
    <3>1. Entrou(c) /\ Entrou(d)
      BY <2>3 DEF Entrou, IInv, TypeOK
    <3> QED
      BY <2>3, <3>1 DEF IInv, ParesInv, TypeOK
  <2> QED
    BY <2>2, <2>3
<1> QED
  BY <1>1, <1>2, <1>3, <1>4 DEF IInv

\* Assignors are inserted and committed by one execution or another.
LEMMA CedentesInv ==
    ASSUME IInv, NEW e \in Execucoes, inserirCedentes(e) \/ confirmarCedentes(e) PROVE IInv'
<1> USE DEF inserirCedentes, confirmarCedentes, Ir, Terminar, IrOuErrar
<1>1. TypeOK'
  <2>1. /\ cedentes' \in BOOLEAN
        /\ inserindo' \in Execucoes \cup {Ninguem}
        /\ taxas' \subseteq Execucoes /\ cotacoes' \subseteq Execucoes
    BY DEF IInv, TypeOK
  <2>2. /\ passo' \in [Execucoes -> Andando \cup {"verificar", "terminou"}]
        /\ fim' \in [Execucoes -> {"nenhum", "sucesso", "recusada", "erro"}]
    BY DEF IInv, TypeOK
  <2>3. \A x \in Execucoes : fim'[x] = "sucesso" => fim[x] = "sucesso"
    BY DEF IInv, TypeOK
  <2>4. inserindo' # Ninguem => passo'[inserindo'] \in {"confirmarCedentes", "terminou"}
    <3>1. passo'[e] \in {"confirmarCedentes", "gerarTaxas", "terminou"}
      BY DEF IInv, TypeOK
    <3>2. passo'[e] = "gerarTaxas" => inserindo' # e
      BY CargaAssumption DEF IInv, TypeOK
    <3>3. \A x \in Execucoes \ {e} : passo'[x] = passo[x]
      BY DEF IInv, TypeOK
    <3>4. inserindo' \in {inserindo, e, Ninguem}
      OBVIOUS
    <3> QED
      BY <3>1, <3>2, <3>3, <3>4 DEF IInv, TypeOK
  <2> QED
    BY <2>1, <2>2, <2>3, <2>4 DEF IInv, TypeOK
<1>2. EtapaInv(e)' /\ LinhasInv(e)'
  BY DEF IInv, TypeOK, EtapaInv, LinhasInv, Existe, Pronta
<1>3. ASSUME NEW d \in Execucoes, d # e PROVE EtapaInv(d)' /\ LinhasInv(d)'
  BY <1>3, Quadro DEF IInv, TypeOK
<1>4. ParesInv'
  BY ParesFicam DEF Entrou, IInv, TypeOK
<1> QED
  BY <1>1, <1>2, <1>3, <1>4 DEF IInv

\* Rates, and then quotes, of an execution are committed together.
LEMMA TaxasECotacoesInv ==
    ASSUME IInv, NEW e \in Execucoes, gerarTaxas(e) \/ gerarCotacoes(e) PROVE IInv'
<1> USE TotalPositivo DEF gerarTaxas, gerarCotacoes, Ir, Terminar, IrOuErrar
<1>1. TypeOK'
  <2>1. /\ cedentes' \in BOOLEAN
        /\ inserindo' \in Execucoes \cup {Ninguem}
        /\ taxas' \subseteq Execucoes /\ cotacoes' \subseteq Execucoes
    BY DEF IInv, TypeOK
  <2>2. /\ passo' \in [Execucoes -> Andando \cup {"verificar", "terminou"}]
        /\ fim' \in [Execucoes -> {"nenhum", "sucesso", "recusada", "erro"}]
    BY DEF IInv, TypeOK
  <2>3. \A x \in Execucoes : fim'[x] = "sucesso" => fim[x] = "sucesso"
    BY DEF IInv, TypeOK
  <2>4. inserindo' # Ninguem => passo'[inserindo'] \in {"confirmarCedentes", "terminou"}
    <3>1. inserindo' = inserindo /\ passo[e] \in {"gerarTaxas", "gerarCotacoes"}
      OBVIOUS
    <3>2. \A x \in Execucoes \ {e} : passo'[x] = passo[x]
      BY DEF IInv, TypeOK
    <3> QED
      BY <3>1, <3>2 DEF IInv, TypeOK
  <2> QED
    BY <2>1, <2>2, <2>3, <2>4 DEF IInv, TypeOK
<1>2. EtapaInv(e)' /\ LinhasInv(e)'
  BY DEF IInv, TypeOK, EtapaInv, LinhasInv, Existe, Pronta
<1>3. ASSUME NEW d \in Execucoes, d # e PROVE EtapaInv(d)' /\ LinhasInv(d)'
  BY <1>3, Quadro DEF IInv, TypeOK
<1>4. ParesInv'
  BY ParesFicam DEF Entrou, IInv, TypeOK
<1> QED
  BY <1>1, <1>2, <1>3, <1>4 DEF IInv

\* The session of an execution that is gone, or that fails, changes no row.
LEMMA InterromperInv ==
    ASSUME IInv, NEW e \in Execucoes, Interromper(e) \/ EncerrarOrfa(e) PROVE IInv'
<1> USE DEF Interromper, EncerrarOrfa, Terminar
<1>1. TypeOK'
  <2>1. /\ cedentes' \in BOOLEAN
        /\ inserindo' \in Execucoes \cup {Ninguem}
        /\ taxas' \subseteq Execucoes /\ cotacoes' \subseteq Execucoes
    BY DEF IInv, TypeOK
  <2>2. /\ passo' \in [Execucoes -> Andando \cup {"verificar", "terminou"}]
        /\ fim' \in [Execucoes -> {"nenhum", "sucesso", "recusada", "erro"}]
    BY DEF IInv, TypeOK
  <2>3. \A x \in Execucoes : fim'[x] = "sucesso" => fim[x] = "sucesso"
    BY DEF IInv, TypeOK
  <2>4. inserindo' # Ninguem => passo'[inserindo'] \in {"confirmarCedentes", "terminou"}
    <3>1. inserindo' \in {inserindo, Ninguem}
      OBVIOUS
    <3>2. \A x \in Execucoes : passo'[x] \in {passo[x], "terminou"}
      BY DEF IInv, TypeOK
    <3> QED
      BY <3>1, <3>2 DEF IInv, TypeOK
  <2> QED
    BY <2>1, <2>2, <2>3, <2>4 DEF IInv, TypeOK
<1>2. cedentes => cedentes'
  BY DEF IInv, TypeOK
<1>3. EtapaInv(e)' /\ LinhasInv(e)'
  <2>1. EtapaInv(e) /\ LinhasInv(e)
    BY DEF IInv
  <2>2. passo'[e] \in {passo[e], "terminou"} /\ (fim'[e] = "sucesso" => passo'[e] = "terminou")
    BY <2>1 DEF IInv, TypeOK, EtapaInv
  <2>3. EtapaInv(e)'
    BY <1>2, <2>1, <2>2 DEF EtapaInv
  <2>4. LinhasInv(e)'
    BY <2>1 DEF LinhasInv, Existe, Pronta
  <2> QED
    BY <2>3, <2>4
<1>4. ASSUME NEW d \in Execucoes, d # e PROVE EtapaInv(d)' /\ LinhasInv(d)'
  BY <1>2, <1>4, Quadro DEF IInv, TypeOK
<1>5. ParesInv'
  BY ParesFicam DEF Entrou, IInv, TypeOK
<1> QED
  BY <1>1, <1>3, <1>4, <1>5 DEF IInv

\* The transaction at hand is done with, and the next one or the end is reached.
LEMMA AvancarInv ==
    ASSUME IInv, NEW e \in Execucoes, passo[e] \in {"criar", "liquidar"}, Avancar(e),
           transacoes' \in [Execucoes ->
                [Numeros -> {"inexistente", "PENDENTE", "LIQUIDADA", "CANCELADA"}]],
           \A n \in Numeros : n # proxima[e] => transacoes'[e][n] = transacoes[e][n],
           \A d \in Execucoes : d # e => transacoes'[d] = transacoes[d],
           Serve(transacoes'[e][proxima[e]], proxima[e]),
           UNCHANGED <<cedentes, inserindo, taxas, cotacoes, sobrepostas>>
    PROVE  IInv'
<1> USE DEF Avancar, Ir, Terminar
<1> DEFINE n == proxima[e]
<1>1. n \in Numeros /\ n \in Nat /\ n < Total /\ e \in cotacoes /\ e \in taxas /\ cedentes
  BY TotalPositivo DEF IInv, TypeOK, EtapaInv, Numeros
<1>2. /\ proxima'[e] = n + 1
      /\ passo'[e] \in {"criar", "terminou"}
      /\ passo'[e] = "criar" => n + 1 < Total
      /\ fim'[e] = "sucesso" => passo'[e] = "terminou" /\ n + 1 = Total
  <2>1. fim[e] # "sucesso"
    BY DEF IInv, EtapaInv
  <2>2. proxima'[e] = n + 1
    BY DEF IInv, TypeOK
  <2>3. CASE n + 1 = Total
    BY <2>2, <2>3 DEF IInv, TypeOK
  <2>4. CASE n + 1 # Total
    <3>1. n + 1 < Total
      BY <1>1, <2>4, TotalPositivo
    <3>2. passo'[e] = "criar" /\ fim'[e] = fim[e]
      BY <2>4 DEF IInv, TypeOK
    <3> QED
      BY <2>1, <2>2, <3>1, <3>2
  <2> QED
    BY <2>3, <2>4
<1>3. ASSUME NEW d \in Execucoes, d # e
      PROVE  passo'[d] = passo[d] /\ proxima'[d] = proxima[d] /\ fim'[d] = fim[d]
  BY <1>3 DEF IInv, TypeOK
<1>4. TypeOK'
  <2>1. /\ passo' \in [Execucoes -> Andando \cup {"verificar", "terminou"}]
        /\ fim' \in [Execucoes -> {"nenhum", "sucesso", "recusada", "erro"}]
    BY DEF IInv, TypeOK
  <2>2. proxima' \in [Execucoes -> 0..Total]
    BY <1>1, TotalPositivo DEF IInv, TypeOK
  <2>3. \A d \in Execucoes : fim'[d] = "sucesso" => proxima'[d] = Total
    BY <1>2, <1>3 DEF IInv, TypeOK
  <2>4. inserindo' # Ninguem => passo'[inserindo'] \in {"confirmarCedentes", "terminou"}
    BY <1>3 DEF IInv, TypeOK
  <2> QED
    BY <2>1, <2>2, <2>3, <2>4 DEF IInv, TypeOK
<1>5. EtapaInv(e)'
  BY <1>1, <1>2 DEF EtapaInv
<1>6. LinhasInv(e)'
  <2> SUFFICES ASSUME NEW k \in Numeros
               PROVE  /\ Existe(e, k)' => e \in cotacoes' /\ k <= proxima'[e]
                      /\ k < proxima'[e] => Pronta(e, k)'
    BY DEF LinhasInv
  <2>1. k \in Nat
    BY TotalPositivo DEF Numeros
  <2>2. CASE k = n
    BY <1>1, <1>2, <2>2 DEF Pronta
  <2>3. CASE k # n
    <3>1. transacoes'[e][k] = transacoes[e][k]
      BY <2>3
    <3>2. (Existe(e, k) => k <= n) /\ (k < n => Pronta(e, k))
      BY DEF IInv, LinhasInv
    <3> QED
      BY <1>1, <1>2, <2>1, <2>3, <3>1, <3>2 DEF Existe, Pronta
  <2> QED
    BY <2>2, <2>3
<1>7. ASSUME NEW d \in Execucoes, d # e PROVE EtapaInv(d)' /\ LinhasInv(d)'
  BY <1>3, <1>7, Quadro
<1>8. ParesInv'
  <2>1. \A x \in Execucoes : Entrou(x)' => Entrou(x)
    BY <1>3 DEF Entrou
  <2> QED
    BY <2>1, ParesFicam
<1> QED
  BY <1>4, <1>5, <1>6, <1>7, <1>8 DEF IInv

\* An execution that writes at most its row at hand, and stays at it or ends
\* with an error.
LEMMA FicarInv ==
    ASSUME IInv, NEW e \in Execucoes, passo[e] \in {"criar", "liquidar"},
           \/ Terminar(e, "erro")
           \/ Ir(e, "liquidar") /\ statusDemo(proxima[e]) = "LIQUIDADA",
           transacoes' \in [Execucoes ->
                [Numeros -> {"inexistente", "PENDENTE", "LIQUIDADA", "CANCELADA"}]],
           \A n \in Numeros : n # proxima[e] => transacoes'[e][n] = transacoes[e][n],
           \A d \in Execucoes : d # e => transacoes'[d] = transacoes[d],
           UNCHANGED <<cedentes, inserindo, taxas, cotacoes, proxima, sobrepostas>>
    PROVE  IInv'
<1> USE DEF Ir, Terminar
<1> DEFINE n == proxima[e]
<1>1. n \in Numeros /\ n \in Nat /\ n < Total /\ e \in cotacoes /\ e \in taxas /\ cedentes
  BY TotalPositivo DEF IInv, TypeOK, EtapaInv, Numeros
<1>2. /\ passo'[e] \in {"liquidar", "terminou"}
      /\ passo'[e] = "liquidar" => statusDemo(n) = "LIQUIDADA"
      /\ fim'[e] # "sucesso"
  BY DEF IInv, TypeOK, EtapaInv
<1>3. ASSUME NEW d \in Execucoes, d # e PROVE passo'[d] = passo[d] /\ fim'[d] = fim[d]
  BY <1>3 DEF IInv, TypeOK
<1>4. TypeOK'
  <2>1. /\ passo' \in [Execucoes -> Andando \cup {"verificar", "terminou"}]
        /\ fim' \in [Execucoes -> {"nenhum", "sucesso", "recusada", "erro"}]
    BY DEF IInv, TypeOK
  <2>2. \A d \in Execucoes : fim'[d] = "sucesso" => proxima'[d] = Total
    BY <1>2, <1>3 DEF IInv, TypeOK
  <2>3. inserindo' # Ninguem => passo'[inserindo'] \in {"confirmarCedentes", "terminou"}
    BY <1>3 DEF IInv, TypeOK
  <2> QED
    BY <2>1, <2>2, <2>3 DEF IInv, TypeOK
<1>5. EtapaInv(e)'
  BY <1>1, <1>2 DEF EtapaInv
<1>6. LinhasInv(e)'
  <2> SUFFICES ASSUME NEW k \in Numeros
               PROVE  /\ Existe(e, k)' => e \in cotacoes' /\ k <= n
                      /\ k < n => Pronta(e, k)'
    BY DEF LinhasInv
  <2>1. CASE k = n
    BY <1>1, <2>1
  <2>2. CASE k # n
    <3>1. transacoes'[e][k] = transacoes[e][k]
      BY <2>2
    <3>2. (Existe(e, k) => k <= n) /\ (k < n => Pronta(e, k))
      BY DEF IInv, LinhasInv
    <3> QED
      BY <1>1, <3>1, <3>2 DEF Existe, Pronta
  <2> QED
    BY <2>1, <2>2
<1>7. ASSUME NEW d \in Execucoes, d # e PROVE EtapaInv(d)' /\ LinhasInv(d)'
  BY <1>3, <1>7, Quadro
<1>8. ParesInv'
  <2>1. \A x \in Execucoes : Entrou(x)' => Entrou(x)
    BY <1>3 DEF Entrou
  <2> QED
    BY <2>1, ParesFicam
<1> QED
  BY <1>4, <1>5, <1>6, <1>7, <1>8 DEF IInv

\* A row is created in its final status, or is to be settled next.
LEMMA CriarInv ==
    ASSUME IInv, NEW e \in Execucoes, criarTransacao(e) PROVE IInv'
<1> DEFINE n == proxima[e]
<1>1. passo[e] = "criar" /\ n \in Numeros
  BY TotalPositivo DEF criarTransacao, IInv, TypeOK, EtapaInv, Numeros
<1>2. StatusInicial(n) \in {"PENDENTE", "CANCELADA"}
  BY DEF StatusInicial
<1>3. /\ transacoes' = [transacoes EXCEPT ![e][n] = StatusInicial(n)]
      /\ UNCHANGED <<cedentes, inserindo, taxas, cotacoes, sobrepostas>>
  BY DEF criarTransacao
<1>4. /\ transacoes' \in [Execucoes ->
            [Numeros -> {"inexistente", "PENDENTE", "LIQUIDADA", "CANCELADA"}]]
      /\ transacoes'[e][n] = StatusInicial(n)
      /\ \A k \in Numeros : k # n => transacoes'[e][k] = transacoes[e][k]
      /\ \A d \in Execucoes : d # e => transacoes'[d] = transacoes[d]
  BY <1>1, <1>2, <1>3 DEF IInv, TypeOK
<1>5. CASE statusDemo(n) # "LIQUIDADA" /\ Avancar(e)
  <2>1. Serve(transacoes'[e][n], n)
    BY <1>4, <1>5, StatusFinal DEF StatusInicial, Serve
  <2> QED
    BY <1>1, <1>3, <1>4, <1>5, <2>1, AvancarInv
<1>6. CASE /\ \/ Ir(e, "liquidar") /\ statusDemo(n) = "LIQUIDADA"
              \/ Terminar(e, "erro")
           /\ UNCHANGED proxima
  BY <1>1, <1>3, <1>4, <1>6, FicarInv
<1> QED
  BY <1>5, <1>6 DEF criarTransacao

\* A row is settled as it was meant to be, or the load ends with an error.
LEMMA LiquidarInv ==
    ASSUME IInv, NEW e \in Execucoes, liquidar(e) PROVE IInv'
<1> DEFINE n == proxima[e]
<1>1. passo[e] = "liquidar" /\ n \in Numeros /\ statusDemo(n) = "LIQUIDADA"
  BY TotalPositivo DEF liquidar, IInv, TypeOK, EtapaInv, Numeros
<1>2. UNCHANGED <<cedentes, inserindo, taxas, cotacoes, sobrepostas>>
  BY DEF liquidar
<1>3. CASE transacoes' = [transacoes EXCEPT ![e][n] = "LIQUIDADA"]
  <2>1. /\ transacoes' \in [Execucoes ->
              [Numeros -> {"inexistente", "PENDENTE", "LIQUIDADA", "CANCELADA"}]]
        /\ transacoes'[e][n] = "LIQUIDADA"
        /\ \A k \in Numeros : k # n => transacoes'[e][k] = transacoes[e][k]
        /\ \A d \in Execucoes : d # e => transacoes'[d] = transacoes[d]
    BY <1>1, <1>3 DEF IInv, TypeOK
  <2>2. CASE Avancar(e)
    <3>1. Serve(transacoes'[e][n], n)
      BY <1>1, <2>1 DEF Serve
    <3> QED
      BY <1>1, <1>2, <2>1, <2>2, <3>1, AvancarInv
  <2>3. CASE Terminar(e, "erro") /\ UNCHANGED proxima
    BY <1>1, <1>2, <2>1, <2>3, FicarInv
  <2>4. Avancar(e) \/ (Terminar(e, "erro") /\ UNCHANGED proxima)
    BY Zenon DEF liquidar
  <2> QED
    BY <2>2, <2>3, <2>4
<1>4. CASE Terminar(e, "erro") /\ UNCHANGED <<transacoes, proxima>>
  <2>1. transacoes' \in [Execucoes ->
              [Numeros -> {"inexistente", "PENDENTE", "LIQUIDADA", "CANCELADA"}]]
    BY <1>4 DEF IInv, TypeOK
  <2> QED
    BY <1>1, <1>2, <1>4, <2>1, FicarInv
<1> QED
  BY <1>3, <1>4 DEF liquidar

\* The API settles a row of any execution, at work or gone.
LEMMA LiquidarPelaAPIInv ==
    ASSUME IInv, NEW e \in Execucoes, NEW n \in Numeros, LiquidarPelaAPI(e, n) PROVE IInv'
<1> USE DEF LiquidarPelaAPI
<1>1. transacoes[e][n] = "PENDENTE" /\ transacoes' = [transacoes EXCEPT ![e][n] = "LIQUIDADA"]
  OBVIOUS
<1>2. ASSUME NEW d \in Execucoes, NEW k \in Numeros
      PROVE  /\ transacoes'[d][k] = IF d = e /\ k = n THEN "LIQUIDADA" ELSE transacoes[d][k]
             /\ Existe(d, k)' <=> Existe(d, k)
             /\ Pronta(d, k) => Pronta(d, k)'
  <2>1. transacoes'[d][k] = IF d = e /\ k = n THEN "LIQUIDADA" ELSE transacoes[d][k]
    BY <1>1 DEF IInv, TypeOK
  <2> QED
    BY <1>1, <2>1 DEF Existe, Pronta, Serve
<1>3. TypeOK'
  <2>1. transacoes' \in [Execucoes ->
              [Numeros -> {"inexistente", "PENDENTE", "LIQUIDADA", "CANCELADA"}]]
    BY <1>1 DEF IInv, TypeOK
  <2> QED
    BY <2>1 DEF IInv, TypeOK
<1>4. ASSUME NEW d \in Execucoes PROVE EtapaInv(d)' /\ LinhasInv(d)'
  <2>1. EtapaInv(d) /\ LinhasInv(d)
    BY DEF IInv
  <2>2. EtapaInv(d)'
    BY <2>1 DEF EtapaInv
  <2>3. LinhasInv(d)'
    BY <1>2, <2>1 DEF LinhasInv
  <2> QED
    BY <2>2, <2>3
<1>5. ParesInv'
  BY ParesFicam DEF Entrou
<1> QED
  BY <1>3, <1>4, <1>5 DEF IInv

\* Every step keeps the invariant.
LEMMA PassoInv == IInv /\ [Next]_vars => IInv'
<1> SUFFICES ASSUME IInv, [Next]_vars PROVE IInv'
  OBVIOUS
<1>1. CASE UNCHANGED vars
  BY <1>1 DEF vars, banco, IInv, TypeOK, EtapaInv, LinhasInv, ParesInv, Entrou, Existe, Pronta
<1>2. ASSUME NEW e \in Execucoes, verificarIdempotencia(e) \/ Comum(e) PROVE IInv'
  BY <1>2, VerificarInv, CedentesInv, TaxasECotacoesInv, CriarInv, LiquidarInv,
     InterromperInv, LiquidarPelaAPIInv DEF Comum
<1> QED
  BY <1>1, <1>2 DEF Next

\* The invariant holds in every reachable state.
THEOREM Invariante == Spec => []IInv
BY InicioInv, PassoInv, PTL DEF Spec

-------------------------------------------------------------------------------
(* The results.                                                            *)

\* Type correctness of the load.
THEOREM TipoCorreto == Spec => []TypeOK
<1>1. IInv => TypeOK
  BY DEF IInv
<1> QED
  BY <1>1, Invariante, PTL

\* Wherever executions stop, each leaves a prefix of the mass in order, and a
\* success the whole mass, for any number of executions and transactions.
THEOREM SempreMassaEmOrdem == Spec => []MassaEmOrdem
<1>1. IInv => MassaEmOrdem
  <2> SUFFICES ASSUME IInv, NEW e \in Execucoes
               PROVE  /\ e \in taxas => cedentes
                      /\ e \in cotacoes => e \in taxas
                      /\ (\E n \in Numeros : Existe(e, n)) => e \in cotacoes
                      /\ \A n \in Numeros : Existe(e, n) =>
                            \A k \in 0..(n - 1) : Pronta(e, k)
                      /\ fim[e] = "sucesso" => \A n \in Numeros : Pronta(e, n)
    BY DEF MassaEmOrdem, Pronta, Serve
  <2>1. EtapaInv(e) /\ LinhasInv(e) /\ proxima[e] \in Nat
    BY TotalPositivo DEF IInv, TypeOK
  <2>2. \A n \in Numeros : n \in Nat /\ n < Total /\ (\A k \in 0..(n - 1) : k \in Numeros /\ k < n)
    BY TotalPositivo DEF Numeros
  <2>3. \A n \in Numeros : Existe(e, n) => \A k \in 0..(n - 1) : Pronta(e, k)
    <3> SUFFICES ASSUME NEW n \in Numeros, Existe(e, n), NEW k \in 0..(n - 1) PROVE Pronta(e, k)
      OBVIOUS
    <3>1. n <= proxima[e]
      BY <2>1 DEF LinhasInv
    <3>2. k \in Numeros /\ k < proxima[e]
      BY <2>1, <2>2, <3>1
    <3> QED
      BY <2>1, <3>2 DEF LinhasInv
  <2>4. fim[e] = "sucesso" => \A n \in Numeros : Pronta(e, n)
    BY <2>1, <2>2 DEF IInv, TypeOK, LinhasInv
  <2> QED
    BY <2>1, <2>3, <2>4 DEF EtapaInv, LinhasInv
<1> QED
  BY <1>1, Invariante, PTL

\* Only executions that overlapped load the mass twice, for any number of them.
THEOREM SempreMassaUnica == Spec => []MassaUnica
<1>1. IInv => MassaUnica
  BY DEF IInv, ParesInv, Entrou, MassaUnica, TypeOK
<1> QED
  BY <1>1, Invariante, PTL
===============================================================================
