-------------------------- MODULE PrecificacaoProofs --------------------------
(***************************************************************************)
(* Proofs about Precificacao, for any number of requests, rates and quotes *)
(* and any calendar.                                                       *)
(***************************************************************************)
EXTENDS Precificacao, TLAPS

(***************************************************************************)
(* The inductive invariant, the part about the tables.                     *)
(***************************************************************************)

LinhaTaxa == [moeda : Moedas, inicio : Inicios, fim : Inicios \cup {Aberta}]
LinhaCotacao == [base : Moedas, cotacao : Moedas, inicio : Inicios]

\* Row k is in force for m at em, and no row that has started did so later.
UltimaTaxa(m, em, k) ==
    /\ taxas[k].moeda = m /\ taxas[k].inicio <= em
    /\ taxas[k].fim = Aberta \/ taxas[k].fim > em
    /\ \A j \in 1..Len(taxas) :
          taxas[j].moeda = m /\ taxas[j].inicio <= em => taxas[j].inicio <= taxas[k].inicio

UltimaCotacao(b, c, em, k) ==
    /\ cotacoes[k].base = b /\ cotacoes[k].cotacao = c /\ cotacoes[k].inicio <= em
    /\ \A j \in 1..Len(cotacoes) :
          cotacoes[j].base = b /\ cotacoes[j].cotacao = c /\ cotacoes[j].inicio <= em
          => cotacoes[j].inicio <= cotacoes[k].inicio

\* Whatever has started by an instant, some rate is in force then that started
\* no earlier: to close a rate is to be in force instead of it.
VigenciaInv ==
    \A m \in Moedas, em \in Int, j \in 1..Len(taxas) :
        taxas[j].moeda = m /\ taxas[j].inicio <= em
        => \E k \in 1..Len(taxas) : UltimaTaxa(m, em, k)

\* Of the quotes that have started, one is the latest.
CambioInv ==
    \A b, c \in Moedas, em \in Int, j \in 1..Len(cotacoes) :
        cotacoes[j].base = b /\ cotacoes[j].cotacao = c /\ cotacoes[j].inicio <= em
        => \E k \in 1..Len(cotacoes) : UltimaCotacao(b, c, em, k)

TabelasInv ==
    /\ taxas \in Seq(LinhaTaxa) /\ cotacoes \in Seq(LinhaCotacao)
    /\ VigenciaInv /\ CambioInv

-------------------------------------------------------------------------------
\* What the rows of the tables are made of.
LEMMA LinhasTipo ==
    ASSUME taxas \in Seq(LinhaTaxa), cotacoes \in Seq(LinhaCotacao)
    PROVE  /\ DOMAIN taxas = 1..Len(taxas) /\ Len(taxas) \in Nat
           /\ \A k \in 1..Len(taxas) :
                 /\ taxas[k] \in LinhaTaxa
                 /\ taxas[k].moeda \in Moedas /\ taxas[k].inicio \in Int
                 /\ taxas[k].fim = Aberta \/ taxas[k].fim \in Int
           /\ DOMAIN cotacoes = 1..Len(cotacoes) /\ Len(cotacoes) \in Nat
           /\ \A k \in 1..Len(cotacoes) :
                 /\ cotacoes[k] \in LinhaCotacao
                 /\ cotacoes[k].base \in Moedas /\ cotacoes[k].cotacao \in Moedas
                 /\ cotacoes[k].inicio \in Int
<1>1. /\ DOMAIN taxas = 1..Len(taxas) /\ Len(taxas) \in Nat
      /\ \A k \in 1..Len(taxas) : taxas[k] \in LinhaTaxa
      /\ DOMAIN cotacoes = 1..Len(cotacoes) /\ Len(cotacoes) \in Nat
      /\ \A k \in 1..Len(cotacoes) : cotacoes[k] \in LinhaCotacao
  OBVIOUS
<1>2. Inicios \subseteq Int
  BY PrecificacaoAssumption
<1>3. ASSUME NEW k \in 1..Len(taxas)
      PROVE  /\ taxas[k].moeda \in Moedas /\ taxas[k].inicio \in Int
             /\ taxas[k].fim = Aberta \/ taxas[k].fim \in Int
  <2>1. taxas[k] \in LinhaTaxa
    BY <1>1
  <2> QED
    BY <1>2, <2>1 DEF LinhaTaxa
<1>4. ASSUME NEW k \in 1..Len(cotacoes)
      PROVE  /\ cotacoes[k].base \in Moedas /\ cotacoes[k].cotacao \in Moedas
             /\ cotacoes[k].inicio \in Int
  <2>1. cotacoes[k] \in LinhaCotacao
    BY <1>1
  <2> QED
    BY <1>2, <2>1 DEF LinhaCotacao
<1> QED
  BY <1>1, <1>3, <1>4

\* What the registration of a rate does to the table: rows are only added and
\* closed, and what is closed ends where the new row starts.
EfeitoTaxa(m, i) ==
    /\ taxas' \in Seq(LinhaTaxa) /\ Len(taxas') = Len(taxas) + 1
    /\ taxas'[Len(taxas) + 1] = [moeda |-> m, inicio |-> i, fim |-> Aberta]
    /\ \A k \in 1..Len(taxas) :
          /\ taxas'[k].moeda = taxas[k].moeda /\ taxas'[k].inicio = taxas[k].inicio
          /\ \/ taxas'[k].fim = taxas[k].fim
             \/ /\ taxas'[k].fim = i /\ taxas[k].fim = Aberta
                /\ taxas[k].moeda = m /\ taxas[k].inicio < i

\* What is said of the rates depends on no other table.
LEMMA VigenciaSo == ASSUME VigenciaInv, taxas' = taxas PROVE VigenciaInv'
<1>1. \A m, em, k : UltimaTaxa(m, em, k)' <=> UltimaTaxa(m, em, k)
  BY DEF UltimaTaxa
<1> QED
  BY <1>1 DEF VigenciaInv

\* Nor does what is said of the quotes.
LEMMA CambioSo == ASSUME CambioInv, cotacoes' = cotacoes PROVE CambioInv'
<1>1. \A b, c, em, k : UltimaCotacao(b, c, em, k)' <=> UltimaCotacao(b, c, em, k)
  BY DEF UltimaCotacao
<1> QED
  BY <1>1 DEF CambioInv

\* RegistrarTaxa is such a registration.
LEMMA RegistrarTaxaEfeito ==
    ASSUME TabelasInv, NEW m \in Moedas, NEW i \in Inicios, RegistrarTaxa(m, i)
    PROVE  EfeitoTaxa(m, i)
<1>1. /\ taxas \in Seq(LinhaTaxa) /\ Len(taxas) \in Nat /\ DOMAIN taxas = 1..Len(taxas)
      /\ \A k \in 1..Len(taxas) : taxas[k] \in LinhaTaxa
  BY LinhasTipo DEF TabelasInv
<1>2. PICK visiveis \in 0..Len(taxas) :
        LET fechar == {k \in 1..visiveis : taxas[k].moeda = m /\ taxas[k].fim = Aberta}
        IN  /\ \A k \in fechar : taxas[k].inicio < i
            /\ taxas' = Append([k \in DOMAIN taxas |->
                                   [taxas[k] EXCEPT !.fim = IF k \in fechar THEN i ELSE @]],
                               [moeda |-> m, inicio |-> i, fim |-> Aberta])
  BY DEF RegistrarTaxa, Tabela!Registrar, Tabela!Abertas
<1> DEFINE fechar == {k \in 1..visiveis : taxas[k].moeda = m /\ taxas[k].fim = Aberta}
           nova == [moeda |-> m, inicio |-> i, fim |-> Aberta]
           antes == [k \in 1..Len(taxas) |->
                        [taxas[k] EXCEPT !.fim = IF k \in fechar THEN i ELSE @]]
<1>4. \A k \in 1..Len(taxas) :
        /\ antes[k] \in LinhaTaxa
        /\ antes[k].moeda = taxas[k].moeda /\ antes[k].inicio = taxas[k].inicio
        /\ antes[k].fim = IF k \in fechar THEN i ELSE taxas[k].fim
  BY <1>1 DEF LinhaTaxa
<1>5. \A k \in fechar : taxas[k].inicio < i /\ taxas[k].moeda = m /\ taxas[k].fim = Aberta
  BY <1>2
<1>6. taxas' = Append(antes, nova) /\ nova \in LinhaTaxa
  BY <1>1, <1>2 DEF LinhaTaxa
<1>7. antes \in Seq(LinhaTaxa) /\ Len(antes) = Len(taxas)
  <2> HIDE DEF fechar
  <2>1. antes \in [1..Len(taxas) -> LinhaTaxa]
    BY <1>4
  <2> QED
    BY <1>1, <2>1
<1> HIDE DEF antes, nova, fechar
<1>8. /\ taxas' \in Seq(LinhaTaxa) /\ Len(taxas') = Len(taxas) + 1
      /\ taxas'[Len(taxas) + 1] = nova
      /\ \A k \in 1..Len(taxas) : taxas'[k] = antes[k]
  BY <1>6, <1>7
<1> QED
  BY <1>4, <1>5, <1>8 DEF EfeitoTaxa, nova

\* At every date that had a rate there is still one: before the new start the
\* one there was, even if just closed, and from then on that or the new one.
LEMMA VigenciaFica ==
    ASSUME TabelasInv, NEW m \in Moedas, NEW i \in Inicios, EfeitoTaxa(m, i)
    PROVE  VigenciaInv'
<1> DEFINE n == Len(taxas) + 1
<1>1. /\ n - 1 = Len(taxas) /\ n = Len(taxas') /\ n \in Nat
      /\ \A k \in 1..(n - 1) :
            taxas[k].inicio \in Int /\ (taxas[k].fim = Aberta \/ taxas[k].fim \in Int)
      /\ i \in Int
  BY LinhasTipo, PrecificacaoAssumption DEF TabelasInv, EfeitoTaxa
<1>2. /\ taxas'[n].moeda = m /\ taxas'[n].inicio = i /\ taxas'[n].fim = Aberta
      /\ \A k \in 1..(n - 1) :
            /\ taxas'[k].moeda = taxas[k].moeda /\ taxas'[k].inicio = taxas[k].inicio
            /\ \/ taxas'[k].fim = taxas[k].fim
               \/ /\ taxas'[k].fim = i /\ taxas[k].fim = Aberta
                  /\ taxas[k].moeda = m /\ taxas[k].inicio < i
  BY DEF EfeitoTaxa
<1>3. SUFFICES ASSUME NEW a \in Moedas, NEW em \in Int,
                      NEW j0 \in 1..n, taxas'[j0].moeda = a, taxas'[j0].inicio <= em
               PROVE  \E k \in 1..n : UltimaTaxa(a, em, k)'
  BY <1>1 DEF VigenciaInv
<1> HIDE DEF n
<1> DEFINE Meta ==
        \E k \in 1..n :
           /\ taxas'[k].moeda = a /\ taxas'[k].inicio <= em
           /\ taxas'[k].fim = Aberta \/ taxas'[k].fim > em
           /\ \A j \in 1..n : taxas'[j].moeda = a /\ taxas'[j].inicio <= em
                              => taxas'[j].inicio <= taxas'[k].inicio
<1>4. \A j \in 1..n : j = n \/ j \in 1..(n - 1)
  BY <1>1
<1>5. ASSUME \A j \in 1..(n - 1) : ~ (taxas[j].moeda = a /\ taxas[j].inicio <= em)
      PROVE  Meta
  <2>1. \A j \in 1..n : taxas'[j].moeda = a /\ taxas'[j].inicio <= em => j = n
    BY <1>2, <1>4, <1>5
  <2> QED
    BY <1>1, <1>2, <1>3, <2>1
<1>6. ASSUME NEW j \in 1..(n - 1), taxas[j].moeda = a, taxas[j].inicio <= em
      PROVE  Meta
  <2>1. PICK k \in 1..(n - 1) : UltimaTaxa(a, em, k)
    BY <1>1, <1>6 DEF TabelasInv, VigenciaInv
  <2>2. /\ taxas[k].moeda = a /\ taxas[k].inicio <= em
        /\ taxas[k].fim = Aberta \/ taxas[k].fim > em
        /\ \A l \in 1..(n - 1) : taxas[l].moeda = a /\ taxas[l].inicio <= em
                                 => taxas[l].inicio <= taxas[k].inicio
    BY <1>1, <2>1 DEF UltimaTaxa
  <2>3. taxas[k].inicio \in Int
    BY <1>1
  <2>4. CASE a = m /\ i <= em /\ taxas[k].inicio < i
    <3>1. ASSUME NEW l \in 1..n, taxas'[l].moeda = a, taxas'[l].inicio <= em
          PROVE  taxas'[l].inicio <= i
      <4>1. CASE l = n
        BY <1>1, <1>2, <4>1
      <4>2. CASE l \in 1..(n - 1)
        <5>1. taxas'[l].inicio = taxas[l].inicio /\ taxas'[l].moeda = taxas[l].moeda
          BY <1>2, <4>2
        <5>2. taxas[l].inicio <= taxas[k].inicio
          BY <2>2, <3>1, <4>2, <5>1
        <5>3. taxas[l].inicio \in Int /\ i \in Int
          BY <1>1, <4>2
        <5> QED
          BY <2>3, <2>4, <5>1, <5>2, <5>3
      <4> QED
        BY <1>4, <4>1, <4>2
    <3> QED
      BY <1>1, <1>2, <2>4, <3>1
  <2>5. CASE ~ (a = m /\ i <= em /\ taxas[k].inicio < i)
    <3>1. taxas'[k].fim = Aberta \/ taxas'[k].fim > em
      BY <1>1, <1>2, <2>2, <2>5
    <3>2. ASSUME NEW l \in 1..n, taxas'[l].moeda = a, taxas'[l].inicio <= em
          PROVE  taxas'[l].inicio <= taxas'[k].inicio
      <4>1. CASE l = n
        BY <1>1, <1>2, <2>3, <2>5, <3>2, <4>1
      <4>2. CASE l \in 1..(n - 1)
        BY <1>2, <2>2, <3>2, <4>2
      <4> QED
        BY <1>4, <4>1, <4>2
    <3>3. k \in 1..n /\ taxas'[k].moeda = a /\ taxas'[k].inicio <= em
      BY <1>1, <1>2, <2>2
    <3> QED
      BY <3>1, <3>2, <3>3
  <2> QED
    BY <2>4, <2>5
<1>7. Meta
  BY <1>5, <1>6
<1> QED
  BY <1>1, <1>7 DEF UltimaTaxa

\* A quote more: the latest is the one there was or the new one.
LEMMA RegistrarCotacaoEfeito ==
    ASSUME TabelasInv, NEW b \in Moedas, NEW c \in Moedas, NEW i \in Inicios,
           RegistrarCotacao(b, c, i)
    PROVE  /\ cotacoes' \in Seq(LinhaCotacao) /\ Len(cotacoes') = Len(cotacoes) + 1
           /\ \A k \in 1..Len(cotacoes) : cotacoes'[k] = cotacoes[k]
           /\ cotacoes'[Len(cotacoes) + 1] = [base |-> b, cotacao |-> c, inicio |-> i]
<1>1. cotacoes \in Seq(LinhaCotacao) /\ [base |-> b, cotacao |-> c, inicio |-> i] \in LinhaCotacao
  BY DEF TabelasInv, LinhaCotacao
<1> QED
  BY <1>1 DEF RegistrarCotacao

\* So it is with the quotes.
LEMMA CambioFica ==
    ASSUME TabelasInv, NEW b \in Moedas, NEW c \in Moedas, NEW i \in Inicios,
           RegistrarCotacao(b, c, i)
    PROVE  CambioInv'
<1> DEFINE n == Len(cotacoes) + 1
<1>0. Inicios \subseteq Int
  BY PrecificacaoAssumption
<1>1. /\ n \in Nat /\ n - 1 = Len(cotacoes) /\ n = Len(cotacoes') /\ i \in Int
      /\ \A k \in 1..(n - 1) : cotacoes'[k] = cotacoes[k] /\ cotacoes[k].inicio \in Int
      /\ cotacoes'[n].base = b /\ cotacoes'[n].cotacao = c /\ cotacoes'[n].inicio = i
  <2>1. /\ Len(cotacoes) \in Nat /\ Len(cotacoes') = Len(cotacoes) + 1 /\ i \in Int
        /\ \A k \in 1..Len(cotacoes) : cotacoes[k].inicio \in Int
    BY <1>0, RegistrarCotacaoEfeito, LinhasTipo DEF TabelasInv
  <2>2. /\ \A k \in 1..Len(cotacoes) : cotacoes'[k] = cotacoes[k]
        /\ cotacoes'[Len(cotacoes) + 1] = [base |-> b, cotacao |-> c, inicio |-> i]
    BY RegistrarCotacaoEfeito
  <2>3. n \in Nat /\ n - 1 = Len(cotacoes) /\ n = Len(cotacoes')
    BY <2>1
  <2>4. cotacoes'[n] = [base |-> b, cotacao |-> c, inicio |-> i]
    BY <2>2
  <2> HIDE DEF n
  <2> QED
    BY <2>1, <2>2, <2>3, <2>4
<1> HIDE DEF n
<1>2. SUFFICES ASSUME NEW x \in Moedas, NEW y \in Moedas, NEW em \in Int,
                      NEW j0 \in 1..n, cotacoes'[j0].base = x, cotacoes'[j0].cotacao = y,
                      cotacoes'[j0].inicio <= em
               PROVE  \E k \in 1..n : UltimaCotacao(x, y, em, k)'
  BY <1>1 DEF CambioInv
<1> DEFINE Meta ==
        \E k \in 1..n :
           /\ cotacoes'[k].base = x /\ cotacoes'[k].cotacao = y
           /\ cotacoes'[k].inicio <= em
           /\ \A j \in 1..n :
                 cotacoes'[j].base = x /\ cotacoes'[j].cotacao = y
                 /\ cotacoes'[j].inicio <= em
                 => cotacoes'[j].inicio <= cotacoes'[k].inicio
<1>3. \A j \in 1..n : j = n \/ j \in 1..(n - 1)
  BY <1>1
<1>4. ASSUME \A j \in 1..(n - 1) :
                ~ (cotacoes[j].base = x /\ cotacoes[j].cotacao = y /\ cotacoes[j].inicio <= em)
      PROVE  Meta
  <2>1. \A j \in 1..n :
           cotacoes'[j].base = x /\ cotacoes'[j].cotacao = y /\ cotacoes'[j].inicio <= em => j = n
    BY <1>1, <1>3, <1>4
  <2>2. /\ n \in 1..n /\ cotacoes'[n].base = x /\ cotacoes'[n].cotacao = y
        /\ cotacoes'[n].inicio <= em
    BY <1>2, <2>1
  <2>3. cotacoes'[n].inicio <= cotacoes'[n].inicio
    BY <1>1
  <2> QED
    BY <2>1, <2>2, <2>3
<1>5. ASSUME NEW j \in 1..(n - 1),
             cotacoes[j].base = x, cotacoes[j].cotacao = y, cotacoes[j].inicio <= em
      PROVE  Meta
  <2>1. PICK k \in 1..(n - 1) : UltimaCotacao(x, y, em, k)
    BY <1>1, <1>5 DEF TabelasInv, CambioInv
  <2>2. /\ cotacoes[k].base = x /\ cotacoes[k].cotacao = y /\ cotacoes[k].inicio <= em
        /\ \A l \in 1..(n - 1) :
              cotacoes[l].base = x /\ cotacoes[l].cotacao = y /\ cotacoes[l].inicio <= em
              => cotacoes[l].inicio <= cotacoes[k].inicio
    BY <1>1, <2>1 DEF UltimaCotacao
  <2>3. cotacoes[k].inicio \in Int
    BY <1>1
  <2>4. CASE x = b /\ y = c /\ i <= em /\ cotacoes[k].inicio < i
    <3>1. ASSUME NEW l \in 1..n, cotacoes'[l].base = x, cotacoes'[l].cotacao = y,
                 cotacoes'[l].inicio <= em
          PROVE  cotacoes'[l].inicio <= i
      <4>1. CASE l = n
        BY <1>1, <4>1
      <4>2. CASE l \in 1..(n - 1)
        <5>1. cotacoes'[l] = cotacoes[l]
          BY <1>1, <4>2
        <5>2. cotacoes[l].inicio <= cotacoes[k].inicio
          BY <2>2, <3>1, <4>2, <5>1
        <5>3. cotacoes[l].inicio \in Int /\ i \in Int
          BY <1>1, <4>2
        <5> QED
          BY <2>3, <2>4, <5>1, <5>2, <5>3
      <4> QED
        BY <1>3, <4>1, <4>2
    <3>2. n \in 1..n /\ cotacoes'[n].inicio = i /\ cotacoes'[n].base = x /\ cotacoes'[n].cotacao = y
      BY <1>1, <2>4
    <3> QED
      BY <2>4, <3>1, <3>2
  <2>5. CASE ~ (x = b /\ y = c /\ i <= em /\ cotacoes[k].inicio < i)
    <3>1. ASSUME NEW l \in 1..n, cotacoes'[l].base = x, cotacoes'[l].cotacao = y,
                 cotacoes'[l].inicio <= em
          PROVE  cotacoes'[l].inicio <= cotacoes'[k].inicio
      <4>1. CASE l = n
        BY <1>1, <2>3, <2>5, <3>1, <4>1
      <4>2. CASE l \in 1..(n - 1)
        BY <1>1, <2>2, <3>1, <4>2
      <4> QED
        BY <1>3, <4>1, <4>2
    <3>2. k \in 1..n /\ cotacoes'[k] = cotacoes[k]
      BY <1>1
    <3> QED
      BY <2>2, <3>1, <3>2
  <2> QED
    BY <2>4, <2>5
<1>6. Meta
  BY <1>4, <1>5
<1> QED
  BY <1>1, <1>6 DEF UltimaCotacao
-------------------------------------------------------------------------------
(***************************************************************************)
(* The inductive invariant, the part about the requests.                   *)
(***************************************************************************)

\* Requests with a rate, and those that are through with the quote.
ComTaxa(p) ==
    pc[p] \in {"cotacao", "motor", "referencias", "inserir", "reler"} \/ p \in DOMAIN transacoes
ComCotacao(p) ==
    pc[p] \in {"motor", "referencias", "inserir", "reler"} \/ p \in DOMAIN transacoes

FormaInv ==
    /\ relogio \in Fuso..RelogioMax
    /\ DOMAIN corpo = Pedidos /\ DOMAIN quer = Pedidos /\ DOMAIN leitura = Pedidos
    /\ DOMAIN pc = Pedidos /\ DOMAIN resposta = Pedidos /\ DOMAIN falhou = Pedidos
    /\ DOMAIN transacoes \subseteq Pedidos

Leitura ==
    [em : Int, data : Int, taxa : 1..Len(taxas) \cup {Nenhuma},
     cotacao : 1..Len(cotacoes) \cup {Nenhuma},
     taxasVistas : 0..Len(taxas), cotacoesVistas : 0..Len(cotacoes)]

TipoInv(p) ==
    /\ corpo[p] \in Corpos \cup {Nenhuma} /\ quer[p] \in {"simular", "criar", Nenhuma}
    /\ pc[p] \in EmCurso \cup {"livre", "respondido", "perdido"}
    /\ resposta[p] \in Respostas \cup {Nenhuma} /\ falhou[p] \in BOOLEAN
    /\ leitura[p] \in Leitura
    /\ pc[p] \in EmCurso => corpo[p] \in Corpos
    /\ pc[p] = "taxa" \/ ComTaxa(p) =>
          /\ corpo[p].moeda_titulo \in Moedas /\ corpo[p].moeda_pagamento \in Moedas
          /\ corpo[p].data_vencimento \in Int
    /\ pc[p] \in {"taxa", "cotacao"} => leitura[p].cotacao = Nenhuma

\* The rate and the quote a request has are still the right ones, unless rows
\* that reach back came later; its row says what it read.
PrecoInv(p) ==
    /\ ComTaxa(p) =>
          /\ leitura[p].taxa \in 1..Len(taxas)
          /\ SemTaxaRetroativa(p) =>
                UltimaTaxa(corpo[p].moeda_titulo, leitura[p].em, leitura[p].taxa)
    /\ ComCotacao(p) =>
          IF corpo[p].moeda_titulo = corpo[p].moeda_pagamento THEN leitura[p].cotacao = Nenhuma
          ELSE /\ leitura[p].cotacao \in 1..Len(cotacoes)
               /\ SemCotacaoRetroativa(p) =>
                     UltimaCotacao(corpo[p].moeda_pagamento, corpo[p].moeda_titulo,
                                   leitura[p].em, leitura[p].cotacao)
    /\ p \in DOMAIN transacoes => transacoes[p] = montarTransacao(p)

\* Where a request has a row, and what it may have answered.
RespostaInv(p) ==
    /\ resposta[p] # Nenhuma => pc[p] = "respondido"
    /\ p \in DOMAIN transacoes => pc[p] \in {"reler", "respondido", "perdido"}
    /\ pc[p] = "reler" \/ resposta[p] = "201" => p \in DOMAIN transacoes
    /\ resposta[p] \in Recusas \cup {"nao_encontrado", "200"} => p \notin DOMAIN transacoes

\* Nothing a refused request saw had started by its date.
CausaInv(p) ==
    ~ falhou[p] =>
        /\ resposta[p] = "taxa_ausente" =>
              \A k \in 1..Len(taxas) :
                  k <= leitura[p].taxasVistas /\ taxas[k].moeda = corpo[p].moeda_titulo
                  => taxas[k].inicio > leitura[p].em
        /\ resposta[p] = "cotacao_ausente" =>
              \A k \in 1..Len(cotacoes) :
                  /\ k <= leitura[p].cotacoesVistas
                  /\ cotacoes[k].base = corpo[p].moeda_pagamento
                  /\ cotacoes[k].cotacao = corpo[p].moeda_titulo
                  => cotacoes[k].inicio > leitura[p].em

PedidoInv(p) == TipoInv(p) /\ PrecoInv(p) /\ RespostaInv(p) /\ CausaInv(p)

IInv == TabelasInv /\ FormaInv /\ \A p \in Pedidos : PedidoInv(p)

-------------------------------------------------------------------------------
(* Frames.                                                                 *)

\* A request that is left alone, with its row, over the same tables.
LEMMA Quadro ==
    ASSUME NEW q \in Pedidos, PedidoInv(q), UNCHANGED <<taxas, cotacoes>>,
           corpo'[q] = corpo[q], quer'[q] = quer[q], leitura'[q] = leitura[q],
           pc'[q] = pc[q], resposta'[q] = resposta[q], falhou'[q] = falhou[q],
           q \in DOMAIN transacoes <=> q \in DOMAIN transacoes',
           q \in DOMAIN transacoes => transacoes'[q] = transacoes[q]
    PROVE  PedidoInv(q)'
<1>1. TipoInv(q)'
  BY DEF PedidoInv, TipoInv, Leitura, ComTaxa
<1>2. PrecoInv(q)'
  BY DEF PedidoInv, PrecoInv, ComTaxa, ComCotacao, SemTaxaRetroativa, SemCotacaoRetroativa,
         DaMoeda, DoCambio, UltimaTaxa, UltimaCotacao, montarTransacao
<1>3. RespostaInv(q)' /\ CausaInv(q)'
  BY DEF PedidoInv, RespostaInv, CausaInv
<1> QED
  BY <1>1, <1>2, <1>3 DEF PedidoInv

\* The empty tables and no request satisfy the invariant.
LEMMA InicioInv == Init => IInv
<1> SUFFICES ASSUME Init PROVE IInv
  OBVIOUS
<1>1. TabelasInv
  BY DEF Init, TabelasInv, VigenciaInv, CambioInv
<1>2. FormaInv
  BY PrecificacaoAssumption DEF Init, FormaInv
<1>3. DOMAIN transacoes = {}
  BY DEF Init
<1>4. ASSUME NEW p \in Pedidos PROVE PedidoInv(p)
  <2>1. /\ corpo[p] = Nenhuma /\ quer[p] = Nenhuma /\ leitura[p] = LeituraVazia
        /\ pc[p] = "livre" /\ resposta[p] = Nenhuma /\ falhou[p] = FALSE
        /\ Nenhuma \notin Respostas
    BY PrecificacaoAssumption DEF Init
  <2>2. leitura[p] \in Leitura
    BY <1>1, <2>1, LinhasTipo DEF Leitura, LeituraVazia, TabelasInv
  <2>3. TipoInv(p)
    BY <1>3, <2>1, <2>2 DEF TipoInv, ComTaxa, EmCurso
  <2>4. PrecoInv(p)
    BY <1>3, <2>1 DEF PrecoInv, ComTaxa, ComCotacao
  <2>5. RespostaInv(p) /\ CausaInv(p)
    BY <1>3, <2>1 DEF RespostaInv, CausaInv, Respostas, Recusas
  <2> QED
    BY <2>3, <2>4, <2>5 DEF PedidoInv
<1> QED
  BY <1>1, <1>2, <1>4 DEF IInv

-------------------------------------------------------------------------------
(* Rates and quotes are registered, time passes.                           *)

\* A rate that reaches back is one the priced requests do not claim to know;
\* one that does not leaves what is in force at their dates in force.
LEMMA RegistrarTaxaInv ==
    ASSUME IInv, NEW m \in Moedas, NEW i \in Inicios, RegistrarTaxa(m, i)
    PROVE  IInv'
<1>1. UNCHANGED <<relogio, cotacoes, transacoes, corpo, quer, leitura, pc, resposta, falhou>>
  BY DEF RegistrarTaxa
<1>2. EfeitoTaxa(m, i)
  BY RegistrarTaxaEfeito DEF IInv
<1>3. TabelasInv'
  <2>1. CambioInv'
    BY <1>1, CambioSo DEF IInv, TabelasInv
  <2> QED
    BY <1>1, <1>2, <2>1, VigenciaFica DEF IInv, TabelasInv, EfeitoTaxa
<1>4. FormaInv'
  BY <1>1 DEF IInv, FormaInv
<1> DEFINE n == Len(taxas)
<1>5. /\ n \in Nat /\ Len(taxas') = n + 1 /\ i \in Int
      /\ taxas'[n + 1].moeda = m /\ taxas'[n + 1].inicio = i
      /\ DOMAIN taxas = 1..n /\ DOMAIN taxas' = 1..(n + 1)
      /\ \A k \in 1..n :
            /\ taxas[k].inicio \in Int /\ (taxas[k].fim = Aberta \/ taxas[k].fim \in Int)
            /\ taxas'[k].moeda = taxas[k].moeda /\ taxas'[k].inicio = taxas[k].inicio
            /\ \/ taxas'[k].fim = taxas[k].fim
               \/ /\ taxas'[k].fim = i /\ taxas[k].fim = Aberta
                  /\ taxas[k].moeda = m /\ taxas[k].inicio < i
  BY <1>2, LinhasTipo, PrecificacaoAssumption DEF IInv, TabelasInv, EfeitoTaxa
<1> HIDE DEF n
<1>6. ASSUME NEW p \in Pedidos PROVE PedidoInv(p)'
  <2>0. PedidoInv(p) /\ leitura[p] \in Leitura /\ n = Len(taxas)
    BY DEF IInv, PedidoInv, TipoInv, n
  <2>1. leitura'[p] \in Leitura' /\ leitura[p].em \in Int /\ leitura[p].taxasVistas \in 0..n
    BY <1>1, <1>5, <2>0 DEF Leitura
  <2>2. TipoInv(p)'
    BY <1>1, <2>0, <2>1 DEF PedidoInv, TipoInv, ComTaxa
  <2>3. ASSUME ComTaxa(p), SemTaxaRetroativa(p)'
        PROVE  UltimaTaxa(corpo[p].moeda_titulo, leitura[p].em, leitura[p].taxa)'
    <3> DEFINE a == corpo[p].moeda_titulo
               em == leitura[p].em
               t == leitura[p].taxa
    <3>1. SemTaxaRetroativa(p)
      BY <1>1, <1>5, <2>3 DEF SemTaxaRetroativa, DaMoeda
    <3>2. t \in 1..n /\ UltimaTaxa(a, em, t)
      BY <2>0, <2>3, <3>1 DEF PedidoInv, PrecoInv
    <3>3. a # m \/ i > em
      BY <1>1, <1>5, <2>1, <2>3 DEF SemTaxaRetroativa, DaMoeda
    <3>4. a' = a /\ em' = em /\ t' = t /\ em \in Int
      BY <1>1, <2>1
    <3> HIDE DEF a, em, t
    <3>5. /\ taxas'[t].moeda = a /\ taxas'[t].inicio <= em
          /\ taxas'[t].fim = Aberta \/ taxas'[t].fim > em
      BY <1>5, <3>2, <3>3, <3>4 DEF UltimaTaxa
    <3>6. ASSUME NEW j \in 1..(n + 1), taxas'[j].moeda = a, taxas'[j].inicio <= em
          PROVE  taxas'[j].inicio <= taxas'[t].inicio
      <4>1. j # n + 1
        BY <1>5, <3>3, <3>4, <3>6
      <4>2. j \in 1..n
        BY <1>5, <4>1
      <4> QED
        BY <1>5, <2>0, <3>2, <3>6, <4>2 DEF UltimaTaxa
    <3>7. UltimaTaxa(a, em, t)'
      BY <1>5, <3>4, <3>5, <3>6 DEF UltimaTaxa
    <3> QED
      BY <3>7 DEF a, em, t
  <2>4. PrecoInv(p)'
    <3>1. leitura[p].taxa \in 1..n => leitura[p].taxa \in 1..(n + 1)
      BY <1>5
    <3>2. ComCotacao(p)' =>
            IF corpo'[p].moeda_titulo = corpo'[p].moeda_pagamento THEN leitura'[p].cotacao = Nenhuma
            ELSE /\ leitura'[p].cotacao \in 1..Len(cotacoes')
                 /\ SemCotacaoRetroativa(p)' =>
                       UltimaCotacao(corpo[p].moeda_pagamento, corpo[p].moeda_titulo,
                                     leitura[p].em, leitura[p].cotacao)'
      BY <1>1, <2>0 DEF PedidoInv, PrecoInv, ComCotacao, SemCotacaoRetroativa, DoCambio,
                        UltimaCotacao
    <3>3. p \in DOMAIN transacoes' => transacoes'[p] = montarTransacao(p)'
      BY <1>1, <2>0 DEF PedidoInv, PrecoInv, montarTransacao
    <3>4. ComTaxa(p)' =>
             /\ leitura'[p].taxa \in 1..Len(taxas')
             /\ SemTaxaRetroativa(p)' =>
                   UltimaTaxa(corpo[p].moeda_titulo, leitura[p].em, leitura[p].taxa)'
      BY <1>1, <1>5, <2>0, <2>3, <3>1 DEF PedidoInv, PrecoInv, ComTaxa
    <3> QED
      BY <3>2, <3>3, <3>4 DEF PrecoInv
  <2>5. RespostaInv(p)'
    BY <1>1, <2>0 DEF PedidoInv, RespostaInv
  <2>6. CausaInv(p)'
    <3>1. \A k \in 1..(n + 1) : k <= leitura[p].taxasVistas => k \in 1..n
      BY <1>5, <2>1
    <3> QED
      BY <1>1, <1>5, <2>0, <3>1 DEF PedidoInv, CausaInv
  <2> QED
    BY <2>2, <2>4, <2>5, <2>6 DEF PedidoInv
<1> QED
  BY <1>3, <1>4, <1>6 DEF IInv
\* So it is with a quote.
LEMMA RegistrarCotacaoInv ==
    ASSUME IInv, NEW b \in Moedas, NEW c \in Moedas, NEW i \in Inicios,
           RegistrarCotacao(b, c, i)
    PROVE  IInv'
<1>1. UNCHANGED <<relogio, taxas, transacoes, corpo, quer, leitura, pc, resposta, falhou>>
  BY DEF RegistrarCotacao
<1>2. /\ cotacoes' \in Seq(LinhaCotacao) /\ Len(cotacoes') = Len(cotacoes) + 1
      /\ \A k \in 1..Len(cotacoes) : cotacoes'[k] = cotacoes[k]
      /\ cotacoes'[Len(cotacoes) + 1] = [base |-> b, cotacao |-> c, inicio |-> i]
  BY RegistrarCotacaoEfeito DEF IInv
<1>3. TabelasInv'
  <2>2. VigenciaInv'
    BY <1>1, VigenciaSo DEF IInv, TabelasInv
  <2>3. CambioInv'
    BY CambioFica DEF IInv
  <2> QED
    BY <1>1, <1>2, <2>2, <2>3 DEF IInv, TabelasInv
<1>4. FormaInv'
  BY <1>1 DEF IInv, FormaInv
<1> DEFINE n == Len(cotacoes)
<1>5. /\ n \in Nat /\ Len(cotacoes') = n + 1 /\ i \in Int
      /\ cotacoes'[n + 1].base = b /\ cotacoes'[n + 1].cotacao = c
      /\ cotacoes'[n + 1].inicio = i
      /\ DOMAIN cotacoes = 1..n /\ DOMAIN cotacoes' = 1..(n + 1)
      /\ \A k \in 1..n : cotacoes'[k] = cotacoes[k] /\ cotacoes[k].inicio \in Int
  <2>1. Inicios \subseteq Int
    BY PrecificacaoAssumption
  <2>2. /\ n \in Nat /\ DOMAIN cotacoes = 1..n
        /\ \A k \in 1..n : cotacoes[k].inicio \in Int
    BY LinhasTipo DEF IInv, TabelasInv
  <2>3. Len(cotacoes') = n + 1 /\ DOMAIN cotacoes' = 1..(n + 1)
    BY <1>2, <2>2
  <2> QED
    BY <1>2, <2>1, <2>2, <2>3
<1> HIDE DEF n
<1>6. ASSUME NEW p \in Pedidos PROVE PedidoInv(p)'
  <2>0. PedidoInv(p) /\ leitura[p] \in Leitura /\ n = Len(cotacoes)
    BY DEF IInv, PedidoInv, TipoInv, n
  <2>1. /\ leitura'[p] \in Leitura' /\ leitura[p].em \in Int
        /\ leitura[p].cotacoesVistas \in 0..n
    BY <1>1, <1>5, <2>0 DEF Leitura
  <2>2. TipoInv(p)'
    BY <1>1, <2>0, <2>1 DEF PedidoInv, TipoInv, ComTaxa
  <2>3. ASSUME ComCotacao(p), corpo[p].moeda_titulo # corpo[p].moeda_pagamento,
               SemCotacaoRetroativa(p)'
        PROVE  UltimaCotacao(corpo[p].moeda_pagamento, corpo[p].moeda_titulo,
                             leitura[p].em, leitura[p].cotacao)'
    <3> DEFINE x == corpo[p].moeda_pagamento
               y == corpo[p].moeda_titulo
               em == leitura[p].em
               t == leitura[p].cotacao
    <3>1. SemCotacaoRetroativa(p)
      BY <1>1, <1>5, <2>3 DEF SemCotacaoRetroativa, DoCambio
    <3>2. t \in 1..n /\ UltimaCotacao(x, y, em, t)
      BY <2>0, <2>3, <3>1 DEF PedidoInv, PrecoInv
    <3>3. x # b \/ y # c \/ i > em
      BY <1>1, <1>5, <2>1, <2>3 DEF SemCotacaoRetroativa, DoCambio
    <3>4. x' = x /\ y' = y /\ em' = em /\ t' = t /\ em \in Int
      BY <1>1, <2>1
    <3> HIDE DEF x, y, em, t
    <3>5. cotacoes'[t].base = x /\ cotacoes'[t].cotacao = y /\ cotacoes'[t].inicio <= em
      BY <1>5, <3>2 DEF UltimaCotacao
    <3>6. ASSUME NEW j \in 1..(n + 1), cotacoes'[j].base = x, cotacoes'[j].cotacao = y,
                 cotacoes'[j].inicio <= em
          PROVE  cotacoes'[j].inicio <= cotacoes'[t].inicio
      <4>1. j # n + 1
        BY <1>5, <3>3, <3>4, <3>6
      <4>2. j \in 1..n
        BY <1>5, <4>1
      <4> QED
        BY <1>5, <2>0, <3>2, <3>6, <4>2 DEF UltimaCotacao
    <3>7. UltimaCotacao(x, y, em, t)'
      BY <1>5, <3>4, <3>5, <3>6 DEF UltimaCotacao
    <3> QED
      BY <3>7 DEF x, y, em, t
  <2>4. PrecoInv(p)'
    <3>1. leitura[p].cotacao \in 1..n => leitura[p].cotacao \in 1..(n + 1)
      BY <1>5
    <3>2. ComTaxa(p)' =>
             /\ leitura'[p].taxa \in 1..Len(taxas')
             /\ SemTaxaRetroativa(p)' =>
                   UltimaTaxa(corpo[p].moeda_titulo, leitura[p].em, leitura[p].taxa)'
      BY <1>1, <2>0 DEF PedidoInv, PrecoInv, ComTaxa, SemTaxaRetroativa, DaMoeda, UltimaTaxa
    <3>3. p \in DOMAIN transacoes' => transacoes'[p] = montarTransacao(p)'
      BY <1>1, <2>0 DEF PedidoInv, PrecoInv, montarTransacao
    <3>4. ComCotacao(p)' =>
            IF corpo'[p].moeda_titulo = corpo'[p].moeda_pagamento THEN leitura'[p].cotacao = Nenhuma
            ELSE /\ leitura'[p].cotacao \in 1..Len(cotacoes')
                 /\ SemCotacaoRetroativa(p)' =>
                       UltimaCotacao(corpo[p].moeda_pagamento, corpo[p].moeda_titulo,
                                     leitura[p].em, leitura[p].cotacao)'
      BY <1>1, <1>5, <2>0, <2>3, <3>1 DEF PedidoInv, PrecoInv, ComCotacao
    <3> QED
      BY <3>2, <3>3, <3>4 DEF PrecoInv
  <2>5. RespostaInv(p)'
    BY <1>1, <2>0 DEF PedidoInv, RespostaInv
  <2>6. CausaInv(p)'
    <3>1. \A k \in 1..(n + 1) : k <= leitura[p].cotacoesVistas => k \in 1..n
      BY <1>5, <2>1
    <3> QED
      BY <1>1, <1>5, <2>0, <3>1 DEF PedidoInv, CausaInv
  <2> QED
    BY <2>2, <2>4, <2>5, <2>6 DEF PedidoInv
<1> QED
  BY <1>3, <1>4, <1>6 DEF IInv

\* A step that leaves the tables alone keeps what is said of them.
LEMMA TabelasFicam == ASSUME TabelasInv, UNCHANGED <<taxas, cotacoes>> PROVE TabelasInv'
BY VigenciaSo, CambioSo DEF TabelasInv

\* Time passes.
LEMMA PassarInv == ASSUME IInv, Passar PROVE IInv'
<1> USE DEF Passar, tabelas
<1>1. TabelasInv' /\ \A p \in Pedidos : PedidoInv(p)'
  BY TabelasFicam, Quadro DEF IInv
<1>2. FormaInv'
  BY PrecificacaoAssumption DEF IInv, FormaInv
<1> QED
  BY <1>1, <1>2 DEF IInv

\* The process dies: what is lost had no answer, and its row stays as it was.
LEMMA QuedaInv == ASSUME IInv, Queda PROVE IInv'
<1> USE DEF Queda, tabelas
<1>1. TabelasInv' /\ FormaInv'
  BY TabelasFicam DEF IInv, FormaInv
<1>2. ASSUME NEW p \in Pedidos PROVE PedidoInv(p)'
  <2>1. CASE pc'[p] = pc[p]
    BY <2>1, Quadro DEF IInv
  <2>2. CASE pc[p] \in EmCurso /\ pc'[p] = "perdido"
    <3>1. PedidoInv(p)
      BY DEF IInv
    <3>2. ComTaxa(p)' => ComTaxa(p) /\ p \in DOMAIN transacoes
      BY <2>2 DEF ComTaxa
    <3>3. TipoInv(p)'
      BY <2>2, <3>1, <3>2 DEF PedidoInv, TipoInv, Leitura, EmCurso
    <3>4. PrecoInv(p)'
      BY <2>2, <3>1, <3>2 DEF PedidoInv, PrecoInv, ComTaxa, ComCotacao, SemTaxaRetroativa,
                       SemCotacaoRetroativa, DaMoeda, DoCambio, UltimaTaxa, UltimaCotacao,
                       montarTransacao
    <3>5. RespostaInv(p)' /\ CausaInv(p)'
      BY <2>2, <3>1 DEF PedidoInv, RespostaInv, CausaInv, EmCurso
    <3> QED
      BY <3>3, <3>4, <3>5 DEF PedidoInv
  <2> QED
    BY <2>1, <2>2 DEF IInv, FormaInv
<1> QED
  BY <1>1, <1>2 DEF IInv
-------------------------------------------------------------------------------
(* The steps of a request.                                                 *)

\* They concern the request that takes them, and no other.
LEMMA SoUm ==
    ASSUME IInv, NEW p \in Pedidos, UNCHANGED <<relogio, taxas, cotacoes>>,
           DOMAIN corpo' = Pedidos, DOMAIN quer' = Pedidos, DOMAIN leitura' = Pedidos,
           DOMAIN pc' = Pedidos, DOMAIN resposta' = Pedidos, DOMAIN falhou' = Pedidos,
           transacoes' = transacoes \/ Gravada(p),
           \A q \in Pedidos \ {p} :
              /\ corpo'[q] = corpo[q] /\ quer'[q] = quer[q] /\ leitura'[q] = leitura[q]
              /\ pc'[q] = pc[q] /\ resposta'[q] = resposta[q] /\ falhou'[q] = falhou[q],
           PedidoInv(p)'
    PROVE  IInv'
<1>1. ASSUME NEW q \in Pedidos, q # p PROVE PedidoInv(q)'
  <2>1. q \in DOMAIN transacoes <=> q \in DOMAIN transacoes'
    BY <1>1 DEF Gravada
  <2>2. q \in DOMAIN transacoes => transacoes'[q] = transacoes[q]
    BY <1>1 DEF Gravada
  <2> QED
    BY <1>1, <2>1, <2>2, Quadro DEF IInv
<1>2. FormaInv'
  BY DEF IInv, FormaInv, Gravada
<1> QED
  BY <1>1, <1>2, TabelasFicam DEF IInv

\* A request that goes on from the motor, or answers, with what it has read.
LEMMA AvancoInv ==
    ASSUME IInv, NEW p \in Pedidos, UNCHANGED <<relogio, tabelas, corpo, quer, leitura>>,
           NEW d, NEW r, pc' = [pc EXCEPT ![p] = d],
           \/ resposta' = [resposta EXCEPT ![p] = r]
           \/ resposta' = resposta /\ resposta[p] = r,
           falhou' = falhou \/ falhou' = [falhou EXCEPT ![p] = TRUE],
           pc[p] \in EmCurso,
           \/ r = Nenhuma /\ pc[p] = "motor" /\ d = "referencias"
           \/ r = Nenhuma /\ pc[p] = "referencias" /\ d = "inserir"
           \/ /\ d = "respondido" /\ r \in Respostas
              /\ r = "201" => pc[p] = "reler"
              /\ pc[p] = "reler" => r \in {"201", "erro_interno"}
              /\ r \in {"taxa_ausente", "cotacao_ausente"} => falhou'[p]
    PROVE  IInv'
<1> USE DEF tabelas
<1>1. PedidoInv(p) /\ FormaInv /\ Nenhuma \notin Respostas
  BY PrecificacaoAssumption DEF IInv
<1>2. pc'[p] = d /\ resposta'[p] = r /\ falhou'[p] \in BOOLEAN
  BY <1>1 DEF FormaInv, PedidoInv, TipoInv
<1>3. (ComTaxa(p)' => ComTaxa(p)) /\ (ComCotacao(p)' => ComCotacao(p))
  BY <1>2 DEF ComTaxa, ComCotacao
<1>4. TipoInv(p)'
  BY <1>1, <1>2, <1>3 DEF PedidoInv, TipoInv, Leitura, EmCurso
<1>5. PrecoInv(p)'
  BY <1>1, <1>3 DEF PedidoInv, PrecoInv, SemTaxaRetroativa, SemCotacaoRetroativa,
                    DaMoeda, DoCambio, UltimaTaxa, UltimaCotacao, montarTransacao
<1>6. RespostaInv(p)'
  BY <1>1, <1>2 DEF PedidoInv, RespostaInv, EmCurso, Recusas, Respostas
<1>7. CausaInv(p)'
  BY <1>1, <1>2 DEF CausaInv, Respostas, Recusas
<1>8. PedidoInv(p)'
  BY <1>4, <1>5, <1>6, <1>7 DEF PedidoInv
<1> QED
  BY <1>1, <1>8, SoUm DEF FormaInv

\* A request is received.
LEMMA ReceberInv ==
    ASSUME IInv, NEW p \in Pedidos, NEW c \in Corpos, NEW q \in {"simular", "criar"},
           Receber(p, c, q)
    PROVE  IInv'
<1> USE DEF Receber, Ir, tabelas
<1>1. PedidoInv(p) /\ FormaInv
  BY DEF IInv
<1>2. corpo'[p] = c /\ quer'[p] = q /\ pc'[p] = "preparar"
  BY <1>1 DEF FormaInv
<1>3. p \notin DOMAIN transacoes /\ resposta[p] = Nenhuma
  BY <1>1 DEF PedidoInv, RespostaInv
<1>4. TipoInv(p)'
  BY <1>1, <1>2, <1>3 DEF PedidoInv, TipoInv, Leitura, EmCurso, ComTaxa
<1>5. PrecoInv(p)' /\ RespostaInv(p)' /\ CausaInv(p)'
  BY <1>2, <1>3, PrecificacaoAssumption
     DEF PrecoInv, RespostaInv, CausaInv, ComTaxa, ComCotacao, Respostas, Recusas
<1> QED
  BY <1>1, <1>4, <1>5, SoUm DEF FormaInv, PedidoInv

\* What prepararEntrada lets through has currencies and dates, and what it
\* refuses is not blamed on a rate or a quote.
LEMMA EntradaAceita ==
    ASSUME NEW c \in Corpos
    PROVE  /\ RecusaDaEntrada(c) = Nenhuma =>
                 /\ c.moeda_titulo \in Moedas /\ c.moeda_pagamento \in Moedas
                 /\ c.data_vencimento \in Int /\ c.data_operacao \in Int \cup {Ausente}
           /\ RecusaDaEntrada(c) \in {"entrada_invalida", "moeda_invalida", Nenhuma}
<1>1. c.data_vencimento \in Int \cup {Invalida} /\ c.data_operacao \in Int \cup {Ausente, Invalida}
  BY PrecificacaoAssumption
<1>2. Nenhuma \notin {"entrada_invalida", "moeda_invalida"}
  BY PrecificacaoAssumption DEF Respostas, Recusas
<1> QED
  BY <1>1, <1>2 DEF RecusaDaEntrada

\* The date of an operation is an integer, whether it is given or is today.
LEMMA DatarTipo ==
    ASSUME IInv, NEW c \in Corpos, c.data_operacao \in Int \cup {Ausente}
    PROVE  Datar(c) \in Leitura /\ Datar(c).cotacao = Nenhuma
<1>1. /\ relogio \in Int /\ Fuso \in Int /\ Dia \in Nat \ {0}
      /\ Len(taxas) \in Nat /\ Len(cotacoes) \in Nat
  BY PrecificacaoAssumption, LinhasTipo DEF IInv, FormaInv, TabelasInv
<1>2. DataLocal(relogio) \in Int
  BY <1>1 DEF DataLocal
<1>3. ASSUME NEW em \in Int, NEW data \in Int
      PROVE  LET l == [LeituraVazia EXCEPT !.em = em, !.data = data]
             IN  l \in Leitura /\ l.cotacao = Nenhuma
  <2>1. LeituraVazia \in Leitura /\ LeituraVazia.cotacao = Nenhuma
    BY <1>1 DEF LeituraVazia, Leitura
  <2> QED
    BY <2>1 DEF Leitura
<1>4. CASE c.data_operacao = Ausente
  <2>1. Datar(c) = [LeituraVazia EXCEPT !.em = relogio, !.data = DataLocal(relogio)]
    BY <1>4 DEF Datar
  <2> QED
    BY <1>1, <1>2, <1>3, <2>1
<1>5. CASE c.data_operacao # Ausente
  <2>1. MeiaNoite(c.data_operacao) \in Int /\ c.data_operacao \in Int
    BY <1>1, <1>5 DEF MeiaNoite
  <2>2. Datar(c) = [LeituraVazia EXCEPT !.em = MeiaNoite(c.data_operacao), !.data = c.data_operacao]
    BY <1>5 DEF Datar
  <2> QED
    BY <1>3, <2>1, <2>2
<1> QED
  BY <1>4, <1>5

\* The entry is prepared, or refused before a rate was looked for.
LEMMA PrepararInv == ASSUME IInv, NEW p \in Pedidos, Preparar(p) PROVE IInv'
<1> USE DEF Preparar, Ir, Responder, tabelas
<1>1. PedidoInv(p) /\ FormaInv /\ corpo[p] \in Corpos
  BY DEF IInv, PedidoInv, TipoInv, EmCurso
<1>2. p \notin DOMAIN transacoes /\ resposta[p] = Nenhuma
  BY <1>1 DEF PedidoInv, RespostaInv
<1>3. CASE RecusaDaEntrada(corpo[p]) = Nenhuma /\ Ir(p, "taxa")
           /\ leitura' = [leitura EXCEPT ![p] = Datar(corpo[p])]
  <2>1. pc'[p] = "taxa" /\ leitura'[p] = Datar(corpo[p])
    BY <1>1, <1>3 DEF FormaInv
  <2>2. leitura'[p] \in Leitura' /\ leitura'[p].cotacao = Nenhuma
    BY <1>1, <1>3, <2>1, EntradaAceita, DatarTipo DEF Leitura
  <2>3. TipoInv(p)'
    BY <1>1, <1>2, <1>3, <2>1, <2>2, EntradaAceita DEF PedidoInv, TipoInv, EmCurso, ComTaxa
  <2>4. PrecoInv(p)' /\ RespostaInv(p)' /\ CausaInv(p)'
    BY <1>2, <1>3, <2>1, PrecificacaoAssumption
       DEF PrecoInv, RespostaInv, CausaInv, ComTaxa, ComCotacao, Respostas, Recusas
  <2> QED
    BY <1>1, <1>3, <2>3, <2>4, SoUm DEF FormaInv, PedidoInv
<1>4. CASE RecusaDaEntrada(corpo[p]) # Nenhuma /\ Responder(p, RecusaDaEntrada(corpo[p]))
           /\ UNCHANGED leitura
  <2>1. RecusaDaEntrada(corpo[p]) \in {"entrada_invalida", "moeda_invalida"}
    BY <1>1, <1>4, EntradaAceita
  <2> QED
    BY <1>4, <2>1, AvancoInv DEF EmCurso, Respostas, Recusas
<1> QED
  BY <1>3, <1>4
\* What LerTaxa finds is in force and the latest that has started; what it does
\* not find had not started.
LEMMA TaxasAchadas ==
    ASSUME TabelasInv, NEW m \in Moedas, NEW em \in Int
    PROVE  /\ \A k \in TaxasVigentes(m, em) : k \in 1..Len(taxas) /\ UltimaTaxa(m, em, k)
           /\ TaxasVigentes(m, em) = {} =>
                 \A k \in 1..Len(taxas) : taxas[k].moeda = m => taxas[k].inicio > em
<1>1. /\ DOMAIN taxas = 1..Len(taxas)
      /\ \A k \in 1..Len(taxas) :
            taxas[k].inicio \in Int /\ (taxas[k].fim = Aberta \/ taxas[k].fim \in Int)
  BY LinhasTipo DEF TabelasInv
<1>2. ASSUME NEW k \in 1..Len(taxas), UltimaTaxa(m, em, k) PROVE k \in TaxasVigentes(m, em)
  BY <1>1, <1>2 DEF UltimaTaxa, TaxasVigentes, MaisRecentes
<1>3. ASSUME NEW k \in TaxasVigentes(m, em)
      PROVE  k \in 1..Len(taxas) /\ UltimaTaxa(m, em, k)
  <2>1. /\ k \in 1..Len(taxas) /\ taxas[k].moeda = m /\ taxas[k].inicio <= em
        /\ taxas[k].fim = Aberta \/ taxas[k].fim > em
        /\ \A j \in 1..Len(taxas) :
              taxas[j].moeda = m /\ taxas[j].inicio <= em /\ (taxas[j].fim = Aberta \/ taxas[j].fim > em)
              => taxas[j].inicio <= taxas[k].inicio
    BY <1>1 DEF TaxasVigentes, MaisRecentes
  <2>2. PICK u \in 1..Len(taxas) : UltimaTaxa(m, em, u)
    BY <2>1 DEF TabelasInv, VigenciaInv
  <2>3. taxas[u].inicio <= taxas[k].inicio
    BY <2>1, <2>2 DEF UltimaTaxa
  <2>4. ASSUME NEW j \in 1..Len(taxas), taxas[j].moeda = m, taxas[j].inicio <= em
        PROVE  taxas[j].inicio <= taxas[k].inicio
    <3>1. taxas[j].inicio <= taxas[u].inicio
      BY <2>2, <2>4 DEF UltimaTaxa
    <3>2. taxas[j].inicio \in Int /\ taxas[u].inicio \in Int /\ taxas[k].inicio \in Int
      BY <1>1, <2>1
    <3> QED
      BY <2>3, <3>1, <3>2
  <2> QED
    BY <2>1, <2>4 DEF UltimaTaxa
<1>4. ASSUME TaxasVigentes(m, em) = {}, NEW k \in 1..Len(taxas), taxas[k].moeda = m
      PROVE  taxas[k].inicio > em
  <2>1. ~ (taxas[k].inicio <= em)
    BY <1>2, <1>4 DEF TabelasInv, VigenciaInv
  <2> QED
    BY <1>1, <2>1
<1> QED
  BY <1>3, <1>4

\* So it is with LerCotacao.
LEMMA CotacoesAchadas ==
    ASSUME TabelasInv, NEW b \in Moedas, NEW c \in Moedas, NEW em \in Int
    PROVE  /\ \A k \in CotacoesVigentes(b, c, em) :
                 k \in 1..Len(cotacoes) /\ UltimaCotacao(b, c, em, k)
           /\ CotacoesVigentes(b, c, em) = {} =>
                 \A k \in 1..Len(cotacoes) :
                    cotacoes[k].base = b /\ cotacoes[k].cotacao = c => cotacoes[k].inicio > em
<1>1. /\ DOMAIN cotacoes = 1..Len(cotacoes)
      /\ \A k \in 1..Len(cotacoes) : cotacoes[k].inicio \in Int
  BY LinhasTipo DEF TabelasInv
<1>2. \A k : k \in CotacoesVigentes(b, c, em)
              <=> k \in 1..Len(cotacoes) /\ UltimaCotacao(b, c, em, k)
  BY <1>1 DEF UltimaCotacao, CotacoesVigentes, MaisRecentes, DoPar
<1>3. ASSUME CotacoesVigentes(b, c, em) = {}, NEW k \in 1..Len(cotacoes),
             cotacoes[k].base = b, cotacoes[k].cotacao = c
      PROVE  cotacoes[k].inicio > em
  <2>1. ~ (cotacoes[k].inicio <= em)
    BY <1>2, <1>3 DEF TabelasInv, CambioInv
  <2> QED
    BY <1>1, <2>1
<1> QED
  BY <1>2, <1>3

\* The rate is looked up.
LEMMA LerTaxaInv == ASSUME IInv, NEW p \in Pedidos, LerTaxa(p) PROVE IInv'
<1> DEFINE c == corpo[p]
           em == leitura[p].em
           achadas == TaxasVigentes(c.moeda_titulo, em)
<1>1. /\ PedidoInv(p) /\ FormaInv /\ TabelasInv /\ pc[p] = "taxa"
      /\ UNCHANGED <<relogio, taxas, cotacoes, transacoes, corpo, quer, falhou>>
  BY DEF IInv, LerTaxa, tabelas
<1>2. /\ p \notin DOMAIN transacoes /\ resposta[p] = Nenhuma
      /\ leitura[p] \in Leitura /\ em \in Int /\ c.moeda_titulo \in Moedas
      /\ c.moeda_pagamento \in Moedas /\ c.data_vencimento \in Int /\ c \in Corpos
      /\ leitura[p].cotacao = Nenhuma /\ Nenhuma \notin Respostas
  BY <1>1, PrecificacaoAssumption DEF PedidoInv, RespostaInv, TipoInv, Leitura, EmCurso
<1>3. Len(taxas) \in 0..Len(taxas)
  BY <1>1, LinhasTipo DEF TabelasInv
<1>4. CASE Responder(p, "tipo_invalido") /\ UNCHANGED leitura
  BY <1>1, <1>4, AvancoInv DEF Responder, EmCurso, Respostas, Recusas, tabelas
<1>5. CASE /\ achadas = {} /\ Responder(p, "taxa_ausente")
           /\ leitura' = [leitura EXCEPT ![p].taxasVistas = Len(taxas)]
  <2>1. /\ pc'[p] = "respondido" /\ resposta'[p] = "taxa_ausente"
        /\ leitura'[p] = [leitura[p] EXCEPT !.taxasVistas = Len(taxas)]
    BY <1>1, <1>5 DEF FormaInv, Responder
  <2>2. leitura'[p] \in Leitura' /\ leitura'[p].em = em
    BY <1>1, <1>2, <1>3, <2>1 DEF Leitura
  <2>3. \A k \in 1..Len(taxas) : taxas[k].moeda = c.moeda_titulo => taxas[k].inicio > em
    BY <1>1, <1>2, <1>5, TaxasAchadas
  <2>4. TipoInv(p)'
    BY <1>1, <1>2, <2>1, <2>2 DEF PedidoInv, TipoInv, EmCurso, ComTaxa, Respostas, Recusas
  <2>5. PrecoInv(p)' /\ RespostaInv(p)'
    BY <1>1, <1>2, <2>1 DEF PrecoInv, RespostaInv, ComTaxa, ComCotacao, Respostas, Recusas
  <2>6. CausaInv(p)'
    BY <1>1, <2>1, <2>2, <2>3 DEF CausaInv
  <2> QED
    BY <1>1, <1>5, <2>4, <2>5, <2>6, SoUm DEF FormaInv, PedidoInv, Responder
<1>6. ASSUME NEW k \in achadas, Ir(p, "cotacao"),
             leitura' = [leitura EXCEPT ![p].taxa = k, ![p].taxasVistas = Len(taxas)]
      PROVE  IInv'
  <2>1. /\ pc'[p] = "cotacao" /\ resposta'[p] = Nenhuma
        /\ leitura'[p] = [leitura[p] EXCEPT !.taxa = k, !.taxasVistas = Len(taxas)]
    BY <1>1, <1>2, <1>6 DEF FormaInv, Ir
  <2>2. k \in 1..Len(taxas) /\ UltimaTaxa(c.moeda_titulo, em, k)
    BY <1>1, <1>2, TaxasAchadas
  <2>3. /\ leitura'[p] \in Leitura' /\ leitura'[p].em = em /\ leitura'[p].taxa = k
        /\ leitura'[p].cotacao = Nenhuma
    BY <1>1, <1>2, <1>3, <2>1, <2>2 DEF Leitura
  <2>4. TipoInv(p)'
    BY <1>1, <1>2, <2>1, <2>3 DEF PedidoInv, TipoInv, EmCurso
  <2>5. PrecoInv(p)'
    BY <1>1, <1>2, <2>1, <2>2, <2>3 DEF PrecoInv, ComCotacao, UltimaTaxa
  <2>6. RespostaInv(p)' /\ CausaInv(p)'
    BY <1>1, <1>2, <2>1 DEF RespostaInv, CausaInv, Respostas, Recusas
  <2> QED
    BY <1>1, <1>6, <2>4, <2>5, <2>6, SoUm DEF FormaInv, PedidoInv, Ir
<1> QED
  BY <1>4, <1>5, <1>6 DEF LerTaxa
\* The quote is looked up, or not needed.
LEMMA LerCotacaoInv == ASSUME IInv, NEW p \in Pedidos, LerCotacao(p) PROVE IInv'
<1> DEFINE c == corpo[p]
           em == leitura[p].em
           achadas == CotacoesVigentes(c.moeda_pagamento, c.moeda_titulo, em)
<1>1. /\ PedidoInv(p) /\ FormaInv /\ TabelasInv /\ pc[p] = "cotacao"
      /\ UNCHANGED <<relogio, taxas, cotacoes, transacoes, corpo, quer, falhou>>
  BY DEF IInv, LerCotacao, tabelas
<1>2. /\ p \notin DOMAIN transacoes /\ resposta[p] = Nenhuma /\ ComTaxa(p)
      /\ leitura[p] \in Leitura /\ em \in Int /\ c.moeda_titulo \in Moedas
      /\ c.moeda_pagamento \in Moedas /\ c.data_vencimento \in Int /\ c \in Corpos
      /\ leitura[p].cotacao = Nenhuma /\ Nenhuma \notin Respostas
  BY <1>1, PrecificacaoAssumption DEF PedidoInv, RespostaInv, TipoInv, Leitura, EmCurso, ComTaxa
<1>3. Len(cotacoes) \in 0..Len(cotacoes)
  BY <1>1, LinhasTipo DEF TabelasInv
<1>4. ASSUME leitura'[p] \in Leitura', leitura'[p].em = em,
             leitura'[p].taxa = leitura[p].taxa, leitura'[p].taxasVistas = leitura[p].taxasVistas
      PROVE  ComTaxa(p)' =>
                /\ leitura'[p].taxa \in 1..Len(taxas')
                /\ SemTaxaRetroativa(p)' =>
                      UltimaTaxa(corpo[p].moeda_titulo, leitura[p].em, leitura[p].taxa)'
  BY <1>1, <1>2, <1>4 DEF PedidoInv, PrecoInv, SemTaxaRetroativa, DaMoeda, UltimaTaxa
<1>5. CASE c.moeda_titulo = c.moeda_pagamento /\ Ir(p, "motor") /\ UNCHANGED leitura
  <2>1. pc'[p] = "motor" /\ resposta'[p] = Nenhuma /\ leitura'[p] \in Leitura'
    BY <1>1, <1>2, <1>5 DEF FormaInv, Ir, Leitura
  <2>2. TipoInv(p)'
    BY <1>1, <1>2, <1>5, <2>1 DEF PedidoInv, TipoInv, EmCurso
  <2>3. PrecoInv(p)'
    BY <1>1, <1>2, <1>4, <1>5, <2>1 DEF PrecoInv
  <2>4. RespostaInv(p)' /\ CausaInv(p)'
    BY <1>1, <1>2, <2>1 DEF RespostaInv, CausaInv, Respostas, Recusas
  <2> QED
    BY <1>1, <1>5, <2>2, <2>3, <2>4, SoUm DEF FormaInv, PedidoInv, Ir
<1>6. CASE /\ achadas = {} /\ Responder(p, "cotacao_ausente")
           /\ leitura' = [leitura EXCEPT ![p].cotacoesVistas = Len(cotacoes)]
  <2>1. /\ pc'[p] = "respondido" /\ resposta'[p] = "cotacao_ausente"
        /\ leitura'[p] = [leitura[p] EXCEPT !.cotacoesVistas = Len(cotacoes)]
    BY <1>1, <1>6 DEF FormaInv, Responder
  <2>2. leitura'[p] \in Leitura' /\ leitura'[p].em = em
    BY <1>1, <1>2, <1>3, <2>1 DEF Leitura
  <2>3. \A k \in 1..Len(cotacoes) :
           cotacoes[k].base = c.moeda_pagamento /\ cotacoes[k].cotacao = c.moeda_titulo
           => cotacoes[k].inicio > em
    BY <1>1, <1>2, <1>6, CotacoesAchadas
  <2>4. TipoInv(p)'
    BY <1>1, <1>2, <2>1, <2>2 DEF PedidoInv, TipoInv, EmCurso, ComTaxa, Respostas, Recusas
  <2>5. PrecoInv(p)' /\ RespostaInv(p)'
    BY <1>1, <1>2, <2>1 DEF PrecoInv, RespostaInv, ComTaxa, ComCotacao, Respostas, Recusas
  <2>6. CausaInv(p)'
    BY <1>1, <2>1, <2>2, <2>3 DEF CausaInv
  <2> QED
    BY <1>1, <1>6, <2>4, <2>5, <2>6, SoUm DEF FormaInv, PedidoInv, Responder
<1>7. ASSUME NEW k \in achadas, Ir(p, "motor"), c.moeda_titulo # c.moeda_pagamento,
             leitura' = [leitura EXCEPT ![p].cotacao = k, ![p].cotacoesVistas = Len(cotacoes)]
      PROVE  IInv'
  <2>1. /\ pc'[p] = "motor" /\ resposta'[p] = Nenhuma
        /\ leitura'[p] = [leitura[p] EXCEPT !.cotacao = k, !.cotacoesVistas = Len(cotacoes)]
    BY <1>1, <1>2, <1>7 DEF FormaInv, Ir
  <2>2. /\ k \in 1..Len(cotacoes)
        /\ UltimaCotacao(c.moeda_pagamento, c.moeda_titulo, em, k)
    BY <1>1, <1>2, CotacoesAchadas
  <2>3. /\ leitura'[p] \in Leitura' /\ leitura'[p].em = em /\ leitura'[p].cotacao = k
        /\ leitura'[p].taxa = leitura[p].taxa /\ leitura'[p].taxasVistas = leitura[p].taxasVistas
    BY <1>1, <1>2, <1>3, <2>1, <2>2 DEF Leitura
  <2>4. TipoInv(p)'
    BY <1>1, <1>2, <2>1, <2>3 DEF PedidoInv, TipoInv, EmCurso
  <2>5. UltimaCotacao(corpo[p].moeda_pagamento, corpo[p].moeda_titulo,
                      leitura[p].em, leitura[p].cotacao)'
    BY <1>1, <2>2, <2>3 DEF UltimaCotacao
  <2>6. PrecoInv(p)'
    BY <1>1, <1>2, <1>4, <1>7, <2>2, <2>3, <2>5 DEF PrecoInv
  <2>7. RespostaInv(p)' /\ CausaInv(p)'
    BY <1>1, <1>2, <2>1 DEF RespostaInv, CausaInv, Respostas, Recusas
  <2> QED
    BY <1>1, <1>7, <2>4, <2>6, <2>7, SoUm DEF FormaInv, PedidoInv, Ir
<1> QED
  BY <1>5, <1>6, <1>7 DEF LerCotacao

\* The request is priced, or fails in the motor; it finds its assignor, or not;
\* it reads its row again.
LEMMA AvancarInv ==
    ASSUME IInv, NEW p \in Pedidos,
           \/ FalharNoMotor(p) \/ Simular(p) \/ Precificar(p)
           \/ ResolverReferencias(p) \/ Reler(p)
    PROVE  IInv'
<1>1. PedidoInv(p) /\ FormaInv /\ Nenhuma \notin Respostas
  BY PrecificacaoAssumption DEF IInv
<1>2. pc[p] \in EmCurso
  BY DEF FalharNoMotor, Simular, Precificar, ResolverReferencias, Reler, EmCurso
<1>3. resposta[p] = Nenhuma
  BY <1>1, <1>2 DEF PedidoInv, RespostaInv, EmCurso
<1>4. CASE FalharNoMotor(p)
  BY <1>2, <1>4, AvancoInv DEF FalharNoMotor, Responder, Respostas, Recusas
<1>5. CASE Simular(p)
  BY <1>2, <1>5, AvancoInv DEF Simular, Responder, Respostas, Recusas
<1>6. CASE Precificar(p)
  BY <1>2, <1>3, <1>6, AvancoInv DEF Precificar, Ir
<1>7. CASE ResolverReferencias(p)
  BY <1>2, <1>3, <1>7, AvancoInv DEF ResolverReferencias, Ir, Responder, Respostas, Recusas
<1>8. CASE Reler(p)
  BY <1>2, <1>8, AvancoInv DEF Reler, Responder, Respostas, Recusas
<1> QED
  BY <1>4, <1>5, <1>6, <1>7, <1>8

\* The row is written with what was read, whether its request hears of it or not.
LEMMA GravadaInv ==
    ASSUME IInv, NEW p \in Pedidos, pc[p] = "inserir", Gravada(p),
           UNCHANGED <<relogio, taxas, cotacoes, corpo, quer, leitura>>,
           falhou' = falhou \/ falhou' = [falhou EXCEPT ![p] = TRUE],
           Ir(p, "reler") \/ Responder(p, "erro_interno")
    PROVE  IInv'
<1>1. PedidoInv(p) /\ FormaInv /\ Nenhuma \notin Respostas
  BY PrecificacaoAssumption DEF IInv
<1>2. /\ p \in DOMAIN transacoes' /\ transacoes'[p] = montarTransacao(p)
      /\ resposta[p] = Nenhuma /\ ComTaxa(p) /\ ComCotacao(p)
  BY <1>1 DEF Gravada, PedidoInv, RespostaInv, ComTaxa, ComCotacao
<1>3. /\ falhou'[p] \in BOOLEAN
      /\ \/ pc'[p] = "reler" /\ resposta'[p] = Nenhuma
         \/ pc'[p] = "respondido" /\ resposta'[p] = "erro_interno"
  BY <1>1, <1>2 DEF FormaInv, PedidoInv, TipoInv, Ir, Responder
<1>4. TipoInv(p)'
  BY <1>1, <1>2, <1>3 DEF PedidoInv, TipoInv, Leitura, EmCurso, Respostas
<1>5. PrecoInv(p)'
  BY <1>1, <1>2 DEF PedidoInv, PrecoInv, SemTaxaRetroativa, SemCotacaoRetroativa,
                    DaMoeda, DoCambio, UltimaTaxa, UltimaCotacao, montarTransacao
<1>6. RespostaInv(p)' /\ CausaInv(p)'
  BY <1>1, <1>2, <1>3 DEF RespostaInv, CausaInv, Respostas, Recusas
<1> QED
  BY <1>1, <1>4, <1>5, <1>6, SoUm DEF FormaInv, PedidoInv, Ir, Responder

\* The row is inserted, or refused by its checks.
LEMMA InserirInv == ASSUME IInv, NEW p \in Pedidos, Inserir(p) PROVE IInv'
<1>1. CASE corpo[p].valor_face = "positivo"
  BY <1>1, GravadaInv DEF Inserir
<1>2. CASE corpo[p].valor_face # "positivo"
  BY <1>2, AvancoInv DEF Inserir, Responder, EmCurso, Respostas, Recusas, tabelas
<1> QED
  BY <1>1, <1>2

\* What a failed statement is reported as never promises anything of the row.
LEMMA ErroTipo ==
    ASSUME NEW p \in Pedidos, pc[p] \in EmCurso
    PROVE  /\ ErroDaFalha(p) \in Respostas \ {"201"}
           /\ pc[p] \in {"referencias", "inserir", "reler"} => ErroDaFalha(p) = "erro_interno"
BY DEF ErroDaFalha, EmCurso, Respostas, Recusas

\* A statement fails.
LEMMA FalharInv == ASSUME IInv, NEW p \in Pedidos, Falhar(p) PROVE IInv'
<1>1. pc[p] \in EmCurso /\ falhou' = [falhou EXCEPT ![p] = TRUE] /\ falhou'[p]
  BY DEF Falhar, EmCurso, IInv, FormaInv
<1>2. CASE UNCHANGED transacoes
  BY <1>1, <1>2, ErroTipo, AvancoInv DEF Falhar, Responder, tabelas
<1>3. CASE pc[p] = "inserir" /\ Gravada(p)
  BY <1>1, <1>3, ErroTipo, GravadaInv DEF Falhar
<1> QED
  BY <1>2, <1>3 DEF Falhar

-------------------------------------------------------------------------------
(* The theorems.                                                           *)

\* A step of the specification, or none, keeps the invariant.
LEMMA PassoInv == IInv /\ [Next]_vars => IInv'
<1> SUFFICES ASSUME IInv, [Next]_vars PROVE IInv'
  OBVIOUS
<1>1. CASE UNCHANGED vars
  <2>1. TabelasInv' /\ \A p \in Pedidos : PedidoInv(p)'
    BY <1>1, TabelasFicam, Quadro DEF IInv, vars, tabelas
  <2>2. FormaInv'
    BY <1>1 DEF IInv, FormaInv, vars, tabelas
  <2> QED
    BY <2>1, <2>2 DEF IInv
<1>2. CASE Passar \/ Queda
  BY <1>2, PassarInv, QuedaInv
<1>3. ASSUME NEW i \in Inicios, NEW m \in Moedas, NEW n \in Moedas,
             RegistrarTaxa(m, i) \/ RegistrarCotacao(m, n, i)
      PROVE  IInv'
  BY <1>3, RegistrarTaxaInv, RegistrarCotacaoInv
<1>4. ASSUME NEW p \in Pedidos, NEW c \in Corpos, NEW q \in {"simular", "criar"}, Receber(p, c, q)
      PROVE  IInv'
  BY <1>4, ReceberInv
<1>5. ASSUME NEW p \in Pedidos,
             \/ Preparar(p) \/ LerTaxa(p) \/ LerCotacao(p)
             \/ FalharNoMotor(p) \/ Simular(p) \/ Precificar(p)
             \/ ResolverReferencias(p) \/ Inserir(p) \/ Reler(p) \/ Falhar(p)
      PROVE  IInv'
  BY <1>5, PrepararInv, LerTaxaInv, LerCotacaoInv, AvancarInv, InserirInv, FalharInv
<1> QED
  BY <1>1, <1>2, <1>3, <1>4, <1>5 DEF Next

\* The inductive invariant holds in every execution of the service.
THEOREM Invariante == Spec => []IInv
BY InicioInv, PassoInv, PTL DEF Spec

\* Every variable keeps its type: rows, requests and what they read.
THEOREM Tipo == Spec => []TypeOK
<1>1. ASSUME IInv PROVE TypeOK
  <2>1. /\ DOMAIN taxas = 1..Len(taxas) /\ DOMAIN cotacoes = 1..Len(cotacoes)
        /\ \A k \in 1..Len(taxas) : taxas[k] \in LinhaTaxa
        /\ \A k \in 1..Len(cotacoes) : cotacoes[k] \in LinhaCotacao
    BY <1>1, LinhasTipo DEF IInv, TabelasInv
  <2>2. ASSUME NEW p \in DOMAIN transacoes
        PROVE  transacoes[p] \in [titulo : Moedas, pagamento : Moedas, data : Int,
                                  vencimento : Int, taxa : 1..Len(taxas),
                                  cotacao : 1..Len(cotacoes) \cup {Nenhuma}]
    <3>1. TipoInv(p) /\ PrecoInv(p)
      BY <1>1, <2>2 DEF IInv, FormaInv, PedidoInv
    <3> QED
      BY <3>1 DEF TipoInv, PrecoInv, ComTaxa, Leitura, montarTransacao
  <2>3. ASSUME NEW p \in Pedidos
        PROVE  /\ corpo[p] \in Corpos \cup {Nenhuma}
               /\ quer[p] \in {"simular", "criar", Nenhuma}
               /\ leitura[p] \in Leitura
               /\ pc[p] \in EmCurso \cup {"livre", "respondido", "perdido"}
               /\ resposta[p] \in Respostas \cup {Nenhuma} /\ falhou[p] \in BOOLEAN
    BY <1>1 DEF IInv, PedidoInv, TipoInv
  <2> QED
    BY <1>1, <2>1, <2>2, <2>3 DEF IInv, FormaInv, TypeOK, Leitura, LinhaTaxa, LinhaCotacao
<1> QED
  BY <1>1, Invariante, PTL

\* The caller of POST /transacoes may trust any answer but a 500.
THEOREM Resposta == Spec => []RespostaFiel
<1>1. IInv => RespostaFiel
  BY DEF IInv, PedidoInv, RespostaInv, RespostaFiel
<1> QED
  BY <1>1, Invariante, PTL

\* "No rate" and "no quote" are answered only when none had started by the date,
\* whatever was closed meanwhile.
THEOREM Causa == Spec => []RecusaTemCausa
<1>1. ASSUME IInv PROVE RecusaTemCausa
  <2> SUFFICES ASSUME NEW p \in Pedidos, ~ falhou[p]
               PROVE  /\ resposta[p] = "taxa_ausente" =>
                            Devidas(taxas, DaMoeda(corpo[p].moeda_titulo),
                                    leitura[p].taxasVistas, leitura[p].em) = {}
                      /\ resposta[p] = "cotacao_ausente" =>
                            Devidas(cotacoes, DoCambio(corpo[p].moeda_titulo,
                                                       corpo[p].moeda_pagamento),
                                    leitura[p].cotacoesVistas, leitura[p].em) = {}
    BY DEF RecusaTemCausa
  <2>1. CausaInv(p) /\ leitura[p].em \in Int
    BY <1>1 DEF IInv, PedidoInv, TipoInv, Leitura
  <2>2. /\ DOMAIN taxas = 1..Len(taxas) /\ DOMAIN cotacoes = 1..Len(cotacoes)
        /\ \A k \in 1..Len(taxas) : taxas[k].inicio \in Int
        /\ \A k \in 1..Len(cotacoes) : cotacoes[k].inicio \in Int
    BY <1>1, LinhasTipo DEF IInv, TabelasInv
  <2>3. ASSUME resposta[p] = "taxa_ausente", NEW k \in 1..Len(taxas),
               taxas[k].moeda = corpo[p].moeda_titulo, k <= leitura[p].taxasVistas
        PROVE  ~ (taxas[k].inicio <= leitura[p].em)
    <3>1. taxas[k].inicio > leitura[p].em /\ taxas[k].inicio \in Int
      BY <2>1, <2>2, <2>3 DEF CausaInv
    <3> QED
      BY <2>1, <3>1
  <2>4. ASSUME resposta[p] = "cotacao_ausente", NEW k \in 1..Len(cotacoes),
               cotacoes[k].base = corpo[p].moeda_pagamento,
               cotacoes[k].cotacao = corpo[p].moeda_titulo, k <= leitura[p].cotacoesVistas
        PROVE  ~ (cotacoes[k].inicio <= leitura[p].em)
    <3>1. cotacoes[k].inicio > leitura[p].em /\ cotacoes[k].inicio \in Int
      BY <2>1, <2>2, <2>4 DEF CausaInv
    <3> QED
      BY <2>1, <3>1
  <2>5. \A t, S, n, em : Devidas(t, S, n, em) \subseteq {k \in S : k <= n /\ t[k].inicio <= em}
    BY DEF Devidas, MaisRecentes
  <2> QED
    BY <2>2, <2>3, <2>4, <2>5 DEF DaMoeda, DoCambio
<1> QED
  BY <1>1, Invariante, PTL

\* A transaction stays priced by the rate and the quote its instant calls for.
THEOREM Preco == Spec => []Reproduzivel
<1>1. ASSUME IInv PROVE Reproduzivel
  <2> SUFFICES ASSUME NEW p \in DOMAIN transacoes
               PROVE  LET t == transacoes[p]
                          em == leitura[p].em
                          cambio == DoCambio(t.titulo, t.pagamento)
                      IN  /\ SemTaxaRetroativa(p) =>
                                t.taxa \in Devidas(taxas, DaMoeda(t.titulo), Len(taxas), em)
                                           \cap TaxasVigentes(t.titulo, em)
                          /\ IF t.titulo = t.pagamento THEN t.cotacao = Nenhuma
                             ELSE SemCotacaoRetroativa(p) =>
                                     t.cotacao \in Devidas(cotacoes, cambio, Len(cotacoes), em)
    BY DEF Reproduzivel
  <2>1. PrecoInv(p) /\ ComTaxa(p) /\ ComCotacao(p)
    BY <1>1 DEF IInv, FormaInv, PedidoInv, ComTaxa, ComCotacao
  <2>2. /\ transacoes[p].titulo = corpo[p].moeda_titulo
        /\ transacoes[p].pagamento = corpo[p].moeda_pagamento
        /\ transacoes[p].taxa = leitura[p].taxa /\ transacoes[p].cotacao = leitura[p].cotacao
    BY <2>1 DEF PrecoInv, montarTransacao
  <2>3. DOMAIN taxas = 1..Len(taxas) /\ DOMAIN cotacoes = 1..Len(cotacoes)
    BY <1>1, LinhasTipo DEF IInv, TabelasInv
  <2>4. ASSUME NEW m, NEW em, NEW k \in 1..Len(taxas), UltimaTaxa(m, em, k)
        PROVE  k \in Devidas(taxas, DaMoeda(m), Len(taxas), em) \cap TaxasVigentes(m, em)
    BY <2>3, <2>4 DEF UltimaTaxa, Devidas, MaisRecentes, DaMoeda, TaxasVigentes
  <2>5. ASSUME NEW a, NEW b, NEW em, NEW k \in 1..Len(cotacoes), UltimaCotacao(b, a, em, k)
        PROVE  k \in Devidas(cotacoes, DoCambio(a, b), Len(cotacoes), em)
    BY <2>3, <2>5 DEF UltimaCotacao, Devidas, MaisRecentes, DoCambio
  <2> QED
    BY <2>1, <2>2, <2>4, <2>5 DEF PrecoInv
<1> QED
  BY <1>1, Invariante, PTL

-------------------------------------------------------------------------------
(***************************************************************************)
(* Pricing again from the date alone.                                      *)
(***************************************************************************)

\* An instant is never before the midnight of its date, and only a request that
\* gave no date has one that is not.
DataInv(p) ==
    /\ pc[p] = "livre" => leitura[p].em = 0 /\ leitura[p].data = 0
    /\ MeiaNoite(leitura[p].data) <= leitura[p].em
    /\ leitura[p].em = MeiaNoite(leitura[p].data) \/ corpo[p].data_operacao = Ausente

DatasInv == \A p \in Pedidos : DataInv(p)

\* What Datar makes of a body that passed.
LEMMA DatarData ==
    ASSUME IInv, NEW c \in Corpos, c.data_operacao \in Int \cup {Ausente}
    PROVE  /\ MeiaNoite(Datar(c).data) <= Datar(c).em
           /\ Datar(c).em = MeiaNoite(Datar(c).data) \/ c.data_operacao = Ausente
<1>1. relogio \in Int /\ Fuso \in Nat /\ Dia \in Nat \ {0}
  BY PrecificacaoAssumption DEF IInv, FormaInv
<1>2. ASSUME NEW em, NEW data
      PROVE  LET l == [LeituraVazia EXCEPT !.em = em, !.data = data] IN l.em = em /\ l.data = data
  BY DEF LeituraVazia
<1>3. CASE c.data_operacao = Ausente
  <2>1. Datar(c).em = relogio /\ Datar(c).data = DataLocal(relogio)
    BY <1>2, <1>3 DEF Datar
  <2>2. MeiaNoite(DataLocal(relogio)) <= relogio - Fuso
    BY <1>1 DEF MeiaNoite, DataLocal
  <2>3. MeiaNoite(DataLocal(relogio)) \in Int
    BY <1>1 DEF MeiaNoite, DataLocal
  <2> QED
    BY <1>1, <1>3, <2>1, <2>2, <2>3
<1>4. CASE c.data_operacao # Ausente
  <2>1. Datar(c).em = MeiaNoite(c.data_operacao) /\ Datar(c).data = c.data_operacao
    BY <1>2, <1>4 DEF Datar
  <2>2. MeiaNoite(c.data_operacao) \in Int
    BY <1>1, <1>4 DEF MeiaNoite
  <2> QED
    BY <2>1, <2>2
<1> QED
  BY <1>3, <1>4

\* The date of a request and its instant are set once, by Preparar.
LEMMA DataPasso == IInv /\ DatasInv /\ [Next]_vars => DatasInv'
<1> SUFFICES ASSUME IInv, DatasInv, [Next]_vars, NEW s \in Pedidos PROVE DataInv(s)'
  BY DEF DatasInv
<1> USE DEF IInv, FormaInv, DatasInv
<1>1. ASSUME NEW p \in Pedidos, corpo'[p] = corpo[p],
             leitura'[p].em = leitura[p].em, leitura'[p].data = leitura[p].data,
             pc'[p] = "livre" => pc[p] = "livre"
      PROVE  DataInv(p)'
  BY <1>1 DEF DataInv, MeiaNoite
<1>2. ASSUME NEW p \in Pedidos, NEW c \in Corpos, NEW q \in {"simular", "criar"},
             Receber(p, c, q)
      PROVE  DataInv(s)'
  <2>1. CASE s # p
    BY <1>1, <1>2, <2>1 DEF Receber, Ir
  <2>2. CASE s = p
    <3>1. leitura'[p].em = 0 /\ leitura'[p].data = 0 /\ pc'[p] = "preparar" /\ MeiaNoite(0) = 0
      BY <1>2, PrecificacaoAssumption DEF Receber, Ir, DataInv, MeiaNoite
    <3> QED
      BY <2>2, <3>1 DEF DataInv, MeiaNoite
  <2> QED
    BY <2>1, <2>2
<1>3. ASSUME NEW p \in Pedidos, Preparar(p)
      PROVE  DataInv(s)'
  <2>1. CASE s # p \/ leitura' = leitura
    BY <1>1, <1>3, <2>1 DEF Preparar, Ir, Responder
  <2>2. CASE s = p /\ leitura' # leitura
    <3>1. /\ RecusaDaEntrada(corpo[p]) = Nenhuma /\ corpo[p] \in Corpos
          /\ leitura'[p] = Datar(corpo[p]) /\ corpo'[p] = corpo[p] /\ pc'[p] # "livre"
      BY <1>3, <2>2 DEF Preparar, Ir, PedidoInv, TipoInv, EmCurso
    <3>2. corpo[p].data_operacao \in Int \cup {Ausente}
      BY <3>1, EntradaAceita
    <3> QED
      BY <2>2, <3>1, <3>2, DatarData DEF DataInv, MeiaNoite
  <2> QED
    BY <2>1, <2>2
<1>4. ASSUME NEW p \in Pedidos, LerTaxa(p) \/ LerCotacao(p)
      PROVE  DataInv(s)'
  <2>1. CASE s # p
    BY <1>1, <1>4, <2>1 DEF LerTaxa, LerCotacao, Ir, Responder
  <2>2. CASE s = p
    <3>1. corpo'[p] = corpo[p] /\ pc'[p] # "livre"
      BY <1>4 DEF LerTaxa, LerCotacao, Ir, Responder
    <3>2. leitura[p] \in Leitura
      BY DEF PedidoInv, TipoInv
    <3>3. leitura'[p].em = leitura[p].em /\ leitura'[p].data = leitura[p].data
      <4>1. CASE LerTaxa(p)
        <5>1. \/ leitura' = leitura
              \/ leitura' = [leitura EXCEPT ![p].taxasVistas = Len(taxas)]
              \/ \E k : leitura' = [leitura EXCEPT ![p].taxa = k, ![p].taxasVistas = Len(taxas)]
          BY <4>1 DEF LerTaxa
        <5>2. ASSUME NEW k,
                     leitura' = [leitura EXCEPT ![p].taxa = k, ![p].taxasVistas = Len(taxas)]
              PROVE  leitura'[p].em = leitura[p].em /\ leitura'[p].data = leitura[p].data
          BY <3>2, <5>2 DEF Leitura
        <5>3. CASE leitura' = [leitura EXCEPT ![p].taxasVistas = Len(taxas)]
          BY <3>2, <5>3 DEF Leitura
        <5> QED
          BY <5>1, <5>2, <5>3
      <4>2. CASE LerCotacao(p)
        <5>1. \/ leitura' = leitura
              \/ leitura' = [leitura EXCEPT ![p].cotacoesVistas = Len(cotacoes)]
              \/ \E k : leitura' = [leitura EXCEPT ![p].cotacao = k,
                                                  ![p].cotacoesVistas = Len(cotacoes)]
          BY <4>2 DEF LerCotacao
        <5>2. ASSUME NEW k, leitura' = [leitura EXCEPT ![p].cotacao = k,
                                                       ![p].cotacoesVistas = Len(cotacoes)]
              PROVE  leitura'[p].em = leitura[p].em /\ leitura'[p].data = leitura[p].data
          BY <3>2, <5>2 DEF Leitura
        <5>3. CASE leitura' = [leitura EXCEPT ![p].cotacoesVistas = Len(cotacoes)]
          BY <3>2, <5>3 DEF Leitura
        <5> QED
          BY <5>1, <5>2, <5>3
      <4> QED
        BY <1>4, <4>1, <4>2
    <3> QED
      BY <1>1, <2>2, <3>1, <3>3
  <2> QED
    BY <2>1, <2>2
<1>5. ASSUME NEW p \in Pedidos,
             \/ FalharNoMotor(p) \/ Simular(p) \/ Precificar(p)
             \/ ResolverReferencias(p) \/ Inserir(p) \/ Reler(p) \/ Falhar(p)
      PROVE  DataInv(s)'
  <2>1. corpo' = corpo /\ leitura' = leitura /\ (pc'[s] = "livre" => pc[s] = "livre")
    BY <1>5 DEF FalharNoMotor, Simular, Precificar, ResolverReferencias, Inserir, Reler, Falhar,
                Ir, Responder
  <2> QED
    BY <1>1, <2>1
<1>6. ASSUME \/ Passar \/ Queda \/ UNCHANGED vars
             \/ \E i \in Inicios, m, n \in Moedas : RegistrarTaxa(m, i) \/ RegistrarCotacao(m, n, i)
      PROVE  DataInv(s)'
  <2>1. corpo' = corpo /\ leitura' = leitura /\ (pc'[s] = "livre" => pc[s] = "livre")
    BY <1>6 DEF Passar, Queda, RegistrarTaxa, RegistrarCotacao, vars
  <2> QED
    BY <1>1, <2>1
<1> QED
  BY <1>2, <1>3, <1>4, <1>5, <1>6 DEF Next

\* A transaction is priced again to the same rate from its date, unless it had
\* none given and a rate started that day before it.
THEOREM Reprocesso == Spec => []ReprocessoDoDia
<1>1. Init => DatasInv
  <2>1. MeiaNoite(0) = 0
    BY PrecificacaoAssumption DEF MeiaNoite
  <2>2. LeituraVazia.em = 0 /\ LeituraVazia.data = 0
    BY DEF LeituraVazia
  <2> SUFFICES ASSUME Init, NEW p \in Pedidos PROVE DataInv(p)
    BY DEF DatasInv
  <2>3. leitura[p] = LeituraVazia
    BY DEF Init
  <2> QED
    BY <2>1, <2>2, <2>3 DEF DataInv, MeiaNoite
<1>2. ASSUME IInv, DatasInv PROVE ReprocessoDoDia
  <2> SUFFICES ASSUME NEW p \in DOMAIN transacoes, SemTaxaRetroativa(p),
                      corpo[p].data_operacao # Ausente \/ SemTaxaNoDia(p)
               PROVE  transacoes[p].taxa \in TaxasVigentes(transacoes[p].titulo,
                                                          MeiaNoite(transacoes[p].data))
    BY DEF ReprocessoDoDia
  <2> DEFINE k == leitura[p].taxa
             m == corpo[p].moeda_titulo
             em == leitura[p].em
             dia == MeiaNoite(leitura[p].data)
  <2>1. p \in Pedidos /\ PrecoInv(p) /\ TipoInv(p) /\ ComTaxa(p) /\ DataInv(p)
    BY <1>2 DEF IInv, FormaInv, PedidoInv, ComTaxa, DatasInv
  <2>2. transacoes[p].titulo = m /\ transacoes[p].taxa = k /\ transacoes[p].data = leitura[p].data
    BY <2>1 DEF PrecoInv, montarTransacao
  <2>3. k \in 1..Len(taxas) /\ UltimaTaxa(m, em, k)
    BY <2>1 DEF PrecoInv
  <2>4. em \in Int /\ dia \in Int /\ dia <= em
    BY <2>1, PrecificacaoAssumption DEF TipoInv, Leitura, DataInv, MeiaNoite
  <2>5. /\ DOMAIN taxas = 1..Len(taxas)
        /\ \A j \in 1..Len(taxas) :
              /\ taxas[j].inicio \in Int
              /\ taxas[j].fim = Aberta \/ taxas[j].fim \in Int
    BY <1>2, LinhasTipo DEF IInv, TabelasInv
  <2>6. \A j \in 1..Len(taxas) : taxas[j].moeda = m /\ taxas[j].inicio <= em => taxas[j].inicio <= dia
    <3>1. CASE SemTaxaNoDia(p)
      BY <2>5, <3>1 DEF SemTaxaNoDia, DaMoeda
    <3>2. CASE corpo[p].data_operacao # Ausente
      BY <2>1, <3>2 DEF DataInv
    <3> QED
      BY <3>1, <3>2
  <2> HIDE DEF k, m, em, dia
  <2>7. taxas[k].moeda = m /\ taxas[k].inicio <= dia /\ (taxas[k].fim = Aberta \/ taxas[k].fim > dia)
    BY <2>3, <2>4, <2>5, <2>6 DEF UltimaTaxa
  <2>8. \A j \in 1..Len(taxas) :
           taxas[j].moeda = m /\ taxas[j].inicio <= dia => taxas[j].inicio <= taxas[k].inicio
    <3>1. ASSUME NEW j \in 1..Len(taxas), taxas[j].inicio <= dia PROVE taxas[j].inicio <= em
      BY <2>4, <2>5, <3>1
    <3> QED
      BY <2>3, <3>1 DEF UltimaTaxa
  <2>9. k \in TaxasVigentes(m, dia)
    BY <2>3, <2>5, <2>7, <2>8 DEF TaxasVigentes, MaisRecentes
  <2> QED
    BY <2>2, <2>9 DEF dia
<1> QED
  BY <1>1, <1>2, DataPasso, Invariante, PTL DEF Spec
===============================================================================
