---------------------------- MODULE PaginacaoProofs ----------------------------
(***************************************************************************)
(* Proofs about Paginacao, for any number of rows, callers and dates and   *)
(* any page size: what a walk through the pages misses and repeats.        *)
(***************************************************************************)
EXTENDS Paginacao, FiniteSetTheorems, FunctionTheorems, TLAPS

Linha == [data: Datas, status: Status]

(***************************************************************************)
(* Places in the order, for a table given as an argument, so that what is  *)
(* said of one state can be said of the next.                              *)
(***************************************************************************)
Tabelas == [Ids -> Linha \cup {Ausente}]

CasamEm(tab, f) == {t \in Ids : Casa(tab[t], f)}

AntesEm(tab, p, q) ==
    \/ tab[p].data > tab[q].data
    \/ tab[p].data = tab[q].data /\ p < q

Antecessoras(tab, S, t) == {q \in S : AntesEm(tab, q, t)}
Lugar(tab, S, t) == Cardinality(Antecessoras(tab, S, t))

\* The rows that come before place m.
Primeiras(tab, S, m) == {t \in S : Lugar(tab, S, t) < m}

\* A set of rows of a table.
LinhasDe(tab, S) == S \subseteq Ids /\ \A t \in S : tab[t] # Ausente

\* A set of identifiers is finite, and so are those before a row.
LEMMA Finitude ==
    ASSUME NEW S \in SUBSET Ids
    PROVE  IsFiniteSet(S) /\ Cardinality(S) \in Nat /\ Cardinality(S) <= Cardinality(Ids)
  BY PaginacaoAssumption, FS_Subset, FS_CardinalityType

\* A place is a natural number.
LEMMA LugarTipo ==
    ASSUME NEW tab, NEW S \in SUBSET Ids, NEW t
    PROVE  Lugar(tab, S, t) \in Nat
<1>1. Antecessoras(tab, S, t) \in SUBSET Ids
  BY DEF Antecessoras
<1> QED
  BY <1>1, Finitude DEF Lugar

\* The order is total and strict.
LEMMA Ordem ==
    ASSUME NEW tab \in Tabelas, NEW S, LinhasDe(tab, S),
           NEW p \in S, NEW q \in S
    PROVE  /\ ~ AntesEm(tab, p, p)
           /\ p # q => AntesEm(tab, p, q) \/ AntesEm(tab, q, p)
           /\ \A r \in S : AntesEm(tab, p, q) /\ AntesEm(tab, q, r) => AntesEm(tab, p, r)
<1>1. \A t \in S : t \in Int /\ tab[t].data \in Int
  <2>1. \A t \in S : tab[t] \in Linha /\ t \in Ids
    BY DEF Tabelas, LinhasDe
  <2>2. \A l \in Linha : l.data \in Datas
    BY DEF Linha
  <2>3. Datas \subseteq Int /\ Ids \subseteq Int
    BY PaginacaoAssumption
  <2> QED
    BY <2>1, <2>2, <2>3
<1> QED
  BY <1>1 DEF AntesEm

\* A row that comes before another has a lower place.
LEMMA LugarCresce ==
    ASSUME NEW tab \in Tabelas, NEW S, LinhasDe(tab, S),
           NEW p \in S, NEW q \in S, AntesEm(tab, p, q)
    PROVE  Lugar(tab, S, p) < Lugar(tab, S, q)
<1> DEFINE A == Antecessoras(tab, S, p)
           B == Antecessoras(tab, S, q)
<1>1. A \in SUBSET B /\ p \in B /\ p \notin A
  BY Ordem DEF Antecessoras
<1>2. IsFiniteSet(B) /\ Cardinality(B) \in Nat
  BY Finitude DEF Antecessoras, LinhasDe
<1>3. Cardinality(A) <= Cardinality(B) /\ Cardinality(A) # Cardinality(B)
  BY <1>1, <1>2, FS_Subset
<1>4. Cardinality(A) \in Nat
  BY <1>1, <1>2, FS_Subset, FS_CardinalityType
<1> QED
  BY <1>2, <1>3, <1>4 DEF Lugar

\* Places are those of 0 to the number of rows, one row in each.
LEMMA Lugares ==
    ASSUME NEW tab \in Tabelas, NEW S, LinhasDe(tab, S)
    PROVE  [t \in S |-> Lugar(tab, S, t)] \in Bijection(S, 0 .. Cardinality(S) - 1)
<1> DEFINE N == Cardinality(S)
           f == [t \in S |-> Lugar(tab, S, t)]
<1>1. S \in SUBSET Ids /\ IsFiniteSet(S) /\ N \in Nat
  BY Finitude DEF LinhasDe
<1>2. \A t \in S : Lugar(tab, S, t) \in 0 .. N - 1
  <2> TAKE t \in S
  <2>1. Antecessoras(tab, S, t) \in SUBSET S /\ Antecessoras(tab, S, t) # S
    BY Ordem DEF Antecessoras
  <2>2. Lugar(tab, S, t) <= N /\ Lugar(tab, S, t) # N
    BY <1>1, <2>1, FS_Subset DEF Lugar
  <2>3. Lugar(tab, S, t) \in Nat
    BY <1>1, LugarTipo
  <2> QED
    BY <1>1, <2>2, <2>3
<1>3. f \in [S -> 0 .. N - 1]
  BY <1>2
<1>4. \A p, q \in S : f[p] = f[q] => p = q
  <2> SUFFICES ASSUME NEW p \in S, NEW q \in S, f[p] = f[q], p # q
               PROVE  FALSE
    OBVIOUS
  <2>1. Lugar(tab, S, p) = Lugar(tab, S, q)
    OBVIOUS
  <2>2. Lugar(tab, S, p) \in Nat
    BY <1>1, LugarTipo
  <2>3. AntesEm(tab, p, q) \/ AntesEm(tab, q, p)
    BY Ordem
  <2>4. Lugar(tab, S, p) < Lugar(tab, S, q) \/ Lugar(tab, S, q) < Lugar(tab, S, p)
    BY <2>3, LugarCresce
  <2> HIDE DEF f
  <2> QED
    BY <2>1, <2>2, <2>4
<1>5. f \in Injection(S, 0 .. N - 1)
  BY <1>3, <1>4, Fun_IsInj
<1>6. IsFiniteSet(0 .. N - 1) /\ Cardinality(0 .. N - 1) = N
  <2> DEFINE m == N - 1
  <2>1. m \in Int /\ N \in Nat /\ m = N - 1
    BY <1>1
  <2> HIDE DEF m, N
  <2>2. IsFiniteSet(0 .. m) /\ Cardinality(0 .. m) = IF 0 > m THEN 0 ELSE m - 0 + 1
    BY <2>1, FS_Interval
  <2>3. IsFiniteSet(0 .. m) /\ Cardinality(0 .. m) = N
    BY <2>1, <2>2
  <2> QED
    BY <2>3 DEF m
<1>7. f \in Surjection(S, 0 .. N - 1)
  BY <1>5, <1>6, FS_Injection
<1> QED
  BY <1>5, <1>7, Fun_IsBij

\* As many rows come before place m as there are places before it.
LEMMA Contagem ==
    ASSUME NEW tab \in Tabelas, NEW S, LinhasDe(tab, S), NEW m \in Nat
    PROVE  Cardinality(Primeiras(tab, S, m)) = IF m < Cardinality(S) THEN m ELSE Cardinality(S)
<1> DEFINE N == Cardinality(S)
           f == [t \in S |-> Lugar(tab, S, t)]
           R == Primeiras(tab, S, m)
           g == [t \in R |-> Lugar(tab, S, t)]
<1>1. S \in SUBSET Ids /\ IsFiniteSet(S) /\ N \in Nat
  BY Finitude DEF LinhasDe
<1>2. f \in Bijection(S, 0 .. N - 1)
  BY Lugares
<1>3. /\ \A t \in S : Lugar(tab, S, t) \in 0 .. N - 1
      /\ \A p, q \in S : Lugar(tab, S, p) = Lugar(tab, S, q) => p = q
      /\ \A k \in 0 .. N - 1 : \E t \in S : Lugar(tab, S, t) = k
  <2>1. /\ f \in [S -> 0 .. N - 1]
        /\ \A p, q \in S : f[p] = f[q] => p = q
        /\ \A k \in 0 .. N - 1 : \E t \in S : f[t] = k
    <3> HIDE DEF f
    <3> QED
      BY <1>2 DEF Bijection, Injection, Surjection, IsInjective
  <2> QED
    BY <2>1
<1>4. CASE m < N
  <2>1. g \in Bijection(R, 0 .. m - 1)
    <3>1. \A t \in R : Lugar(tab, S, t) \in 0 .. m - 1
      BY <1>1, <1>3 DEF Primeiras
    <3>2. \A k \in 0 .. m - 1 : \E t \in R : Lugar(tab, S, t) = k
      BY <1>1, <1>3, <1>4 DEF Primeiras
    <3>3. g \in [R -> 0 .. m - 1]
      BY <3>1
    <3>4. \A p, q \in R : g[p] = g[q] => p = q
      BY <1>3 DEF Primeiras
    <3>5. \A k \in 0 .. m - 1 : \E t \in R : g[t] = k
      BY <3>2
    <3> QED
      BY <3>3, <3>4, <3>5, Fun_IsBij
  <2>2. R \in SUBSET S
    BY DEF Primeiras
  <2>3. IsFiniteSet(R)
    BY <1>1, <2>2, FS_Subset
  <2>4. Cardinality(0 .. m - 1) = Cardinality(R)
    BY <2>1, <2>3, FS_Bijection DEF ExistsBijection
  <2>5. Cardinality(0 .. m - 1) = m
    BY FS_Interval
  <2> QED
    BY <1>4, <2>4, <2>5
<1>5. CASE ~ m < N
  <2>1. R = S
    BY <1>1, <1>3, <1>5 DEF Primeiras
  <2> QED
    BY <1>5, <2>1
<1> QED
  BY <1>4, <1>5

(***************************************************************************)
(* Pages.                                                                  *)
(***************************************************************************)
RecorteEm(tab, S, desloc, n) ==
    {t \in S : desloc <= Lugar(tab, S, t) /\ Lugar(tab, S, t) < desloc + n}

\* The operators of the model are these, of the table of the state.
LEMMA EmEstado ==
    /\ \A f : Casam(f) = CasamEm(tabela, f)
    /\ \A S, d, n : Recorte(S, d, n) = RecorteEm(tabela, S, d, n)
<1>1. \A p, q : Antes(p, q) = AntesEm(tabela, p, q)
  BY DEF Antes, AntesEm
<1>2. \A S, t : Posicao(S, t) = Lugar(tabela, S, t)
  BY <1>1 DEF Posicao, Lugar, Antecessoras
<1> QED
  BY <1>2 DEF Casam, CasamEm, Recorte, RecorteEm

\* And, in the next state, of the table it has.
LEMMA EmEstadoSeguinte ==
    \A S, d, n : Recorte(S, d, n)' = RecorteEm(tabela', S, d, n)
  BY DEF Recorte, RecorteEm, Posicao, Lugar, Antecessoras, Antes, AntesEm

\* A page holds the rows between those before it and those of the next one.
LEMMA Pagina ==
    ASSUME NEW tab \in Tabelas, NEW S, LinhasDe(tab, S), NEW d \in Nat, NEW n \in Nat
    PROVE  /\ Primeiras(tab, S, d + n) = Primeiras(tab, S, d) \cup RecorteEm(tab, S, d, n)
           /\ Cardinality(RecorteEm(tab, S, d, n)) \in Nat
           /\ Cardinality(Primeiras(tab, S, d + n)) =
                 Cardinality(Primeiras(tab, S, d)) + Cardinality(RecorteEm(tab, S, d, n))
           /\ RecorteEm(tab, S, d, n) = {} /\ n > 0 => Cardinality(S) <= d
<1> DEFINE itens == RecorteEm(tab, S, d, n)
           A == Primeiras(tab, S, d)
           B == Primeiras(tab, S, d + n)
<1>1. \A t \in S : Lugar(tab, S, t) \in Nat
  BY LugarTipo DEF LinhasDe
<1>2. B = A \cup itens /\ A \cap itens = {}
  BY <1>1 DEF Primeiras, RecorteEm
<1>3. /\ IsFiniteSet(A) /\ Cardinality(A) \in Nat
      /\ IsFiniteSet(itens) /\ Cardinality(itens) \in Nat
      /\ Cardinality(S) \in Nat
  <2>1. A \in SUBSET Ids /\ itens \in SUBSET Ids /\ S \in SUBSET Ids
    BY DEF Primeiras, RecorteEm, LinhasDe
  <2> QED
    BY <2>1, Finitude
<1>4. Cardinality(B) = Cardinality(A) + Cardinality(itens)
  <2>1. Cardinality(A \cup itens) =
            Cardinality(A) + Cardinality(itens) - Cardinality(A \cap itens)
    BY <1>3, FS_Union
  <2>2. Cardinality(A \cap itens) = 0
    BY <1>2, FS_EmptySet
  <2> HIDE DEF A, B, itens
  <2> QED
    BY <1>2, <1>3, <2>1, <2>2
<1>5. ASSUME itens = {}, n > 0
      PROVE  Cardinality(S) <= d
  <2>1. Cardinality(A) = Cardinality(B)
    BY <1>2, <1>5
  <2>2. /\ Cardinality(A) = IF d < Cardinality(S) THEN d ELSE Cardinality(S)
        /\ Cardinality(B) = IF d + n < Cardinality(S) THEN d + n ELSE Cardinality(S)
    BY Contagem
  <2> QED
    BY <1>3, <1>5, <2>1, <2>2
<1> QED
  BY <1>2, <1>3, <1>4, <1>5

\* All rows come before the place that is the number of them.
LEMMA Todas ==
    ASSUME NEW tab \in Tabelas, NEW S, LinhasDe(tab, S), NEW m \in Nat, Cardinality(S) <= m
    PROVE  Primeiras(tab, S, m) = S
<1>1. IsFiniteSet(S) /\ Cardinality(S) \in Nat
  BY Finitude DEF LinhasDe
<1>2. Primeiras(tab, S, m) \in SUBSET S
  BY DEF Primeiras
<1>3. Cardinality(Primeiras(tab, S, m)) = Cardinality(S)
  BY <1>1, Contagem
<1> QED
  BY <1>1, <1>2, <1>3, FS_Subset

(***************************************************************************)
(* What becomes of a table.                                                *)
(***************************************************************************)

\* Rows are created and settled, and keep their date.
Evolui(tab, tab2) ==
    \A t \in Ids :
        \/ tab2[t] = tab[t]
        \/ tab[t] = Ausente
        \/ /\ tab[t] # Ausente /\ tab2[t] # Ausente
           /\ tab2[t].data = tab[t].data
           /\ tab[t].status = "PENDENTE" /\ tab2[t].status = "LIQUIDADA"

\* The order of the rows that were there stays.
LEMMA OrdemFica ==
    ASSUME NEW tab, NEW tab2, Evolui(tab, tab2), NEW S, LinhasDe(tab, S)
    PROVE  /\ \A p, q \in S : AntesEm(tab, p, q) = AntesEm(tab2, p, q)
           /\ LinhasDe(tab2, S)
<1>1. \A t \in S : tab2[t].data = tab[t].data /\ tab2[t] # Ausente
  BY DEF Evolui, LinhasDe
<1> QED
  BY <1>1 DEF AntesEm, LinhasDe

\* So do their pages.
LEMMA RecorteFica ==
    ASSUME NEW tab, NEW tab2, Evolui(tab, tab2), NEW S, LinhasDe(tab, S), NEW d, NEW n
    PROVE  RecorteEm(tab2, S, d, n) = RecorteEm(tab, S, d, n)
<1>1. \A t \in S : Antecessoras(tab2, S, t) = Antecessoras(tab, S, t)
  BY OrdemFica DEF Antecessoras
<1> QED
  BY <1>1 DEF RecorteEm, Lugar

\* Rows that come in push the others to later places.
LEMMA PrimeirasCrescem ==
    ASSUME NEW tab \in Tabelas, NEW tab2 \in Tabelas, Evolui(tab, tab2),
           NEW S, LinhasDe(tab, S), NEW S2, LinhasDe(tab2, S2), S \subseteq S2,
           NEW m \in Nat
    PROVE  /\ Primeiras(tab2, S2, m) \cap S \subseteq Primeiras(tab, S, m)
           /\ Cardinality(Primeiras(tab, S, m)) <= Cardinality(Primeiras(tab2, S2, m))
<1>1. ASSUME NEW t \in S
      PROVE  Lugar(tab, S, t) <= Lugar(tab2, S2, t)
  <2>1. Antecessoras(tab, S, t) \in SUBSET Antecessoras(tab2, S2, t)
    BY OrdemFica DEF Antecessoras
  <2>2. Antecessoras(tab2, S2, t) \in SUBSET Ids
    BY DEF Antecessoras, LinhasDe
  <2> QED
    BY <2>1, <2>2, Finitude, FS_Subset DEF Lugar
<1>2. \A t \in S : Lugar(tab, S, t) \in Nat /\ Lugar(tab2, S2, t) \in Nat
  BY LugarTipo DEF LinhasDe
<1>3. Primeiras(tab2, S2, m) \cap S \subseteq Primeiras(tab, S, m)
  BY <1>1, <1>2 DEF Primeiras
<1>4. Cardinality(S) <= Cardinality(S2) /\ Cardinality(S) \in Nat /\ Cardinality(S2) \in Nat
  BY Finitude, FS_Subset DEF LinhasDe
<1>5. /\ Cardinality(Primeiras(tab, S, m)) = IF m < Cardinality(S) THEN m ELSE Cardinality(S)
      /\ Cardinality(Primeiras(tab2, S2, m)) = IF m < Cardinality(S2) THEN m ELSE Cardinality(S2)
  BY Contagem
<1> QED
  BY <1>3, <1>4, <1>5

\* A filter that rows do not leave by being settled keeps those it has.
LEMMA CasamCresce ==
    ASSUME NEW tab, NEW tab2, Evolui(tab, tab2), NEW f \in Filtros, SoEntra(f)
    PROVE  CasamEm(tab, f) \subseteq CasamEm(tab2, f)
  BY DEF Evolui, CasamEm, Casa, SoEntra

\* The rows that match a filter are rows.
LEMMA CasamLinhas ==
    ASSUME NEW tab, NEW f
    PROVE  LinhasDe(tab, CasamEm(tab, f))
  BY DEF LinhasDe, CasamEm, Casa

(***************************************************************************)
(* The inductive invariant.                                                *)
(***************************************************************************)
Desloc(l) == (pedido[l].pagina - 1) * pedido[l].tamanho
Atuais(l) == CasamEm(tabela, pedido[l].filtro)
Lidas(l) == Primeiras(tabela, Atuais(l), Desloc(l))

\* Nothing has been sent to a caller that has not started a walk, and nothing
\* answered to one that has not asked for a single page.
InicioInv ==
    \A l \in Leitores :
        /\ fase[l] \in {"livre", "respondido"} =>
              vistas[l] = {} /\ recebidas[l] = 0 /\ desdeInicio[l] = {} /\ entradas[l] = {}
        /\ fase[l] # "respondido" => resposta[l] = SemResposta
        /\ LinhasDe(tabela, resposta[l].casavam)

\* In a walk, the rows before the next page are those the caller has been sent,
\* but for some that came in since, and there are as many of them at least as
\* items that it has been sent.
PercursoInv ==
    \A l \in Leitores : fase[l] = "percorrendo" =>
        /\ Desloc(l) < Limite
        /\ SoEntra(pedido[l].filtro) =>
              /\ desdeInicio[l] \subseteq Atuais(l) \ entradas[l]
              /\ Lidas(l) \ entradas[l] \subseteq vistas[l]
              /\ recebidas[l] <= Cardinality(Lidas(l))

\* What the caller of a walk that is over knows.
FimInv ==
    \A l \in Leitores : fase[l] \in {"terminou", "desistiu"} /\ SoEntra(pedido[l].filtro) =>
        /\ fase[l] = "terminou" => desdeInicio[l] \subseteq vistas[l]
        /\ recebidas[l] <= Cardinality(vistas[l]) + Cardinality(entradas[l])

IInv == TypeOK /\ InicioInv /\ PercursoInv /\ FimInv /\ PaginaPedida

(***************************************************************************)
(* Answers.                                                                *)
(***************************************************************************)

\* What a request is made of.
LEMMA PedidoTipo ==
    ASSUME NEW p \in Pedido
    PROVE  /\ p.filtro \in Filtros /\ p.pagina \in Nat \ {0} /\ p.tamanho \in Nat \ {0}
           /\ p.pagina < Limite /\ p.tamanho <= TamanhoMaximo
           /\ (p.pagina - 1) * p.tamanho \in Nat
           /\ Limite \in Nat \ {0} /\ TamanhoMaximo \in Nat
<1>1. Limite \in Nat \ {0} /\ TamanhoMaximo \in Nat
  BY PaginacaoAssumption
<1>2. /\ p.filtro \in Filtros /\ p.pagina \in Nat \ {0} /\ p.tamanho \in Nat \ {0}
      /\ p.pagina < Limite /\ p.tamanho <= TamanhoMaximo
  BY <1>1 DEF Pedido
<1> QED
  BY <1>1, <1>2

\* Division rounded up.
LEMMA Teto ==
    ASSUME NEW total \in Nat, NEW n \in Nat \ {0}
    PROVE  /\ TotalPaginas(total, n) \in Nat
           /\ n * TotalPaginas(total, n) <= total + n - 1
           /\ total <= n * TotalPaginas(total, n)
  BY DEF TotalPaginas

\* The offset is a natural number, and what it should be while it is an integer.
LEMMA DeslocamentoTipo ==
    ASSUME NEW p \in Pedido
    PROVE  /\ Deslocamento(p) \in Nat
           /\ (p.pagina - 1) * p.tamanho < Limite
              => Deslocamento(p) = (p.pagina - 1) * p.tamanho
<1>1. (p.pagina - 1) * p.tamanho \in Nat /\ Limite \in Nat \ {0}
  BY PedidoTipo
<1>2. \A x \in Nat : x % (2 * Limite) \in Nat /\ (x < Limite => x % (2 * Limite) = x)
  BY <1>1
<1> QED
  BY <1>1, <1>2 DEF Deslocamento

\* The rows of a page and of a filter are rows of the table.
LEMMA ItensTipo ==
    ASSUME NEW p
    PROVE  /\ Casam(p.filtro) \in SUBSET Ids
           /\ Recorte(Casam(p.filtro), Deslocamento(p), p.tamanho) \in SUBSET Ids
           /\ Cardinality(Casam(p.filtro)) \in Nat
<1>1. /\ Casam(p.filtro) \in SUBSET Ids
      /\ Recorte(Casam(p.filtro), Deslocamento(p), p.tamanho) \in SUBSET Ids
  BY DEF Casam, Recorte
<1> QED
  BY <1>1, Finitude

\* An answer is one.
LEMMA ConsultarTipo ==
    ASSUME NEW p \in Pedido, NEW r \in Consultar(p)
    PROVE  /\ r \in Resposta
           /\ r.codigo \in {200, 500}
           /\ r.casavam = Casam(p.filtro)
           /\ r.codigo = 200 => r = PaginaLida(p)
<1> DEFINE casam == Casam(p.filtro)
           itens == Recorte(casam, Deslocamento(p), p.tamanho)
           total == IF itens = {} THEN 0 ELSE Cardinality(casam)
           paginas == IF total > 0 THEN TotalPaginas(total, p.tamanho) ELSE 0
<1>1. casam \in SUBSET Ids /\ itens \in SUBSET Ids /\ total \in Nat
  BY ItensTipo
<1>2. paginas \in Nat
  BY <1>1, PedidoTipo, Teto
<1>3. CASE r = PaginaFalha(p)
  <2>1. r = [codigo |-> 500, total |-> 0, total_paginas |-> 0, itens |-> {}, casavam |-> casam]
    <3>1. r = [SemResposta EXCEPT !.codigo = 500, !.casavam = casam]
      BY <1>3 DEF PaginaFalha
    <3> DEFINE erro == [codigo |-> 500, total |-> 0, total_paginas |-> 0,
                        itens |-> {}, casavam |-> {}]
    <3>2. [SemResposta EXCEPT !.codigo = 500] = erro
      BY DEF SemResposta
    <3>3. r = [erro EXCEPT !.casavam = casam]
      BY <3>1, <3>2, Zenon
    <3> HIDE DEF casam
    <3> QED
      BY <3>3
  <2> HIDE DEF casam
  <2>2. r.casavam = casam /\ r.codigo = 500
    BY <2>1
  <2>3. r \in Resposta
    BY <1>1, <2>1 DEF Resposta
  <2> QED
    BY <2>2, <2>3 DEF casam
<1>4. CASE r = PaginaLida(p)
  <2>1. r = [codigo |-> 200, total |-> total, total_paginas |-> paginas,
             itens |-> itens, casavam |-> casam]
    BY <1>4 DEF PaginaLida
  <2> HIDE DEF casam, itens, total, paginas
  <2>2. r.casavam = casam
    BY <2>1
  <2> QED
    BY <1>1, <1>2, <1>4, <2>1, <2>2 DEF Resposta, casam
<1> QED
  BY <1>3, <1>4 DEF Consultar

\* A page that is answered while the offset is an integer.
LEMMA PaginaSemEstouro ==
    ASSUME NEW p \in Pedido, (p.pagina - 1) * p.tamanho < Limite
    PROVE  LET S == CasamEm(tabela, p.filtro)
               r == PaginaLida(p)
           IN  /\ r.itens = RecorteEm(tabela, S, (p.pagina - 1) * p.tamanho, p.tamanho)
               /\ r.itens = {} => r.total_paginas = 0
               /\ r.itens # {} => r.total_paginas = TotalPaginas(Cardinality(S), p.tamanho)
<1> DEFINE d == (p.pagina - 1) * p.tamanho
           S == CasamEm(tabela, p.filtro)
           itens == RecorteEm(tabela, S, d, p.tamanho)
           total == IF itens = {} THEN 0 ELSE Cardinality(S)
           paginas == IF total > 0 THEN TotalPaginas(total, p.tamanho) ELSE 0
<1>1. Deslocamento(p) = d
  BY DeslocamentoTipo
<1>2. Casam(p.filtro) = S /\ Recorte(S, d, p.tamanho) = itens
  BY EmEstado
<1>3. PaginaLida(p) = [codigo |-> 200, total |-> total, total_paginas |-> paginas,
                       itens |-> itens, casavam |-> S]
  BY <1>1, <1>2 DEF PaginaLida
<1>4. ASSUME itens # {}
      PROVE  total = Cardinality(S) /\ total > 0
  <2>1. S # {} /\ S \in SUBSET Ids
    BY <1>4 DEF RecorteEm, CasamEm
  <2> QED
    BY <1>4, <2>1, Finitude, FS_EmptySet
<1>5. /\ itens = {} => paginas = 0
      /\ itens # {} => paginas = TotalPaginas(Cardinality(S), p.tamanho)
  BY <1>4
<1> HIDE DEF d, S, itens, total, paginas
<1>6. PaginaLida(p).itens = itens /\ PaginaLida(p).total_paginas = paginas
  BY <1>3
<1> QED
  BY <1>5, <1>6 DEF d, S, itens

(***************************************************************************)
(* The steps.                                                              *)
(***************************************************************************)

\* The first state.
LEMMA InitInv == Init => IInv
<1> SUFFICES ASSUME Init
             PROVE  IInv
  OBVIOUS
<1>1. pedido \in [Leitores -> Pedido]
  <2>1. (CHOOSE f \in Filtros : TRUE) \in Filtros
    BY PaginacaoAssumption
  <2>2. 1 \in 1 .. Limite - 1 /\ 1 \in 1 .. TamanhoMaximo
    BY PaginacaoAssumption
  <2> QED
    BY <2>1, <2>2 DEF Init, Pedido
<1>2. SemResposta \in Resposta
  BY DEF SemResposta, Resposta
<1>3. TypeOK
  BY <1>1, <1>2 DEF Init, TypeOK, Linha
<1>4. InicioInv
  BY DEF Init, InicioInv, SemResposta, LinhasDe
<1>5. PercursoInv /\ FimInv
  BY DEF Init, PercursoInv, FimInv
<1>6. PaginaPedida
  BY DEF Init, PaginaPedida, SemResposta
<1> QED
  BY <1>3, <1>4, <1>5, <1>6 DEF IInv

\* A row is created or settled: the part of the invariant about the walks.
LEMMA AlterarPercurso ==
    ASSUME IInv, NEW t \in Ids, NEW linha \in Linha, Alterar(t, linha),
           Evolui(tabela, tabela'), TypeOK'
    PROVE  PercursoInv'
<1> SUFFICES ASSUME NEW l \in Leitores, fase'[l] = "percorrendo"
             PROVE  /\ Desloc(l)' < Limite
                    /\ SoEntra(pedido'[l].filtro) =>
                          /\ desdeInicio'[l] \subseteq Atuais(l)' \ entradas'[l]
                          /\ Lidas(l)' \ entradas'[l] \subseteq vistas'[l]
                          /\ recebidas'[l] <= Cardinality(Lidas(l)')
  BY DEF PercursoInv
<1> DEFINE f == pedido[l].filtro
           S == CasamEm(tabela, f)
           S2 == CasamEm(tabela', f)
           d == Desloc(l)
<1>1. /\ pedido' = pedido /\ vistas' = vistas /\ recebidas' = recebidas
      /\ desdeInicio' = desdeInicio /\ fase' = fase
      /\ tabela' = [tabela EXCEPT ![t] = linha]
  BY DEF Alterar
<1>2. /\ d < Limite
      /\ SoEntra(f) =>
            /\ desdeInicio[l] \subseteq S \ entradas[l]
            /\ Lidas(l) \ entradas[l] \subseteq vistas[l]
            /\ recebidas[l] <= Cardinality(Lidas(l))
  BY <1>1 DEF IInv, PercursoInv, Atuais
<1>3. Desloc(l)' = d
  BY <1>1 DEF Desloc
<1>4. ASSUME SoEntra(f)
      PROVE  /\ desdeInicio[l] \subseteq S2 \ entradas'[l]
             /\ Primeiras(tabela', S2, d) \ entradas'[l] \subseteq vistas[l]
             /\ recebidas[l] <= Cardinality(Primeiras(tabela', S2, d))
  <2>1. f \in Filtros /\ d \in Nat
    BY PedidoTipo DEF IInv, TypeOK, Desloc
  <2>2. tabela \in Tabelas /\ tabela' \in Tabelas
    BY DEF IInv, TypeOK, Tabelas, Linha
  <2>3. S \subseteq S2
    BY <1>4, <2>1, CasamCresce
  <2>4. LinhasDe(tabela, S) /\ LinhasDe(tabela', S2)
    BY CasamLinhas
  <2>5. /\ Primeiras(tabela', S2, d) \cap S \subseteq Primeiras(tabela, S, d)
        /\ Cardinality(Primeiras(tabela, S, d)) <= Cardinality(Primeiras(tabela', S2, d))
    BY <2>1, <2>2, <2>3, <2>4, PrimeirasCrescem
  <2>6. /\ entradas'[l] = IF Casa(linha, f) /\ ~ Casa(tabela[t], f)
                          THEN entradas[l] \cup {t} ELSE entradas[l]
    BY <1>1 DEF Alterar
  <2>7. S2 \ S \subseteq entradas'[l]
    BY <1>1, <2>2, <2>6 DEF CasamEm, Tabelas
  <2>8. entradas'[l] \cap S \subseteq entradas[l] /\ entradas[l] \subseteq entradas'[l]
    BY <2>6 DEF CasamEm
  <2>9. Lidas(l) = Primeiras(tabela, S, d)
    BY DEF Lidas, Atuais
  <2>10. Primeiras(tabela', S2, d) \subseteq S2
    BY DEF Primeiras
  <2>11. /\ recebidas[l] \in Nat
         /\ Cardinality(Primeiras(tabela, S, d)) \in Nat
         /\ Cardinality(Primeiras(tabela', S2, d)) \in Nat
    <3>1. Primeiras(tabela, S, d) \in SUBSET Ids /\ Primeiras(tabela', S2, d) \in SUBSET Ids
      BY DEF Primeiras, CasamEm
    <3> QED
      BY <3>1, Finitude DEF IInv, TypeOK
  <2> HIDE DEF f, S, S2, d
  <2>12. desdeInicio[l] \subseteq S2 \ entradas'[l]
    BY <1>2, <1>4, <2>3, <2>8
  <2>13. Primeiras(tabela', S2, d) \ entradas'[l] \subseteq vistas[l]
    BY <1>2, <1>4, <2>5, <2>7, <2>8, <2>9, <2>10
  <2>14. recebidas[l] <= Cardinality(Primeiras(tabela', S2, d))
    BY <1>2, <1>4, <2>5, <2>9, <2>11
  <2> QED
    BY <2>12, <2>13, <2>14
<1>5. Atuais(l)' = S2 /\ Lidas(l)' = Primeiras(tabela', S2, d)
  BY <1>1, <1>3 DEF Atuais, Lidas
<1> QED
  BY <1>1, <1>2, <1>3, <1>4, <1>5

\* The rest of it.
LEMMA AlterarInv ==
    ASSUME IInv, NEW t \in Ids, NEW linha \in Linha, Alterar(t, linha),
           Evolui(tabela, tabela')
    PROVE  IInv'
<1>1. /\ fase' = fase /\ pedido' = pedido /\ resposta' = resposta /\ vistas' = vistas
      /\ recebidas' = recebidas /\ desdeInicio' = desdeInicio
  BY DEF Alterar
<1>2. \A l \in Leitores : fase[l] # "percorrendo" => entradas'[l] = entradas[l]
  BY DEF Alterar, IInv, TypeOK
<1>3. TypeOK'
  <2>1. tabela' \in [Ids -> Linha \cup {Ausente}]
    BY DEF Alterar, IInv, TypeOK, Linha
  <2>2. entradas' \in [Leitores -> SUBSET Ids]
    BY DEF Alterar, IInv, TypeOK
  <2> QED
    BY <1>1, <2>1, <2>2 DEF IInv, TypeOK, Linha
<1>4. \A l \in Leitores : LinhasDe(tabela', resposta[l].casavam)
  BY OrdemFica DEF IInv, InicioInv
<1>5. InicioInv'
  BY <1>1, <1>2, <1>4 DEF IInv, InicioInv
<1>6. PercursoInv'
  BY <1>3, AlterarPercurso
<1>7. FimInv'
  BY <1>1, <1>2 DEF IInv, FimInv
<1>8. PaginaPedida'
  <2>1. ASSUME NEW l \in Leitores, NEW d, NEW n
        PROVE  RecorteEm(tabela', resposta[l].casavam, d, n)
               = RecorteEm(tabela, resposta[l].casavam, d, n)
    BY RecorteFica DEF IInv, InicioInv
  <2>2. \A l \in Leitores :
           Recorte(resposta[l].casavam, (pedido[l].pagina - 1) * pedido[l].tamanho,
                   pedido[l].tamanho)'
           = Recorte(resposta[l].casavam, (pedido[l].pagina - 1) * pedido[l].tamanho,
                     pedido[l].tamanho)
    BY <1>1, <2>1, EmEstado, EmEstadoSeguinte
  <2> QED
    BY <1>1, <2>2 DEF IInv, PaginaPedida
<1> QED
  BY <1>3, <1>5, <1>6, <1>7, <1>8 DEF IInv

\* Criar keeps the invariant.
LEMMA CriarInv ==
    ASSUME IInv, NEW t \in Ids, NEW d \in Datas, NEW s \in {"PENDENTE", "CANCELADA"},
           Criar(t, d, s)
    PROVE  IInv'
<1>1. [data |-> d, status |-> s] \in Linha
  BY DEF Linha, Status
<1>2. Evolui(tabela, tabela')
  BY DEF Criar, Alterar, Evolui, IInv, TypeOK
<1> QED
  BY <1>1, <1>2, AlterarInv DEF Criar

\* Liquidar keeps the invariant.
LEMMA LiquidarInv ==
    ASSUME IInv, NEW t \in Ids, Liquidar(t)
    PROVE  IInv'
<1> DEFINE linha == [tabela[t] EXCEPT !.status = "LIQUIDADA"]
<1>1. tabela \in [Ids -> Linha \cup {Ausente}] /\ tabela[t] \in Linha
  BY DEF IInv, TypeOK, Linha, Liquidar
<1>2. linha \in Linha /\ linha.data = tabela[t].data /\ linha.status = "LIQUIDADA"
  BY <1>1 DEF Linha, Status
<1>3. linha # Ausente /\ Alterar(t, linha) /\ tabela[t].status = "PENDENTE"
  BY <1>2, PaginacaoAssumption DEF Linha, Liquidar
<1> HIDE DEF linha
<1>4. tabela' = [tabela EXCEPT ![t] = linha]
  BY <1>3 DEF Alterar
<1>5. Evolui(tabela, tabela')
  BY <1>1, <1>2, <1>3, <1>4 DEF Evolui
<1> QED
  BY <1>2, <1>3, <1>5, AlterarInv

\* A single request.
LEMMA PedirInv ==
    ASSUME IInv, NEW l \in Leitores, NEW p, p.filtro \in Filtros,
           p = [filtro |-> p.filtro, pagina |-> p.pagina, tamanho |-> p.tamanho],
           p.pagina \in Paginas, p.tamanho \in Tamanhos, Pedir(l, p)
    PROVE  IInv'
<1>1. p \in Pedido
  <2>1. p.pagina \in 1 .. Limite - 1 /\ p.tamanho \in 1 .. TamanhoMaximo
    BY PaginacaoAssumption DEF Pedir, Valida
  <2> QED
    BY <2>1 DEF Pedido
<1> PICK r \in Consultar(p) : resposta' = [resposta EXCEPT ![l] = r]
  BY DEF Pedir
<1>2. /\ r \in Resposta /\ r.casavam = CasamEm(tabela, p.filtro)
      /\ r.codigo = 200 => r = PaginaLida(p)
  BY <1>1, ConsultarTipo, EmEstado
<1>3. /\ fase[l] = "livre" /\ fase' = [fase EXCEPT ![l] = "respondido"]
      /\ pedido' = [pedido EXCEPT ![l] = p]
      /\ resposta' = [resposta EXCEPT ![l] = r]
      /\ tabela' = tabela /\ vistas' = vistas /\ recebidas' = recebidas
      /\ desdeInicio' = desdeInicio /\ entradas' = entradas
  BY DEF Pedir, percurso
<1>4. TypeOK'
  BY <1>1, <1>2, <1>3 DEF IInv, TypeOK
<1>5. InicioInv'
  BY <1>2, <1>3, CasamLinhas DEF IInv, InicioInv, TypeOK
<1>6. PercursoInv'
  <2>1. \A k \in Leitores : fase'[k] = "percorrendo" =>
           /\ fase[k] = "percorrendo" /\ pedido'[k] = pedido[k]
    BY <1>3 DEF IInv, TypeOK
  <2> QED
    BY <1>3, <2>1 DEF IInv, PercursoInv, Desloc, Atuais, Lidas
<1>7. FimInv'
  BY <1>3 DEF IInv, TypeOK, FimInv
<1>8. PaginaPedida'
  <2> DEFINE d == (p.pagina - 1) * p.tamanho
  <2>1. ASSUME r.codigo = 200, d < Limite
        PROVE  r.itens = RecorteEm(tabela, r.casavam, d, p.tamanho)
    BY <1>1, <1>2, <2>1, PaginaSemEstouro
  <2> HIDE DEF d
  <2>2. ASSUME NEW k \in Leitores
        PROVE  LET desloc == (pedido'[k].pagina - 1) * pedido'[k].tamanho
               IN  resposta'[k].codigo = 200 /\ desloc < Limite =>
                       resposta'[k].itens
                       = RecorteEm(tabela', resposta'[k].casavam, desloc, pedido'[k].tamanho)
    <3>1. CASE k = l
      <4>1. resposta'[k] = r /\ pedido'[k] = p /\ tabela' = tabela
        BY <1>3, <3>1 DEF IInv, TypeOK
      <4> QED
        BY <2>1, <4>1 DEF d
    <3>2. CASE k # l
      <4>1. resposta'[k] = resposta[k] /\ pedido'[k] = pedido[k] /\ tabela' = tabela
        BY <1>3, <3>2 DEF IInv, TypeOK
      <4> QED
        BY <4>1, EmEstado DEF IInv, PaginaPedida
    <3> QED
      BY <3>1, <3>2
  <2> QED
    BY <2>2, EmEstadoSeguinte DEF PaginaPedida
<1> QED
  BY <1>4, <1>5, <1>6, <1>7, <1>8 DEF IInv

\* A request that is refused.
LEMMA RecusarInv ==
    ASSUME IInv, NEW l \in Leitores, NEW p, Recusar(l, p)
    PROVE  IInv'
<1> DEFINE r == [codigo |-> 422, total |-> 0, total_paginas |-> 0, itens |-> {}, casavam |-> {}]
<1>1. /\ fase[l] = "livre" /\ fase' = [fase EXCEPT ![l] = "respondido"]
      /\ resposta' = [resposta EXCEPT ![l] = r]
      /\ pedido' = pedido /\ tabela' = tabela /\ vistas' = vistas /\ recebidas' = recebidas
      /\ desdeInicio' = desdeInicio /\ entradas' = entradas
  <2>1. [SemResposta EXCEPT !.codigo = 422] = r
    BY DEF SemResposta
  <2> HIDE DEF r
  <2> QED
    BY <2>1 DEF Recusar, percurso
<1>2. r \in Resposta /\ r.codigo = 422 /\ r.casavam = {}
  BY DEF Resposta
<1> HIDE DEF r
<1>3. TypeOK'
  BY <1>1, <1>2 DEF IInv, TypeOK
<1>4. InicioInv'
  BY <1>1, <1>2 DEF IInv, InicioInv, TypeOK, LinhasDe
<1>5. PercursoInv'
  BY <1>1 DEF IInv, PercursoInv, TypeOK, Desloc, Atuais, Lidas
<1>6. FimInv'
  BY <1>1 DEF IInv, TypeOK, FimInv
<1>7. PaginaPedida'
  <2>1. \A k \in Leitores : IF k = l THEN resposta'[k] = r ELSE resposta'[k] = resposta[k]
    BY <1>1 DEF IInv, TypeOK
  <2> QED
    BY <1>1, <1>2, <2>1, EmEstado, EmEstadoSeguinte DEF IInv, PaginaPedida
<1> QED
  BY <1>3, <1>4, <1>5, <1>6, <1>7 DEF IInv

\* A walk starts.
LEMMA IniciarInv ==
    ASSUME IInv, NEW l \in Leitores, NEW f \in Filtros, NEW n \in Tamanhos, Iniciar(l, f, n)
    PROVE  IInv'
<1> DEFINE p == [filtro |-> f, pagina |-> 1, tamanho |-> n]
<1>1. p \in Pedido /\ p.filtro = f /\ p.pagina = 1 /\ n \in Nat
  BY PaginacaoAssumption DEF Iniciar, Valida, Pedido
<1>2. /\ fase[l] = "livre" /\ fase' = [fase EXCEPT ![l] = "percorrendo"]
      /\ pedido' = [pedido EXCEPT ![l] = p]
      /\ desdeInicio' = [desdeInicio EXCEPT ![l] = CasamEm(tabela, f)]
      /\ resposta' = resposta /\ tabela' = tabela /\ vistas' = vistas
      /\ recebidas' = recebidas /\ entradas' = entradas
  BY EmEstado DEF Iniciar
<1> HIDE DEF p
<1>3. TypeOK'
  <2>1. CasamEm(tabela, f) \in SUBSET Ids
    BY DEF CasamEm
  <2> QED
    BY <1>1, <1>2, <2>1 DEF IInv, TypeOK
<1>4. InicioInv'
  BY <1>2 DEF IInv, InicioInv, TypeOK
<1>5. PercursoInv'
  <2> SUFFICES ASSUME NEW k \in Leitores, fase'[k] = "percorrendo"
               PROVE  /\ Desloc(k)' < Limite
                      /\ SoEntra(pedido'[k].filtro) =>
                            /\ desdeInicio'[k] \subseteq Atuais(k)' \ entradas'[k]
                            /\ Lidas(k)' \ entradas'[k] \subseteq vistas'[k]
                            /\ recebidas'[k] <= Cardinality(Lidas(k)')
    BY DEF PercursoInv
  <2>1. CASE k = l
    <3>1. /\ pedido'[k] = p /\ desdeInicio'[k] = CasamEm(tabela, f)
          /\ recebidas'[k] = 0 /\ entradas'[k] = {}
      BY <1>2, <2>1 DEF IInv, TypeOK, InicioInv
    <3>2. Desloc(k)' = 0
      <4>1. Desloc(k)' = (p.pagina - 1) * p.tamanho
        BY <3>1 DEF Desloc
      <4>2. p.tamanho \in Nat
        BY <1>1, PedidoTipo
      <4> QED
        BY <1>1, <4>1, <4>2
    <3>3. Atuais(k)' = CasamEm(tabela, f)
      BY <1>1, <1>2, <3>1 DEF Atuais
    <3>4. Lidas(k)' = {}
      <4>1. Lidas(k)' = Primeiras(tabela, CasamEm(tabela, f), 0)
        BY <1>2, <3>2, <3>3 DEF Lidas
      <4>2. \A t : Lugar(tabela, CasamEm(tabela, f), t) \in Nat
        BY LugarTipo DEF CasamEm
      <4> QED
        BY <4>1, <4>2 DEF Primeiras
    <3> QED
      BY <3>1, <3>2, <3>3, <3>4, FS_EmptySet, PaginacaoAssumption
  <2>2. CASE k # l
    <3>1. /\ fase[k] = "percorrendo" /\ pedido'[k] = pedido[k]
          /\ desdeInicio'[k] = desdeInicio[k]
      BY <1>2, <2>2 DEF IInv, TypeOK
    <3> QED
      BY <1>2, <3>1 DEF IInv, PercursoInv, Desloc, Atuais, Lidas
  <2> QED
    BY <2>1, <2>2
<1>6. FimInv'
  BY <1>2 DEF IInv, TypeOK, FimInv
<1>7. PaginaPedida'
  <2>1. \A k \in Leitores : \/ k # l /\ pedido'[k] = pedido[k]
                            \/ resposta[k] = SemResposta
    BY <1>2 DEF IInv, TypeOK, InicioInv
  <2>2. SemResposta.codigo = 0
    BY DEF SemResposta
  <2> QED
    BY <1>2, <2>1, <2>2, EmEstado, EmEstadoSeguinte DEF IInv, PaginaPedida
<1> QED
  BY <1>3, <1>4, <1>5, <1>6, <1>7 DEF IInv

\* A page is read: what the caller knows of the rows before the next page.
LEMMA LerPaginaConhece ==
    ASSUME IInv, NEW l \in Leitores, fase[l] = "percorrendo"
    PROVE  LET S == Atuais(l)
               r == PaginaLida(pedido[l])
               n == pedido[l].tamanho
               lidas == Primeiras(tabela, S, Desloc(l) + n)
           IN  /\ SoEntra(pedido[l].filtro) =>
                     /\ lidas \ entradas[l] \subseteq vistas[l] \cup r.itens
                     /\ recebidas[l] + Cardinality(r.itens) <= Cardinality(lidas)
               /\ pedido[l].pagina >= r.total_paginas => lidas = S
               /\ pedido[l].pagina < r.total_paginas => Desloc(l) + n < Cardinality(S)
<1> DEFINE p == pedido[l]
           d == Desloc(l)
           n == p.tamanho
           k == p.pagina
           S == Atuais(l)
           r == PaginaLida(p)
           N == Cardinality(S)
           lidas == Primeiras(tabela, S, d + n)
<1>1. p \in Pedido /\ tabela \in Tabelas /\ recebidas[l] \in Nat
  BY DEF IInv, TypeOK, Tabelas, Linha
<1>2. /\ k \in Nat \ {0} /\ n \in Nat \ {0} /\ d \in Nat /\ d = (k - 1) * n
  BY <1>1, PedidoTipo DEF Desloc
<1>3. LinhasDe(tabela, S) /\ S \in SUBSET Ids /\ N \in Nat
  BY CasamLinhas, Finitude DEF Atuais, LinhasDe
<1>4. /\ r.itens = RecorteEm(tabela, S, d, n)
      /\ r.itens = {} => r.total_paginas = 0
      /\ r.itens # {} => r.total_paginas = TotalPaginas(N, n)
  BY <1>1, PaginaSemEstouro DEF IInv, PercursoInv, Desloc, Atuais
<1> HIDE DEF p, d, n, k, S, r, N
<1>5. /\ lidas = Primeiras(tabela, S, d) \cup r.itens
      /\ Cardinality(r.itens) \in Nat
      /\ Cardinality(lidas) = Cardinality(Primeiras(tabela, S, d)) + Cardinality(r.itens)
      /\ r.itens = {} => N <= d
  <2>1. /\ lidas = Primeiras(tabela, S, d) \cup RecorteEm(tabela, S, d, n)
        /\ Cardinality(RecorteEm(tabela, S, d, n)) \in Nat
        /\ Cardinality(lidas) = Cardinality(Primeiras(tabela, S, d))
                                + Cardinality(RecorteEm(tabela, S, d, n))
        /\ RecorteEm(tabela, S, d, n) = {} /\ n > 0 => Cardinality(S) <= d
    <3>1. tabela \in Tabelas /\ LinhasDe(tabela, S) /\ d \in Nat /\ n \in Nat
      BY <1>1, <1>2, <1>3
    <3> QED
      BY <3>1, Pagina
  <2>2. n > 0
    BY <1>2
  <2> HIDE DEF lidas
  <2> QED
    BY <1>4, <2>1, <2>2 DEF N
<1>6. ASSUME SoEntra(p.filtro)
      PROVE  /\ lidas \ entradas[l] \subseteq vistas[l] \cup r.itens
             /\ recebidas[l] + Cardinality(r.itens) <= Cardinality(lidas)
  <2>1. /\ Primeiras(tabela, S, d) \ entradas[l] \subseteq vistas[l]
        /\ recebidas[l] <= Cardinality(Primeiras(tabela, S, d))
    BY <1>6 DEF IInv, PercursoInv, Lidas, p, S, d
  <2>2. Cardinality(Primeiras(tabela, S, d)) \in Nat
    BY <1>3, Finitude DEF Primeiras
  <2> QED
    BY <1>1, <1>5, <2>1, <2>2
<1>7. ASSUME k >= r.total_paginas
      PROVE  lidas = S
  <2>1. N <= d + n
    <3>1. CASE r.itens = {}
      BY <1>2, <1>3, <1>5, <3>1
    <3>2. CASE r.itens # {}
      <4>1. N <= n * TotalPaginas(N, n) /\ TotalPaginas(N, n) \in Nat
        BY <1>2, <1>3, Teto
      <4>2. TotalPaginas(N, n) <= k
        BY <1>4, <1>7, <3>2, <1>2, <4>1
      <4>3. n * TotalPaginas(N, n) <= n * k
        BY <1>2, <4>1, <4>2
      <4> QED
        BY <1>2, <1>3, <4>1, <4>3
    <3> QED
      BY <3>1, <3>2
  <2> QED
    BY <1>1, <1>2, <1>3, <2>1, Todas DEF N
<1>8. ASSUME k < r.total_paginas
      PROVE  d + n < N
  <2>1. r.itens # {}
    BY <1>2, <1>4, <1>8
  <2>2. n * TotalPaginas(N, n) <= N + n - 1 /\ TotalPaginas(N, n) \in Nat
    BY <1>2, <1>3, Teto
  <2>3. k + 1 <= TotalPaginas(N, n)
    BY <1>2, <1>4, <1>8, <2>1, <2>2
  <2>4. n * (k + 1) <= n * TotalPaginas(N, n)
    BY <1>2, <2>2, <2>3
  <2> QED
    BY <1>2, <1>3, <2>2, <2>4
<1> QED
  BY <1>6, <1>7, <1>8 DEF p, n, k, S, r, d, N

\* LerPagina keeps the invariant.
LEMMA LerPaginaInv ==
    ASSUME IInv, NEW l \in Leitores, LerPagina(l)
    PROVE  IInv'
<1> DEFINE p == pedido[l]
           r == PaginaLida(p)
           n == p.tamanho
           S == Atuais(l)
           lidas == Primeiras(tabela, S, Desloc(l) + n)
           fim == p.pagina >= r.total_paginas
           q == [p EXCEPT !.pagina = IF fim THEN @ ELSE @ + 1]
<1>1. /\ fase[l] = "percorrendo"
      /\ vistas' = [vistas EXCEPT ![l] = @ \cup r.itens]
      /\ recebidas' = [recebidas EXCEPT ![l] = @ + Cardinality(r.itens)]
      /\ fase' = [fase EXCEPT ![l] = IF fim THEN "terminou" ELSE @]
      /\ pedido' = [pedido EXCEPT ![l] = q]
      /\ tabela' = tabela /\ resposta' = resposta /\ desdeInicio' = desdeInicio
      /\ entradas' = entradas
  <2>1. r \in Consultar(p) /\ \A x \in Consultar(p) : x.codigo = 200 => x = r
    <3>1. p \in Pedido
      BY DEF IInv, TypeOK
    <3>2. \A x \in Consultar(p) : x.codigo = 200 => x = r
      BY <3>1, ConsultarTipo
    <3>3. \E x \in Consultar(p) : x.codigo = 200
      BY DEF LerPagina
    <3> QED
      BY <3>2, <3>3
  <2> HIDE DEF r
  <2> QED
    BY <2>1 DEF LerPagina
<1>2. p \in Pedido /\ r \in Resposta /\ S \in SUBSET Ids
  <2>1. p \in Pedido /\ S \in SUBSET Ids
    BY DEF IInv, TypeOK, Atuais, CasamEm
  <2>2. PICK x \in Consultar(p) : x.codigo = 200
    BY DEF LerPagina
  <2> QED
    BY <2>1, <2>2, ConsultarTipo
<1>3. /\ p.filtro \in Filtros /\ p.pagina \in Nat \ {0} /\ n \in Nat \ {0}
      /\ Desloc(l) \in Nat /\ Desloc(l) = (p.pagina - 1) * n
      /\ Limite \in Nat \ {0} /\ TamanhoMaximo \in Nat /\ n <= TamanhoMaximo
  BY <1>2, PedidoTipo DEF Desloc
<1>4. /\ SoEntra(p.filtro) =>
            /\ lidas \ entradas[l] \subseteq vistas[l] \cup r.itens
            /\ recebidas[l] + Cardinality(r.itens) <= Cardinality(lidas)
      /\ fim => lidas = S
      /\ ~ fim => Desloc(l) + n < Cardinality(S)
  <2>1. r.total_paginas \in Nat
    BY <1>2 DEF Resposta
  <2> QED
    BY <1>1, <1>3, <2>1, LerPaginaConhece
<1>5. /\ q.filtro = p.filtro /\ q.tamanho = n
      /\ q.pagina = IF fim THEN p.pagina ELSE p.pagina + 1
      /\ q = [filtro |-> q.filtro, pagina |-> q.pagina, tamanho |-> q.tamanho]
  BY <1>2 DEF Pedido
<1>6. /\ r.itens \in SUBSET Ids /\ Cardinality(r.itens) \in Nat
  BY <1>2, Finitude DEF Resposta
<1>7. ASSUME ~ fim
      PROVE  Desloc(l) + n < Limite /\ q.pagina < Limite
  <2>1. Cardinality(S) <= Cardinality(Ids) /\ Cardinality(Ids) < Limite
        /\ Cardinality(S) \in Nat /\ Cardinality(Ids) \in Nat
    BY <1>2, Finitude, PaginacaoAssumption
  <2>2. Desloc(l) + n < Limite - 1
    BY <1>3, <1>4, <1>7, <2>1
  <2>3. Desloc(l) + n = p.pagina * n
    BY <1>3
  <2>4. p.pagina <= p.pagina * n
    BY <1>3
  <2> QED
    BY <1>3, <1>5, <1>7, <2>2, <2>3, <2>4
<1>8. q \in Pedido
  <2>1. q.pagina \in 1 .. Limite - 1
    BY <1>2, <1>3, <1>5, <1>7 DEF Pedido
  <2>2. q.tamanho \in 1 .. TamanhoMaximo
    BY <1>3, <1>5
  <2> HIDE DEF q
  <2> QED
    BY <1>3, <1>5, <2>1, <2>2 DEF Pedido
<1> HIDE DEF p, r, n, S, fim, q
<1>9. TypeOK'
  BY <1>1, <1>6, <1>8 DEF IInv, TypeOK
<1>10. InicioInv'
  BY <1>1 DEF IInv, InicioInv, TypeOK
<1>11. ASSUME SoEntra(p.filtro)
       PROVE  /\ desdeInicio[l] \subseteq S \ entradas[l]
              /\ recebidas'[l] = recebidas[l] + Cardinality(r.itens)
              /\ vistas'[l] = vistas[l] \cup r.itens
  BY <1>1, <1>11 DEF IInv, PercursoInv, TypeOK, p, S
<1>12. PercursoInv'
  <2> SUFFICES ASSUME NEW k \in Leitores, fase'[k] = "percorrendo"
               PROVE  /\ Desloc(k)' < Limite
                      /\ SoEntra(pedido'[k].filtro) =>
                            /\ desdeInicio'[k] \subseteq Atuais(k)' \ entradas'[k]
                            /\ Lidas(k)' \ entradas'[k] \subseteq vistas'[k]
                            /\ recebidas'[k] <= Cardinality(Lidas(k)')
    BY DEF PercursoInv
  <2>1. CASE k = l
    <3>1. ~ fim /\ pedido'[k] = q
      BY <1>1, <2>1 DEF IInv, TypeOK
    <3>2. Desloc(k)' = Desloc(l) + n
      <4>1. Desloc(k)' = (q.pagina - 1) * q.tamanho
        BY <3>1 DEF Desloc
      <4> QED
        BY <1>3, <1>5, <3>1, <4>1
    <3>3. Atuais(k)' = S
      BY <1>1, <1>5, <3>1 DEF Atuais, S, p
    <3>4. Lidas(k)' = lidas
      BY <1>1, <3>2, <3>3 DEF Lidas
    <3>5. pedido'[k].filtro = p.filtro
      BY <1>5, <3>1
    <3> HIDE DEF lidas
    <3> QED
      BY <1>1, <1>4, <1>7, <1>11, <2>1, <3>1, <3>2, <3>3, <3>4, <3>5
  <2>2. CASE k # l
    <3>1. /\ fase[k] = "percorrendo" /\ pedido'[k] = pedido[k]
          /\ vistas'[k] = vistas[k] /\ recebidas'[k] = recebidas[k]
      BY <1>1, <2>2 DEF IInv, TypeOK
    <3> QED
      BY <1>1, <3>1 DEF IInv, PercursoInv, Desloc, Atuais, Lidas
  <2> QED
    BY <2>1, <2>2
<1>13. FimInv'
  <2> SUFFICES ASSUME NEW k \in Leitores, fase'[k] \in {"terminou", "desistiu"},
                      SoEntra(pedido'[k].filtro)
               PROVE  /\ fase'[k] = "terminou" => desdeInicio'[k] \subseteq vistas'[k]
                      /\ recebidas'[k] <= Cardinality(vistas'[k]) + Cardinality(entradas'[k])
    BY DEF FimInv
  <2>1. CASE k = l
    <3>1. fim /\ pedido'[k] = q
      BY <1>1, <2>1 DEF IInv, TypeOK
    <3>2. SoEntra(p.filtro) /\ lidas = S
      BY <1>4, <1>5, <3>1
    <3>3. S \ entradas[l] \subseteq vistas'[l] /\ recebidas'[l] <= Cardinality(S)
      BY <1>4, <1>11, <3>2
    <3>4. /\ vistas'[l] \in SUBSET Ids /\ entradas'[l] \in SUBSET Ids /\ entradas'[l] = entradas[l]
          /\ recebidas'[l] \in Nat
      BY <1>1, <1>9 DEF TypeOK
    <3>5. Cardinality(S) <= Cardinality(vistas'[l]) + Cardinality(entradas'[l])
      <4>1. S \in SUBSET (vistas'[l] \cup entradas'[l])
        BY <3>3, <3>4
      <4>2. /\ IsFiniteSet(vistas'[l]) /\ IsFiniteSet(entradas'[l])
            /\ Cardinality(vistas'[l]) \in Nat /\ Cardinality(entradas'[l]) \in Nat
        BY <3>4, Finitude
      <4>3. /\ IsFiniteSet(vistas'[l] \cup entradas'[l])
            /\ Cardinality(vistas'[l] \cup entradas'[l])
               = Cardinality(vistas'[l]) + Cardinality(entradas'[l])
                 - Cardinality(vistas'[l] \cap entradas'[l])
        BY <4>2, FS_Union
      <4>4. Cardinality(vistas'[l] \cap entradas'[l]) \in Nat
        BY <3>4, Finitude
      <4>5. /\ Cardinality(S) <= Cardinality(vistas'[l] \cup entradas'[l])
            /\ Cardinality(S) \in Nat
        BY <1>2, <4>1, <4>3, FS_Subset, Finitude
      <4> QED
        BY <4>2, <4>3, <4>4, <4>5
    <3>6. Cardinality(S) \in Nat /\ Cardinality(vistas'[l]) \in Nat
          /\ Cardinality(entradas'[l]) \in Nat
      BY <1>2, <3>4, Finitude
    <3> QED
      BY <1>1, <1>11, <2>1, <3>2, <3>3, <3>4, <3>5, <3>6
  <2>2. CASE k # l
    <3>1. /\ fase'[k] = fase[k] /\ pedido'[k] = pedido[k]
          /\ vistas'[k] = vistas[k] /\ recebidas'[k] = recebidas[k]
      BY <1>1, <2>2 DEF IInv, TypeOK
    <3> QED
      BY <1>1, <3>1 DEF IInv, FimInv
  <2> QED
    BY <2>1, <2>2
<1>14. PaginaPedida'
  <2>1. \A k \in Leitores : \/ k # l /\ pedido'[k] = pedido[k]
                            \/ resposta[k] = SemResposta
    BY <1>1 DEF IInv, TypeOK, InicioInv
  <2>2. SemResposta.codigo = 0
    BY DEF SemResposta
  <2> QED
    BY <1>1, <2>1, <2>2, EmEstado, EmEstadoSeguinte DEF IInv, PaginaPedida
<1> QED
  BY <1>9, <1>10, <1>12, <1>13, <1>14 DEF IInv

\* While a walk lasts its caller has been sent one row twice at most for each
\* that came in.
LEMMA PercursoRepetePouco ==
    ASSUME IInv, NEW l \in Leitores, fase[l] = "percorrendo", SoEntra(pedido[l].filtro)
    PROVE  recebidas[l] <= Cardinality(vistas[l]) + Cardinality(entradas[l])
<1>1. /\ vistas[l] \in SUBSET Ids /\ entradas[l] \in SUBSET Ids
      /\ recebidas[l] \in Nat
  BY DEF IInv, TypeOK
<1>2. /\ IsFiniteSet(vistas[l]) /\ Cardinality(vistas[l]) \in Nat
      /\ IsFiniteSet(entradas[l]) /\ Cardinality(entradas[l]) \in Nat
  BY <1>1, Finitude
<1>3. /\ Lidas(l) \ entradas[l] \subseteq vistas[l]
      /\ recebidas[l] <= Cardinality(Lidas(l))
  BY DEF IInv, PercursoInv
<1>4. Lidas(l) \in SUBSET (vistas[l] \cup entradas[l])
  BY <1>3
<1>5. /\ IsFiniteSet(vistas[l] \cup entradas[l])
      /\ Cardinality(vistas[l] \cup entradas[l])
         = Cardinality(vistas[l]) + Cardinality(entradas[l])
           - Cardinality(vistas[l] \cap entradas[l])
  BY <1>2, FS_Union
<1>6. /\ Cardinality(vistas[l] \cap entradas[l]) \in Nat
      /\ Cardinality(Lidas(l)) \in Nat
  BY <1>1, <1>4, Finitude
<1>7. Cardinality(Lidas(l)) <= Cardinality(vistas[l] \cup entradas[l])
  BY <1>4, <1>5, FS_Subset
<1> QED
  BY <1>1, <1>2, <1>3, <1>5, <1>6, <1>7

\* Desistir keeps the invariant.
LEMMA DesistirInv ==
    ASSUME IInv, NEW l \in Leitores, Desistir(l)
    PROVE  IInv'
<1>1. /\ fase[l] = "percorrendo"
      /\ fase' = [fase EXCEPT ![l] = "desistiu"]
      /\ tabela' = tabela /\ pedido' = pedido /\ resposta' = resposta
      /\ vistas' = vistas /\ recebidas' = recebidas /\ desdeInicio' = desdeInicio
      /\ entradas' = entradas
  BY DEF Desistir, percurso
<1>2. fase'[l] = "desistiu" /\ \A k \in Leitores : k # l => fase'[k] = fase[k]
  BY <1>1 DEF IInv, TypeOK
<1>3. TypeOK'
  BY <1>1 DEF IInv, TypeOK
<1>4. InicioInv'
  BY <1>1, <1>2 DEF IInv, InicioInv
<1>5. PercursoInv'
  <2> SUFFICES ASSUME NEW k \in Leitores, fase'[k] = "percorrendo"
               PROVE  /\ Desloc(k)' < Limite
                      /\ SoEntra(pedido'[k].filtro) =>
                            /\ desdeInicio'[k] \subseteq Atuais(k)' \ entradas'[k]
                            /\ Lidas(k)' \ entradas'[k] \subseteq vistas'[k]
                            /\ recebidas'[k] <= Cardinality(Lidas(k)')
    BY DEF PercursoInv
  <2>1. fase[k] = "percorrendo"
    BY <1>2
  <2> QED
    BY <1>1, <2>1 DEF IInv, PercursoInv, Desloc, Atuais, Lidas
<1>6. FimInv'
  <2> SUFFICES ASSUME NEW k \in Leitores, fase'[k] \in {"terminou", "desistiu"},
                      SoEntra(pedido'[k].filtro)
               PROVE  /\ fase'[k] = "terminou" => desdeInicio'[k] \subseteq vistas'[k]
                      /\ recebidas'[k] <= Cardinality(vistas'[k]) + Cardinality(entradas'[k])
    BY DEF FimInv
  <2>1. CASE k = l
    BY <1>1, <1>2, <2>1, PercursoRepetePouco
  <2>2. CASE k # l
    BY <1>1, <1>2, <2>2 DEF IInv, FimInv
  <2> QED
    BY <2>1, <2>2
<1>7. PaginaPedida'
  BY <1>1, EmEstado, EmEstadoSeguinte DEF IInv, PaginaPedida
<1> QED
  BY <1>3, <1>4, <1>5, <1>6, <1>7 DEF IInv

(***************************************************************************)
(* Theorems.                                                               *)
(***************************************************************************)

\* The invariant is inductive.
THEOREM Invariante == Spec => []IInv
<1>1. Init => IInv
  BY InitInv
<1>2. IInv /\ [Next]_vars => IInv'
  <2> SUFFICES ASSUME IInv, [Next]_vars
               PROVE  IInv'
    OBVIOUS
  <2>1. ASSUME NEW t \in Ids, NEW d \in Datas, NEW s \in {"PENDENTE", "CANCELADA"},
               Criar(t, d, s)
        PROVE  IInv'
    BY <2>1, CriarInv
  <2>2. ASSUME NEW t \in Ids, Liquidar(t)
        PROVE  IInv'
    BY <2>2, LiquidarInv
  <2>3. ASSUME NEW l \in Leitores, NEW f \in Filtros, NEW n \in Tamanhos, Iniciar(l, f, n)
        PROVE  IInv'
    BY <2>3, IniciarInv
  <2>4. ASSUME NEW l \in Leitores, NEW f \in Filtros, NEW n \in Tamanhos, NEW k \in Paginas,
               LET q == [filtro |-> f, pagina |-> k, tamanho |-> n]
               IN  Pedir(l, q) \/ Recusar(l, q)
        PROVE  IInv'
    <3> DEFINE q == [filtro |-> f, pagina |-> k, tamanho |-> n]
    <3>1. /\ q.filtro = f /\ q.pagina = k /\ q.tamanho = n
          /\ q = [filtro |-> q.filtro, pagina |-> q.pagina, tamanho |-> q.tamanho]
      OBVIOUS
    <3>2. Pedir(l, q) \/ Recusar(l, q)
      BY <2>4
    <3> HIDE DEF q
    <3>3. CASE Pedir(l, q)
      BY <3>1, <3>3, PedirInv
    <3>4. CASE Recusar(l, q)
      BY <3>4, RecusarInv
    <3> QED
      BY <3>2, <3>3, <3>4
  <2>5. ASSUME NEW l \in Leitores, LerPagina(l)
        PROVE  IInv'
    BY <2>5, LerPaginaInv
  <2>6. ASSUME NEW l \in Leitores, Desistir(l)
        PROVE  IInv'
    BY <2>6, DesistirInv
  <2>7. CASE UNCHANGED vars
    <3>1. /\ tabela' = tabela /\ fase' = fase /\ pedido' = pedido /\ resposta' = resposta
          /\ vistas' = vistas /\ recebidas' = recebidas /\ desdeInicio' = desdeInicio
          /\ entradas' = entradas
      BY <2>7 DEF vars, percurso
    <3>2. TypeOK' /\ InicioInv' /\ FimInv'
      BY <3>1 DEF IInv, TypeOK, InicioInv, FimInv
    <3>3. PercursoInv'
      BY <3>1 DEF IInv, PercursoInv, Desloc, Atuais, Lidas
    <3>4. PaginaPedida'
      BY <3>1, EmEstado, EmEstadoSeguinte DEF IInv, PaginaPedida
    <3> QED
      BY <3>2, <3>3, <3>4 DEF IInv
  <2> QED
    BY <2>1, <2>2, <2>3, <2>4, <2>5, <2>6, <2>7 DEF Next
<1> QED
  BY <1>1, <1>2, PTL DEF Spec

\* Every variable holds what it should.
THEOREM Tipo == Spec => []TypeOK
<1>1. IInv => TypeOK
  BY DEF IInv
<1> QED
  BY <1>1, Invariante, PTL

\* A walk misses no row that was there when it started, for any number of rows
\* and any page size, whatever is created or settled meanwhile.
THEOREM NadaSePula == Spec => []SemSalto
<1>1. IInv => SemSalto
  BY DEF IInv, FimInv, SemSalto
<1> QED
  BY <1>1, Invariante, PTL

\* A walk repeats one row at most for each that came in since it started.
THEOREM PoucoSeRepete == Spec => []RepeticoesLimitadas
<1>1. ASSUME IInv, NEW l \in Leitores, SoEntra(pedido[l].filtro)
      PROVE  recebidas[l] - Cardinality(vistas[l]) <= Cardinality(entradas[l])
  <2>1. /\ vistas[l] \in SUBSET Ids /\ entradas[l] \in SUBSET Ids
        /\ recebidas[l] \in Nat
        /\ fase[l] \in {"livre", "respondido", "percorrendo", "terminou", "desistiu"}
    BY <1>1 DEF IInv, TypeOK
  <2>2. /\ IsFiniteSet(vistas[l]) /\ Cardinality(vistas[l]) \in Nat
        /\ IsFiniteSet(entradas[l]) /\ Cardinality(entradas[l]) \in Nat
    BY <2>1, Finitude
  <2>3. CASE fase[l] = "percorrendo"
    BY <1>1, <2>1, <2>2, <2>3, PercursoRepetePouco
  <2>4. CASE fase[l] \in {"terminou", "desistiu"}
    BY <1>1, <2>1, <2>2, <2>4 DEF IInv, FimInv
  <2>5. CASE fase[l] \in {"livre", "respondido"}
    BY <1>1, <2>2, <2>5 DEF IInv, InicioInv
  <2> QED
    BY <2>1, <2>3, <2>4, <2>5
<1>2. IInv => RepeticoesLimitadas
  BY <1>1 DEF RepeticoesLimitadas
<1> QED
  BY <1>2, Invariante, PTL

\* A page that is answered is the one that was asked for, all of it, wherever a
\* reading may break off, as long as its offset is an integer.
THEOREM PaginaCerta == Spec => []PaginaPedida
<1>1. IInv => PaginaPedida
  BY DEF IInv
<1> QED
  BY <1>1, Invariante, PTL
================================================================================
