-------------------------- MODULE ClienteCambioProofs --------------------------
(***************************************************************************)
(* Proofs about ClienteCambio, for any number of callers and any number of *)
(* failures that opens the circuit.                                        *)
(***************************************************************************)
EXTENDS ClienteCambio, TLAPS

(***************************************************************************)
(* The inductive invariant.                                                *)
(***************************************************************************)

\* The counter tells the truth about the history: that many results at its end
\* are failures. A circuit that is not closed has neither.
ContagemInv ==
    /\ estado = "fechado" =>
          /\ falhas <= Len(ultimas)
          /\ \A k \in 1..Len(ultimas) : k > Len(ultimas) - falhas => ultimas[k] = "falha"
    /\ estado # "fechado" => falhas = 0 /\ ultimas = <<>>

IInv == TypeOK /\ FichaNuncaPerdida /\ ContagemInv

\* The calls that are out.
Fora == {c \in Chamadores : NaRede(c)}

-------------------------------------------------------------------------------
(* Frames.                                                                 *)

\* Whoever is authorized is out, and nobody is out who is not authorized or old.
LEMMA ForaPartida ==
    ASSUME TypeOK
    PROVE  Autorizadas = Fora \ antigas /\ antigas \subseteq Fora
BY DEF TypeOK, Autorizadas, Fora

\* A step that leaves the circuit, its counts and the calls that are out alone
\* changes nothing the invariant speaks of.
LEMMA Quadro ==
    ASSUME IInv, TypeOK', Fora' = Fora,
           UNCHANGED <<estado, falhas, tentativas, antigas, ultimas>>
    PROVE  IInv' /\ Autorizadas' = Autorizadas
<1>1. Autorizadas' = Autorizadas
  BY DEF Autorizadas, Fora
<1>2. FichaNuncaPerdida'
  BY <1>1 DEF IInv, FichaNuncaPerdida
<1>3. ContagemInv'
  BY DEF IInv, ContagemInv
<1> QED
  BY <1>1, <1>2, <1>3 DEF IInv

\* A new generation of the circuit: nothing is counted, every other call that is
\* out is old.
LEMMA NovaGeracaoInv ==
    ASSUME IInv, NEW c \in Chamadores, NEW novo \in {"fechado", "aberto", "meioAberto"},
           NovaGeracao(novo, c), pc' \in [Chamadores -> {"livre", "pedir", "naRede", "voltou"}],
           tentativas' \in {0, 1},
           \A d \in Chamadores \ {c} : pc'[d] = pc[d],
           UNCHANGED <<url, provedor, resultado>>
    PROVE  /\ TypeOK' /\ ContagemInv'
           /\ Autorizadas' = {c} \cap Fora'
<1> USE DEF NovaGeracao, NaRede, Fora
<1>1. antigas' = Fora' \ {c}
  OBVIOUS
<1>2. ultimas' \in Seq({"taxa", "falha"}) /\ Len(ultimas') = 0 /\ 0 < Limite /\ 0 \in 0..(Limite - 1)
  BY ClienteAssumption
<1>3. TypeOK'
  BY <1>1, <1>2 DEF IInv, TypeOK
<1>4. ContagemInv'
  BY <1>2 DEF ContagemInv
<1>5. Autorizadas' = {c} \cap Fora'
  BY <1>1 DEF Autorizadas
<1> QED
  BY <1>3, <1>4, <1>5

\* The circuit starts closed, with nobody out.
LEMMA InicioInv == Init => IInv
<1> SUFFICES ASSUME Init PROVE IInv
  OBVIOUS
<1>1. ultimas \in Seq({"taxa", "falha"}) /\ Len(ultimas) = 0 /\ 0 < Limite /\ 0 \in 0..(Limite - 1)
  BY ClienteAssumption DEF Init
<1>2. TypeOK
  BY <1>1 DEF Init, TypeOK
<1>3. FichaNuncaPerdida /\ ContagemInv
  BY <1>1 DEF Init, FichaNuncaPerdida, ContagemInv
<1> QED
  BY <1>2, <1>3 DEF IInv

-------------------------------------------------------------------------------
(* What each step does to the circuit and to the calls it authorized.      *)

\* The steps the breaker takes no part in.
Alheio ==
    \/ Expirar \/ Oscilar
    \/ \E c \in Chamadores :
          \/ Chamar(c) \/ RecusarURL(c) \/ Rejeitar(c)
          \/ buscarTaxa(c) \/ Esgotar(c) \/ Cancelar(c)

\* They leave the circuit, and the calls it authorized, as they are.
LEMMA AlheioInv ==
    ASSUME IInv, Alheio PROVE IInv' /\ UNCHANGED <<estado, Autorizadas>>
<1> USE DEF disjuntor, NaRede
<1>1. /\ UNCHANGED <<estado, falhas, tentativas, antigas, ultimas>>
      /\ url' = url /\ provedor' \in Saudes /\ expirou' \in BOOLEAN
  BY DEF Alheio, Expirar, Oscilar, Chamar, RecusarURL, Rejeitar, buscarTaxa, Esgotar,
         Cancelar, Voltar, IInv, TypeOK
<1>2. /\ pc' \in [Chamadores -> {"livre", "pedir", "naRede", "voltou"}]
      /\ \A d \in Chamadores : NaRede(d)' = NaRede(d)
  <2>1. CASE pc' = pc
    BY <2>1 DEF IInv, TypeOK
  <2>2. ASSUME NEW c \in Chamadores, Chamar(c) \/ RecusarURL(c) \/ Rejeitar(c)
        PROVE  <1>2!:
    BY <2>2 DEF Chamar, RecusarURL, Rejeitar, IInv, TypeOK
  <2>3. ASSUME NEW c \in Chamadores, NEW r, Voltar(c, r) PROVE <1>2!:
    BY <2>3 DEF Voltar, IInv, TypeOK
  <2> QED
    BY <2>1, <2>2, <2>3 DEF Alheio, Expirar, Oscilar, buscarTaxa, Esgotar, Cancelar
<1>3. resultado' \in [Chamadores -> {"taxa", "falha"}]
  BY DEF Alheio, Expirar, Oscilar, Chamar, RecusarURL, Rejeitar, buscarTaxa, Esgotar,
         Cancelar, Voltar, IInv, TypeOK
<1>4. Fora' = Fora
  BY <1>2 DEF Fora
<1>5. TypeOK'
  <2>1. antigas' \subseteq {c \in Chamadores : NaRede(c)'}
    BY <1>1, <1>2 DEF IInv, TypeOK
  <2>2. /\ estado' \in {"fechado", "aberto", "meioAberto"} /\ falhas' \in 0..(Limite - 1)
        /\ tentativas' \in {0, 1} /\ url' \in {"vazia", "invalida", "valida"}
        /\ ultimas' \in Seq({"taxa", "falha"}) /\ Len(ultimas') < Limite
    BY <1>1 DEF IInv, TypeOK
  <2> QED
    BY <1>1, <1>2, <1>3, <2>1, <2>2 DEF TypeOK
<1> QED
  BY <1>1, <1>4, <1>5, Quadro

\* A call is let through: as any other by a closed circuit, as the only one by a
\* circuit that is, or becomes, half-open.
LEMMA AdmitirInv ==
    ASSUME IInv, NEW c \in Chamadores, Admitir(c)
    PROVE  /\ IInv'
           /\ c \notin Autorizadas
           /\ \/ estado = "fechado" /\ estado' = estado /\ Autorizadas' = Autorizadas \cup {c}
              \/ /\ estado = "aberto" \/ (estado = "meioAberto" /\ Autorizadas = {})
                 /\ estado' = "meioAberto" /\ Autorizadas' = {c}
<1> USE DEF disjuntor, NaRede, Admitir
<1>1. /\ c \notin Fora /\ Fora' = Fora \cup {c}
      /\ pc' \in [Chamadores -> {"livre", "pedir", "naRede", "voltou"}]
      /\ \A d \in Chamadores \ {c} : pc'[d] = pc[d]
  BY DEF IInv, TypeOK, Fora
<1>2. Autorizadas = Fora \ antigas /\ antigas \subseteq Fora
  BY ForaPartida DEF IInv
<1>3. Autorizadas' = Fora' \ antigas'
  BY DEF Autorizadas, Fora
<1>4. CASE estado # "aberto" /\ UNCHANGED <<estado, expirou, falhas, antigas, ultimas>>
  <2>0. tentativas' \in {0, 1} /\ url' = url /\ provedor' = provedor /\ resultado' = resultado
    BY DEF IInv, TypeOK
  <2>1. TypeOK'
    <3>1. antigas' \subseteq {d \in Chamadores : NaRede(d)'}
      BY <1>1, <1>2, <1>4 DEF Fora
    <3> QED
      BY <1>1, <1>4, <2>0, <3>1 DEF IInv, TypeOK
  <2>2. ContagemInv'
    BY <1>4 DEF IInv, ContagemInv
  <2>3. Autorizadas' = Autorizadas \cup {c}
    BY <1>1, <1>2, <1>3, <1>4
  <2>4. CASE estado = "fechado"
    <3>1. FichaNuncaPerdida'
      BY <1>4, <2>4 DEF FichaNuncaPerdida
    <3> QED
      BY <1>1, <1>2, <1>4, <2>1, <2>2, <2>3, <2>4, <3>1 DEF IInv
  <2>5. CASE estado = "meioAberto" /\ tentativas = 0 /\ tentativas' = 1
    <3>1. Autorizadas = {}
      BY <2>5 DEF IInv, FichaNuncaPerdida
    <3>2. Autorizadas' = {c}
      BY <2>3, <3>1
    <3>3. FichaNuncaPerdida'
      BY <1>4, <2>5, <3>2 DEF FichaNuncaPerdida
    <3> QED
      BY <1>4, <2>1, <2>2, <2>5, <3>1, <3>2, <3>3 DEF IInv
  <2> QED
    BY <1>4, <2>4, <2>5
<1>5. CASE estado = "aberto" /\ NovaGeracao("meioAberto", c) /\ tentativas' = 1
  <2>1. TypeOK' /\ ContagemInv' /\ Autorizadas' = {c} \cap Fora'
    BY <1>1, <1>5, NovaGeracaoInv
  <2>2. estado' = "meioAberto" /\ Autorizadas' = {c}
    BY <1>1, <1>5, <2>1 DEF NovaGeracao
  <2>3. FichaNuncaPerdida'
    BY <1>5, <2>2 DEF FichaNuncaPerdida
  <2> QED
    BY <1>1, <1>2, <1>5, <2>1, <2>2, <2>3 DEF IInv
<1> QED
  BY <1>4, <1>5

\* The end of the history after one more result, shortened to what can matter.
LEMMA UltimasInv ==
    ASSUME IInv, estado = "fechado", NEW r \in {"taxa", "falha"},
           r = "falha" => falhas + 1 < Limite
    PROVE  LET s == Append(ultimas, r)
               u == IF Len(s) = Limite THEN Tail(s) ELSE s
               n == IF r = "falha" THEN falhas + 1 ELSE 0
           IN  /\ u \in Seq({"taxa", "falha"}) /\ Len(u) < Limite
               /\ n <= Len(u) /\ n \in 0..(Limite - 1)
               /\ \A k \in 1..Len(u) : k > Len(u) - n => u[k] = "falha"
<1> DEFINE s == Append(ultimas, r)
           u == IF Len(s) = Limite THEN Tail(s) ELSE s
           n == IF r = "falha" THEN falhas + 1 ELSE 0
<1> USE ClienteAssumption
<1>1. /\ ultimas \in Seq({"taxa", "falha"}) /\ Len(ultimas) \in Nat /\ Len(ultimas) < Limite
      /\ falhas \in 0..(Limite - 1) /\ falhas <= Len(ultimas)
      /\ \A k \in 1..Len(ultimas) : k > Len(ultimas) - falhas => ultimas[k] = "falha"
  BY DEF IInv, TypeOK, ContagemInv
<1>2. /\ s \in Seq({"taxa", "falha"}) /\ Len(s) = Len(ultimas) + 1 /\ s[Len(s)] = r
      /\ \A k \in 1..Len(ultimas) : s[k] = ultimas[k]
  BY <1>1
<1>3. n \in 0..(Limite - 1) /\ n <= Len(s)
  BY <1>1, <1>2
<1>4. \A k \in 1..Len(s) : k > Len(s) - n => s[k] = "falha"
  BY <1>1, <1>2
<1>5. CASE Len(s) = Limite
  <2> HIDE DEF s, n
  <2>1. s # <<>>
    BY <1>2, <1>5
  <2>2. /\ Tail(s) \in Seq({"taxa", "falha"}) /\ Len(Tail(s)) = Len(s) - 1
        /\ \A k \in 1..Len(Tail(s)) : Tail(s)[k] = s[k + 1]
    BY <1>2, <2>1
  <2>3. ASSUME NEW k \in 1..Len(Tail(s)), k > Len(Tail(s)) - n PROVE Tail(s)[k] = "falha"
    <3>1. n \in Nat /\ Len(Tail(s)) = Limite - 1
      BY <1>3, <1>5, <2>2
    <3>2. k + 1 \in 1..Len(s) /\ k + 1 > Len(s) - n
      BY <1>5, <2>3, <3>1
    <3> QED
      BY <1>4, <2>2, <3>2
  <2>4. Len(Tail(s)) = Limite - 1 /\ n <= Limite - 1
    BY <1>3, <1>5, <2>2
  <2>5. u = Tail(s)
    BY <1>5
  <2> HIDE DEF u
  <2>6. /\ u \in Seq({"taxa", "falha"}) /\ Len(u) < Limite
        /\ n <= Len(u) /\ n \in 0..(Limite - 1)
    BY <1>3, <2>2, <2>4, <2>5
  <2>7. \A k \in 1..Len(u) : k > Len(u) - n => u[k] = "falha"
    BY <2>3, <2>5
  <2> QED
    BY ONLY <2>6, <2>7 DEF u, n, s
<1>6. CASE Len(s) # Limite
  BY <1>1, <1>2, <1>3, <1>4, <1>6
<1> QED
  BY <1>5, <1>6

\* The circuit a result that counts leaves behind.
LEMMA ContarInv ==
    ASSUME IInv, NEW c \in Chamadores, Devolver(c), c \notin antigas
    PROVE  /\ IInv'
           /\ c \in Autorizadas
           /\ \/ estado = "fechado" /\ estado' = estado /\ Autorizadas' = Autorizadas \ {c}
              \/ /\ estado = "fechado" /\ estado' = "aberto" /\ Autorizadas' = {}
                 /\ resultado[c] = "falha" /\ falhas + 1 >= Limite
              \/ /\ estado = "meioAberto" /\ estado' \in {"fechado", "aberto"}
                 /\ Autorizadas' = {}
<1> USE DEF disjuntor, NaRede
<1>1. /\ c \in Fora /\ Fora' = Fora \ {c}
      /\ pc' \in [Chamadores -> {"livre", "pedir", "naRede", "voltou"}]
      /\ \A d \in Chamadores \ {c} : pc'[d] = pc[d]
      /\ url' = url /\ provedor' = provedor /\ resultado' = resultado
  BY DEF Devolver, IInv, TypeOK, Fora
<1>2. Autorizadas = Fora \ antigas /\ antigas \subseteq Fora
  BY ForaPartida DEF IInv
<1>3. Autorizadas' = Fora' \ antigas' /\ c \in Autorizadas
  BY <1>1, <1>2 DEF Autorizadas, Fora
<1>4. ContarFechado(c) \/ ContarMeioAberto(c)
  BY DEF Devolver
<1>5. resultado[c] \in {"taxa", "falha"} /\ tentativas \in {0, 1} /\ falhas \in Nat
  BY ClienteAssumption DEF IInv, TypeOK
<1>6. ASSUME NEW novo \in {"fechado", "aberto"}, NovaGeracao(novo, c), tentativas' \in {0, 1}
      PROVE  IInv' /\ Autorizadas' = {} /\ estado' = novo
  <2>1. TypeOK' /\ ContagemInv' /\ Autorizadas' = {c} \cap Fora'
    BY <1>1, <1>6, NovaGeracaoInv
  <2>2. estado' = novo /\ Autorizadas' = {}
    BY <1>1, <1>6, <2>1 DEF NovaGeracao
  <2>3. FichaNuncaPerdida'
    BY <2>2 DEF FichaNuncaPerdida
  <2> QED
    BY <2>1, <2>2, <2>3 DEF IInv
<1>7. CASE ContarMeioAberto(c)
  BY <1>3, <1>5, <1>6, <1>7 DEF ContarMeioAberto
<1>8. CASE ContarFechado(c) /\ resultado[c] = "falha" /\ AbreCom(falhas + 1)
  <2>1. estado = "fechado" /\ NovaGeracao("aberto", c) /\ tentativas' \in {0, 1}
    BY <1>5, <1>8 DEF ContarFechado
  <2> QED
    BY <1>3, <1>6, <1>8, <2>1 DEF AbreCom
<1>9. CASE ContarFechado(c) /\ ~ (resultado[c] = "falha" /\ AbreCom(falhas + 1))
  <2>1. /\ estado = "fechado" /\ UNCHANGED <<estado, expirou, antigas, tentativas>>
        /\ falhas' = (IF resultado[c] = "falha" THEN falhas + 1 ELSE 0)
        /\ ultimas' = LET s == Append(ultimas, resultado[c])
                      IN  IF Len(s) = Limite THEN Tail(s) ELSE s
    BY <1>9 DEF ContarFechado
  <2>2. resultado[c] = "falha" => falhas + 1 < Limite
    BY <1>5, <1>9, ClienteAssumption DEF AbreCom
  <2>3. /\ ultimas' \in Seq({"taxa", "falha"}) /\ Len(ultimas') < Limite
        /\ falhas' <= Len(ultimas') /\ falhas' \in 0..(Limite - 1)
        /\ \A k \in 1..Len(ultimas') : k > Len(ultimas') - falhas' => ultimas'[k] = "falha"
    BY <1>5, <2>1, <2>2, UltimasInv
  <2>4. Autorizadas' = Autorizadas \ {c} /\ antigas' \subseteq Fora'
    BY <1>1, <1>2, <1>3, <2>1, <1>9 
  <2>5. TypeOK'
    BY <1>1, <2>1, <2>3, <2>4 DEF IInv, TypeOK, Fora
  <2>6. ContagemInv' /\ FichaNuncaPerdida'
    BY <2>1, <2>3 DEF ContagemInv, FichaNuncaPerdida
  <2> QED
    BY <1>3, <2>1, <2>4, <2>5, <2>6 DEF IInv
<1> QED
  BY <1>4, <1>7, <1>8, <1>9

\* A result of an earlier generation at most makes the circuit notice the time.
LEMMA AntigaInv ==
    ASSUME IInv, NEW c \in Chamadores, Devolver(c), c \in antigas
    PROVE  /\ IInv'
           /\ \/ UNCHANGED <<estado, Autorizadas>>
              \/ estado = "aberto" /\ estado' = "meioAberto" /\ Autorizadas' = {}
<1> USE DEF disjuntor, NaRede
<1>1. /\ c \in Fora /\ Fora' = Fora \ {c}
      /\ pc' \in [Chamadores -> {"livre", "pedir", "naRede", "voltou"}]
      /\ \A d \in Chamadores \ {c} : pc'[d] = pc[d]
      /\ url' = url /\ provedor' = provedor /\ resultado' = resultado
  BY DEF Devolver, IInv, TypeOK, Fora
<1>2. Autorizadas = Fora \ antigas /\ antigas \subseteq Fora
  BY ForaPartida DEF IInv
<1>3. Autorizadas' = Fora' \ antigas'
  BY DEF Autorizadas, Fora
<1>4. CASE estado = "aberto" /\ NovaGeracao("meioAberto", c) /\ tentativas' = 0
  <2>1. TypeOK' /\ ContagemInv' /\ Autorizadas' = {c} \cap Fora'
    BY <1>1, <1>4, NovaGeracaoInv
  <2>2. estado' = "meioAberto" /\ Autorizadas' = {}
    BY <1>1, <1>4, <2>1 DEF NovaGeracao
  <2>3. FichaNuncaPerdida'
    BY <1>4, <2>2 DEF FichaNuncaPerdida
  <2> QED
    BY <1>4, <2>1, <2>2, <2>3 DEF IInv
<1>5. CASE antigas' = antigas \ {c} /\ UNCHANGED <<estado, expirou, falhas, tentativas, ultimas>>
  <2>1. Autorizadas' = Autorizadas /\ antigas' \subseteq Fora'
    BY <1>1, <1>2, <1>3, <1>5
  <2>2. TypeOK'
    BY <1>1, <1>5, <2>1 DEF IInv, TypeOK, Fora
  <2>3. ContagemInv'
    BY <1>5 DEF IInv, ContagemInv
  <2>4. FichaNuncaPerdida'
    BY <1>5, <2>1 DEF IInv, FichaNuncaPerdida
  <2> QED
    BY <1>5, <2>1, <2>2, <2>3, <2>4 DEF IInv
<1> QED
  BY <1>4, <1>5 DEF Devolver

-------------------------------------------------------------------------------
(* The theorems.                                                           *)

\* A step is of a call that asks, of one that returns, or none of the circuit's.
LEMMA Passos ==
    ASSUME [Next]_vars
    PROVE  \/ UNCHANGED vars
           \/ Alheio
           \/ \E c \in Chamadores : Admitir(c) \/ Devolver(c)
BY DEF Next, Alheio

\* A step that changes nothing keeps the invariant.
LEMMA RepousoInv == ASSUME IInv, UNCHANGED vars PROVE IInv' /\ UNCHANGED <<estado, Autorizadas>>
<1> USE DEF vars, disjuntor, NaRede
<1>1. TypeOK'
  BY DEF IInv, TypeOK
<1>2. Fora' = Fora
  BY DEF Fora
<1> QED
  BY <1>1, <1>2, Quadro

\* A step of the specification, or none, keeps the invariant.
LEMMA PassoInv == IInv /\ [Next]_vars => IInv'
BY Passos, RepousoInv, AlheioInv, AdmitirInv, ContarInv, AntigaInv

\* The inductive invariant holds in every execution of the client.
THEOREM Invariante == Spec => []IInv
BY InicioInv, PassoInv, PTL DEF Spec

\* Every variable keeps its type, and the counter stays below the limit.
THEOREM Tipo == Spec => []TypeOK
<1>1. IInv => TypeOK
  BY DEF IInv
<1> QED
  BY <1>1, Invariante, PTL

\* The right to try a half-open circuit is never lost and never doubled.
THEOREM Ficha == Spec => []FichaNuncaPerdida
<1>1. IInv => FichaNuncaPerdida
  BY DEF IInv
<1> QED
  BY <1>1, Invariante, PTL

\* A closed circuit opens only on Limite failures in a row of its own generation:
\* the counter says so, and the invariant says that the counter is true.
THEOREM AbreComMerito == Spec => AberturaMerecida
<1> DEFINE Merecida ==
        estado = "fechado" /\ estado' = "aberto" =>
          /\ Len(ultimas) = Limite - 1
          /\ \A k \in DOMAIN ultimas : ultimas[k] = "falha"
          /\ \E c \in Autorizadas : resultado[c] = "falha" /\ pc'[c] = "livre"
<1>1. IInv /\ [Next]_vars => [Merecida]_vars
  <2> SUFFICES ASSUME IInv, [Next]_vars, estado = "fechado", estado' = "aberto"
               PROVE  /\ Len(ultimas) = Limite - 1
                      /\ \A k \in DOMAIN ultimas : ultimas[k] = "falha"
                      /\ \E c \in Autorizadas : resultado[c] = "falha" /\ pc'[c] = "livre"
    OBVIOUS
  <2>1. PICK c \in Chamadores : Devolver(c)
    BY Passos, RepousoInv, AlheioInv, AdmitirInv
  <2>2. c \notin antigas
    BY <2>1, AntigaInv
  <2>3. c \in Autorizadas /\ resultado[c] = "falha" /\ falhas + 1 >= Limite
    BY <2>1, <2>2, ContarInv
  <2>4. pc'[c] = "livre"
    BY <2>1 DEF Devolver, IInv, TypeOK
  <2>5. /\ falhas <= Len(ultimas) /\ Len(ultimas) < Limite /\ falhas \in 0..(Limite - 1)
        /\ ultimas \in Seq({"taxa", "falha"})
        /\ \A k \in 1..Len(ultimas) : k > Len(ultimas) - falhas => ultimas[k] = "falha"
    BY DEF IInv, TypeOK, ContagemInv
  <2>6. Len(ultimas) = Limite - 1 /\ falhas = Len(ultimas)
    BY <2>3, <2>5, ClienteAssumption
  <2>7. \A k \in DOMAIN ultimas : ultimas[k] = "falha"
    BY <2>5, <2>6
  <2> QED
    BY <2>3, <2>4, <2>6, <2>7
<1> QED
  BY <1>1, Invariante, PTL DEF Spec, AberturaMerecida

\* gobreaker, with its counts, its generations and its timer, does no more than
\* the breaker that only says whose calls pass and whose results count.
THEOREM Refinamento == Spec => ImplementaDisjuntor
<1>1. Init => Promessa!Init
  BY DEF Init, Promessa!Init, Autorizadas, NaRede
<1>2. IInv /\ [Next]_vars => [Promessa!Next]_<<estado, Autorizadas>>
  <2> SUFFICES ASSUME IInv, [Next]_vars
               PROVE  Promessa!Next \/ UNCHANGED <<estado, Autorizadas>>
    OBVIOUS
  <2>1. ASSUME NEW c \in Chamadores, Admitir(c) PROVE Promessa!Autorizar(c)
    BY <2>1, AdmitirInv DEF Promessa!Autorizar
  <2>2. ASSUME NEW c \in Chamadores, Devolver(c), c \notin antigas PROVE Promessa!Concluir(c)
    BY <2>2, ContarInv DEF Promessa!Concluir, Promessa!Mudar
  <2>3. ASSUME NEW c \in Chamadores, Devolver(c), c \in antigas
        PROVE  Promessa!MeiaAbertura \/ UNCHANGED <<estado, Autorizadas>>
    BY <2>3, AntigaInv DEF Promessa!MeiaAbertura, Promessa!Mudar
  <2>4. ASSUME UNCHANGED vars \/ Alheio PROVE UNCHANGED <<estado, Autorizadas>>
    BY <2>4, RepousoInv, AlheioInv
  <2> QED
    BY <2>1, <2>2, <2>3, <2>4, Passos DEF Promessa!Next
<1> QED
  BY <1>1, <1>2, Invariante, PTL DEF Spec, ImplementaDisjuntor, Promessa!Spec
===============================================================================
