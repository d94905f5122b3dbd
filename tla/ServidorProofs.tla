---------------------------- MODULE ServidorProofs ----------------------------
(***************************************************************************)
(* Proofs about Servidor, for any number of instances, connections,        *)
(* migrations and restarts.                                                *)
(***************************************************************************)
EXTENDS Servidor, TLAPS

(***************************************************************************)
(* The inductive invariant.                                                *)
(***************************************************************************)

Trancado == {"consultar", "marcar", "aplicar", "desmarcar"}

\* What the database looks like to the process that holds the lock.
EtapaInv(i) ==
    /\ pc[i] \in Trancado => tranca = i
    /\ pc[i] = "marcar" => ~ suja /\ versao = proxima[i] - 1
    /\ pc[i] = "aplicar" => suja /\ versao = proxima[i] /\ esquema = proxima[i] - 1
    /\ pc[i] = "desmarcar" => suja /\ versao = proxima[i] /\ esquema = proxima[i]

\* Once a process failed, its restart count or its exit code tells for ever.
Falhou(i) == reinicios[i] > 0 \/ (pc[i] = "saiu" /\ saida[i] = 1)

\* A dirty schema is being migrated, or was when somebody failed.
SujaInv ==
    suja => \E i \in Instancias : pc[i] \in {"aplicar", "desmarcar"} \/ Falhou(i)

IInv ==
    /\ TypeOK
    /\ \A i \in Instancias : EtapaInv(i)
    /\ AtendeSoComEsquema
    /\ VersaoFiel
    /\ SujaInv

USE DEF Trancado

-------------------------------------------------------------------------------
(* Frames.                                                                 *)

\* Whoever does not hold the lock does not depend on the schema; whoever does
\* finds it as it was.
LEMMA Quadro ==
    ASSUME NEW d \in Instancias, EtapaInv(d),
           pc'[d] = pc[d], proxima'[d] = proxima[d],
           tranca # d \/ (tranca' = tranca /\ versao' = versao /\ suja' = suja /\ esquema' = esquema)
    PROVE  EtapaInv(d)'
BY DEF EtapaInv

\* The end of a process keeps the types.
LEMMA SairTipo ==
    ASSUME TypeOK, NEW i \in Instancias, NEW k \in {0, 1}, Sair(i, k),
           versao' \in 0..Migracoes, suja' \in BOOLEAN, esquema' \in 0..Migracoes,
           tranca' \in Instancias \cup {Ninguem, Orfa}
    PROVE  TypeOK'
<1> USE DEF TypeOK, Sair
<1>1. conexao' \in [Conexoes -> Estados]
  BY DEF Ativas, Ociosas, Estados
<1>2. pc' \in [Instancias -> Vivo \cup {"parado", "saiu"}] /\ saida' \in [Instancias -> {0, 1}]
  OBVIOUS
<1>3. porta' \subseteq {j \in Instancias : pc'[j] = "servindo"}
  OBVIOUS
<1> QED
  BY <1>1, <1>2, <1>3

\* A process that was not at a statement of a migration ends.
LEMMA FimInv ==
    ASSUME IInv, NEW i \in Instancias, NEW k \in {0, 1}, Sair(i, k),
           pc[i] \notin {"aplicar", "desmarcar", "saiu"},
           UNCHANGED <<versao, suja, esquema>>,
           tranca' = tranca \/ (tranca = i /\ tranca' \in {Ninguem, Orfa})
    PROVE  IInv'
<1>1. TypeOK'
  BY SairTipo DEF IInv, TypeOK
<1>2. pc' = [pc EXCEPT ![i] = "saiu"] /\ UNCHANGED <<proxima, reinicios>>
  BY DEF Sair
<1>3. saida' = [saida EXCEPT ![i] = k]
  BY DEF Sair
<1>4. ASSUME NEW d \in Instancias PROVE EtapaInv(d)'
  <2>1. CASE d = i
    BY <1>2, <2>1 DEF EtapaInv, IInv, TypeOK
  <2>2. CASE d # i
    BY <1>2, <2>2, Quadro DEF IInv, TypeOK
  <2> QED
    BY <2>1, <2>2
<1>5. AtendeSoComEsquema' /\ VersaoFiel'
  BY <1>2 DEF IInv, TypeOK, AtendeSoComEsquema, VersaoFiel
<1>6. SujaInv'
  <2> SUFFICES ASSUME suja
               PROVE  \E d \in Instancias : pc'[d] \in {"aplicar", "desmarcar"} \/ Falhou(d)'
    BY DEF SujaInv
  <2>1. PICK d \in Instancias : pc[d] \in {"aplicar", "desmarcar"} \/ Falhou(d)
    BY DEF IInv, SujaInv
  <2>2. pc'[d] \in {"aplicar", "desmarcar"} \/ Falhou(d)'
    BY <1>2, <1>3, <2>1 DEF Falhou, IInv, TypeOK
  <2> QED
    BY <2>2
<1> QED
  BY <1>1, <1>4, <1>5, <1>6 DEF IInv

\* A step that neither touches the schema nor moves a process that is migrating
\* or serving to or from there.
LEMMA PassoInv ==
    ASSUME IInv, TypeOK', UNCHANGED banco, UNCHANGED <<proxima, saida>>,
           \A i \in Instancias :
              \/ pc'[i] = pc[i]
              \/ pc[i] \notin {"aplicar", "desmarcar", "saiu"} /\ pc'[i] \notin Trancado
              \/ pc[i] = "saiu" /\ reinicios'[i] > 0 /\ pc'[i] \notin Trancado,
           \A i \in Instancias : pc'[i] \in {"conectar", "servindo", "drenando"}
                                 => pc[i] \in {"conectar", "servindo", "drenando"},
           \A i \in Instancias : reinicios'[i] >= reinicios[i]
    PROVE  IInv'
<1> USE DEF banco
<1>1. ASSUME NEW d \in Instancias PROVE EtapaInv(d)'
  BY DEF IInv, EtapaInv
<1>2. AtendeSoComEsquema' /\ VersaoFiel'
  BY DEF IInv, AtendeSoComEsquema, VersaoFiel
<1>3. SujaInv'
  <2> SUFFICES ASSUME suja
               PROVE  \E d \in Instancias : pc'[d] \in {"aplicar", "desmarcar"} \/ Falhou(d)'
    BY DEF SujaInv
  <2>1. PICK d \in Instancias : pc[d] \in {"aplicar", "desmarcar"} \/ Falhou(d)
    BY DEF IInv, SujaInv
  <2>2. reinicios[d] \in Int /\ reinicios'[d] \in Int
    BY DEF IInv, TypeOK
  <2>3. pc'[d] \in {"aplicar", "desmarcar"} \/ Falhou(d)'
    BY <2>1, <2>2 DEF Falhou
  <2> QED
    BY <2>3
<1> QED
  BY <1>1, <1>2, <1>3 DEF IInv

\* The empty database and the stopped containers satisfy the invariant.
LEMMA InicioInv == Init => IInv
<1> SUFFICES ASSUME Init PROVE IInv
  OBVIOUS
<1>1. TypeOK
  <2>1. /\ pc \in [Instancias -> Vivo \cup {"parado", "saiu"}]
        /\ porta \subseteq {i \in Instancias : pc[i] = "servindo"}
    BY DEF Init
  <2>2. 0 \in 0..Migracoes /\ 1 \in 1..Migracoes /\ 0 \in 0..MaxReinicios
    BY ServidorAssumption
  <2>3. /\ proxima \in [Instancias -> 1..Migracoes]
        /\ reinicios \in [Instancias -> 0..MaxReinicios]
        /\ saida \in [Instancias -> {0, 1}]
    BY <2>2 DEF Init
  <2>4. /\ em \in [Conexoes -> Instancias \cup {Ninguem}]
        /\ conexao \in [Conexoes -> Estados]
    BY DEF Init, Estados
  <2> QED
    BY <2>1, <2>2, <2>3, <2>4 DEF Init, TypeOK
<1>2. (\A i \in Instancias : EtapaInv(i)) /\ AtendeSoComEsquema /\ VersaoFiel /\ SujaInv
  BY DEF Init, EtapaInv, AtendeSoComEsquema, VersaoFiel, SujaInv
<1> QED
  BY <1>1, <1>2 DEF IInv

-------------------------------------------------------------------------------
(* The steps of the engine, of the server and of its connections.          *)

\* Containers start, restart and are told to stop.
LEMMA MotorInv ==
    ASSUME IInv, NEW i \in Instancias, Iniciar(i) \/ Reiniciar(i) \/ Parar(i)
    PROVE  IInv'
<1> USE DEF rede, processo, Ir, Vivo, AntesDoNotify, Migrando
<1>1. TypeOK'
  <2>1. CASE Iniciar(i)
    BY <2>1 DEF IInv, TypeOK, Iniciar, banco
  <2>2. CASE Reiniciar(i)
    <3>1. reinicios' \in [Instancias -> 0..MaxReinicios]
      BY <2>2, ServidorAssumption DEF IInv, TypeOK, Reiniciar
    <3> QED
      BY <2>2, <3>1 DEF IInv, TypeOK, Reiniciar, banco
  <2>3. CASE Parar(i)
    BY <2>3 DEF IInv, TypeOK, Parar, banco
  <2> QED
    BY <2>1, <2>2, <2>3
<1>2. reinicios \in [Instancias -> Nat] /\ pc \in [Instancias -> Vivo \cup {"parado", "saiu"}]
  BY ServidorAssumption DEF IInv, TypeOK
<1>3. CASE Iniciar(i)
  BY <1>1, <1>2, <1>3, PassoInv DEF Iniciar
<1>4. CASE Reiniciar(i)
  BY <1>1, <1>2, <1>4, PassoInv DEF Reiniciar
<1>5. CASE Parar(i)
  BY <1>1, <1>2, <1>5, PassoInv DEF Parar
<1> QED
  BY <1>3, <1>4, <1>5

\* The server opens and closes its listener; connections come and go.
LEMMA ServirInv ==
    ASSUME IInv,
           \/ \E i \in Instancias : AbrirMigracoes(i) \/ Conectar(i) \/ Ouvir(i) \/ Drenar(i)
           \/ \E p \in Conexoes : \/ \E i \in Instancias : Aceitar(p, i)
                                 \/ Ler(p) \/ Silenciar(p) \/ Responder(p) \/ Fechar(p)
    PROVE  IInv'
<1> USE DEF rede, processo, banco, Ir
<1>1. reinicios \in [Instancias -> Nat] /\ pc \in [Instancias -> Vivo \cup {"parado", "saiu"}]
  BY ServidorAssumption DEF IInv, TypeOK
<1>2. ASSUME NEW i \in Instancias, AbrirMigracoes(i) \/ Conectar(i) \/ Ouvir(i) \/ Drenar(i)
      PROVE  IInv'
  <2>1. TypeOK'
    BY <1>2 DEF IInv, TypeOK, AbrirMigracoes, Conectar, Ouvir, Drenar, Vivo, AntesDoNotify,
                Migrando, Estados
  <2>2. CASE AbrirMigracoes(i)
    BY <1>1, <2>1, <2>2, PassoInv DEF AbrirMigracoes
  <2>3. CASE Conectar(i)
    BY <1>1, <2>1, <2>3, PassoInv DEF Conectar
  <2>4. CASE Ouvir(i)
    BY <1>1, <2>1, <2>4, PassoInv DEF Ouvir
  <2>5. CASE Drenar(i)
    BY <1>1, <2>1, <2>5, PassoInv DEF Drenar
  <2> QED
    BY <1>2, <2>2, <2>3, <2>4, <2>5
<1>3. ASSUME NEW p \in Conexoes, NEW e, Mover(p, e),
             e \in {"conectado", "emCurso", "ocioso", "fechado", "recusado"},
             em' = em \/ \E i \in Instancias : em' = [em EXCEPT ![p] = i]
      PROVE  IInv'
  <2>1. TypeOK'
    BY <1>3 DEF IInv, TypeOK, Mover, Estados
  <2> QED
    BY <1>1, <1>3, <2>1, PassoInv DEF Mover
<1> QED
  BY <1>2, <1>3 DEF Aceitar, Ler, Silenciar, Responder, Fechar

\* The server ends, for good or because it could not listen.
LEMMA EncerrarInv ==
    ASSUME IInv, NEW i \in Instancias, FalharOuvir(i) \/ Encerrar(i) \/ Prazo(i)
    PROVE  IInv'
BY FimInv DEF FalharOuvir, Encerrar, Prazo, banco

-------------------------------------------------------------------------------
(* The steps of the migrations.                                            *)

\* A session without a process lets go of the lock.
LEMMA LiberarOrfaInv == ASSUME IInv, LiberarOrfa PROVE IInv'
<1> USE DEF LiberarOrfa, processo, rede
<1>1. TypeOK'
  BY DEF IInv, TypeOK
<1>2. ASSUME NEW d \in Instancias PROVE EtapaInv(d)'
  BY ServidorAssumption, Quadro DEF IInv
<1>3. AtendeSoComEsquema' /\ VersaoFiel' /\ SujaInv'
  BY DEF IInv, AtendeSoComEsquema, VersaoFiel, SujaInv, Falhou
<1> QED
  BY <1>1, <1>2, <1>3 DEF IInv

\* The lock is free when it is taken: no other process is at the schema.
LEMMA TrancarInv == ASSUME IInv, NEW i \in Instancias, Trancar(i) PROVE IInv'
<1> USE DEF Trancar, Ir, rede
<1>1. TypeOK'
  BY DEF IInv, TypeOK, Vivo, AntesDoNotify, Migrando
<1>2. ASSUME NEW d \in Instancias, d # i PROVE EtapaInv(d)'
  BY <1>2, ServidorAssumption, Quadro DEF IInv, TypeOK
<1>3. EtapaInv(i)'
  BY DEF IInv, TypeOK, EtapaInv
<1>4. AtendeSoComEsquema' /\ VersaoFiel' /\ SujaInv'
  BY DEF IInv, TypeOK, AtendeSoComEsquema, VersaoFiel, SujaInv, Falhou
<1> QED
  BY <1>1, <1>2, <1>3, <1>4 DEF IInv

\* A clean schema is what its version says: complete, or short of proxima.
LEMMA ConsultarInv == ASSUME IInv, NEW i \in Instancias, Consultar(i) PROVE IInv'
<1> USE DEF Consultar, Ir, rede
<1>0. tranca = i /\ esquema = versao /\ versao \in 0..Migracoes
  BY DEF IInv, EtapaInv, VersaoFiel, TypeOK
<1>1. TypeOK'
  BY <1>0, ServidorAssumption DEF IInv, TypeOK, Vivo, AntesDoNotify, Migrando
<1>2. ASSUME NEW d \in Instancias, d # i PROVE EtapaInv(d)'
  BY <1>0, <1>2, Quadro DEF IInv, TypeOK
<1>3. EtapaInv(i)'
  BY <1>0, ServidorAssumption DEF IInv, TypeOK, EtapaInv
<1>4. AtendeSoComEsquema' /\ VersaoFiel'
  BY <1>0 DEF IInv, TypeOK, AtendeSoComEsquema, VersaoFiel
<1>5. SujaInv'
  BY DEF SujaInv
<1> QED
  BY <1>1, <1>2, <1>3, <1>4, <1>5 DEF IInv

\* A dirty schema is left as it is.
LEMMA RecusarSujaInv == ASSUME IInv, NEW i \in Instancias, RecusarSuja(i) PROVE IInv'
<1>1. tranca = i
  BY DEF RecusarSuja, IInv, EtapaInv
<1> QED
  BY <1>1, FimInv DEF RecusarSuja

\* Nobody serves while a migration is ahead, so the version may move.
LEMMA MarcarInv == ASSUME IInv, NEW i \in Instancias, Marcar(i) PROVE IInv'
<1> USE DEF Marcar, Ir, rede
<1>0. /\ tranca = i /\ proxima[i] \in 1..Migracoes
      /\ ~ suja /\ versao = proxima[i] - 1 /\ esquema = versao
  BY DEF IInv, EtapaInv, VersaoFiel, TypeOK
<1>1. TypeOK'
  BY <1>0, ServidorAssumption DEF IInv, TypeOK, Vivo, AntesDoNotify, Migrando
<1>2. ASSUME NEW d \in Instancias, d # i PROVE EtapaInv(d)'
  BY <1>0, <1>2, Quadro DEF IInv, TypeOK
<1>3. EtapaInv(i)'
  BY <1>0 DEF IInv, TypeOK, EtapaInv
<1>4. versao # Migracoes
  BY <1>0, ServidorAssumption
<1>5. AtendeSoComEsquema'
  BY <1>4 DEF IInv, TypeOK, AtendeSoComEsquema
<1>6. VersaoFiel' /\ SujaInv'
  BY <1>0 DEF IInv, TypeOK, VersaoFiel, SujaInv
<1> QED
  BY <1>1, <1>2, <1>3, <1>5, <1>6 DEF IInv

\* The body of the migration joins the version that announced it.
LEMMA AplicarInv == ASSUME IInv, NEW i \in Instancias, Aplicar(i) PROVE IInv'
<1> USE DEF Aplicar, Ir, rede
<1>0. tranca = i /\ proxima[i] \in 1..Migracoes /\ suja /\ versao = proxima[i]
  BY DEF IInv, EtapaInv, TypeOK
<1>1. TypeOK'
  BY <1>0, ServidorAssumption DEF IInv, TypeOK, Vivo, AntesDoNotify, Migrando
<1>2. ASSUME NEW d \in Instancias, d # i PROVE EtapaInv(d)'
  BY <1>0, <1>2, Quadro DEF IInv, TypeOK
<1>3. EtapaInv(i)'
  BY <1>0 DEF IInv, TypeOK, EtapaInv
<1>4. AtendeSoComEsquema'
  BY <1>0 DEF IInv, TypeOK, AtendeSoComEsquema
<1>5. VersaoFiel' /\ SujaInv'
  BY <1>0 DEF IInv, TypeOK, VersaoFiel, SujaInv
<1> QED
  BY <1>1, <1>2, <1>3, <1>4, <1>5 DEF IInv

\* The version is declared clean when the body is in.
LEMMA DesmarcarInv == ASSUME IInv, NEW i \in Instancias, Desmarcar(i) PROVE IInv'
<1> USE DEF Desmarcar, Ir, rede
<1>0. /\ tranca = i /\ proxima[i] \in 1..Migracoes
      /\ suja /\ versao = proxima[i] /\ esquema = proxima[i]
  BY DEF IInv, EtapaInv, TypeOK
<1>1. TypeOK'
  <2>1. proxima' \in [Instancias -> 1..Migracoes]
    BY <1>0, ServidorAssumption DEF IInv, TypeOK
  <2>2. pc' \in [Instancias -> Vivo \cup {"parado", "saiu"}] /\ pc[i] # "servindo"
    BY DEF IInv, TypeOK, Vivo, AntesDoNotify, Migrando
  <2>3. porta' \subseteq {j \in Instancias : pc'[j] = "servindo"}
    BY <2>2 DEF IInv, TypeOK
  <2>4. versao' \in 0..Migracoes /\ tranca' \in Instancias \cup {Ninguem, Orfa}
    BY <1>0, ServidorAssumption DEF IInv, TypeOK
  <2> QED
    BY <2>1, <2>2, <2>3, <2>4 DEF IInv, TypeOK
<1>2. ASSUME NEW d \in Instancias, d # i PROVE EtapaInv(d)'
  BY <1>0, <1>2, Quadro DEF IInv, TypeOK
<1>3. EtapaInv(i)'
  BY <1>0, ServidorAssumption DEF IInv, TypeOK, EtapaInv
<1>4. AtendeSoComEsquema'
  BY <1>0 DEF IInv, TypeOK, AtendeSoComEsquema
<1>5. VersaoFiel' /\ SujaInv'
  BY <1>0 DEF IInv, TypeOK, VersaoFiel, SujaInv
<1> QED
  BY <1>1, <1>2, <1>3, <1>4, <1>5 DEF IInv

\* A process that ends in the middle of a statement leaves either what was
\* there or what the statement does, and both are what the version says.
LEMMA QuedaInv ==
    ASSUME IInv, NEW i \in Instancias, Morrer(i) \/ FalharPreparo(i)
    PROVE  IInv'
<1> USE DEF Morrer, FalharPreparo, Vivo, AntesDoNotify, Migrando
<1>0. /\ pc[i] \in Vivo /\ EfeitoEmCurso(i) /\ tranca' \in TrancaAposFim(i) /\ Sair(i, 1)
      /\ proxima[i] \in 1..Migracoes
  BY DEF IInv, TypeOK
<1>1. pc' = [pc EXCEPT ![i] = "saiu"] /\ saida' = [saida EXCEPT ![i] = 1]
      /\ UNCHANGED <<proxima, reinicios>>
  BY <1>0 DEF Sair
<1>2. tranca' = tranca \/ (tranca = i /\ tranca' \in {Ninguem, Orfa})
  BY <1>0 DEF TrancaAposFim
<1>3. \/ UNCHANGED <<versao, suja, esquema>>
      \/ /\ tranca = i
         /\ \/ /\ pc[i] = "marcar" /\ ~ suja /\ versao' = proxima[i] /\ suja' = TRUE
               /\ esquema' = proxima[i] - 1 /\ versao = proxima[i] - 1
            \/ /\ pc[i] = "aplicar" /\ suja' = TRUE /\ versao' = proxima[i] /\ esquema' = proxima[i]
               /\ suja
            \/ /\ pc[i] = "desmarcar" /\ suja' = FALSE /\ versao' = proxima[i] /\ esquema' = proxima[i]
               /\ suja
  BY <1>0 DEF EfeitoEmCurso, IInv, EtapaInv, VersaoFiel, TypeOK
<1>4. TypeOK'
  <2>0. proxima[i] \in 0..Migracoes /\ proxima[i] - 1 \in 0..Migracoes
    BY <1>0, ServidorAssumption
  <2>1. versao' \in 0..Migracoes /\ suja' \in BOOLEAN /\ esquema' \in 0..Migracoes
    <3>1. versao \in 0..Migracoes /\ suja \in BOOLEAN /\ esquema \in 0..Migracoes
      BY DEF IInv, TypeOK
    <3>2. CASE UNCHANGED <<versao, suja, esquema>>
      BY <3>1, <3>2
    <3>3. CASE /\ versao' = proxima[i] /\ suja' \in BOOLEAN
               /\ esquema' \in {proxima[i] - 1, proxima[i]}
      BY <2>0, <3>3
    <3> QED
      BY <1>3, <3>2, <3>3
  <2>2. tranca' \in Instancias \cup {Ninguem, Orfa}
    BY <1>2 DEF IInv, TypeOK
  <2> QED
    BY <1>0, <2>1, <2>2, SairTipo DEF IInv
<1>5. ASSUME NEW d \in Instancias PROVE EtapaInv(d)'
  <2>1. CASE d = i
    BY <1>1, <2>1 DEF EtapaInv, IInv, TypeOK
  <2>2. CASE d # i
    BY <1>1, <1>2, <1>3, <2>2, Quadro DEF IInv, TypeOK
  <2> QED
    BY <2>1, <2>2
<1>6. AtendeSoComEsquema'
  BY <1>0, <1>1, <1>3, ServidorAssumption DEF IInv, TypeOK, AtendeSoComEsquema
<1>7. VersaoFiel'
  BY <1>0, <1>3 DEF IInv, TypeOK, VersaoFiel
<1>8. SujaInv'
  BY <1>1 DEF SujaInv, Falhou, IInv, TypeOK
<1> QED
  BY <1>4, <1>5, <1>6, <1>7, <1>8 DEF IInv

-------------------------------------------------------------------------------
(* The theorems.                                                           *)

\* A step of the specification, or none, keeps the invariant.
LEMMA PassoTodoInv == IInv /\ [Next]_vars => IInv'
<1> SUFFICES ASSUME IInv, [Next]_vars PROVE IInv'
  OBVIOUS
<1>1. CASE UNCHANGED vars
  BY <1>1 DEF vars, banco, processo, rede, IInv, TypeOK, EtapaInv, AtendeSoComEsquema,
              VersaoFiel, SujaInv, Falhou, Vivo, AntesDoNotify, Migrando
<1>2. CASE LiberarOrfa
  BY <1>2, LiberarOrfaInv
<1>3. ASSUME NEW i \in Instancias,
             \/ Iniciar(i) \/ Reiniciar(i) \/ Parar(i) \/ Morrer(i)
             \/ FalharPreparo(i) \/ Ouvir(i) \/ FalharOuvir(i) \/ Atender(i)
      PROVE  IInv'
  BY <1>3, MotorInv, QuedaInv, ServirInv, EncerrarInv DEF Atender
<1>4. ASSUME NEW i \in Instancias, Preparar(i) PROVE IInv'
  BY <1>4, ServirInv, TrancarInv, ConsultarInv, RecusarSujaInv, MarcarInv, AplicarInv,
     DesmarcarInv DEF Preparar
<1>5. ASSUME NEW p \in Conexoes,
             \/ \E i \in Instancias : Aceitar(p, i)
             \/ Ler(p) \/ Silenciar(p) \/ Responder(p) \/ Fechar(p)
      PROVE  IInv'
  BY <1>5, ServirInv
<1> QED
  BY <1>1, <1>2, <1>3, <1>4, <1>5 DEF Next

\* The inductive invariant holds of every execution of main, of the engine and
\* of the migrations.
THEOREM Invariante == Spec => []IInv
BY InicioInv, PassoTodoInv, PTL DEF Spec

\* Every variable keeps its type.
THEOREM Tipo == Spec => []TypeOK
<1>1. IInv => TypeOK
  BY DEF IInv
<1> QED
  BY <1>1, Invariante, PTL

\* No process takes requests before the schema is complete and known to be so.
THEOREM SoComEsquema == Spec => []AtendeSoComEsquema
<1>1. IInv => AtendeSoComEsquema
  BY DEF IInv
<1> QED
  BY <1>1, Invariante, PTL

\* The version in schema_migrations tells what the schema has, whatever
\* statement a process died in.
THEOREM VersaoDizOEsquema == Spec => []VersaoFiel
<1>1. IInv => VersaoFiel
  BY DEF IInv
<1> QED
  BY <1>1, Invariante, PTL

\* A dirty schema is met only after somebody failed: who migrates holds the
\* lock that who looks at the version would hold.
THEOREM SujaSoAposQueda == Spec => []RecusaAposQueda
<1>1. IInv => RecusaAposQueda
  BY DEF IInv, SujaInv, RecusaAposQueda, EtapaInv, Falhou
<1> QED
  BY <1>1, Invariante, PTL
===============================================================================
