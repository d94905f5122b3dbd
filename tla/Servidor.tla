------------------------------- MODULE Servidor -------------------------------
(***************************************************************************)
(* The life of the API processes: migrations at start, serving, and the    *)
(* drain on SIGTERM, under a container engine that restarts what fails     *)
(* (docker-compose.yml) and may stop or kill it at any moment.             *)
(*                                                                         *)
(* Migrations are golang-migrate's, which keeps a version and a dirty flag *)
(* in a table and holds an advisory lock of the database meanwhile; the    *)
(* body of a migration is one multi-statement query, hence all or nothing. *)
(* Draining is Shutdown of net/http. A statement of either may fail        *)
(* anywhere, so the database going away needs no action of its own.        *)
(*                                                                         *)
(* A definition commented "Fault:" is not part of the model: it is its     *)
(* successor with a plausible bug, which some property has to notice.      *)
(***************************************************************************)
EXTENDS Integers

CONSTANTS Instancias,    \* containers of the API
          Conexoes,      \* TCP connections, each with one HTTP request after another
          Migracoes,     \* number of the last migration
          MaxReinicios,  \* restart: on-failure:<n>
          Ninguem, Orfa  \* holders of the lock: no session, one whose process died

ASSUME ServidorAssumption ==
    /\ Migracoes \in Nat \ {0} /\ MaxReinicios \in Nat
    /\ Ninguem # Orfa /\ {Ninguem, Orfa} \cap Instancias = {}

VARIABLES
    versao, suja,     \* schema_migrations
    esquema,          \* migrations whose body is committed
    tranca,           \* the advisory lock
    pc,               \* main of each instance
    proxima,          \* the migration it is at
    porta,            \* the instances whose listener is open
    parar,            \* instances the engine was told to stop (SIGTERM)
    reinicios,        \* restarts of each instance
    saida,            \* its last exit code
    conexao, em       \* connections, and the instance that accepted each

banco == <<versao, suja, esquema, tranca>>
processo == <<pc, proxima, porta, saida>>
rede == <<conexao, em>>
vars == <<banco, processo, parar, reinicios, rede>>

Migrando == {"trancar", "consultar", "marcar", "aplicar", "desmarcar"}
\* signal.Notify comes after all of these.
AntesDoNotify == Migrando \cup {"abrir", "conectar"}
Vivo == AntesDoNotify \cup {"servindo", "drenando"}

Estados == {"livre", "conectado", "emCurso", "ocioso", "fechado", "recusado", "cortado"}

\* Connections of i that Shutdown waits for, and those kept alive for a request
\* that may come.
Ativas(i) == {p \in Conexoes : em[p] = i /\ conexao[p] \in {"conectado", "emCurso"}}
Ociosas(i) == {p \in Conexoes : em[p] = i /\ conexao[p] = "ocioso"}

TypeOK ==
    /\ versao \in 0..Migracoes /\ suja \in BOOLEAN /\ esquema \in 0..Migracoes
    /\ tranca \in Instancias \cup {Ninguem, Orfa}
    /\ pc \in [Instancias -> Vivo \cup {"parado", "saiu"}]
    /\ proxima \in [Instancias -> 1..Migracoes]
    /\ porta \subseteq {i \in Instancias : pc[i] = "servindo"}
    /\ parar \subseteq Instancias
    /\ reinicios \in [Instancias -> 0..MaxReinicios]
    /\ saida \in [Instancias -> {0, 1}]
    /\ conexao \in [Conexoes -> Estados]
    /\ em \in [Conexoes -> Instancias \cup {Ninguem}]

Init ==
    /\ versao = 0 /\ suja = FALSE /\ esquema = 0 /\ tranca = Ninguem
    /\ pc = [i \in Instancias |-> "parado"]
    /\ proxima = [i \in Instancias |-> 1]
    /\ porta = {} /\ parar = {}
    /\ reinicios = [i \in Instancias |-> 0]
    /\ saida = [i \in Instancias |-> 0]
    /\ conexao = [p \in Conexoes |-> "livre"]
    /\ em = [p \in Conexoes |-> Ninguem]

-------------------------------------------------------------------------------
(* The end of a process, and the engine.                                   *)

Ir(i, destino) == pc' = [pc EXCEPT ![i] = destino]

\* The process ends: its listener closes, its connections drop.
Sair(i, codigo) ==
    /\ pc' = [pc EXCEPT ![i] = "saiu"]
    /\ saida' = [saida EXCEPT ![i] = codigo]
    /\ porta' = porta \ {i}
    /\ conexao' = [p \in Conexoes |->
                     CASE p \in Ociosas(i) -> "fechado"
                       [] p \in Ativas(i) /\ conexao[p] = "emCurso" -> "cortado"
                       [] p \in Ativas(i) /\ conexao[p] = "conectado" -> "recusado"
                       [] OTHER -> conexao[p]]
    /\ UNCHANGED <<proxima, em, parar, reinicios>>

\* docker compose up
Iniciar(i) ==
    /\ pc[i] = "parado"
    /\ Ir(i, "abrir")
    /\ UNCHANGED <<banco, proxima, porta, saida, parar, reinicios, rede>>

\* restart: on-failure, unless it was the engine that stopped it.
Reiniciar(i) ==
    /\ pc[i] = "saiu" /\ saida[i] # 0 /\ i \notin parar
    /\ reinicios[i] < MaxReinicios
    /\ reinicios' = [reinicios EXCEPT ![i] = @ + 1]
    /\ Ir(i, "abrir")
    /\ UNCHANGED <<banco, proxima, porta, saida, parar, rede>>

\* docker stop: SIGTERM.
Parar(i) ==
    /\ pc[i] \in Vivo /\ i \notin parar
    /\ parar' = parar \cup {i}
    /\ UNCHANGED <<banco, processo, reinicios, rede>>

\* The lock of a session that lost its process outlives it for a while.
TrancaAposFim(i) == IF tranca = i THEN {Ninguem, Orfa} ELSE {tranca}

\* What the statement a process was in the middle of may leave behind.
EfeitoEmCurso(i) ==
    \/ UNCHANGED <<versao, suja, esquema>>
    \/ pc[i] = "marcar" /\ versao' = proxima[i] /\ suja' = TRUE /\ UNCHANGED esquema
    \/ pc[i] = "aplicar" /\ esquema = proxima[i] - 1 /\ esquema' = proxima[i]
       /\ UNCHANGED <<versao, suja>>
    \/ pc[i] = "desmarcar" /\ versao' = proxima[i] /\ suja' = FALSE /\ UNCHANGED esquema

\* Killed: by the engine when its grace is over (10 s, less than the 15 s of
\* SHUTDOWN_TIMEOUT_S), for memory, by SIGTERM before Notify.
Morrer(i) ==
    /\ pc[i] \in Vivo
    /\ EfeitoEmCurso(i)
    /\ tranca' \in TrancaAposFim(i)
    /\ Sair(i, 1)

\* PostgreSQL notices that the client of a session is gone.
LiberarOrfa ==
    /\ tranca = Orfa
    /\ tranca' = Ninguem
    /\ UNCHANGED <<versao, suja, esquema, processo, parar, reinicios, rede>>

-------------------------------------------------------------------------------
(* migracao.Aplicar                                                        *)

\* migrate.New
AbrirMigracoes(i) ==
    /\ pc[i] = "abrir"
    /\ Ir(i, "trancar")
    /\ UNCHANGED <<banco, proxima, porta, saida, parar, reinicios, rede>>

\* Fault: no advisory lock.
TrancarSemEsperar(i) ==
    /\ pc[i] = "trancar"
    /\ Ir(i, "consultar")
    /\ UNCHANGED <<banco, proxima, porta, saida, parar, reinicios, rede>>

\* Up: pg_advisory_lock
Trancar(i) ==
    /\ pc[i] = "trancar" /\ tranca = Ninguem
    /\ tranca' = i
    /\ Ir(i, "consultar")
    /\ UNCHANGED <<versao, suja, esquema, proxima, porta, saida, parar, reinicios, rede>>

\* Fault: a schema that is up to date, or dirty, is taken for no change.
ConsultarSemErrDirty(i) ==
    /\ pc[i] = "consultar"
    /\ IF suja \/ versao = Migracoes
         THEN Ir(i, "conectar") /\ tranca' = Ninguem /\ UNCHANGED proxima
         ELSE Ir(i, "marcar") /\ proxima' = [proxima EXCEPT ![i] = versao + 1] /\ UNCHANGED tranca
    /\ UNCHANGED <<versao, suja, esquema, porta, saida, parar, reinicios, rede>>

\* Fault: the lock is not given back when there is nothing to do.
ConsultarSemDestrancar(i) ==
    /\ pc[i] = "consultar" /\ ~ suja
    /\ IF versao = Migracoes
         THEN Ir(i, "conectar") /\ UNCHANGED <<tranca, proxima>>
         ELSE Ir(i, "marcar") /\ proxima' = [proxima EXCEPT ![i] = versao + 1] /\ UNCHANGED tranca
    /\ UNCHANGED <<versao, suja, esquema, porta, saida, parar, reinicios, rede>>

\* Up reads the version: ErrNoChange is no error. ErrDirty is RecusarSuja.
Consultar(i) ==
    /\ pc[i] = "consultar" /\ ~ suja
    /\ IF versao = Migracoes
         THEN Ir(i, "conectar") /\ tranca' = Ninguem /\ UNCHANGED proxima
         ELSE Ir(i, "marcar") /\ proxima' = [proxima EXCEPT ![i] = versao + 1] /\ UNCHANGED tranca
    /\ UNCHANGED <<versao, suja, esquema, porta, saida, parar, reinicios, rede>>

\* ErrDirty: somebody has to look at the schema and force a version.
RecusarSuja(i) ==
    /\ pc[i] = "consultar" /\ suja
    /\ tranca' = Ninguem
    /\ Sair(i, 1)
    /\ UNCHANGED <<versao, suja, esquema>>

\* SetVersion(proxima, dirty)
Marcar(i) ==
    /\ pc[i] = "marcar"
    /\ versao' = proxima[i] /\ suja' = TRUE
    /\ Ir(i, "aplicar")
    /\ UNCHANGED <<esquema, tranca, proxima, porta, saida, parar, reinicios, rede>>

\* Run: the body creates what must not be there yet.
Aplicar(i) ==
    /\ pc[i] = "aplicar" /\ esquema = proxima[i] - 1
    /\ esquema' = proxima[i]
    /\ Ir(i, "desmarcar")
    /\ UNCHANGED <<versao, suja, tranca, proxima, porta, saida, parar, reinicios, rede>>

\* SetVersion(proxima, clean), and on to the next one.
Desmarcar(i) ==
    /\ pc[i] = "desmarcar"
    /\ versao' = proxima[i] /\ suja' = FALSE
    /\ IF proxima[i] = Migracoes
         THEN Ir(i, "conectar") /\ tranca' = Ninguem /\ UNCHANGED proxima
         ELSE Ir(i, "marcar") /\ proxima' = [proxima EXCEPT ![i] = @ + 1] /\ UNCHANGED tranca
    /\ UNCHANGED <<esquema, porta, saida, parar, reinicios, rede>>

\* An error of Aplicar or of NewPool (which pings): exit code 1. The wait for
\* the lock ends in one too (ErrLockTimeout).
FalharPreparo(i) ==
    /\ pc[i] \in AntesDoNotify
    /\ EfeitoEmCurso(i)
    /\ tranca' \in TrancaAposFim(i)
    /\ Sair(i, 1)

-------------------------------------------------------------------------------
(* The server.                                                             *)

\* NewPool, Build, Notify.
Conectar(i) ==
    /\ pc[i] = "conectar"
    /\ Ir(i, "servindo")
    /\ UNCHANGED <<banco, proxima, porta, saida, parar, reinicios, rede>>

\* The goroutine of ListenAndServe; after Shutdown it would return at once.
Ouvir(i) ==
    /\ pc[i] = "servindo" /\ i \notin porta
    /\ porta' = porta \cup {i}
    /\ UNCHANGED <<banco, pc, proxima, saida, parar, reinicios, rede>>

\* The port is taken, or Accept fails.
FalharOuvir(i) ==
    /\ pc[i] = "servindo"
    /\ Sair(i, 1)
    /\ UNCHANGED banco

\* <-stop; Shutdown closes the listener and the connections nobody uses.
Drenar(i) ==
    /\ pc[i] = "servindo" /\ i \in parar
    /\ Ir(i, "drenando")
    /\ porta' = porta \ {i}
    /\ conexao' = [p \in Conexoes |-> IF p \in Ociosas(i) THEN "fechado" ELSE conexao[p]]
    /\ UNCHANGED <<banco, proxima, saida, parar, reinicios, em>>

\* Shutdown found no active connection; main returns and closes the pool.
Encerrar(i) ==
    /\ pc[i] = "drenando" /\ Ativas(i) = {}
    /\ Sair(i, 0)
    /\ UNCHANGED banco

\* Fault: Shutdown(context.Background()).
PrazoNenhum(i) == FALSE

\* ShutdownTimeout: os.Exit(1) with whatever is still running.
Prazo(i) ==
    /\ pc[i] = "drenando" /\ Ativas(i) # {}
    /\ Sair(i, 1)
    /\ UNCHANGED banco

-------------------------------------------------------------------------------
(* Connections.                                                            *)

Mover(p, estado) ==
    /\ conexao' = [conexao EXCEPT ![p] = estado]
    /\ UNCHANGED <<banco, processo, parar, reinicios>>

Aceitar(p, i) ==
    /\ conexao[p] = "livre" /\ i \in porta
    /\ em' = [em EXCEPT ![p] = i]
    /\ Mover(p, "conectado")

\* A request arrives, on a new connection also while the server drains.
Ler(p) ==
    /\ conexao[p] \in {"conectado", "ocioso"}
    /\ Mover(p, "emCurso")
    /\ UNCHANGED em

\* ReadHeaderTimeout, or the 5 s Shutdown grants a connection that is silent.
Silenciar(p) == conexao[p] = "conectado" /\ Mover(p, "recusado") /\ UNCHANGED em

\* The connection is kept alive, for ever if need be (Build sets neither
\* IdleTimeout nor ReadTimeout), unless the server drains.
Responder(p) ==
    /\ conexao[p] = "emCurso"
    /\ Mover(p, IF pc[em[p]] = "drenando" THEN "fechado" ELSE "ocioso")
    /\ UNCHANGED em

\* The client needs it no more.
Fechar(p) == conexao[p] = "ocioso" /\ Mover(p, "fechado") /\ UNCHANGED em

-------------------------------------------------------------------------------
Preparar(i) ==
    \/ AbrirMigracoes(i) \/ Trancar(i) \/ Consultar(i) \/ RecusarSuja(i)
    \/ Marcar(i) \/ Aplicar(i) \/ Desmarcar(i) \/ Conectar(i)

\* What main does in the end once SIGTERM is there.
Atender(i) == Drenar(i) \/ Encerrar(i) \/ Prazo(i)

Next ==
    \/ LiberarOrfa
    \/ \E i \in Instancias :
          \/ Iniciar(i) \/ Reiniciar(i) \/ Parar(i) \/ Morrer(i)
          \/ Preparar(i) \/ FalharPreparo(i)
          \/ Ouvir(i) \/ FalharOuvir(i) \/ Atender(i)
    \/ \E p \in Conexoes :
          \/ \E i \in Instancias : Aceitar(p, i)
          \/ Ler(p) \/ Silenciar(p) \/ Responder(p) \/ Fechar(p)

Spec == Init /\ [][Next]_vars

\* Processes run, timers fire, SIGTERM is delivered, PostgreSQL notices a client
\* that is gone. No handler has to return, nobody has to connect or to fail.
Fairness ==
    /\ WF_vars(LiberarOrfa)
    /\ \A i \in Instancias :
          /\ WF_vars(Preparar(i)) /\ WF_vars(Atender(i))
          /\ WF_vars(pc[i] \in AntesDoNotify /\ i \in parar /\ Morrer(i))

FairSpec == Spec /\ Fairness

-------------------------------------------------------------------------------
(* Properties.                                                             *)

\* No process takes requests before the schema is complete and known to be so,
\* whoever migrated it, whoever died on the way (prepararBanco before Build).
AtendeSoComEsquema ==
    \A i \in Instancias : pc[i] \in {"conectar", "servindo", "drenando"} =>
        esquema = Migracoes /\ versao = Migracoes /\ ~ suja

\* The version tells what the schema has, whatever statement a process died in:
\* exactly when it is clean, all but its last migration for sure when dirty
\* (migracao.Aplicar is idempotent).
VersaoFiel ==
    /\ ~ suja => esquema = versao
    /\ suja => esquema \in {versao - 1, versao}

\* A schema is refused as dirty only after a process failed or was killed, never
\* because another one is migrating it just now (docker-compose.yml starts the
\* instances without an order among them).
RecusaAposQueda ==
    suja /\ (\E i \in Instancias : pc[i] = "consultar")
    => \E i \in Instancias : reinicios[i] > 0 \/ (pc[i] = "saiu" /\ saida[i] = 1)

\* SIGTERM ends the process, at any point of its life and whatever its requests
\* do.
ParadaTermina == \A i \in Instancias : i \in parar ~> pc[i] = "saiu"

\* Nobody waits for the lock for ever, whoever held it and however it ended:
\* a process that starts comes up, or goes (m.Up, m.Close).
SobeOuSai ==
    \A i \in Instancias : pc[i] = "abrir" ~> pc[i] \in {"servindo", "drenando", "saiu"}
===============================================================================
