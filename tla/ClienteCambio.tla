----------------------------- MODULE ClienteCambio -----------------------------
(***************************************************************************)
(* The exchange-rate client: concurrent calls of Cotacao through a circuit *)
(* breaker to a provider that falls ill and recovers, with calls that are  *)
(* abandoned by their callers or time out.                                 *)
(*                                                                         *)
(* The breaker is gobreaker v2 as NovoCliente sets it up: ReadyToTrip at   *)
(* Limite consecutive failures, and the library's defaults for the rest -  *)
(* one request while half-open, and no Interval, so that a closed circuit  *)
(* never forgets its failures by itself. Its lock is held by beforeRequest *)
(* and by afterRequest, one step each, and not while the call is out.      *)
(*                                                                         *)
(* gobreaker numbers its generations and compares the number a call was    *)
(* admitted under with the present one. Only that comparison matters:      *)
(* antigas holds the calls whose generation is over.                       *)
(*                                                                         *)
(* A definition commented "Fault:" is not part of the model: it is its     *)
(* successor with a plausible bug, which some property has to notice.      *)
(***************************************************************************)
EXTENDS Integers, Sequences

CONSTANTS Chamadores,   \* goroutines that call Cotacao, each again and again
          Limite        \* consecutive failures that open the circuit

ASSUME ClienteAssumption == Limite \in Nat \ {0}

VARIABLES
    url,           \* CAMBIO_URL is "vazia", "invalida" or "valida"
    provedor,      \* the provider answers with a rate ("bem"), with anything else
                   \* ("mal") or not at all ("mudo")
    estado,        \* the circuit
    expirou,       \* BreakerTimeout has passed since it opened
    falhas,        \* counts.ConsecutiveFailures
    tentativas,    \* counts.Requests, which matters only while half-open
    pc,            \* where each call is
    resultado,     \* what buscarTaxa returned
    antigas,       \* calls admitted in a generation that is over
    ultimas        \* history: the last results that counted in this generation

disjuntor == <<estado, expirou, falhas, tentativas>>
vars == <<url, provedor, disjuntor, pc, resultado, antigas, ultimas>>

Saudes == {"bem", "mal", "mudo"}

NaRede(c) == pc[c] \in {"naRede", "voltou"}

\* The calls on their way whose result will count.
Autorizadas == {c \in Chamadores : NaRede(c)} \ antigas

TypeOK ==
    /\ url \in {"vazia", "invalida", "valida"}
    /\ provedor \in Saudes
    /\ estado \in {"fechado", "aberto", "meioAberto"}
    /\ expirou \in BOOLEAN
    /\ falhas \in 0..(Limite - 1)
    /\ tentativas \in {0, 1}
    /\ pc \in [Chamadores -> {"livre", "pedir", "naRede", "voltou"}]
    /\ resultado \in [Chamadores -> {"taxa", "falha"}]
    /\ antigas \subseteq {c \in Chamadores : NaRede(c)}
    /\ ultimas \in Seq({"taxa", "falha"}) /\ Len(ultimas) < Limite

Init ==
    /\ url \in {"vazia", "invalida", "valida"}
    /\ provedor \in Saudes
    /\ estado = "fechado" /\ expirou = FALSE /\ falhas = 0 /\ tentativas = 0
    /\ pc = [c \in Chamadores |-> "livre"]
    /\ resultado = [c \in Chamadores |-> "falha"]
    /\ antigas = {}
    /\ ultimas = <<>>

--------------------------------------------------------------------------------
(* The breaker.                                                            *)

\* ReadyToTrip.
AbreCom(n) == n >= Limite

\* Fault: the counts outlive the generation.
NovaGeracaoSemZerar(novo, c) ==
    /\ estado' = novo /\ expirou' = FALSE
    /\ antigas' = {d \in Chamadores : NaRede(d)} \ {c}
    /\ ultimas' = <<>>
    /\ UNCHANGED falhas

\* setState and toNewGeneration on behalf of c: the failures are forgotten, and
\* the other calls on their way belong to the past.
NovaGeracao(novo, c) ==
    /\ estado' = novo /\ expirou' = FALSE
    /\ antigas' = {d \in Chamadores : NaRede(d)} \ {c}
    /\ ultimas' = <<>>
    /\ falhas' = 0

\* beforeRequest lets the call through; currentState may have to half-open the
\* circuit first.
Admitir(c) ==
    /\ pc[c] = "pedir" /\ url = "valida"
    /\ \/ estado = "fechado" /\ UNCHANGED <<disjuntor, antigas, ultimas>>
       \/ /\ estado = "meioAberto" /\ tentativas = 0
          /\ tentativas' = 1
          /\ UNCHANGED <<estado, expirou, falhas, antigas, ultimas>>
       \/ /\ estado = "aberto" /\ expirou
          /\ NovaGeracao("meioAberto", c)
          /\ tentativas' = 1
    /\ pc' = [pc EXCEPT ![c] = "naRede"]
    /\ UNCHANGED <<url, provedor, resultado>>

\* beforeRequest refuses: ErrOpenState, ErrTooManyRequests.
Rejeitar(c) ==
    /\ pc[c] = "pedir" /\ url = "valida"
    /\ \/ estado = "aberto" /\ ~ expirou
       \/ estado = "meioAberto" /\ tentativas = 1
    /\ pc' = [pc EXCEPT ![c] = "livre"]
    /\ UNCHANGED <<url, provedor, disjuntor, resultado, antigas, ultimas>>

\* BreakerTimeout passes.
Expirar ==
    /\ estado = "aberto" /\ ~ expirou
    /\ expirou' = TRUE
    /\ UNCHANGED <<url, provedor, estado, falhas, tentativas, pc, resultado, antigas, ultimas>>

\* onSuccess and onFailure in a closed circuit.
ContarFechado(c) ==
    /\ estado = "fechado"
    /\ UNCHANGED tentativas
    /\ IF resultado[c] = "falha" /\ AbreCom(falhas + 1) THEN NovaGeracao("aberto", c)
       ELSE /\ falhas' = IF resultado[c] = "falha" THEN falhas + 1 ELSE 0
            /\ ultimas' = LET s == Append(ultimas, resultado[c])
                          IN  IF Len(s) = Limite THEN Tail(s) ELSE s
            /\ UNCHANGED <<estado, expirou, antigas>>

\* Fault: two successes close the circuit, but one trial is all it admits.
ContarMeioAbertoDuas(c) ==
    /\ estado = "meioAberto"
    /\ IF resultado[c] = "falha" THEN NovaGeracao("aberto", c) /\ tentativas' = 0
       ELSE UNCHANGED <<disjuntor, antigas, ultimas>>

\* onSuccess and onFailure of the trial.
ContarMeioAberto(c) ==
    /\ estado = "meioAberto"
    /\ NovaGeracao(IF resultado[c] = "falha" THEN "aberto" ELSE "fechado", c)
    /\ tentativas' = 0

\* Fault: the generation is not compared.
DevolverSemGeracao(c) ==
    /\ pc[c] = "voltou"
    /\ \/ ContarFechado(c) \/ ContarMeioAberto(c)
       \/ estado = "aberto" /\ antigas' = antigas \ {c} /\ UNCHANGED <<disjuntor, ultimas>>
    /\ pc' = [pc EXCEPT ![c] = "livre"]
    /\ UNCHANGED <<url, provedor, resultado>>

\* afterRequest: the result counts if the generation is still the one the call
\* was admitted in, after currentState has had its say; Cotacao returns.
Devolver(c) ==
    /\ pc[c] = "voltou"
    /\ \/ c \notin antigas /\ (ContarFechado(c) \/ ContarMeioAberto(c))
       \/ /\ c \in antigas /\ estado = "aberto" /\ expirou
          /\ NovaGeracao("meioAberto", c)
          /\ tentativas' = 0
       \/ /\ c \in antigas /\ ~ (estado = "aberto" /\ expirou)
          /\ antigas' = antigas \ {c}
          /\ UNCHANGED <<disjuntor, ultimas>>
    /\ pc' = [pc EXCEPT ![c] = "livre"]
    /\ UNCHANGED <<url, provedor, resultado>>

--------------------------------------------------------------------------------
(* The call.                                                               *)

Chamar(c) ==
    /\ pc[c] = "livre"
    /\ pc' = [pc EXCEPT ![c] = "pedir"]
    /\ UNCHANGED <<url, provedor, disjuntor, resultado, antigas, ultimas>>

\* Without a usable URL the breaker is not asked.
RecusarURL(c) ==
    /\ pc[c] = "pedir" /\ url # "valida"
    /\ pc' = [pc EXCEPT ![c] = "livre"]
    /\ UNCHANGED <<url, provedor, disjuntor, resultado, antigas, ultimas>>

Voltar(c, r) ==
    /\ pc[c] = "naRede"
    /\ pc' = [pc EXCEPT ![c] = "voltou"]
    /\ resultado' = [resultado EXCEPT ![c] = r]
    /\ UNCHANGED <<url, provedor, disjuntor, antigas, ultimas>>

\* buscarTaxa gets an answer: a status other than 200, a body that does not
\* parse and a rate that is not a positive decimal are failures.
buscarTaxa(c) ==
    \/ provedor = "bem" /\ Voltar(c, "taxa")
    \/ provedor = "mal" /\ Voltar(c, "falha")

\* Fault: http.Client without Timeout.
EsgotarNunca(c) == FALSE

\* The Timeout of http.Client: the provider may be mute, or just slow.
Esgotar(c) == Voltar(c, "falha")

\* Fault: a call that was cancelled returns without reporting to the breaker.
CancelarSemDevolver(c) ==
    /\ pc[c] = "naRede"
    /\ pc' = [pc EXCEPT ![c] = "livre"]
    /\ antigas' = antigas \ {c}
    /\ UNCHANGED <<url, provedor, disjuntor, resultado, ultimas>>

\* The caller's context is cancelled: for the breaker a failure like any other.
Cancelar(c) == Voltar(c, "falha")

Oscilar ==
    /\ provedor' \in Saudes
    /\ UNCHANGED <<url, disjuntor, pc, resultado, antigas, ultimas>>

Next ==
    \/ Expirar \/ Oscilar
    \/ \E c \in Chamadores :
          \/ Chamar(c) \/ RecusarURL(c) \/ Admitir(c) \/ Rejeitar(c)
          \/ buscarTaxa(c) \/ Esgotar(c) \/ Cancelar(c) \/ Devolver(c)

Spec == Init /\ [][Next]_vars

\* A goroutine that can go on does; the timers of BreakerTimeout and of
\* http.Client fire. Nobody has to call, to cancel, or to be well.
Fairness ==
    /\ WF_vars(Expirar)
    /\ \A c \in Chamadores :
          /\ WF_vars(RecusarURL(c) \/ Admitir(c) \/ Rejeitar(c) \/ Devolver(c))
          /\ WF_vars(buscarTaxa(c) \/ Esgotar(c))

FairSpec == Spec /\ Fairness

--------------------------------------------------------------------------------
(* Properties.                                                             *)

\* The right to try a half-open circuit is never lost and never doubled: it is
\* taken exactly while a call admitted since then is on its way, whatever ends
\* that call, and an open circuit has sent none (Settings without MaxRequests).
FichaNuncaPerdida ==
    /\ estado = "aberto" => Autorizadas = {}
    /\ estado = "meioAberto" => \/ tentativas = 0 /\ Autorizadas = {}
                                \/ tentativas = 1 /\ \E c \in Chamadores : Autorizadas = {c}

\* A closed circuit opens only on Limite failures in a row among the calls that
\* were admitted since it closed (ReadyToTrip): no result of an earlier
\* generation, no count left over from one, and no failure before a success.
AberturaMerecida ==
    [][estado = "fechado" /\ estado' = "aberto" =>
          /\ Len(ultimas) = Limite - 1
          /\ \A k \in DOMAIN ultimas : ultimas[k] = "falha"
          /\ \E c \in Autorizadas : resultado[c] = "falha" /\ pc'[c] = "livre"]_vars

\* The breaker with its counts, generations and timers does no more than the
\* one that only says whose calls pass and whose results count.
Promessa == INSTANCE Disjuntor WITH autorizadas <- Autorizadas
ImplementaDisjuntor == Promessa!Spec

\* Every call of Cotacao returns, also when the provider never answers.
TodaChamadaTermina == \A c \in Chamadores : pc[c] # "livre" ~> pc[c] = "livre"

\* Once the provider is well for good and answers in time, and calls go on
\* coming that nobody cancels (a step like Esgotar), the circuit closes and
\* stays closed (TestCircuitBreakerAbreEFecha).
Recupera ==
    (/\ <>[](provedor = "bem")
     /\ []<><<\E c \in Chamadores : Chamar(c)>>_vars
     /\ <>[][~ \E c \in Chamadores : Esgotar(c)]_vars)
    => <>[](estado = "fechado")
================================================================================
