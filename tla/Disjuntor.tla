------------------------------- MODULE Disjuntor -------------------------------
(***************************************************************************)
(* What the exchange client's circuit breaker promises, whatever it counts *)
(* and however it measures time: which calls may reach the provider, and   *)
(* whose results may move the circuit.                                     *)
(***************************************************************************)
CONSTANT Chamadores

VARIABLES
    estado,        \* the circuit
    autorizadas    \* calls on their way whose result will count

Init == estado = "fechado" /\ autorizadas = {}

\* A circuit that moves disowns every call it had authorized.
Mudar(novo) == estado' = novo /\ autorizadas' = {}

\* A closed circuit lets every call pass; any other, one call at a time, and
\* only once it is half-open.
Autorizar(c) ==
    /\ c \notin autorizadas
    /\ \/ estado = "fechado" /\ estado' = estado /\ autorizadas' = autorizadas \cup {c}
       \/ /\ \/ estado = "aberto"
             \/ estado = "meioAberto" /\ autorizadas = {}
          /\ estado' = "meioAberto" /\ autorizadas' = {c}

\* The circuit half-opens on its own: a call that ends notices the time.
MeiaAbertura == estado = "aberto" /\ Mudar("meioAberto")

\* The result of an authorized call: in a closed circuit a failure may open it,
\* in a half-open one the trial decides.
Concluir(c) ==
    /\ c \in autorizadas
    /\ \/ estado = "fechado" /\ estado' = estado /\ autorizadas' = autorizadas \ {c}
       \/ estado = "fechado" /\ Mudar("aberto")
       \/ estado = "meioAberto" /\ \E novo \in {"fechado", "aberto"} : Mudar(novo)

Next == MeiaAbertura \/ \E c \in Chamadores : Autorizar(c) \/ Concluir(c)

Spec == Init /\ [][Next]_<<estado, autorizadas>>
================================================================================
