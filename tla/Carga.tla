-------------------------------- MODULE Carga --------------------------------
(***************************************************************************)
(* The demonstration load, cmd/carga: each execution checks that there are *)
(* no assignors, commits three transactions (assignors, rates, quotes) and *)
(* then creates and settles its transactions one by one. Executions may    *)
(* overlap, fail or be killed anywhere, and run again; the API, which      *)
(* lists the rows, may settle them meanwhile.                              *)
(*                                                                         *)
(* Pricing a row reads the rates and quotes committed before (modules      *)
(* TaxaBase and Precificacao); a settlement is one step (Liquidacao).      *)
(*                                                                         *)
(* A definition commented "Fault:" is not part of the model: it is its     *)
(* successor with a plausible bug, which some property has to notice.      *)
(***************************************************************************)
EXTENDS Naturals

CONSTANTS Execucoes,           \* runs of the command
          Tipos,               \* number of receivable types
          TransacoesPorTipo,   \* transactions created for each
          Ninguem              \* nobody holds the new assignors' index entries

ASSUME CargaAssumption ==
    /\ Tipos \in Nat \ {0} /\ TransacoesPorTipo \in Nat \ {0}
    /\ Ninguem \notin Execucoes

VARIABLES
    cedentes,      \* committed: the assignors are there
    inserindo,     \* the session with uncommitted assignors
    taxas,         \* committed: the executions whose rates are there
    cotacoes,      \* committed: the executions whose quotes are there
    transacoes,    \* committed: status of the rows of each execution
    passo,         \* where each execution is
    proxima,       \* transactions an execution has gone through
    fim,           \* how each execution ended
    sobrepostas    \* history: executions at work when each one made its check

banco == <<cedentes, inserindo, taxas, cotacoes, transacoes>>
vars == <<banco, passo, proxima, fim, sobrepostas>>

Total == Tipos * TransacoesPorTipo
Numeros == 0..(Total - 1)

\* statusDemo, for the index of a transaction within its type.
statusDemo(n) ==
    LET idx == n % TransacoesPorTipo
    IN  IF idx % 3 = 0 THEN "LIQUIDADA"
        ELSE IF idx % 7 = 0 THEN "CANCELADA"
        ELSE "PENDENTE"

Andando == {"gerarCedentes", "confirmarCedentes", "gerarTaxas", "gerarCotacoes",
            "criar", "liquidar"}

TypeOK ==
    /\ cedentes \in BOOLEAN
    /\ inserindo \in Execucoes \cup {Ninguem}
    /\ taxas \subseteq Execucoes /\ cotacoes \subseteq Execucoes
    /\ transacoes \in [Execucoes ->
            [Numeros -> {"inexistente", "PENDENTE", "LIQUIDADA", "CANCELADA"}]]
    /\ passo \in [Execucoes -> Andando \cup {"verificar", "terminou"}]
    /\ proxima \in [Execucoes -> 0..Total]
    /\ fim \in [Execucoes -> {"nenhum", "sucesso", "recusada", "erro"}]
    /\ sobrepostas \in [Execucoes -> SUBSET Execucoes]
    /\ \A e \in Execucoes : fim[e] = "sucesso" => proxima[e] = Total
    /\ inserindo # Ninguem => passo[inserindo] \in {"confirmarCedentes", "terminou"}

Init ==
    /\ cedentes = FALSE /\ inserindo = Ninguem
    /\ taxas = {} /\ cotacoes = {}
    /\ transacoes = [e \in Execucoes |-> [n \in Numeros |-> "inexistente"]]
    /\ passo = [e \in Execucoes |-> "verificar"]
    /\ proxima = [e \in Execucoes |-> 0]
    /\ fim = [e \in Execucoes |-> "nenhum"]
    /\ sobrepostas = [e \in Execucoes |-> {}]

-------------------------------------------------------------------------------
Ir(e, destino) == passo' = [passo EXCEPT ![e] = destino] /\ UNCHANGED fim

Terminar(e, como) ==
    /\ passo' = [passo EXCEPT ![e] = "terminou"]
    /\ fim' = [fim EXCEPT ![e] = como]

\* A step that commits may do so and still report an error (answer lost).
IrOuErrar(e, destino) == Ir(e, destino) \/ Terminar(e, "erro")

\* Who is at work when an execution makes its check (history).
Anotar(e) == sobrepostas' = [sobrepostas EXCEPT ![e] = {d \in Execucoes : passo[d] \in Andando}]

\* Fault: the check is not made.
verificarNada(e) ==
    /\ passo[e] = "verificar"
    /\ Anotar(e)
    /\ Ir(e, "gerarCedentes")
    /\ UNCHANGED <<banco, proxima>>

\* SELECT count(*) FROM cedentes sees committed rows only.
verificarIdempotencia(e) ==
    /\ passo[e] = "verificar"
    /\ Anotar(e)
    /\ IF cedentes THEN Terminar(e, "recusada") ELSE Ir(e, "gerarCedentes")
    /\ UNCHANGED <<banco, proxima>>

\* INSERT ... ON CONFLICT DO NOTHING waits for a session that has inserted the
\* same documents, and inserts those that are not there in the end.
inserirCedentes(e) ==
    /\ passo[e] = "gerarCedentes"
    /\ inserindo = Ninguem
    /\ inserindo' = IF cedentes THEN Ninguem ELSE e
    /\ Ir(e, "confirmarCedentes")
    /\ UNCHANGED <<cedentes, taxas, cotacoes, transacoes, proxima, sobrepostas>>

confirmarCedentes(e) ==
    /\ passo[e] = "confirmarCedentes"
    /\ cedentes' = TRUE
    /\ inserindo' = IF inserindo = e THEN Ninguem ELSE inserindo
    /\ IrOuErrar(e, "gerarTaxas")
    /\ UNCHANGED <<taxas, cotacoes, transacoes, proxima, sobrepostas>>

\* The three rates, in one transaction.
gerarTaxas(e) ==
    /\ passo[e] = "gerarTaxas"
    /\ taxas' = taxas \cup {e}
    /\ IrOuErrar(e, "gerarCotacoes")
    /\ UNCHANGED <<cedentes, inserindo, cotacoes, transacoes, proxima, sobrepostas>>

\* The two quotes, in one transaction.
gerarCotacoes(e) ==
    /\ passo[e] = "gerarCotacoes"
    /\ cotacoes' = cotacoes \cup {e}
    /\ IrOuErrar(e, "criar")
    /\ UNCHANGED <<cedentes, inserindo, taxas, transacoes, proxima, sobrepostas>>

\* The transaction at hand is done with.
Avancar(e) ==
    /\ proxima' = [proxima EXCEPT ![e] = @ + 1]
    /\ IF proxima[e] + 1 = Total THEN Terminar(e, "sucesso") ELSE Ir(e, "criar")

\* A row is born PENDENTE or CANCELADA; one to be settled is settled next.
StatusInicial(n) == IF statusDemo(n) = "CANCELADA" THEN "CANCELADA" ELSE "PENDENTE"

criarTransacao(e) ==
    LET n == proxima[e]
    IN  /\ passo[e] = "criar"
        /\ transacoes' = [transacoes EXCEPT ![e][n] = StatusInicial(n)]
        /\ \/ /\ statusDemo(n) = "LIQUIDADA"
              /\ Ir(e, "liquidar")
              /\ UNCHANGED proxima
           \/ /\ statusDemo(n) # "LIQUIDADA"
              /\ Avancar(e)
           \/ Terminar(e, "erro") /\ UNCHANGED proxima
        /\ UNCHANGED <<cedentes, inserindo, taxas, cotacoes, sobrepostas>>

\* Fault: a settlement that fails is not noticed.
liquidarSemChecarErro(e) ==
    /\ passo[e] = "liquidar"
    /\ \/ transacoes' = [transacoes EXCEPT ![e][proxima[e]] = "LIQUIDADA"]
       \/ UNCHANGED transacoes
    /\ Avancar(e)
    /\ UNCHANGED <<cedentes, inserindo, taxas, cotacoes, sobrepostas>>

\* Liquidar with version 1: a conflict, when the API was faster, ends the load.
liquidar(e) ==
    LET n == proxima[e]
    IN  /\ passo[e] = "liquidar"
        /\ \/ /\ transacoes[e][n] = "PENDENTE"
              /\ transacoes' = [transacoes EXCEPT ![e][n] = "LIQUIDADA"]
              /\ Avancar(e) \/ (Terminar(e, "erro") /\ UNCHANGED proxima)
           \/ /\ transacoes[e][n] # "PENDENTE"
              /\ Terminar(e, "erro")
              /\ UNCHANGED <<transacoes, proxima>>
        /\ UNCHANGED <<cedentes, inserindo, taxas, cotacoes, sobrepostas>>

\* A statement fails without effect, the two minutes are over or the process is
\* killed: the open transaction, if any, is rolled back, or the database has yet
\* to notice that nobody holds its session.
Interromper(e) ==
    /\ passo[e] \in Andando \cup {"verificar"}
    /\ Terminar(e, "erro")
    /\ inserindo' \in {inserindo, IF inserindo = e THEN Ninguem ELSE inserindo}
    /\ UNCHANGED <<cedentes, taxas, cotacoes, transacoes, proxima, sobrepostas>>

\* The database ends the session of an execution that is gone, before or after
\* a COMMIT that was on its way.
EncerrarOrfa(e) ==
    /\ inserindo = e /\ passo[e] = "terminou"
    /\ inserindo' = Ninguem
    /\ cedentes' \in {cedentes, TRUE}
    /\ UNCHANGED <<taxas, cotacoes, transacoes, passo, proxima, fim, sobrepostas>>

\* POST /transacoes/{id}/liquidacao from elsewhere.
LiquidarPelaAPI(e, n) ==
    /\ transacoes[e][n] = "PENDENTE"
    /\ transacoes' = [transacoes EXCEPT ![e][n] = "LIQUIDADA"]
    /\ UNCHANGED <<cedentes, inserindo, taxas, cotacoes, passo, proxima, fim, sobrepostas>>

Comum(e) ==
    \/ inserirCedentes(e) \/ confirmarCedentes(e) \/ gerarTaxas(e) \/ gerarCotacoes(e)
    \/ criarTransacao(e) \/ liquidar(e) \/ Interromper(e) \/ EncerrarOrfa(e)
    \/ \E n \in Numeros : LiquidarPelaAPI(e, n)

Next == \E e \in Execucoes : verificarIdempotencia(e) \/ Comum(e)

\* One execution after another, as an operator who waits for the command runs it.
Sozinha(e) == \A d \in Execucoes \ {e} : passo[d] \in {"verificar", "terminou"}
NextSerial ==
    \E e \in Execucoes : (Sozinha(e) /\ verificarIdempotencia(e)) \/ Comum(e)

Spec == Init /\ [][Next]_vars
SpecSerial == Init /\ [][NextSerial]_vars

-------------------------------------------------------------------------------
(* Properties.                                                             *)

Existe(e, n) == transacoes[e][n] # "inexistente"

\* Wherever an execution stops, what it leaves is a prefix of the mass: rows
\* only after their assignors, rates and quotes, no gap among the rows, and all
\* but the last with the status they were meant to end in (PENDENTE ones may
\* have been settled by the API). After a success it is the whole mass.
MassaEmOrdem ==
    \A e \in Execucoes :
        /\ e \in taxas => cedentes
        /\ e \in cotacoes => e \in taxas
        /\ (\E n \in Numeros : Existe(e, n)) => e \in cotacoes
        /\ \A n \in Numeros : Existe(e, n) =>
              \A k \in 0..(n - 1) :
                  \/ transacoes[e][k] = statusDemo(k)
                  \/ statusDemo(k) = "PENDENTE" /\ transacoes[e][k] = "LIQUIDADA"
        /\ fim[e] = "sucesso" =>
              \A n \in Numeros :
                  \/ transacoes[e][n] = statusDemo(n)
                  \/ statusDemo(n) = "PENDENTE" /\ transacoes[e][n] = "LIQUIDADA"

\* Two executions that both load rates, quotes or rows of the mass are
\* executions that overlapped: one was at work when the other made its check,
\* whatever failed and however late (verificarIdempotencia).
MassaUnica ==
    \A d, e \in taxas : d # e => d \in sobrepostas[e] \/ e \in sobrepostas[d]

\* "carga já foi executada": a load is refused only after another one has
\* loaded the mass (verificarIdempotencia).
RecusaSoDepoisDeCompleta ==
    \A e \in Execucoes : fim[e] = "recusada" =>
        \E d \in Execucoes : \A n \in Numeros : Existe(d, n)
===============================================================================
