# Verification of srm-backend

TLA+ models of srm-backend, the TLC configurations that check them on small
instances and the TLAPS proofs of what holds for every instance. The modules
are named in the language of the code (Portuguese), the comments are in English.

## 1. The system

srm-backend is a Go HTTP service over PostgreSQL that prices receivables
(simulation), registers their assignment as transactions and settles them.
Every operation is a handler (one goroutine per request) that issues SQL
through a pool of at most 10 connections; the only shared state is the
database. Multi-statement database transactions are used in settlement, in the
registration of a base rate and by the demonstration load, at READ COMMITTED;
everything else is a sequence of statements that commit one by one.

| Component | State | Operations | What is hard | What makes it correct |
|---|---|---|---|---|
| Settlement (`infra/postgres/transacao.go`, `server/operacoes.go`) | `transacoes`, `transacao_auditoria`, sessions, row locks | POST `/transacoes/{id}/liquidacao`: read version, conditional UPDATE, audit INSERT, re-read, COMMIT | requests racing for a row, stale version, lost answer to COMMIT, sessions that outlive the process, pool | settled once, by who was told so; audit and row always agree; refusals are final |
| Base rates (`repos.go`) | `taxas_base` | register (close what is open, insert), look up by date | concurrent registrations, starts out of order | a date keeps its rate, no gaps, one rate valid at a time |
| Exchange quotes (`repos.go`) | `cotacoes_cambio` | register, look up by pair and date | several quotes of a pair are always open | the latest start wins, in the direction of ADR-006 |
| Pricing service (`app/handler/servico.go`) | per request: what was read | POST `/simulacoes`, POST `/transacoes` | reads without a transaction between registrations; failures between INSERT and answer; instant against date | a stored price can be explained and repeated; refusals leave nothing behind |
| Listings (`report/extrato.go`, `Listar`) | reads only | paged by LIMIT/OFFSET with COUNT(*) OVER() | rows come and go between two pages, reads that break off, arithmetic of pages | a walk misses nothing; a page is whole or an error; totals are true |
| Demonstration load (`demo/carga.go`, `cmd/carga`) | writes all tables | check, assignors, rates, quotes, 50 transactions | interruption, re-execution, overlap | all or an ordered prefix; never twice |
| Pricing engine (`domain/precificacao`, `domain/money`, `domain/recebivel`) | none | discount, conversion, rounding | order of discount and conversion, single rounding, scales of the columns | one rounding, to the nearest cent, after the power; costs keep their order; amounts can be recomputed from the row |
| Exchange client (`infra/cambio`) | circuit breaker | quote over HTTP | half-open trials, results of earlier generations, cancelled calls, a mute provider | opens for a reason, never loses its trial, closes again |
| Server (`cmd/api`, `server`, `platform/migracao`) | process life, `schema_migrations` | migrations at start, listening, drain on SIGTERM, restarts | instances that migrate at once or die in a statement, requests at the drain deadline | serves only on a complete schema; the version says what the schema has; SIGTERM ends it |

Interactions: handlers call the pricing service, which calls the repositories
and the engine; the load calls the repositories and the engine directly; the
report reads the tables by itself (ADR-007). The exchange client is built by
`montarServico` and never called.

The hazards, each at its line and with the properties that watch it, are listed
in `PROJECT.json`.

## 2. Modules

| Module | Models | Checked by | Proved in |
|---|---|---|---|
| `LiquidacaoAbstrata` | what settlement promises: one indivisible step, answers that never contradict it | as a property of `Liquidacao` | `LiquidacaoProofs` (refinement) |
| `Liquidacao` | settlement, statement by statement | `MCLiquidacao` | `LiquidacaoProofs` |
| `Taxas` | what registrations of base rates promise together: each in one step, closing what was open in some earlier table | as a property of `TaxaBaseHistoria` | `TaxaBaseProofs` (refinement) |
| `TaxaBase` | concurrent registrations of base rates and the lookup | `MCTaxaBase` | `TaxaBaseProofs` |
| `TaxaBaseHistoria` | the same with the order of commits recorded, mapped to `Taxas` | `MCTaxaBase` | `TaxaBaseProofs` |
| `Paginacao` | the two paged listings while rows change | `MCPaginacao` | `PaginacaoProofs` |
| `Precificacao` | simulation and creation while rates and quotes are registered | `MCPrecificacao` | `PrecificacaoProofs` |
| `Motor` | the amounts: discount, conversion, rounding, columns | `MCMotor` | `MotorProofs` |
| `Carga` | executions of the demonstration load | `MCCarga` | `CargaProofs` |
| `Disjuntor` | what the circuit breaker promises: whose calls pass, whose results count | as a property of `ClienteCambio` | `ClienteCambioProofs` (refinement) |
| `ClienteCambio` | concurrent calls through the circuit breaker | `MCClienteCambio` | `ClienteCambioProofs` |
| `Servidor` | migrations, serving, drain and restarts of several instances | `MCServidor` | `ServidorProofs` |

Conventions. Actions carry the names of the functions or statements they model.
A definition whose comment starts with "Fault:" is not used by the model: it is
its successor with a plausible bug, and `PROJECT.json` pairs each property with
one that must break it. Variables called "history" are written and never read
by actions.

### Liquidacao

State: the two tables as committed (`transacoes`, `auditoria`); per request the
session (`sessao`), the row lock (`trava`), the uncommitted row and audit row
(`escrita`, `trilha`); per handler the point it is at (`pc`), the version read
(`lida`), the clock reading and the answer so far. `PorID`, `Begin`,
`LiquidarUpdate`/`LiquidarUpdateConflito`, `InserirAuditoriaLiquidacao`,
`Reler`, `Commit`, `Rollback` are the statements of the handler and of
`TransacaoRepo.Liquidar` in order; the UPDATE waits for the row lock and
evaluates its condition on the committed version it finds then, as READ
COMMITTED does. `ConfirmarBD` and `AbortarBD` are PostgreSQL's own steps: a
COMMIT that was sent takes effect or not independently of whether its answer
arrives (`Sucesso`, `FalharCommit`). `Queda` ends the process: sessions become
orphans that hold their locks until the database notices.

### TaxaBase and Taxas

A row is named by the request that inserts it. `FotografarAbertas` is the
snapshot of the UPDATE in `encerrarVigenciaAnterior`, `EncerrarVigenciaAnterior`
its effect once the locks of those rows are free, with the condition evaluated
again; the CHECK constraint refuses a validity that would end before it starts.
The locks of one UPDATE are taken together. `Vigente` is the SELECT with its
filter and order; ties are left to nondeterminism.

`Taxas` is the table without sessions: `Registrar` adds a row and closes the
open rows among the first ones, as many as were committed when its UPDATE took
its snapshot. `TaxaBaseHistoria` adds to `TaxaBase` the order of commits
(`ordem`) and how far it had gone at each snapshot (`visao`), history both, and
maps the rows in that order to the table of `Taxas`: `ConfirmarBD` is
`Registrar`, all else stutters. A session that waited for another's lock closes
nothing the other has closed, which is what the mapping has to show.
`SemCruzamento` says of a currency that of any two of its registrations one saw
the other; `UnicaSemCruzamento`, that its rates are then unique at any instant.

### Paginacao

One page is one statement, hence one snapshot. `Consultar` is the set of answers
a page may have: all its rows, with the total that comes with them
(`PaginaLida`), or 500 (`PaginaFalha`), since the query, the scan of a row and
the iteration may each fail, for any page; the rows that did come are dropped
then. The offset arithmetic is in w-bit integers (`Limite` is 2^(w-1)): a
product that wraps to a negative number makes the statement fail for certain,
one that wraps to a natural one asks for another page. A filter on a
column that never changes is represented by the period; status is the one filter
whose answer changes. `Iniciar`, `LerPagina` and `Desistir` are a caller,
outside the repository, that asks for the pages up to `total_paginas`, and may
ask again or give up when a page fails.

### Precificacao

A request reads the rate, then the quote, then prices, resolves the references,
inserts and reads back; each is an action, and each statement may fail
(`Falhar`). Time is counted in instants; `Datar` keeps apart the instant by
which rates are found and the date that is stored, with the calendar of
America/Sao_Paulo (`DataLocal`). Money is left out: a rate or a quote is the row
it was read from, which is what reproducibility is about. A registration of a
rate is `Registrar` of module `Taxas`, which the sessions of `TaxaBase`
implement. `leitura` also records how much
of the tables had been registered at each lookup (history).

### Motor

The other half of pricing: what is computed from a rate and a quote, and what
of it the columns keep. Amounts are mils and rates are in units of 1/`Um` (the
code's is 10^-10); in between they
are fractions `[n, d]`, so that the only roundings are those of the code:
`Quantizar` in `finalizarValores`, and the scales of the columns in
`RegistrarCotacao` and `montarTransacao`. The discount factor is the decimal
that `Decimal.Pow` returns, for any number of days: the constant `Pow` has it for
each base and term, and the module asks of it only that it be positive and, for
the order of costs, that factors be in the order of term and rate.
`RegistrarCotacao` changes the quote in force while transactions keep theirs
(`aplicada`, `linha`).

### Carga

An execution is the sequence of `Executar`. Assignors are inserted under the
unique index on `documento`: another session waits for the end of the first and
then inserts nothing (`ON CONFLICT DO NOTHING`). Every commit may succeed and
report an error; `Interromper` is an error, the two-minute deadline or a kill,
after which the session may linger (`EncerrarOrfa`). The API may settle any
pending row meanwhile. `sobrepostas` records who was at work when an execution
made its check (history).

### ClienteCambio and Disjuntor

`Admitir`/`Rejeitar` are gobreaker's `beforeRequest`, `Devolver` its
`afterRequest`, each under the breaker's lock; between them a call is out
(`naRede`) and ends by an answer (`buscarTaxa`), by the time-out of http.Client
(`Esgotar`) or because its caller gives up (`Cancelar`). The configuration is
that of `NovoCliente`: `ReadyToTrip` at a number of consecutive failures,
gobreaker's defaults for the rest. Generation numbers are replaced by the set of
calls whose generation is over (`antigas`). The provider falls ill, goes mute
and recovers at any moment (`Oscilar`). gobreaker is a library: its steps are
modelled from its documented behaviour under this configuration and are marked
external in `PROJECT.json`. `Disjuntor` has neither counters nor generations nor
time: `estado` and the calls whose result counts.

### Servidor

State: `schema_migrations` (`versao`, `suja`), what the schema really has
(`esquema`), golang-migrate's advisory lock (`tranca`); per instance the point of
`main` it is at, its listener, its exit code, its restarts, and whether it was
sent SIGTERM; connections and who accepted them. A connection carries one
request after another: between them it is idle, and counts as active only while
a request is being served or it has yet to send its first one, as in net/http. `Morrer` and `FalharPreparo`
may happen in any statement, which then has taken effect or not
(`EfeitoEmCurso`), and leave the lock free or with an orphaned session.
`Reiniciar` is docker's `on-failure`. `Drenar`, `Encerrar`, `Prazo` are
`executarComShutdownGracioso`: `Shutdown` closes the listener and the idle
connections at once and returns when none is active, or the deadline ends the
process with code 1 and cuts the active ones off.

### How the modules fit together

They share the database, and each takes the others' effect on its tables as a
step. `Precificacao` takes its registrations of rates from `Taxas`, the
specification that `TaxaBase` implements, and leaves amounts to `Motor`, whose operations carry a
rate already found. `Paginacao` sees `Criar` and `Liquidar` as the indivisible
steps that `LiquidacaoAbstrata` says they are. `Carga` has the API's settlement
as one step for the same reason. `Servidor` says when a process ends; what that
does to the sessions of its requests is `Queda` in `Liquidacao` and
`Precificacao`.

## 3. What the runs show

| Run | Result |
|---|---|
| `liquidacao_concorrente` | audit = table, 200 is durable, 404/409 are final, no lost update, history immutable, refinement of `LiquidacaoAbstrata`; every request is answered or dies with the process, every lock is released |
| `taxa_concorrente` | no gaps, latest rate found, past lookups stable, 201 only when stored, rates of registrations that did not cross are unique at every instant, refinement of `Taxas`; registrations that wait for one another all end |
| `taxa_duas_abertas` | **violation**: two concurrent registrations leave two open rates |
| `paginacao_percurso` | a walk misses no row; repetitions at most one per row that came in; a page that is answered is all of the one asked for, though its reading may break off at any row |
| `paginacao_alem_do_fim` | **violation**: past the end, total is 0 although rows match |
| `precificacao_concorrente` | a stored rate and quote are those the instant calls for, "no rate" and "no quote" have a cause; a refusal or a simulation leaves no row, a 201 leaves one; the stored date leads back to the rate, but for a rate that started between its midnight and the instant |
| `precificacao_reprocesso` | **violation**: the stored date does not lead back to the rate applied |
| `motor` | one rounding, present value independent of the quote, order of costs kept, rows add up, rows price again to themselves, the engine refuses nothing the database gave it |
| `carga_sobreposta` | every execution leaves an ordered prefix of the mass, a success the whole; only executions that overlapped load it twice |
| `carga_parcial` | **violation**: "carga já foi executada" after an execution that loaded only the assignors |
| `cliente_cambio` | the half-open trial is neither lost nor doubled, the circuit opens only on a run of failures of its own generation, refinement of `Disjuntor`; every call returns, the circuit closes again |
| `servidor` | nobody serves on an incomplete schema, version and dirty flag tell the truth, dirty only after a failure; SIGTERM ends the process, nobody waits for the lock for ever |

The type invariants (`TypeOK`) are proved for every module (section 4), and so
are left out of the runs.

The four violations are in `PROJECT.json` under `findings`, with the comment or
document each contradicts. Two more facts the models show without a run of their
own: a listing filtered by `PENDENTE` misses rows that are settled while it is
walked through (`SoEntra` excludes it from `SemSalto`), and a page number that
passes validation may overflow the offset and be answered with another page
(`PaginaPedida` is guarded by the offset being an integer) or never be answered
with anything but 500.

Bounds, and why they are enough:

- Settlement: three requests, one row, one clock reading, two connections.
  Requests for different rows share nothing but the pool, and two contenders
  with a third that waits for a connection is every way to wait. The proofs
  remove the bounds.
- Base rates: three registrations with starts in 1..2 and an unknown currency:
  earlier, equal and later starts against orders of commits. The proofs remove
  the bounds. Currencies do not interact, so one is enough.
- Listings: four rows on two dates, pages of up to two rows, one caller; callers
  do not interact. Integers of four bits stand for 64: a row count of four is
  far below their limit, and page 7 with two rows a page is beyond it.
- Pricing: two days of three instants, three rates, two quotes, starts that
  reach back before every operation and starts at the second midnight, each kind
  of mistake in a body. One request is
  enough: requests write only their own row and read no other's.
- Amounts: two operations, since the properties relate two at most; face values
  that are negative, below, on and above half a cent and as large as TLC's
  32-bit integers have room for; quotes that round to 0, 0.1, 0.9 and 5.2. The
  powers are a table of one day, one month and 45 days at four rates, rounded to
  thousandths; 1.025 over 45 days is the example of the repository's README and
  of its integration test. `FatorCrescente` is evaluated on that table. The
  proofs remove the bounds and the table.
- Load: two executions of eight transactions, which is where the status function
  has shown all three of its values. `carga_parcial` runs them one after the
  other (`SpecSerial`), so that a load in progress is no excuse for the refusal.
- Exchange client: three callers and a limit of three. A trial, a call of an
  earlier generation and one that is refused coexist. The code's limit is 5;
  the proofs hold for any.
- Server: two instances, two migrations, one restart, one connection, reused any number of times: two is
  the number of migrations of the repository, and connections do not interact.

Deadlock checking is off everywhere: in most models requests are finite in number
and nothing is left to do once all are answered, and where callers come again
(`ClienteCambio`) nothing obliges them to.

Fairness, where a run checks liveness:

- `Liquidacao`, `TaxaBase`: `Andar` is weakly fair per request: the Go scheduler
  runs every goroutine that can go on, and every statement returns (the pool and
  the context give it an end). PostgreSQL decides a COMMIT it has received and
  ends a session whose client is gone. Arrivals, failures and crashes have none.
- `ClienteCambio`: goroutines run, the timers of `BreakerTimeout` and of
  http.Client fire. Nobody has to call, to cancel or to be well; `Recupera`
  assumes a provider that is well for good, calls that go on coming and are not
  given up, and says that the circuit then closes for good.
- `Servidor`: processes run, the deadline of `Shutdown` fires, SIGTERM ends a
  process that has not asked to be notified of it yet, PostgreSQL frees the lock
  of a session whose client is gone. No handler has to return: a request that
  never ends is what the deadline is for.

## 4. What is proved

For every value of the constants, from the named assumptions in the modules
(constants are distinct from one another, there is at least one connection,
instants are naturals, and so on):

- `LiquidacaoProofs`: `TypeOK`, `AuditoriaFiel`, `SucessoDuravel`,
  `RecusaSemEfeito`, `SemAtualizacaoPerdida`, `HistoricoImutavel` and the
  refinement `ImplementaAbstrata`.
- `TaxaBaseProofs`: `TypeOK`, `SucessoPublicado`, `FechaOQueViu`,
  `FechamentoTemSucessora`, `VigenteEhAMaisRecente`, `PassadoEstavel`,
  `UnicaSemCruzamento` and the refinement `ImplementaTaxas`.
- `CargaProofs`: `TypeOK`, `MassaEmOrdem`, `MassaUnica`.
- `PaginacaoProofs`: `TypeOK`, `SemSalto`, `RepeticoesLimitadas`, `PaginaPedida`.
- `PrecificacaoProofs`: `TypeOK`, `Reproduzivel`, `RecusaTemCausa`,
  `RespostaFiel`, and `ReprocessoDoDia`.
- `MotorProofs`: `TypeOK`, `UmSoArredondamento`, `VPIndependeDaCotacao`,
  `CustoNaoRende`, `LinhaFecha`, `Recalculavel`, `RecusaEDoPedido`; and of
  powers, `PotenciaEmOrdem`.
- `ClienteCambioProofs`: `TypeOK`, `FichaNuncaPerdida`, `AberturaMerecida` and
  the refinement `ImplementaDisjuntor`.
- `ServidorProofs`: `TypeOK`, `AtendeSoComEsquema`, `VersaoFiel`,
  `RecusaAposQueda`.

Each module proves an inductive invariant `IInv` (theorem `Invariante`, one lemma
or step per action) and derives the properties from it: they speak of committed
tables and answers, and are not inductive, since a step keeps them because of
what sessions and handlers agree on in between.

Settlement: `IInv` adds which session states go with which point of the handler
(`FaseInv`), that a version read is stale only if the row is final (`LidaInv`),
that a session with a write holds the lock and computed it from the version it
will replace (`EscritaInv`), that a pending answer equals what will be or has
been published (`SaidaInv`), and that audit rows are those of the sessions that
committed (`AuditoriaInv`). The lemma that carries the weight is
`ConfirmarBDInv`, where uncommitted writes become the table. The refinement maps
the audit row of a transaction to the request that settled it: `ConfirmarBD` is
the abstract `Efetivar`, whatever the handler learns of it, answers are
`Responder`, all else stutters.

Base rates: `IInv` says that the rows a session closes are locked, open and
older than its own (`FechadasInv`), that past the UPDATE nothing of its snapshot
is left open (`UpdateInv`), and that from the start of any rate on there is a
valid one at least as recent (`CoberturaInv`): closings never hide the latest
rate, even when concurrent registrations leave several open.

The order of commits has an invariant of its own (`HInv`, theorem `InvarianteH`):
`ordem` lists the stored rows once each (`OrdemInv`); a snapshot lies
among the first `visao` of them and has all of those that are still open
(`VisaoInv`), so that what a session will close is exactly what
`Taxas` says (`FechadasNaOrdem`); every closed rate has an open successor
(`AbertaInv`); and where registrations did not cross, a rate ended before any
later one started (`FilaInv`), which two rates valid at one instant would
contradict. The run `taxa_duas_abertas` shows that crossing registrations break
the promise; the theorem, that nothing else does.

Load: `IInv` ties the step an execution is at to what is committed by then
(`EtapaInv`), says that rows come in order up to the one at hand (`LinhasInv`),
and that any two executions past their check overlapped (`ParesInv`): one that
passes its check finds no committed assignors, hence no execution that has
loaded its rates.

Listings: the argument is about places. The order of a listing is total, so the
places of the rows that match are a bijection onto 0..N-1 (`Lugares`); the first
m places hold m rows, or all there are (`Contagem`); and when rows only come in,
a row that was there never moves to an earlier place (`PrimeirasCrescem`).
`PercursoInv` says of a walk under way that the rows before its next page are
those it has been sent, but for rows that came in since, and that it has been
sent at most as many items as there are such rows. `LerPaginaConhece` shows that
a page extends this by its own rows. Fewer rows than an integer counts is an
assumption (`PaginacaoAssumption`): it is what makes the offset of every page of
a walk an integer.

Pricing: `IInv` has the rate table as `TaxaBase` leaves it (`VigenciaInv`: from
the start of any rate on, the latest one is valid) and the quotes (`CambioInv`);
of every request that its rate and quote are the right ones among the rows
registered since, unless one that reaches back came later (`PrecoInv`), where its
row is against its answer (`RespostaInv`), and what it saw when it was refused
(`CausaInv`). `ReprocessoDoDia` is the complement of the run
`precificacao_reprocesso`: the stored date leads back to the rate applied
whenever the date was given, or no rate started between its midnight and the
instant. It needs that an instant is never before the midnight of its date in
America/Sao_Paulo (`DataInv`), for any offset behind UTC.

Amounts: `PedidoInv` says that what a request holds, and its row, is a function of
its operation and of the quote it was given, whatever the quote is by now. The
rest is arithmetic: `Arredondamento` (the nearest integer, ties away from zero)
and `MotorValor` (the fraction that is rounded, once). Of the factor these
theorems know only that it is a positive fraction (`FatorAssumption`), so they
hold for any term, any rate and whatever `Decimal.Pow` makes of them:
`UmSoArredondamento` speaks of face value over *that* factor over quote.

`CustoNaoRende` compares the roundings of two fractions with different factors in
them: a fraction with a larger factor below is smaller, and rounding keeps the
order (`ArredondarMonotono`). Here it matters that the factors themselves are in
order, which is the assumption `FatorCrescente`. What it rests on is
`PotenciaEmOrdem`: powers (b/Um)^(dias/30) rounded to the nearest, at any scale,
for every base from 1 up and every number of days, are in that order, and are
more than 1 if the scale tells one day's factor from 1. Rounded
powers are stated without roots, both sides raised to 30
(`ArredondaPotencia`), and compared by `PotenciaCruzada`. `Inducao` states
induction over the naturals as a fact about sets (a set that holds 0 and the
successor of each of its members, by counting those up to a number), which gives
the powers their recursive equation (`PotenciaDef`), `PotenciaSoma` and
`PotenciaMonotona`. That the library's power is rounded to the nearest, or is
near enough to it to keep the order, is not proved: section 5.

Exchange client: `ContagemInv` ties the counter to the history of results of the
present generation; with `FichaNuncaPerdida`, which is inductive, it gives
`AberturaMerecida`. The refinement maps the calls out whose generation is not
over to `autorizadas`.

Server: `EtapaInv` says what the holder of the lock knows of version, flag and
schema at each statement, `SujaInv` that a dirty schema is being migrated or was
when somebody failed, and that the trace of a failure (exit code or restarts)
stays.

Only model-checked: liveness under fairness, which is out of the prover's reach
(`TodaRequisicaoTermina`, `TravaSempreLiberada`, `TodoPedidoTermina`,
`TodaChamadaTermina`, `Recupera`, `ParadaTermina`, `SobeOuSai`). Every safety
property of the passing runs is proved.

## 5. What is not modelled

- Decimals of 34 digits as such: at the magnitudes of the columns the error of a
  sum, product or quotient is many orders below the cent, and the models use
  exact fractions; overflow of the decimal context is left out with them.
- The computation of the power. The library's result is taken as it comes. That
  it keeps the order of terms and rates (`FatorCrescente`) is proved of powers
  rounded to the nearest at one scale; the library rounds to significant digits,
  after a logarithm and an exponential, and the exponent dias / 30 has been
  rounded to 34 digits before. One day, or the last of ten places of a rate,
  changes the power by some twenty orders of magnitude more than these errors.
- Configuration and metrics: read once, or written and never read.
- Logging, correlation ids, recovery of panics, the body format of errors: no
  state that matters to the others. The mapping of errors to codes is in the
  models of the handlers.
- Statement-level validation of bodies (`required`, lengths): it refuses before
  anything is read. In `TaxaBase` and `Liquidacao` requests are past it.
- The report's projection of columns and its date formats.
- The pool is modelled for settlement only, the one place where requests wait
  for one another with connections in hand for long; in `TaxaBase` the failure
  to get one is `FalharBegin`. Connect time-outs and idle connections are the
  library's.
- Reference data (currencies, receivable types): nothing writes them after the
  migrations. Registration of assignors is in `Carga`.
- Deadlock between UPDATEs of base rates that lock several rows one by one: the
  model takes the locks of an UPDATE together, so it cannot arise there.
  PostgreSQL aborts one of the sessions, and that failure the model has.
- What a lookup that fails is answered (422, as if the caller were wrong): no
  document says what it should be, so no property does.
- The second between 23:59:59 and 00:00:00 that the rates of the demonstration
  load leave without a rate: below the resolution of the models.
- Cancelled transactions: nothing cancels but the load, at birth.
- A retry of POST `/transacoes`: the API promises no idempotency, so there is
  nothing to state beyond `RespostaFiel`, which says after which answers a row
  may exist.

## 6. Plan

Done: settlement, base rates, listings, pricing service, amounts, demonstration
load, exchange client, server; each with its proofs, three with an abstract
specification they implement, one of which the pricing service is built on.

Left:

1. `Servidor` composed with the sessions of `Liquidacao`, so that a drain cut at
   its deadline is followed into the database in one model.
2. `Carga` against `Taxas`: the rates of the load are registered with starts in
   order, where `UnicaSemCruzamento` has its premise.
