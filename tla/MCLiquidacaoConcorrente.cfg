\* Three contenders for one row through a pool smaller than their number.
CONSTANTS
    Requisicoes = {r1, r2, r3}
    Transacoes = {t1}
    Instantes = {i1}
    MaxConns = 2
    Ninguem = Ninguem
    SemInstante = SemInstante
SPECIFICATION FairSpec
CHECK_DEADLOCK FALSE
INVARIANTS
    AuditoriaFiel
    SucessoDuravel
    RecusaSemEfeito
    SemAtualizacaoPerdida
PROPERTIES
    HistoricoImutavel
    ImplementaAbstrata
    TodaRequisicaoTermina
    TravaSempreLiberada
