\* Requests for a page past the last one.
CONSTANTS
    Ids = {1, 2}
    Datas = {1, 2}
    Leitores = {l1}
    Filtros <- FiltrosMC
    Paginas = {1, 2, 3}
    Tamanhos = {1, 2}
    TamanhoMaximo = 2
    Limite = 8
    Qualquer = Qualquer
    Ausente = Ausente
SPECIFICATION Spec
CHECK_DEADLOCK FALSE
INVARIANTS
    TotalVerdadeiro
