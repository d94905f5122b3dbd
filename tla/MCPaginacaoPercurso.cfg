\* Walks over four rows, pages of one and two rows; single pages up to one whose
\* offset is too large for an integer of four bits.
CONSTANTS
    Ids = {1, 2, 3, 4}
    Datas = {1, 2}
    Leitores = {l1}
    Filtros <- FiltrosMC
    Paginas = {0, 1, 2, 7}
    Tamanhos = {0, 1, 2, 3}
    TamanhoMaximo = 2
    Limite = 8
    Qualquer = Qualquer
    Ausente = Ausente
SPECIFICATION Spec
CHECK_DEADLOCK FALSE
INVARIANTS
    SemSalto
    RepeticoesLimitadas
    PaginaPedida
