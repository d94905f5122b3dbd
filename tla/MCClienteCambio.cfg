\* Three callers, a circuit that opens at the third failure in a row.
CONSTANTS
    Chamadores = {c1, c2, c3}
    Limite = 3
SPECIFICATION FairSpec
CHECK_DEADLOCK FALSE
INVARIANTS
    FichaNuncaPerdida
PROPERTIES
    AberturaMerecida
    ImplementaDisjuntor
    TodaChamadaTermina
    Recupera
