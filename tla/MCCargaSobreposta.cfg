\* Executions that overlap or follow one another, with every status a row may
\* be meant to end in.
CONSTANTS
    Execucoes = {e1, e2}
    Tipos = 1
    TransacoesPorTipo = 8
    Ninguem = Ninguem
SPECIFICATION Spec
SYMMETRY Simetria
CHECK_DEADLOCK FALSE
INVARIANTS
    MassaEmOrdem
    MassaUnica
