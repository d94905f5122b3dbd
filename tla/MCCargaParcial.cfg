\* An execution that is interrupted, and another one.
CONSTANTS
    Execucoes = {e1, e2}
    Tipos = 1
    TransacoesPorTipo = 2
    Ninguem = Ninguem
SPECIFICATION SpecSerial
SYMMETRY Simetria
CHECK_DEADLOCK FALSE
INVARIANTS
    RecusaSoDepoisDeCompleta
