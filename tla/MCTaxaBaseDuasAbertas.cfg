\* The promise of encerrarVigenciaAnterior under concurrent registrations.
CONSTANTS
    Pedidos = {p1, p2}
    Moedas = {BRL}
    Codigos = {BRL}
    Instantes = {1, 2}
    Ninguem = Ninguem
    Aberta = Aberta
    Inexistente = Inexistente
SPECIFICATION SpecH
CHECK_DEADLOCK FALSE
INVARIANTS
    VigenciaUnica
