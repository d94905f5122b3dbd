\* Three concurrent registrations, every combination of starts, one unknown currency.
CONSTANTS
    Pedidos = {p1, p2, p3}
    Moedas = {BRL}
    Codigos = {BRL, XXX}
    Instantes = {1, 2}
    Ninguem = Ninguem
    Aberta = Aberta
    Inexistente = Inexistente
SPECIFICATION FairSpecH
CHECK_DEADLOCK FALSE
INVARIANTS
    SucessoPublicado
    FechamentoTemSucessora
    VigenteEhAMaisRecente
    UnicaSemCruzamento
PROPERTIES
    PassadoEstavel
    ImplementaTaxas
    TodoPedidoTermina
