\* Two operations of every pair of terms, rates, face values and currencies, and
\* quotes that round to 0, to 0.1, to 0.9 and to 5.2.
CONSTANTS
    Pedidos = {p1, p2}
    Operacoes <- OperacoesMC
    Cotacoes = {0, 4, 5, 85, 524}
    Um = 1000
    Pow <- PowMC
    NaoFinito = NaoFinito
    Recusado = Recusado
    Nenhum = Nenhum
SPECIFICATION Spec
SYMMETRY Simetria
CHECK_DEADLOCK FALSE
INVARIANTS
    UmSoArredondamento
    VPIndependeDaCotacao
    CustoNaoRende
    LinhaFecha
    Recalculavel
    RecusaEDoPedido
