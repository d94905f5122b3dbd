\* An operation without data_operacao after a rate that started the same day.
CONSTANTS
    BRL = BRL
    USD = USD
    XXX = XXX
    Pedidos = {p1}
    Corpos <- CorposCertos
    Moedas = {BRL, USD}
    Tipos = {"DUPLICATA_MERCANTIL", "CHEQUE_PRE_DATADO"}
    Cedentes = {1}
    Inicios = {0, 2}
    Dia = 3
    Fuso = 1
    RelogioMax = 3
    TaxasMax = 2
    CotacoesMax = 0
    Ausente = Ausente
    Invalida = Invalida
    Aberta = Aberta
    Nenhuma = Nenhuma
SPECIFICATION Spec
CHECK_DEADLOCK FALSE
INVARIANTS
    ReprocessoPelaData
