\* Right and wrong requests while rates and quotes are registered with any start.
CONSTANTS
    BRL = BRL
    USD = USD
    XXX = XXX
    Pedidos = {p1}
    Corpos <- CorposMC
    Moedas = {BRL, USD}
    Tipos = {"DUPLICATA_MERCANTIL", "CHEQUE_PRE_DATADO"}
    Cedentes = {1}
    Inicios = {0, 3}
    Dia = 3
    Fuso = 1
    RelogioMax = 3
    TaxasMax = 3
    CotacoesMax = 2
    Ausente = Ausente
    Invalida = Invalida
    Aberta = Aberta
    Nenhuma = Nenhuma
SPECIFICATION Spec
CHECK_DEADLOCK FALSE
INVARIANTS
    Reproduzivel
    RecusaTemCausa
    RespostaFiel
    ReprocessoDoDia
