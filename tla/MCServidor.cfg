\* Two instances that start, fail, restart once and are stopped; one connection.
CONSTANTS
    Instancias = {i1, i2}
    Conexoes = {p1}
    Migracoes = 2
    MaxReinicios = 1
    Ninguem = Ninguem
    Orfa = Orfa
SPECIFICATION FairSpec
CHECK_DEADLOCK FALSE
INVARIANTS
    AtendeSoComEsquema
    VersaoFiel
    RecusaAposQueda
PROPERTIES
    ParadaTermina
    SobeOuSai
