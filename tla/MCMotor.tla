-------------------------------- MODULE MCMotor --------------------------------
(***************************************************************************)
(* Motor on small instances, rates in thousandths.                         *)
(***************************************************************************)
EXTENDS Motor, TLC

\* Face values that are negative, less than half a cent, on half a cent, one
\* whose present value rounds to another net amount if it is rounded before the
\* conversion, and one next to the largest TLC's integers have room for.
FacesMC == {-1000, 4, 1005, 1300, 9999}

\* Powers in thousandths, rounded to the nearest. 1.025 over 45 days is the
\* example of README.md and of handlers_integration_test.go.
Potencias ==
    (1025 :> (1 :> 1001 @@ 30 :> 1025 @@ 45 :> 1038)) @@
    (1035 :> (1 :> 1001 @@ 30 :> 1035 @@ 45 :> 1053)) @@
    (1210 :> (1 :> 1006 @@ 30 :> 1210 @@ 45 :> 1331)) @@
    (1220 :> (1 :> 1007 @@ 30 :> 1220 @@ 45 :> 1348))

PowMC == [b \in DOMAIN Potencias, dias \in {1, 30, 45} |-> [n |-> Potencias[b][dias], d |-> 1000]]

OperacoesMC ==
    [face : FacesMC, dias : {0, 1, 30, 45}, taxa : {10, 195},
     tipo : DOMAIN Spread, cambio : BOOLEAN]
    \cup [face : {NaoFinito}, dias : {30}, taxa : {195},
          tipo : {"CHEQUE_PRE_DATADO"}, cambio : BOOLEAN]

Simetria == Permutations(Pedidos)
================================================================================
