------------------------------ MODULE MotorProofs ------------------------------
(***************************************************************************)
(* Proofs about Motor, for any face values, terms, rates and quotes and    *)
(* any positive factor Decimal.Pow may return. What the request holds is a *)
(* function of its operation and of the quote it was given (IInv); the     *)
(* rest is arithmetic: what rounding does to the order of two amounts.     *)
(* Only the order of costs wants the factors in order (FatorCrescente); a  *)
(* theorem shows that of powers rounded to the nearest.                    *)
(***************************************************************************)
EXTENDS Motor, FiniteSetTheorems, TLAPS

Positivos == Nat \ {0}

\* The powers of b, as one computes them.
Potencia(b) == LET p[k \in Nat] == IF k = 0 THEN 1 ELSE b * p[k - 1] IN p

(***************************************************************************)
(* Powers. What a recursive function computes is shown by induction, which *)
(* here is a fact about sets of naturals (Inducao).                        *)
(***************************************************************************)

\* Induction, on a set: a set of naturals with 0 and the successor of each of its
\* elements has them all. Were n missing, the successor would map the elements
\* below n one to one to those of them that are not 0.
LEMMA Inducao ==
    ASSUME NEW S \in SUBSET Nat, 0 \in S, \A n \in S : n + 1 \in S
    PROVE  S = Nat
<1> SUFFICES ASSUME NEW n \in Nat, n \notin S
             PROVE  FALSE
  OBVIOUS
<1> DEFINE T == {i \in S : i < n}
           f == [i \in T |-> i + 1]
<1>1. IsFiniteSet(T) /\ Cardinality(T) \in Nat
  <2>1. T \in SUBSET Nat /\ \A i \in T : i <= n
    <3>1. \A i \in S : i \in Nat
      OBVIOUS
    <3>2. \A i \in T : i \in S /\ i < n
      OBVIOUS
    <3>3. \A i \in Nat : i < n => i <= n
      OBVIOUS
    <3> QED
      BY <3>1, <3>2, <3>3
  <2> QED
    BY <2>1, FS_BoundedSetOfNaturals, FS_CardinalityType
<1>2. 0 \in T
  OBVIOUS
<1>3. f \in Injection(T, T \ {0})
  <2>1. \A i \in T : i + 1 \in T \ {0}
    OBVIOUS
  <2>2. \A i, j \in T : i + 1 = j + 1 => i = j
    OBVIOUS
  <2>3. f \in [T -> T \ {0}]
    BY <2>1
  <2>4. \A i, j \in DOMAIN f : f[i] = f[j] => i = j
    BY <2>2
  <2> HIDE DEF f, T
  <2> QED
    BY <2>3, <2>4 DEF Injection, IsInjective
<1>4. IsFiniteSet(T \ {0}) /\ Cardinality(T \ {0}) = Cardinality(T) - 1
  BY <1>1, <1>2, FS_RemoveElement
<1> HIDE DEF T, f
<1>5. Cardinality(T) <= Cardinality(T \ {0})
  BY <1>3, <1>4, FS_Injection
<1> QED
  BY <1>1, <1>4, <1>5

\* A first part of the powers of b: its value at 0 and each value from the last.
Parcial(b, n) == {g \in [0..n -> Nat] : g[0] = 1 /\ \A i \in 0..n : i > 0 => g[i] = b * g[i - 1]}

\* There is one of every length.
LEMMA ParcialExiste ==
    ASSUME NEW b \in Nat
    PROVE  \A n \in Nat : Parcial(b, n) # {}
<1> DEFINE S == {n \in Nat : Parcial(b, n) # {}}
<1>1. 0 \in S
  <2>1. [i \in 0..0 |-> 1] \in Parcial(b, 0)
    BY DEF Parcial
  <2> QED
    BY <2>1
<1>2. ASSUME NEW n \in S PROVE n + 1 \in S
  <2>1. PICK g \in Parcial(b, n) : TRUE
    OBVIOUS
  <2> DEFINE h == [i \in 0..(n + 1) |-> IF i <= n THEN g[i] ELSE b * g[n]]
  <2>2. g \in [0..n -> Nat] /\ g[0] = 1 /\ \A i \in 0..n : i > 0 => g[i] = b * g[i - 1]
    BY <2>1 DEF Parcial
  <2>3. h \in [0..(n + 1) -> Nat]
    BY <2>2
  <2>4. h[0] = 1
    BY <2>2
  <2>5. ASSUME NEW i \in 0..(n + 1), i > 0 PROVE h[i] = b * h[i - 1]
    BY <2>2, <2>5
  <2>6. h \in Parcial(b, n + 1)
    BY <2>3, <2>4, <2>5 DEF Parcial
  <2> QED
    BY <2>6
<1> HIDE DEF S
<1>3. S = Nat
  BY <1>1, <1>2, Inducao DEF S
<1> QED
  BY <1>3 DEF S

\* Two of them agree as far as both go.
LEMMA ParcialUnica ==
    ASSUME NEW b \in Nat, NEW n \in Nat, NEW m \in Nat,
           NEW g \in Parcial(b, n), NEW h \in Parcial(b, m)
    PROVE  \A i \in Nat : i <= n /\ i <= m => g[i] = h[i]
<1> DEFINE S == {i \in Nat : i <= n /\ i <= m => g[i] = h[i]}
<1>1. 0 \in S
  BY DEF Parcial
<1>2. ASSUME NEW i \in S PROVE i + 1 \in S
  <2> SUFFICES ASSUME i + 1 <= n, i + 1 <= m PROVE g[i + 1] = h[i + 1]
    OBVIOUS
  <2>1. g[i] = h[i]
    OBVIOUS
  <2>2. g[i + 1] = b * g[(i + 1) - 1] /\ h[i + 1] = b * h[(i + 1) - 1]
    <3>1. i + 1 \in 0..n /\ i + 1 \in 0..m /\ i + 1 > 0
      OBVIOUS
    <3> QED
      BY <3>1 DEF Parcial
  <2>3. (i + 1) - 1 = i
    OBVIOUS
  <2> QED
    BY <2>1, <2>2, <2>3
<1> HIDE DEF S
<1>3. S = Nat
  BY <1>1, <1>2, Inducao DEF S
<1> QED
  BY <1>3 DEF S

\* The recursive definition of Potencia has a solution: powers start at 1, and
\* each is the base times the one before.
LEMMA PotenciaDef ==
    ASSUME NEW b \in Nat
    PROVE  /\ Potencia(b) \in [Nat -> Nat]
           /\ Potencia(b)[0] = 1
           /\ \A k \in Nat : Potencia(b)[k + 1] = b * Potencia(b)[k]
<1> DEFINE Passo(f) == [k \in Nat |-> IF k = 0 THEN 1 ELSE b * f[k - 1]]
           g(n) == CHOOSE x : x \in Parcial(b, n)
           f == [k \in Nat |-> g(k)[k]]
<1>1. \A n \in Nat : g(n) \in Parcial(b, n)
  BY ParcialExiste
<1> HIDE DEF g
<1>2. f \in [Nat -> Nat]
  BY <1>1 DEF Parcial
<1>3. f[0] = 1
  BY <1>1 DEF Parcial
<1>4. ASSUME NEW k \in Nat PROVE f[k + 1] = b * f[k]
  <2>1. g(k + 1) \in Parcial(b, k + 1) /\ g(k) \in Parcial(b, k)
    BY <1>1
  <2>2. g(k + 1)[k + 1] = b * g(k + 1)[(k + 1) - 1] /\ (k + 1) - 1 = k
    BY <2>1 DEF Parcial
  <2>3. g(k + 1)[k] = g(k)[k]
    BY <2>1, ParcialUnica
  <2> QED
    BY <2>2, <2>3
<1> HIDE DEF f
<1>5. f = Passo(f)
  <2>1. ASSUME NEW k \in Nat PROVE f[k] = IF k = 0 THEN 1 ELSE b * f[k - 1]
    <3>1. CASE k = 0
      BY <1>3, <3>1
    <3>2. CASE k # 0
      <4>1. k - 1 \in Nat /\ (k - 1) + 1 = k
        BY <3>2
      <4> QED
        BY <1>4, <3>2, <4>1
    <3> QED
      BY <3>1, <3>2
  <2> QED
    BY <1>2, <2>1
<1>6. Potencia(b) = Passo(Potencia(b))
  BY <1>5 DEF Potencia
<1> DEFINE P == Potencia(b)
<1> HIDE DEF P
<1>7. /\ P[0] = 1
      /\ \A k \in Nat : P[k + 1] = b * P[k]
  <2>1. \A k \in Nat : P[k] = IF k = 0 THEN 1 ELSE b * P[k - 1]
    BY <1>6 DEF P
  <2>2. \A k \in Nat : k + 1 # 0 /\ (k + 1) - 1 = k
    OBVIOUS
  <2> QED
    BY <2>1, <2>2
<1>8. \A k \in Nat : P[k] = f[k]
  <2> DEFINE S == {k \in Nat : P[k] = f[k]}
  <2>1. 0 \in S
    BY <1>3, <1>7
  <2>2. ASSUME NEW k \in S PROVE k + 1 \in S
    BY <1>4, <1>7
  <2> HIDE DEF S
  <2>3. S = Nat
    BY <2>1, <2>2, Inducao DEF S
  <2> QED
    BY <2>3 DEF S
<1>9. P \in [Nat -> Nat]
  <2>1. P = [k \in Nat |-> P[k]]
    BY <1>6 DEF P
  <2> QED
    BY <1>2, <1>8, <2>1
<1> QED
  BY <1>7, <1>9 DEF P

\* A sum of exponents is a product of powers.
LEMMA PotenciaSoma ==
    ASSUME NEW b \in Nat, NEW m \in Nat
    PROVE  \A k \in Nat : Potencia(b)[m + k] = Potencia(b)[m] * Potencia(b)[k]
<1> DEFINE P == Potencia(b)
           S == {k \in Nat : P[m + k] = P[m] * P[k]}
<1>1. P \in [Nat -> Nat] /\ P[0] = 1 /\ \A k \in Nat : P[k + 1] = b * P[k]
  BY PotenciaDef
<1> HIDE DEF P
<1>2. 0 \in S
  BY <1>1
<1>3. ASSUME NEW k \in S PROVE k + 1 \in S
  <2>1. P[m] \in Nat /\ P[k] \in Nat /\ P[m + k] = P[m] * P[k]
    BY <1>1
  <2>2. P[m + (k + 1)] = b * P[m + k] /\ P[k + 1] = b * P[k]
    <3>1. m + (k + 1) = (m + k) + 1 /\ m + k \in Nat
      OBVIOUS
    <3> QED
      BY <1>1, <3>1
  <2>3. b * (P[m] * P[k]) = P[m] * (b * P[k])
    BY <2>1
  <2> QED
    BY <2>1, <2>2, <2>3
<1> HIDE DEF S
<1>4. S = Nat
  BY <1>2, <1>3, Inducao DEF S
<1> QED
  BY <1>4 DEF S, P

\* Products of naturals keep their order.
LEMMA ProdutoMonotono ==
    ASSUME NEW a \in Nat, NEW b \in Nat, NEW c \in Nat, NEW d \in Nat, a <= b, c <= d
    PROVE  a * c <= b * d
<1>1. a * c <= b * c
  OBVIOUS
<1>2. b * c <= b * d
  OBVIOUS
<1> QED
  BY <1>1, <1>2

\* A larger base has the larger powers, and a positive one positive powers.
LEMMA PotenciaMonotona ==
    ASSUME NEW b \in Nat, NEW c \in Nat, b <= c
    PROVE  \A k \in Nat : /\ Potencia(b)[k] <= Potencia(c)[k]
                          /\ b > 0 => Potencia(b)[k] > 0
<1> DEFINE P == Potencia(b)
           Q == Potencia(c)
           S == {k \in Nat : P[k] <= Q[k] /\ (b > 0 => P[k] > 0)}
<1>1. /\ P \in [Nat -> Nat] /\ P[0] = 1 /\ \A k \in Nat : P[k + 1] = b * P[k]
      /\ Q \in [Nat -> Nat] /\ Q[0] = 1 /\ \A k \in Nat : Q[k + 1] = c * Q[k]
  BY PotenciaDef
<1> HIDE DEF P, Q
<1>2. 0 \in S
  BY <1>1
<1>3. ASSUME NEW k \in S PROVE k + 1 \in S
  <2>1. P[k] \in Nat /\ Q[k] \in Nat /\ P[k] <= Q[k] /\ (b > 0 => P[k] > 0)
    BY <1>1
  <2>2. P[k + 1] = b * P[k] /\ Q[k + 1] = c * Q[k]
    BY <1>1
  <2>3. b * P[k] <= c * Q[k]
    BY <2>1, ProdutoMonotono
  <2>4. b > 0 => b * P[k] > 0
    BY <2>1
  <2> QED
    BY <2>2, <2>3, <2>4
<1> HIDE DEF S
<1>4. S = Nat
  BY <1>2, <1>3, Inducao DEF S
<1> QED
  BY <1>4 DEF S, P, Q

\* A larger base to the larger exponent, each over the same power of Um.
LEMMA PotenciaCruzada ==
    ASSUME NEW b \in Nat, NEW c \in Nat, b <= c, Um <= c,
           NEW i \in Nat, NEW j \in Nat, i <= j
    PROVE  Potencia(b)[i] * Potencia(Um)[j] <= Potencia(c)[j] * Potencia(Um)[i]
<1> DEFINE B == Potencia(b)
           C == Potencia(c)
           X == Potencia(Um)
           h == j - i
<1>1. Um \in Nat
  BY MotorAssumption
<1>2. h \in Nat /\ i + h = j
  OBVIOUS
<1>3. B[i] \in Nat /\ C[i] \in Nat /\ C[h] \in Nat /\ X[i] \in Nat /\ X[h] \in Nat
  <2>1. B \in [Nat -> Nat] /\ C \in [Nat -> Nat] /\ X \in [Nat -> Nat]
    BY <1>1, PotenciaDef
  <2> HIDE DEF B, C, X, h
  <2> QED
    BY <1>2, <2>1
<1>4. B[i] <= C[i] /\ X[h] <= C[h]
  BY <1>1, <1>2, PotenciaMonotona
<1> HIDE DEF h
<1>5. C[j] = C[i] * C[h] /\ X[j] = X[i] * X[h]
  <2>1. C[i + h] = C[i] * C[h]
    BY <1>2, PotenciaSoma
  <2>2. X[i + h] = X[i] * X[h]
    BY <1>1, <1>2, PotenciaSoma
  <2> QED
    BY <1>2, <2>1, <2>2
<1> HIDE DEF B, C, X
<1>6. B[i] * X[h] <= C[i] * C[h]
  BY <1>3, <1>4, ProdutoMonotono
<1>7. (B[i] * X[h]) * X[i] <= (C[i] * C[h]) * X[i]
  <2>1. B[i] * X[h] \in Nat /\ C[i] * C[h] \in Nat
    BY <1>3
  <2> QED
    BY <1>3, <1>6, <2>1, ProdutoMonotono
<1>8. (B[i] * X[h]) * X[i] = B[i] * (X[i] * X[h])
  BY <1>3
<1> QED
  BY <1>5, <1>7, <1>8 DEF B, C, X

\* f / e is the power (b / Um) ^ (dias / 30) rounded to the nearest multiple of
\* 1 / e, a half going up. Both sides are raised to 30, which does away with roots.
ArredondaPotencia(f, e, b, dias) ==
    /\ f > 0
    /\ Potencia(2 * f - 1)[30] * Potencia(Um)[dias] <= Potencia(2 * e)[30] * Potencia(b)[dias]
    /\ Potencia(2 * e)[30] * Potencia(b)[dias] < Potencia(2 * f + 1)[30] * Potencia(Um)[dias]

\* What FatorCrescente asks of Decimal.Pow is true of powers rounded to the nearest,
\* for every rate and every number of days, whole months or not: a longer term at a
\* higher rate has no smaller factor, and the factor is more than 1 as soon as the
\* places of the decimal (1 / e) tell one day at that rate from none.
THEOREM PotenciaEmOrdem ==
    ASSUME NEW e \in Nat, NEW b \in Nat, NEW c \in Nat, Um <= b, b <= c,
           NEW i \in Nat, NEW j \in Nat, i <= j,
           NEW f \in Nat, ArredondaPotencia(f, e, b, i),
           NEW g \in Nat, ArredondaPotencia(g, e, c, j)
    PROVE  /\ f <= g
           /\ i > 0 /\ Potencia(2 * e + 1)[30] * Um <= Potencia(2 * e)[30] * b => e < f
<1> DEFINE B == Potencia(b)
           C == Potencia(c)
           X == Potencia(Um)
           E == Potencia(2 * e)[30]
<1>1. Um \in Nat /\ Um > 0
  BY MotorAssumption
<1>2. /\ E \in Nat
      /\ B[i] \in Nat /\ C[j] \in Nat /\ X[i] \in Nat /\ X[j] \in Nat
      /\ X[i] > 0 /\ X[j] > 0
  <2>1. 2 * e \in Nat /\ 30 \in Nat
    OBVIOUS
  <2>2. E \in Nat
    BY <2>1, PotenciaDef
  <2>3. B \in [Nat -> Nat] /\ C \in [Nat -> Nat] /\ X \in [Nat -> Nat]
    BY <1>1, PotenciaDef
  <2>4. X[i] > 0 /\ X[j] > 0
    BY <1>1, PotenciaMonotona
  <2> HIDE DEF B, C, X, E
  <2> QED
    BY <2>2, <2>3, <2>4
\* A power on the far side of a rounding is no less than one on the near side.
<1>3. ASSUME NEW x \in Nat, NEW y \in Nat, x <= y
      PROVE  Potencia(x)[30] \in Nat /\ Potencia(y)[30] \in Nat
             /\ Potencia(x)[30] <= Potencia(y)[30]
  <2>1. 30 \in Nat
    OBVIOUS
  <2> QED
    BY <1>3, <2>1, PotenciaDef, PotenciaMonotona
<1>4. f <= g
  <2> SUFFICES ASSUME g < f PROVE FALSE
    OBVIOUS
  <2> DEFINE F == Potencia(2 * f - 1)[30]
             G == Potencia(2 * g + 1)[30]
  <2>1. F \in Nat /\ G \in Nat /\ G <= F
    <3> DEFINE x == 2 * g + 1
               y == 2 * f - 1
    <3>1. x \in Nat /\ y \in Nat /\ x <= y
      OBVIOUS
    <3> HIDE DEF x, y
    <3>2. Potencia(x)[30] \in Nat /\ Potencia(y)[30] \in Nat /\ Potencia(x)[30] <= Potencia(y)[30]
      BY <1>3, <3>1
    <3> QED
      BY <3>2 DEF x, y
  <2>2. F * X[i] <= E * B[i] /\ E * C[j] < G * X[j]
    BY DEF ArredondaPotencia
  <2>3. B[i] * X[j] <= C[j] * X[i]
    <3>1. Um <= c
      BY <1>1
    <3> QED
      BY <3>1, PotenciaCruzada
  <2> HIDE DEF B, C, X, E, F, G
  <2>4. (E * C[j]) * X[i] < (G * X[j]) * X[i]
    <3> DEFINE x == E * C[j]
               y == G * X[j]
               z == X[i]
    <3>1. x \in Nat /\ y \in Nat /\ x < y /\ z \in Nat /\ z > 0
      BY <1>2, <2>1, <2>2
    <3> HIDE DEF x, y, z
    <3>2. x * z < y * z
      BY <3>1
    <3> QED
      BY <3>2 DEF x, y, z
  <2>5. (G * X[j]) * X[i] <= (F * X[i]) * X[j]
    <3>1. G * X[j] * X[i] <= F * (X[j] * X[i])
      <4>1. X[j] * X[i] \in Nat /\ G * X[j] * X[i] = G * (X[j] * X[i])
        BY <1>2, <2>1
      <4> QED
        BY <2>1, <4>1, ProdutoMonotono
    <3> QED
      BY <1>2, <2>1, <3>1
  <2>6. (F * X[i]) * X[j] <= (E * B[i]) * X[j]
    <3>1. F * X[i] \in Nat /\ E * B[i] \in Nat
      BY <1>2, <2>1
    <3> QED
      BY <1>2, <2>2, <3>1, ProdutoMonotono
  <2>7. (E * B[i]) * X[j] <= (E * C[j]) * X[i]
    <3>1. B[i] * X[j] \in Nat /\ C[j] * X[i] \in Nat
      BY <1>2
    <3>2. E * (B[i] * X[j]) <= E * (C[j] * X[i])
      BY <1>2, <2>3, <3>1, ProdutoMonotono
    <3> QED
      BY <1>2, <3>2
  <2>8. /\ (E * C[j]) * X[i] \in Int /\ (G * X[j]) * X[i] \in Int
        /\ (F * X[i]) * X[j] \in Int /\ (E * B[i]) * X[j] \in Int
    BY <1>2, <2>1
  <2> QED
    BY <2>4, <2>5, <2>6, <2>7, <2>8
<1>5. ASSUME i > 0, Potencia(2 * e + 1)[30] * Um <= E * b
      PROVE  e < f
  <2> SUFFICES ASSUME f <= e PROVE FALSE
    OBVIOUS
  <2> DEFINE F == Potencia(2 * f + 1)[30]
             H == Potencia(2 * e + 1)[30]
  <2>1. F \in Nat /\ H \in Nat /\ F <= H
    <3> DEFINE x == 2 * f + 1
               y == 2 * e + 1
    <3>1. x \in Nat /\ y \in Nat /\ x <= y
      OBVIOUS
    <3> HIDE DEF x, y
    <3>2. Potencia(x)[30] \in Nat /\ Potencia(y)[30] \in Nat /\ Potencia(x)[30] <= Potencia(y)[30]
      BY <1>3, <3>1
    <3> QED
      BY <3>2 DEF x, y
  <2>2. E * B[i] < F * X[i] /\ H * Um <= E * b
    BY <1>5 DEF ArredondaPotencia
  <2>3. b * X[i] <= B[i] * Um
    <3>1. Potencia(b)[1] * X[i] <= B[i] * Potencia(Um)[1]
      <4>1. 1 \in Nat /\ 1 <= i /\ b <= b
        BY <1>5
      <4> QED
        BY <1>1, <4>1, PotenciaCruzada
    <3>2. ASSUME NEW x \in Nat PROVE Potencia(x)[1] = x
      <4> DEFINE P == Potencia(x)
      <4>1. P[0] = 1 /\ P[0 + 1] = x * P[0]
        BY PotenciaDef
      <4> HIDE DEF P
      <4>2. P[1] = x
        BY <4>1
      <4> QED
        BY <4>2 DEF P
    <3>3. Potencia(b)[1] = b /\ Potencia(Um)[1] = Um
      BY <1>1, <3>2
    <3> QED
      BY <3>1, <3>3
  <2> HIDE DEF B, C, X, E, F, H
  <2>4. (H * Um) * X[i] <= (E * b) * X[i]
    <3>1. H * Um \in Nat /\ E * b \in Nat
      BY <1>1, <1>2, <2>1
    <3> QED
      BY <1>2, <2>2, <3>1, ProdutoMonotono
  <2>5. (E * b) * X[i] <= (E * B[i]) * Um
    <3>1. b * X[i] \in Nat /\ B[i] * Um \in Nat
      BY <1>1, <1>2
    <3>2. E * (b * X[i]) <= E * (B[i] * Um)
      BY <1>2, <2>3, <3>1, ProdutoMonotono
    <3> QED
      BY <1>1, <1>2, <3>2
  <2>6. (E * B[i]) * Um < (F * X[i]) * Um
    <3> DEFINE x == E * B[i]
               y == F * X[i]
    <3>1. x \in Nat /\ y \in Nat /\ x < y
      BY <1>2, <2>1, <2>2
    <3> HIDE DEF x, y
    <3>2. x * Um < y * Um
      BY <1>1, <3>1
    <3> QED
      BY <3>2 DEF x, y
  <2>7. (F * X[i]) * Um <= (H * Um) * X[i]
    <3>1. X[i] * Um \in Nat
      BY <1>1, <1>2
    <3>2. F * (X[i] * Um) <= H * (X[i] * Um)
      BY <2>1, <3>1, ProdutoMonotono
    <3> QED
      BY <1>1, <1>2, <2>1, <3>2
  <2>8. /\ (H * Um) * X[i] \in Int /\ (E * b) * X[i] \in Int
        /\ (E * B[i]) * Um \in Int /\ (F * X[i]) * Um \in Int
    BY <1>1, <1>2, <2>1
  <2> QED
    BY <2>4, <2>5, <2>6, <2>7, <2>8
<1> QED
  BY <1>4, <1>5

(***************************************************************************)
(* Rounding.                                                               *)
(***************************************************************************)

\* Division of naturals.
LEMMA Divisao ==
    ASSUME NEW a \in Nat, NEW b \in Positivos
    PROVE  a \div b \in Nat /\ b * (a \div b) <= a /\ a < b * (a \div b) + b
  BY DEF Positivos

\* The nearest integer to n / d, the one further from zero if there are two.
LEMMA Arredondamento ==
    ASSUME NEW n \in Int, NEW d \in Positivos
    PROVE  LET r == Arredondar(n, d)
               erro == 2 * (r * d - n)
           IN  /\ r \in Int
               /\ Modulo(erro) <= d
               /\ Modulo(erro) = d => Modulo(r) * d > Modulo(n)
<1> DEFINE r == Arredondar(n, d)
           erro == 2 * (r * d - n)
<1>1. CASE n >= 0
  <2> DEFINE q == (2 * n + d) \div (2 * d)
  <2>1. q \in Nat /\ 2 * d * q <= 2 * n + d /\ 2 * n + d < 2 * d * q + 2 * d
    <3>1. 2 * n + d \in Nat /\ 2 * d \in Positivos
      BY <1>1 DEF Positivos
    <3> QED
      BY <3>1, Divisao
  <2>2. r = q
    BY <1>1 DEF Arredondar
  <2> HIDE DEF q
  <2>3. q * d \in Nat /\ 2 * d * q = 2 * (q * d)
    BY <2>1 DEF Positivos
  <2> QED
    BY <1>1, <2>1, <2>2, <2>3 DEF Positivos, Modulo
<1>2. CASE n < 0
  <2> DEFINE q == (d - 2 * n) \div (2 * d)
  <2>1. q \in Nat /\ 2 * d * q <= d - 2 * n /\ d - 2 * n < 2 * d * q + 2 * d
    <3>1. d - 2 * n \in Nat /\ 2 * d \in Positivos
      BY <1>2 DEF Positivos
    <3> QED
      BY <3>1, Divisao
  <2>2. r = -q
    BY <1>2 DEF Arredondar
  <2> HIDE DEF q
  <2>3. q * d \in Nat /\ 2 * d * q = 2 * (q * d) /\ (-q) * d = -(q * d)
    BY <2>1 DEF Positivos
  <2>4. Modulo(-q) = q
    BY <2>1 DEF Modulo
  <2> QED
    BY <1>2, <2>1, <2>2, <2>3, <2>4 DEF Positivos, Modulo
<1> QED
  BY <1>1, <1>2

\* Rounding keeps the order: of two fractions the larger never rounds to less.
LEMMA ArredondarMonotono ==
    ASSUME NEW n \in Int, NEW d \in Positivos, NEW m \in Int, NEW e \in Positivos,
           n * e <= m * d
    PROVE  Arredondar(n, d) <= Arredondar(m, e)
<1> DEFINE r == Arredondar(n, d)
           s == Arredondar(m, e)
<1>1. /\ r \in Int /\ Modulo(2 * (r * d - n)) <= d
      /\ Modulo(2 * (r * d - n)) = d => Modulo(r) * d > Modulo(n)
  BY Arredondamento
<1>2. /\ s \in Int /\ Modulo(2 * (s * e - m)) <= e
      /\ Modulo(2 * (s * e - m)) = e => Modulo(s) * e > Modulo(m)
  BY Arredondamento
<1> HIDE DEF r, s
<1> SUFFICES ASSUME r >= s + 1 PROVE FALSE
  BY <1>1, <1>2 DEF r, s
<1>3. 2 * (r * d) - 2 * n <= d /\ 2 * m - 2 * (s * e) <= e
  <2>1. r * d \in Int /\ s * e \in Int
    BY <1>1, <1>2 DEF Positivos
  <2> QED
    BY <1>1, <1>2, <2>1 DEF Modulo, Positivos
\* Both bounds are met: r is the upper of two neighbours of n / d equally near,
\* s the lower of two of m / e.
<1>4. 2 * (r * d) - 2 * n = d /\ 2 * m - 2 * (s * e) = e /\ r = s + 1
  <2> DEFINE x == 2 * (r * d) - 2 * n
             y == 2 * m - 2 * (s * e)
  <2>1. x \in Int /\ y \in Int /\ d \in Int /\ e \in Int /\ d > 0 /\ e > 0
    BY <1>1, <1>2 DEF Positivos
  <2>2. x * e + y * d = 2 * ((r - s) * (d * e)) - 2 * (n * e) + 2 * (m * d)
    BY <1>1, <1>2 DEF Positivos
  <2>3. x * e + y * d >= 2 * ((r - s) * (d * e))
    <3>1. n * e \in Int /\ m * d \in Int /\ (r - s) * (d * e) \in Int
      BY <1>1, <1>2, <2>1
    <3> QED
      BY <2>2, <3>1
  <2> HIDE DEF x, y
  <2>4. x * e <= d * e /\ y * d <= d * e
    <3>1. x * e <= d * e
      BY <1>3, <2>1 DEF x
    <3>2. y * d <= e * d /\ e * d = d * e
      BY <1>3, <2>1 DEF y
    <3> QED
      BY <3>1, <3>2
  <2>5. d * e \in Int /\ d * e > 0
    BY <2>1
  <2>6. (r - s) * (d * e) <= d * e
    <3>1. x * e \in Int /\ y * d \in Int /\ (r - s) * (d * e) \in Int
      BY <1>1, <1>2, <2>1, <2>5
    <3> QED
      BY <2>3, <2>4, <2>5, <3>1
  <2>7. r - s = 1
    <3>1. r - s \in Int /\ r - s >= 1
      BY <1>1, <1>2
    <3> HIDE DEF r, s
    <3>2. r - s >= 2 => (r - s) * (d * e) >= 2 * (d * e)
      BY <2>5, <3>1
    <3> QED
      BY <2>5, <2>6, <3>1, <3>2
  <2>8. x * e >= d * e /\ y * d >= d * e
    <3>1. (r - s) * (d * e) = d * e
      BY <2>5, <2>7
    <3>2. x * e \in Int /\ y * d \in Int
      BY <2>1
    <3> QED
      BY <2>3, <2>4, <2>5, <3>1, <3>2
  <2>9. x >= d /\ y >= e
    <3>1. x < d => x * e < d * e
      BY <2>1
    <3>2. y < e => y * d < e * d /\ e * d = d * e
      BY <2>1
    <3>3. x * e \in Int /\ y * d \in Int
      BY <2>1
    <3> QED
      BY <2>1, <2>5, <2>8, <3>1, <3>2, <3>3
  <2> QED
    BY <1>1, <1>2, <1>3, <2>1, <2>7, <2>9 DEF x, y
<1>5. r >= 1
  <2>1. r * d \in Int /\ r * d > n /\ d > 0 /\ d \in Int
    BY <1>1, <1>4 DEF Positivos
  <2>2. Modulo(2 * (r * d - n)) = d
    BY <1>4, <2>1 DEF Modulo
  <2>3. Modulo(r) * d > Modulo(n)
    BY <1>1, <2>2
  <2> SUFFICES ASSUME r <= 0 PROVE FALSE
    BY <1>1
  <2>4. Modulo(r) * d = -(r * d)
    BY <1>1, <2>1 DEF Modulo
  <2>5. r * d <= 0
    BY <1>1, <2>1
  <2> QED
    BY <2>1, <2>3, <2>4, <2>5 DEF Modulo
<1>6. s <= -1
  <2>1. s * e \in Int /\ s * e < m /\ e > 0 /\ e \in Int
    BY <1>2, <1>4 DEF Positivos
  <2>2. Modulo(2 * (s * e - m)) = e
    BY <1>4, <2>1 DEF Modulo
  <2>3. Modulo(s) * e > Modulo(m)
    BY <1>2, <2>2
  <2> SUFFICES ASSUME s >= 0 PROVE FALSE
    BY <1>2
  <2>4. Modulo(s) * e = s * e
    BY <1>2 DEF Modulo
  <2> QED
    BY <2>1, <2>3, <2>4 DEF Modulo
<1> QED
  BY <1>1, <1>2, <1>4, <1>5, <1>6

\* Mils to cents.
LEMMA EmCentavos ==
    ASSUME NEW n \in Int
    PROVE  LET r == Arredondar(n, Centavo)
           IN  /\ r \in Int
               /\ n >= 0 => 10 * r <= n + 5 /\ n + 5 < 10 * r + 10
               /\ n < 0 => 10 * r >= n - 5 /\ n - 5 > 10 * r - 10
               /\ n % Centavo = 0 => Centavo * r = n
  BY DEF Arredondar, Centavo

(***************************************************************************)
(* The engine.                                                             *)
(***************************************************************************)

\* An operation the engine does not refuse, under a quote it may have.
Aceita(o, cot) == o \in Operacoes /\ ~ Recusada(o, cot) /\ (o.cambio => cot \in Positivos)

\* What an operation is made of.
LEMMA OperacaoTipo ==
    ASSUME NEW o \in Operacoes
    PROVE  /\ o \in [face : Int \cup {NaoFinito}, dias : Int, taxa : Nat \ {0},
                     tipo : DOMAIN Spread, cambio : BOOLEAN]
           /\ o.face \in Int \cup {NaoFinito} /\ o.dias \in Int /\ o.taxa \in Positivos
           /\ Spread[o.tipo] \in Nat /\ Base(o) \in Positivos /\ o.cambio \in BOOLEAN
<1>1. o \in [face : Int \cup {NaoFinito}, dias : Int, taxa : Nat \ {0},
             tipo : DOMAIN Spread, cambio : BOOLEAN]
  BY MotorAssumption
<1>2. Spread[o.tipo] \in Nat
  <2> DEFINE u == Um \div 1000
  <2>1. u \in Nat
    BY MotorAssumption
  <2> HIDE DEF u
  <2>2. 15 * u \in Nat /\ 25 * u \in Nat
    BY <2>1
  <2> QED
    BY <1>1, <2>2 DEF Spread, u
<1>3. o.face \in Int \cup {NaoFinito} /\ o.dias \in Int /\ o.taxa \in Positivos /\ o.cambio \in BOOLEAN
  BY <1>1 DEF Positivos
<1>4. Base(o) \in Positivos
  <2>1. Um \in Nat /\ Um > 0
    BY MotorAssumption
  <2> QED
    BY <1>2, <1>3, <2>1 DEF Positivos, Base
<1> QED
  BY <1>1, <1>2, <1>3, <1>4

\* An accepted operation has a finite face value and a positive factor.
LEMMA AceitaTipo ==
    ASSUME NEW o, NEW cot, Aceita(o, cot)
    PROVE  o.face \in Int /\ Fator(o).n \in Positivos /\ Fator(o).d \in Positivos
<1>1. o.face \in Int /\ o.dias > 0 /\ o \in Operacoes
  BY OperacaoTipo DEF Aceita, Recusada
<1>2. Fator(o) \in [n : Nat \ {0}, d : Nat \ {0}]
  BY <1>1, FatorAssumption
<1> QED
  BY <1>1, <1>2 DEF Positivos

\* The result of the engine, in one piece: the fractions it rounds.
LEMMA MotorValor ==
    ASSUME NEW o, NEW cot, Aceita(o, cot)
    PROVE  LET f == Fator(o)
               n == IF o.cambio THEN 10 * (o.face * f.d) ELSE o.face * f.d
               d == IF o.cambio THEN f.n * cot * 10 ELSE f.n * 10
               liquido == Arredondar(n, d)
           IN  /\ n \in Int /\ d \in Positivos
               /\ Motor(o, cot).vp = Arredondar(o.face * f.d, f.n)
               /\ Motor(o, cot).liquido = liquido
               /\ Motor(o, cot).desagio = o.face - 10 * liquido
               /\ Motor(o, cot) \in Resultado
<1> DEFINE f == Fator(o)
           n == IF o.cambio THEN 10 * (o.face * f.d) ELSE o.face * f.d
           d == IF o.cambio THEN f.n * cot * 10 ELSE f.n * 10
           v == o.face * f.d
           liquido == Arredondar(n, d)
<1>1. o.face \in Int /\ f.n \in Positivos /\ f.d \in Positivos /\ (o.cambio => cot \in Positivos)
  BY AceitaTipo DEF Aceita
<1>2. v \in Int /\ n \in Int /\ d \in Positivos
  BY <1>1 DEF Positivos
<1>3. calcularValorPresente(o, cot) = [n |-> v, d |-> f.n]
  BY <1>1 DEF calcularValorPresente, Descontar, Positivos
<1>4. converterParaMoedaPagamento(o, cot, [n |-> v, d |-> f.n])
      = IF o.cambio THEN [n |-> 10 * v, d |-> f.n * cot] ELSE [n |-> v, d |-> f.n]
  BY DEF converterParaMoedaPagamento
<1>5. Motor(o, cot) = [vp |-> Arredondar(v, f.n), liquido |-> liquido,
                       desagio |-> o.face - 10 * liquido]
  <2>1. Quantizar([n |-> v, d |-> f.n], Mil) = Arredondar(v, f.n)
    BY <1>1 DEF Quantizar, Mil, Positivos
  <2>2. Quantizar(converterParaMoedaPagamento(o, cot, [n |-> v, d |-> f.n]), Centavo) = liquido
    BY <1>4 DEF Quantizar, Centavo
  <2> HIDE DEF f, n, d, v, liquido
  <2> QED
    BY <1>3, <2>1, <2>2 DEF Motor, finalizarValores, Centavo
<1>6. Arredondar(v, f.n) \in Int /\ liquido \in Int
  BY <1>1, <1>2, Arredondamento
<1> HIDE DEF v, liquido, n, d, f
<1>7. Motor(o, cot) \in Resultado
  BY <1>1, <1>5, <1>6 DEF Resultado
<1>8. /\ Motor(o, cot).vp = Arredondar(v, f.n) /\ Motor(o, cot).liquido = liquido
      /\ Motor(o, cot).desagio = o.face - 10 * liquido
  BY <1>5
<1> QED
  BY <1>2, <1>7, <1>8 DEF v, liquido, n, d, f

\* The quote of an operation in its own currency is no part of the result.
LEMMA CotacaoSemEfeito ==
    ASSUME NEW o \in Operacoes, ~ o.cambio, NEW c1, NEW c2
    PROVE  Recusada(o, c1) = Recusada(o, c2) /\ Motor(o, c1) = Motor(o, c2)
  BY DEF Recusada, Motor, finalizarValores, calcularValorPresente, converterParaMoedaPagamento

(***************************************************************************)
(* The inductive invariant: what a request holds is a function of its      *)
(* operation and of the quote it was given, whatever the quote is by now.  *)
(***************************************************************************)
Calculo(o, cot) == IF Recusada(o, cot) THEN Recusado ELSE Motor(o, cot)

\* The row of an operation.
Registro(o, cot) ==
    [face |-> Arredondar(o.face, Centavo), vp |-> Motor(o, cot).vp,
     liquido |-> Motor(o, cot).liquido, desagio |-> Arredondar(Motor(o, cot).desagio, Centavo),
     taxa |-> o.taxa, spread |-> Spread[o.tipo], cotacao |-> cot]

PedidoInv(p) ==
    IF operacao[p] = Nenhum
      THEN resultado[p] = Nenhum /\ linha[p] = Nenhum
      ELSE /\ operacao[p] \in Operacoes
           /\ aplicada[p] \in IF operacao[p].cambio THEN Positivos ELSE {Nenhum}
           /\ resultado[p] = Calculo(operacao[p], aplicada[p])
           /\ linha[p] # Nenhum =>
                 /\ ~ Recusada(operacao[p], aplicada[p])
                 /\ linha[p] = Registro(operacao[p], aplicada[p])
                 /\ linha[p].face > 0

IInv == TypeOK /\ \A p \in Pedidos : PedidoInv(p)

\* What a request that was priced holds.
LEMMA Precificado ==
    ASSUME IInv, NEW p \in Precificados
    PROVE  /\ p \in Pedidos /\ operacao[p] \in Operacoes
           /\ Aceita(operacao[p], aplicada[p])
           /\ aplicada[p] \in IF operacao[p].cambio THEN Positivos ELSE {Nenhum}
           /\ resultado[p] = Motor(operacao[p], aplicada[p])
  BY DEF IInv, PedidoInv, Precificados, Calculo, Aceita

\* What a request with a row holds.
LEMMA Gravado ==
    ASSUME IInv, NEW p \in Gravados
    PROVE  /\ p \in Pedidos /\ operacao[p] \in Operacoes
           /\ Aceita(operacao[p], aplicada[p])
           /\ aplicada[p] \in IF operacao[p].cambio THEN Positivos ELSE {Nenhum}
           /\ linha[p] = Registro(operacao[p], aplicada[p])
           /\ linha[p].face > 0
  BY DEF IInv, PedidoInv, Gravados, Aceita

\* The first state.
LEMMA InitInv == Init => IInv
  BY DEF Init, IInv, TypeOK, PedidoInv

\* A quote is registered.
LEMMA RegistrarCotacaoInv ==
    ASSUME IInv, NEW v \in Cotacoes, RegistrarCotacao(v)
    PROVE  IInv'
<1>1. cotacao' \in Positivos
  <2>1. v \in Int
    BY MotorAssumption
  <2>2. Arredondar(v, 10) \in Int
    BY <2>1, EmCentavos DEF Centavo
  <2> QED
    BY <2>2 DEF RegistrarCotacao, Positivos
<1>2. TypeOK'
  BY <1>1 DEF IInv, TypeOK, RegistrarCotacao, Positivos
<1>3. \A p \in Pedidos : PedidoInv(p)'
  BY DEF IInv, PedidoInv, RegistrarCotacao
<1> QED
  BY <1>2, <1>3 DEF IInv

\* A request is priced.
LEMMA PrecificarInv ==
    ASSUME IInv, NEW p \in Pedidos, NEW o \in Operacoes, Precificar(p, o)
    PROVE  IInv'
<1> DEFINE cot == IF o.cambio THEN cotacao ELSE Nenhum
           r == Calculo(o, cot)
<1>1. o.cambio \in BOOLEAN /\ o # Nenhum
  BY OperacaoTipo, MotorAssumption
<1>2. cot \in IF o.cambio THEN Positivos ELSE {Nenhum}
  BY <1>1 DEF IInv, TypeOK, Precificar, Positivos
<1>3. r = IF Recusada(o, cotacao) THEN Recusado ELSE Motor(o, cotacao)
  <2>1. CASE o.cambio
    BY <2>1 DEF Calculo
  <2>2. CASE ~ o.cambio
    BY <2>2, CotacaoSemEfeito DEF Calculo
  <2> QED
    BY <2>1, <2>2
<1>4. r \in Resultado \cup {Recusado}
  <2>1. CASE Recusada(o, cot)
    BY <2>1 DEF Calculo
  <2>2. CASE ~ Recusada(o, cot)
    <3>1. Aceita(o, cot)
      BY <1>1, <1>2, <2>2 DEF Aceita
    <3>2. Motor(o, cot) \in Resultado
      BY <3>1, MotorValor
    <3> QED
      BY <2>2, <3>2 DEF Calculo
  <2> QED
    BY <2>1, <2>2
<1>5. /\ operacao[p] = Nenhum
      /\ operacao' = [operacao EXCEPT ![p] = o]
      /\ aplicada' = [aplicada EXCEPT ![p] = cot]
      /\ resultado' = [resultado EXCEPT ![p] = r]
      /\ cotacao' = cotacao /\ linha' = linha
  BY <1>3 DEF Precificar
<1> HIDE DEF cot, r
<1>6. TypeOK'
  BY <1>2, <1>4, <1>5 DEF IInv, TypeOK, Positivos
<1>7. ASSUME NEW q \in Pedidos
      PROVE  PedidoInv(q)'
  <2>1. CASE q = p
    <3>1. operacao'[q] = o /\ aplicada'[q] = cot /\ resultado'[q] = r /\ linha'[q] = Nenhum
      BY <1>5, <2>1 DEF IInv, TypeOK, PedidoInv
    <3> QED
      BY <1>1, <1>2, <3>1 DEF PedidoInv, r
  <2>2. CASE q # p
    <3>1. /\ operacao'[q] = operacao[q] /\ aplicada'[q] = aplicada[q]
          /\ resultado'[q] = resultado[q] /\ linha'[q] = linha[q]
      BY <1>5, <2>2 DEF IInv, TypeOK
    <3> QED
      BY <3>1 DEF IInv, PedidoInv
  <2> QED
    BY <2>1, <2>2
<1> QED
  BY <1>6, <1>7 DEF IInv

\* A transaction is stored.
LEMMA GravarInv ==
    ASSUME IInv, NEW p \in Pedidos, Gravar(p)
    PROVE  IInv'
<1> DEFINE o == operacao[p]
           cot == aplicada[p]
           l == montarTransacao(p)
<1>1. p \in Precificados
  BY DEF Gravar, Precificados
<1>2. /\ o \in Operacoes /\ Aceita(o, cot) /\ resultado[p] = Motor(o, cot)
      /\ cot \in IF o.cambio THEN Positivos ELSE {Nenhum}
  BY <1>1, Precificado
<1>3. /\ linha' = [linha EXCEPT ![p] = l] /\ l.face > 0
      /\ cotacao' = cotacao /\ operacao' = operacao /\ aplicada' = aplicada
      /\ resultado' = resultado
  BY DEF Gravar
<1>4. l = Registro(o, cot)
  BY <1>2 DEF montarTransacao, Registro
<1> HIDE DEF o, cot, l
<1>5. Registro(o, cot) \in Transacao
  <2>1. o.face \in Int /\ o.taxa \in Positivos /\ Spread[o.tipo] \in Nat
    BY <1>2, AceitaTipo, OperacaoTipo
  <2>2. Motor(o, cot).vp \in Int /\ Motor(o, cot).liquido \in Int /\ Motor(o, cot).desagio \in Int
    <3>1. Motor(o, cot) \in Resultado
      BY <1>2, MotorValor
    <3> QED
      BY <3>1 DEF Resultado
  <2>3. Arredondar(o.face, Centavo) \in Int /\ Arredondar(Motor(o, cot).desagio, Centavo) \in Int
    BY <2>1, <2>2, EmCentavos
  <2>4. Arredondar(o.face, Centavo) > 0
    BY <1>3, <1>4 DEF Registro
  <2>5. cot \in (Nat \ {0}) \cup {Nenhum}
    BY <1>2 DEF Positivos
  <2> QED
    BY <2>1, <2>2, <2>3, <2>4, <2>5 DEF Registro, Transacao, Positivos
<1>6. TypeOK'
  BY <1>3, <1>4, <1>5 DEF IInv, TypeOK
<1>7. ASSUME NEW q \in Pedidos
      PROVE  PedidoInv(q)'
  <2>1. CASE q = p
    <3>1. linha'[q] = l /\ operacao[q] # Nenhum
      BY <1>2, <1>3, <2>1, MotorAssumption DEF IInv, TypeOK, o
    <3> QED
      BY <1>2, <1>3, <1>4, <2>1, <3>1 DEF IInv, PedidoInv, Aceita, o, cot
  <2>2. CASE q # p
    <3>1. linha'[q] = linha[q]
      BY <1>3, <2>2 DEF IInv, TypeOK
    <3> QED
      BY <1>3, <3>1 DEF IInv, PedidoInv
  <2> QED
    BY <2>1, <2>2
<1> QED
  BY <1>6, <1>7 DEF IInv

\* The inductive invariant holds in every behaviour.
THEOREM Invariante == Spec => []IInv
<1>1. Init => IInv
  BY InitInv
<1>2. IInv /\ [Next]_vars => IInv'
  <2> SUFFICES ASSUME IInv, [Next]_vars PROVE IInv'
    OBVIOUS
  <2>1. CASE UNCHANGED vars
    BY <2>1 DEF vars, IInv, TypeOK, PedidoInv
  <2>2. ASSUME NEW v \in Cotacoes, RegistrarCotacao(v) PROVE IInv'
    BY <2>2, RegistrarCotacaoInv
  <2>3. ASSUME NEW p \in Pedidos, NEW o \in Operacoes, Precificar(p, o) PROVE IInv'
    BY <2>3, PrecificarInv
  <2>4. ASSUME NEW p \in Pedidos, Gravar(p) PROVE IInv'
    BY <2>4, GravarInv
  <2> QED
    BY <2>1, <2>2, <2>3, <2>4 DEF Next
<1> QED
  BY <1>1, <1>2, PTL DEF Spec

\* The variables stay in their types: a stored quote, rate or face value is
\* never zero (TypeOK).
THEOREM Tipo == Spec => []TypeOK
<1>1. IInv => TypeOK
  BY DEF IInv
<1> QED
  BY <1>1, Invariante, PTL

(***************************************************************************)
(* What the invariant gives.                                               *)
(***************************************************************************)

\* The net amount is the nearest cent to the face value over the factor that
\* Decimal.Pow returned and over the quote, ties away from zero, for any positive
\* factor: nothing is rounded on the way (Motor.Calcular).
THEOREM UmaVez == Spec => []UmSoArredondamento
<1>1. IInv => UmSoArredondamento
  <2> SUFFICES ASSUME IInv, NEW p \in Precificados
               PROVE  LET o == operacao[p]
                          exato == Descontar([n |-> o.face * IF o.cambio THEN 10 ELSE 1,
                                              d |-> Centavo * IF o.cambio THEN aplicada[p] ELSE 1], o)
                          erro == 2 * (resultado[p].liquido * exato.d - exato.n)
                      IN  /\ Modulo(erro) <= exato.d
                          /\ Modulo(erro) = exato.d =>
                                Modulo(resultado[p].liquido) * exato.d > Modulo(exato.n)
    BY DEF UmSoArredondamento
  <2> DEFINE o == operacao[p]
             cot == aplicada[p]
             f == Fator(o)
             n == IF o.cambio THEN 10 * (o.face * f.d) ELSE o.face * f.d
             d == IF o.cambio THEN f.n * cot * 10 ELSE f.n * 10
             exato == Descontar([n |-> o.face * IF o.cambio THEN 10 ELSE 1,
                                 d |-> Centavo * IF o.cambio THEN cot ELSE 1], o)
  <2>1. Aceita(o, cot) /\ resultado[p] = Motor(o, cot) /\ o \in Operacoes
    BY Precificado
  <2>2. n \in Int /\ d \in Positivos /\ resultado[p].liquido = Arredondar(n, d)
    BY <2>1, MotorValor
  <2>3. exato.n = n /\ exato.d = d
    <3>1. /\ o.face \in Int /\ f.n \in Positivos /\ f.d \in Positivos
          /\ o.cambio \in BOOLEAN /\ (o.cambio => cot \in Positivos)
      BY <2>1, AceitaTipo, OperacaoTipo DEF Aceita
    <3>2. /\ exato.n = (o.face * IF o.cambio THEN 10 ELSE 1) * f.d
          /\ exato.d = (10 * IF o.cambio THEN cot ELSE 1) * f.n
      BY DEF Descontar, Centavo
    <3> HIDE DEF f, exato, o, cot
    <3>3. CASE o.cambio
      BY <3>1, <3>2, <3>3 DEF Positivos
    <3>4. CASE ~ o.cambio
      BY <3>1, <3>2, <3>4 DEF Positivos
    <3> QED
      BY <3>1, <3>3, <3>4
  <2> HIDE DEF n, d, exato
  <2> QED
    BY <2>2, <2>3, Arredondamento DEF exato
<1> QED
  BY <1>1, Invariante, PTL

\* The present value is the same under any quote and in any currency of payment
\* (docs/incidente.md).
THEOREM ValorPresenteDoTitulo == Spec => []VPIndependeDaCotacao
<1>1. IInv => VPIndependeDaCotacao
  <2> SUFFICES ASSUME IInv, NEW p \in Precificados, NEW q \in Precificados,
                      [operacao[p] EXCEPT !.cambio = FALSE] = [operacao[q] EXCEPT !.cambio = FALSE]
               PROVE  resultado[p].vp = resultado[q].vp
    BY DEF VPIndependeDaCotacao
  <2> DEFINE o == operacao[p]
             u == operacao[q]
  <2>1. /\ Aceita(o, aplicada[p]) /\ resultado[p] = Motor(o, aplicada[p]) /\ o \in Operacoes
        /\ Aceita(u, aplicada[q]) /\ resultado[q] = Motor(u, aplicada[q]) /\ u \in Operacoes
    BY Precificado
  <2>2. o.face = u.face /\ o.dias = u.dias /\ o.taxa = u.taxa /\ o.tipo = u.tipo
    <3>1. /\ o \in [face : Int \cup {NaoFinito}, dias : Int, taxa : Nat \ {0},
                    tipo : DOMAIN Spread, cambio : BOOLEAN]
          /\ u \in [face : Int \cup {NaoFinito}, dias : Int, taxa : Nat \ {0},
                    tipo : DOMAIN Spread, cambio : BOOLEAN]
      BY <2>1, OperacaoTipo
    <3> DEFINE o0 == [o EXCEPT !.cambio = FALSE]
               u0 == [u EXCEPT !.cambio = FALSE]
    <3>2. o0.face = o.face /\ o0.dias = o.dias /\ o0.taxa = o.taxa /\ o0.tipo = o.tipo
      BY <3>1
    <3>3. u0.face = u.face /\ u0.dias = u.dias /\ u0.taxa = u.taxa /\ u0.tipo = u.tipo
      BY <3>1
    <3>4. o0 = u0
      OBVIOUS
    <3> HIDE DEF o0, u0
    <3> QED
      BY <3>2, <3>3, <3>4
  <2> HIDE DEF o, u
  <2>3. Base(o) = Base(u)
    BY <2>2 DEF Base
  <2>4. Fator(o) = Fator(u)
    BY <2>2, <2>3 DEF Fator
  <2>5. /\ Motor(o, aplicada[p]).vp = Arredondar(o.face * Fator(o).d, Fator(o).n)
        /\ Motor(u, aplicada[q]).vp = Arredondar(u.face * Fator(u).d, Fator(u).n)
    BY <2>1, MotorValor
  <2> QED
    BY <2>1, <2>2, <2>4, <2>5
<1> QED
  BY <1>1, Invariante, PTL

\* In its own currency a title pays no more than its face value and its discount
\* is not negative, a factor being more than 1.
LEMMA SemCambio ==
    ASSUME NEW face \in Nat, NEW n \in Positivos, NEW d \in Positivos, d < n, face > 0
    PROVE  LET liquido == Arredondar(face * d, n * 10)
           IN  /\ liquido <= Arredondar(face, Centavo)
               /\ Arredondar(face - 10 * liquido, Centavo) >= 0
<1> DEFINE L == Arredondar(face * d, n * 10)
           v == face * d
           w == face * n
<1>1. v \in Nat /\ w \in Nat /\ v < w /\ n \in Nat /\ n > 0 /\ n * 10 \in Positivos
  BY DEF Positivos
<1>2. L <= Arredondar(face, Centavo)
  <2>1. v * 10 <= face * (n * 10)
    <3>1. face * (n * 10) = w * 10
      BY DEF Positivos
    <3> HIDE DEF v, w
    <3> QED
      BY <1>1, <3>1
  <2>2. 10 \in Positivos /\ v \in Int
    BY <1>1 DEF Positivos
  <2> QED
    BY <1>1, <2>1, <2>2, ArredondarMonotono DEF Centavo
<1>3. L \in Int /\ 2 * (L * (n * 10)) - 2 * v <= n * 10
  <2>1. L \in Int /\ Modulo(2 * (L * (n * 10) - v)) <= n * 10
    <3> DEFINE e == n * 10
    <3>1. v \in Int /\ e \in Positivos /\ L = Arredondar(v, e)
      BY <1>1
    <3> HIDE DEF v, e, L
    <3>2. L \in Int /\ Modulo(2 * (L * e - v)) <= e
      BY <3>1, Arredondamento
    <3> QED
      BY <3>2 DEF e
  <2> HIDE DEF L, v
  <2>2. L * (n * 10) \in Int
    BY <1>1, <2>1
  <2> QED
    BY <1>1, <2>1, <2>2 DEF Modulo
<1> HIDE DEF L
<1>4. (10 * L) * n < (face + 5) * n
  <2>1. L * (n * 10) = (10 * L) * n /\ (face + 5) * n = w + 5 * n
    BY <1>1, <1>3
  <2>2. (10 * L) * n \in Int
    BY <1>1, <1>3
  <2> HIDE DEF v, w
  <2> QED
    BY <1>1, <1>3, <2>1, <2>2
<1>5. 10 * L < face + 5
  <2> DEFINE x == 10 * L
             y == face + 5
  <2>1. x \in Int /\ y \in Int /\ x * n < y * n
    BY <1>3, <1>4
  <2> HIDE DEF x, y
  <2>2. y <= x => y * n <= x * n
    BY <1>1, <2>1
  <2>3. x * n \in Int /\ y * n \in Int
    BY <1>1, <2>1
  <2>4. x < y
    BY <2>1, <2>2, <2>3
  <2> QED
    BY <2>4 DEF x, y
<1>6. Arredondar(face - 10 * L, Centavo) >= 0
  <2> DEFINE x == face - 10 * L
  <2>1. x \in Int /\ x > -5
    BY <1>3, <1>5
  <2> HIDE DEF x
  <2>2. /\ Arredondar(x, Centavo) \in Int
        /\ x >= 0 => x + 5 < 10 * Arredondar(x, Centavo) + 10
        /\ x < 0 => 10 * Arredondar(x, Centavo) >= x - 5
    BY <2>1, EmCentavos
  <2>3. Arredondar(x, Centavo) >= 0
    BY <2>1, <2>2
  <2> QED
    BY <2>3 DEF x
<1> QED
  BY <1>2, <1>6 DEF L

\* The net amount goes down as the factor and the quote go up.
LEMMA LiquidoMonotono ==
    ASSUME NEW face \in Nat, NEW n \in Positivos, NEW d \in Positivos, NEW m \in Positivos,
           NEW e \in Positivos, NEW c \in Positivos, NEW b \in Positivos,
           m * d <= n * e, b <= c
    PROVE  /\ Arredondar(face * d, n * 10) <= Arredondar(face * e, m * 10)
           /\ Arredondar(10 * (face * d), n * c * 10) <= Arredondar(10 * (face * e), m * b * 10)
<1>1. /\ face * d \in Nat /\ face * e \in Nat
      /\ n * 10 \in Positivos /\ m * 10 \in Positivos
      /\ n * c * 10 \in Positivos /\ m * b * 10 \in Positivos
  BY DEF Positivos
<1>2. (face * d) * m <= (face * e) * n
  <2>1. m * d \in Nat /\ n * e \in Nat
    BY DEF Positivos
  <2>2. face * (m * d) <= face * (n * e)
    BY <2>1, ProdutoMonotono
  <2>3. (face * d) * m = face * (m * d) /\ (face * e) * n = face * (n * e)
    BY DEF Positivos
  <2> QED
    BY <2>2, <2>3
<1>3. ((face * d) * m) * b <= ((face * e) * n) * c
  <2>1. (face * d) * m \in Nat /\ (face * e) * n \in Nat /\ b \in Nat /\ c \in Nat
    BY DEF Positivos
  <2> QED
    BY <1>2, <2>1, ProdutoMonotono
<1>4. (face * d) * (m * 10) <= (face * e) * (n * 10)
  <2> DEFINE x == (face * d) * m
             y == (face * e) * n
  <2>1. (face * d) * (m * 10) = 10 * x /\ (face * e) * (n * 10) = 10 * y
    BY DEF Positivos
  <2>2. x \in Int /\ y \in Int /\ x <= y
    BY <1>2 DEF Positivos
  <2> HIDE DEF x, y
  <2> QED
    BY <2>1, <2>2
<1>5. (10 * (face * d)) * (m * b * 10) <= (10 * (face * e)) * (n * c * 10)
  <2> DEFINE x == ((face * d) * m) * b
             y == ((face * e) * n) * c
  <2>1. (10 * (face * d)) * (m * b * 10) = 100 * x
    BY DEF Positivos
  <2>2. (10 * (face * e)) * (n * c * 10) = 100 * y
    BY DEF Positivos
  <2>3. x \in Int /\ y \in Int /\ x <= y
    BY <1>3 DEF Positivos
  <2> HIDE DEF x, y
  <2> QED
    BY <2>1, <2>2, <2>3
<1>6. 10 * (face * d) \in Int /\ 10 * (face * e) \in Int
  BY <1>1
<1> QED
  BY <1>1, <1>4, <1>5, <1>6, ArredondarMonotono

\* Factors in order (FatorCrescente), the discount, the conversion and the rounding
\* never turn the order of two transactions round, and in its own currency a title
\* never pays more than its face value (Motor.Calcular, montarTransacao).
THEOREM CustoOrdenado == Spec => []CustoNaoRende
<1>1. ASSUME IInv, NEW p \in Gravados
      PROVE  LET o == operacao[p]
                 f == Fator(o)
                 cot == aplicada[p]
             IN  /\ o \in Operacoes /\ o.dias > 0 /\ o.face \in Nat /\ o.face > 0
                 /\ f.n \in Positivos /\ f.d \in Positivos /\ o.cambio \in BOOLEAN
                 /\ o.cambio => cot \in Positivos
                 /\ linha[p].face = Arredondar(o.face, Centavo)
                 /\ linha[p].liquido = IF o.cambio THEN Arredondar(10 * (o.face * f.d), f.n * cot * 10)
                                                   ELSE Arredondar(o.face * f.d, f.n * 10)
                 /\ linha[p].desagio = Arredondar(o.face - 10 * linha[p].liquido, Centavo)
  <2> DEFINE o == operacao[p]
             cot == aplicada[p]
             f == Fator(o)
  <2>1. /\ o \in Operacoes /\ Aceita(o, cot) /\ linha[p] = Registro(o, cot) /\ linha[p].face > 0
        /\ (o.cambio => cot \in Positivos)
    BY <1>1, Gravado
  <2>2. o.face \in Int /\ o.dias \in Int /\ o.dias > 0 /\ o.cambio \in BOOLEAN
    BY <2>1, AceitaTipo, OperacaoTipo DEF Aceita, Recusada
  <2>3. f.n \in Positivos /\ f.d \in Positivos
    BY <2>1, AceitaTipo
  <2>4. /\ linha[p].face = Arredondar(o.face, Centavo)
        /\ linha[p].liquido = Motor(o, cot).liquido
        /\ linha[p].desagio = Arredondar(Motor(o, cot).desagio, Centavo)
    BY <2>1 DEF Registro
  <2>5. /\ Motor(o, cot).desagio = o.face - 10 * Motor(o, cot).liquido
        /\ Motor(o, cot).liquido = Arredondar(IF o.cambio THEN 10 * (o.face * f.d) ELSE o.face * f.d,
                                              IF o.cambio THEN f.n * cot * 10 ELSE f.n * 10)
    BY <2>1, MotorValor
  <2> HIDE DEF o, cot, f
  <2>6. o.face > 0
    BY <2>1, <2>2, <2>4, EmCentavos
  <2>7. o.face \in Nat
    BY <2>2, <2>6
  <2>8. linha[p].liquido = IF o.cambio THEN Arredondar(10 * (o.face * f.d), f.n * cot * 10)
                                       ELSE Arredondar(o.face * f.d, f.n * 10)
    BY <2>2, <2>4, <2>5
  <2>9. linha[p].desagio = Arredondar(o.face - 10 * linha[p].liquido, Centavo)
    BY <2>4, <2>5
  <2> QED
    BY <2>1, <2>2, <2>3, <2>4, <2>6, <2>7, <2>8, <2>9 DEF o, cot, f
<1>2. ASSUME IInv, NEW p \in Gravados, NEW q \in Gravados, CustaMais(p, q)
      PROVE  linha[p].liquido <= linha[q].liquido
  <2> DEFINE o == operacao[p]
             u == operacao[q]
             f == Fator(o)
             g == Fator(u)
             c == aplicada[p]
             b == aplicada[q]
  <2>1. /\ o.face = u.face /\ o.dias >= u.dias /\ Base(o) >= Base(u) /\ o.cambio = u.cambio
        /\ o.cambio => c >= b
    BY <1>2 DEF CustaMais
  <2>2. /\ o \in Operacoes /\ o.face \in Nat /\ f.n \in Positivos /\ f.d \in Positivos
        /\ o.cambio => c \in Positivos
        /\ linha[p].liquido = IF o.cambio THEN Arredondar(10 * (o.face * f.d), f.n * c * 10)
                                          ELSE Arredondar(o.face * f.d, f.n * 10)
    BY <1>1, <1>2
  <2>3. /\ u \in Operacoes /\ u.dias > 0 /\ g.n \in Positivos /\ g.d \in Positivos
        /\ u.cambio => b \in Positivos
        /\ linha[q].liquido = IF u.cambio THEN Arredondar(10 * (u.face * g.d), g.n * b * 10)
                                          ELSE Arredondar(u.face * g.d, g.n * 10)
    BY <1>1, <1>2
  <2>4. g.n * f.d <= f.n * g.d
    BY <2>1, <2>2, <2>3, FatorCrescente
  <2> HIDE DEF o, u, f, g, c, b
  <2>5. CASE o.cambio
    <3>1. b \in Positivos /\ c \in Positivos /\ b <= c
      BY <2>1, <2>2, <2>3, <2>5 DEF Positivos
    <3>2. Arredondar(10 * (o.face * f.d), f.n * c * 10) <= Arredondar(10 * (o.face * g.d), g.n * b * 10)
      BY <2>2, <2>3, <2>4, <3>1, LiquidoMonotono
    <3> QED
      BY <2>1, <2>2, <2>3, <2>5, <3>2
  <2>6. CASE ~ o.cambio
    <3>1. 1 \in Positivos /\ 1 <= 1
      BY DEF Positivos
    <3>2. Arredondar(o.face * f.d, f.n * 10) <= Arredondar(o.face * g.d, g.n * 10)
      BY <2>2, <2>3, <2>4, <3>1, LiquidoMonotono
    <3> QED
      BY <2>1, <2>2, <2>3, <2>6, <3>2
  <2> QED
    BY <2>5, <2>6
<1>3. ASSUME IInv, NEW p \in Gravados, ~ operacao[p].cambio
      PROVE  linha[p].liquido <= linha[p].face /\ linha[p].desagio >= 0
  <2> DEFINE o == operacao[p]
             f == Fator(o)
  <2>1. /\ o \in Operacoes /\ o.dias > 0 /\ o.face \in Nat /\ o.face > 0
        /\ f.n \in Positivos /\ f.d \in Positivos
        /\ linha[p].face = Arredondar(o.face, Centavo)
        /\ linha[p].liquido = Arredondar(o.face * f.d, f.n * 10)
        /\ linha[p].desagio = Arredondar(o.face - 10 * linha[p].liquido, Centavo)
    BY <1>1, <1>3
  <2>2. f.d < f.n
    BY <2>1, FatorCrescente
  <2> HIDE DEF o, f
  <2> QED
    BY <2>1, <2>2, SemCambio
<1>4. IInv => CustoNaoRende
  BY <1>2, <1>3 DEF CustoNaoRende
<1> QED
  BY <1>4, Invariante, PTL

\* Face value, net amount and discount of a row close to the cent, each having
\* been rounded by itself (montarTransacao).
THEOREM FechaNoCentavo == Spec => []LinhaFecha
<1>1. IInv => LinhaFecha
  <2> SUFFICES ASSUME IInv, NEW p \in Gravados
               PROVE  LET resto == linha[p].face - linha[p].liquido - linha[p].desagio
                      IN  /\ resto \in {0, 1}
                          /\ resto = 1 => linha[p].desagio < 0 /\ operacao[p].face % Centavo # 0
    BY DEF LinhaFecha
  <2> DEFINE face == operacao[p].face
             L == Motor(operacao[p], aplicada[p]).liquido
             f == linha[p].face
             g == linha[p].desagio
  <2>1. Aceita(operacao[p], aplicada[p]) /\ linha[p] = Registro(operacao[p], aplicada[p]) /\ f > 0
    BY Gravado
  <2>2. face \in Int
    BY <2>1, AceitaTipo
  <2>3. L \in Int /\ Motor(operacao[p], aplicada[p]).desagio = face - 10 * L
    <3>1. Motor(operacao[p], aplicada[p]) \in Resultado
      BY <2>1, MotorValor
    <3>2. Motor(operacao[p], aplicada[p]).desagio = face - 10 * L
      BY <2>1, MotorValor
    <3> QED
      BY <3>1, <3>2 DEF Resultado
  <2>4. f = Arredondar(face, Centavo) /\ g = Arredondar(face - 10 * L, Centavo) /\ linha[p].liquido = L
    BY <2>1, <2>3 DEF Registro
  <2> HIDE DEF face, L, f, g
  <2>5. /\ f \in Int
        /\ face >= 0 => 10 * f <= face + 5 /\ face + 5 < 10 * f + 10
        /\ face < 0 => 10 * f >= face - 5 /\ face - 5 > 10 * f - 10
    BY <2>2, <2>4, EmCentavos
  <2>6. /\ g \in Int
        /\ face - 10 * L >= 0 => 10 * g <= face - 10 * L + 5 /\ face - 10 * L + 5 < 10 * g + 10
        /\ face - 10 * L < 0 => 10 * g >= face - 10 * L - 5 /\ face - 10 * L - 5 > 10 * g - 10
    <3>1. face - 10 * L \in Int
      BY <2>2, <2>3
    <3> QED
      BY <2>4, <3>1, EmCentavos
  <2>7. face > 0
    BY <2>1, <2>2, <2>5
  <2>8. f - L - g \in {0, 1} /\ (f - L - g = 1 => g < 0 /\ face % 10 # 0)
    <3>1. 10 * f <= face + 5 /\ face + 5 < 10 * f + 10
      BY <2>2, <2>5, <2>7
    <3>2. CASE face - 10 * L >= 0
      <4>1. f - L = g
        BY <2>2, <2>3, <2>5, <2>6, <3>1, <3>2
      <4> QED
        BY <2>3, <2>5, <2>6, <4>1
    <3>3. CASE face - 10 * L < 0
      <4>1. 10 * (g + L) >= face - 5 /\ face - 5 > 10 * (g + L) - 10
        BY <2>2, <2>3, <2>6, <3>3
      <4>2. f - L - g \in {0, 1}
        BY <2>2, <2>3, <2>5, <2>6, <3>1, <4>1
      <4>3. ASSUME f - L - g = 1
            PROVE  g < 0 /\ face % 10 # 0
        <5>1. face = 10 * f - 5
          BY <2>2, <2>3, <2>5, <2>6, <3>1, <4>1, <4>3
        <5>2. 10 * g = face - 5 - 10 * L
          BY <2>2, <2>3, <2>5, <2>6, <4>3, <5>1
        <5>3. g < 0
          BY <2>2, <2>3, <2>6, <3>3, <5>2
        <5>4. face % 10 = 5
          BY <2>5, <5>1
        <5> QED
          BY <5>3, <5>4
      <4> QED
        BY <4>2, <4>3
    <3> QED
      BY <2>2, <2>3, <3>2, <3>3
  <2> QED
    BY <2>4, <2>8 DEF face, f, g, Centavo
<1> QED
  BY <1>1, Invariante, PTL

\* A row whose face value came in cents prices again to itself, whatever quotes
\* were registered since (ADR-004, ADR-005).
THEOREM Recalculo == Spec => []Recalculavel
<1>1. IInv => Recalculavel
  <2> SUFFICES ASSUME IInv, NEW p \in Gravados, operacao[p].face % Centavo = 0
               PROVE  LET l == linha[p]
                          r == Motor([operacao[p] EXCEPT !.face = Centavo * l.face,
                                                         !.taxa = l.taxa], l.cotacao)
                      IN  <<r.vp, r.liquido, r.desagio>> = <<l.vp, l.liquido, Centavo * l.desagio>>
    BY DEF Recalculavel
  <2> DEFINE o == operacao[p]
             cot == aplicada[p]
             l == linha[p]
             m == Motor(o, cot)
  <2>1. o \in Operacoes /\ Aceita(o, cot) /\ l = Registro(o, cot)
    BY Gravado
  <2>2. o.face \in Int /\ o.face % Centavo = 0
    BY <2>1, AceitaTipo
  <2>3. Centavo * l.face = o.face
    BY <2>1, <2>2, EmCentavos DEF Registro
  <2>4. l.taxa = o.taxa /\ l.cotacao = cot /\ l.vp = m.vp /\ l.liquido = m.liquido
        /\ l.desagio = Arredondar(m.desagio, Centavo)
    BY <2>1 DEF Registro
  <2>5. [o EXCEPT !.face = Centavo * l.face, !.taxa = l.taxa] = o
    <3>1. o \in [face : Int \cup {NaoFinito}, dias : Int, taxa : Nat \ {0},
                 tipo : DOMAIN Spread, cambio : BOOLEAN]
      BY <2>1, OperacaoTipo
    <3> HIDE DEF o, l
    <3> QED
      BY <2>3, <2>4, <3>1
  <2>6. Centavo * l.desagio = m.desagio
    <3>1. m \in Resultado /\ m.desagio = o.face - 10 * m.liquido
      BY <2>1, MotorValor
    <3>2. m.liquido \in Int
      BY <3>1 DEF Resultado
    <3> HIDE DEF o, m, l
    <3>3. m.desagio \in Int /\ m.desagio % Centavo = 0
      BY <2>2, <3>1, <3>2 DEF Centavo
    <3> QED
      BY <2>4, <3>3, EmCentavos
  <2> QED
    BY <2>4, <2>5, <2>6
<1> QED
  BY <1>1, Invariante, PTL

\* The engine refuses only for what the caller sent: a term that is not positive
\* or a face value that is not finite.
THEOREM RecusaDoPedido == Spec => []RecusaEDoPedido
<1>1. IInv => RecusaEDoPedido
  <2> SUFFICES ASSUME IInv, NEW p \in Pedidos, resultado[p] = Recusado
               PROVE  operacao[p].dias <= 0 \/ operacao[p].face = NaoFinito
    BY DEF RecusaEDoPedido
  <2> DEFINE o == operacao[p]
             cot == aplicada[p]
  <2>1. /\ o \in Operacoes /\ cot \in IF o.cambio THEN Positivos ELSE {Nenhum}
        /\ Calculo(o, cot) = Recusado
    BY MotorAssumption DEF IInv, PedidoInv
  <2>2. Recusada(o, cot)
    <3> SUFFICES ASSUME ~ Recusada(o, cot) PROVE FALSE
      OBVIOUS
    <3>1. Aceita(o, cot) /\ Motor(o, cot) = Recusado
      BY <2>1 DEF Aceita, Calculo
    <3>2. Motor(o, cot) \in Resultado
      BY <3>1, MotorValor
    <3> QED
      BY <3>1, <3>2, MotorAssumption
  <2>3. Base(o) \in Positivos
    BY <2>1, OperacaoTipo
  <2> QED
    BY <2>1, <2>2, <2>3 DEF Recusada, Positivos
<1> QED
  BY <1>1, Invariante, PTL
================================================================================
