-------------------------------- MODULE Sumas ---------------------------------
(***************************************************************************)
(* Lemmas about finite sums, which the community modules define by folding *)
(* over a set, the induction over finite sets they rest on, and lists.     *)
(***************************************************************************)
EXTENDS Integers, Sequences, SequencesExt, FiniteSets, FiniteSetsExt, Functions,
        FiniteSetTheorems, WellFoundedInduction, TLAPS

\* Induction over finite sets: a collection of subsets of S with the empty one and,
\* with each of its members, that member and one element more, has S itself. (A
\* smallest subset that is not in the collection cannot exist.)
LEMMA InduccionConjuntos ==
  ASSUME NEW S, IsFiniteSet(S), NEW Q,
         {} \in Q, \A T \in SUBSET S : \A x \in S : T \in Q => T \cup {x} \in Q
  PROVE  S \in Q
<1> SUFFICES ASSUME S \notin Q PROVE FALSE
  OBVIOUS
<1> DEFINE Malos == {T \in SUBSET S : T \notin Q}
<1>1. Malos \subseteq FiniteSubsetsOf(S)
  BY FS_FiniteSubsetsOfFinite
<1>2. PICK m \in Malos : \A y \in Malos : <<y, m>> \notin StrictSubsetOrdering(S)
  <2>1. Malos # {} OBVIOUS
  <2>2. IsWellFoundedOn(StrictSubsetOrdering(S), FiniteSubsetsOf(S))
    BY FS_StrictSubsetOrderingWellFounded
  <2> HIDE DEF Malos
  <2> QED BY <1>1, <2>1, <2>2, WFMin
<1>3. PICK x : x \in m
  OBVIOUS
<1>4. m \ {x} \in SUBSET S /\ x \in S
  BY <1>3
<1>5. m \ {x} \in Q
  <2>1. <<m \ {x}, m>> \in StrictSubsetOrdering(S)
    BY <1>3, <1>4 DEF StrictSubsetOrdering
  <2> QED BY <1>2, <1>4, <2>1
<1>6. (m \ {x}) \cup {x} \in Q
  BY <1>4, <1>5
<1>7. (m \ {x}) \cup {x} = m
  BY <1>3
<1> QED BY <1>6, <1>7

\* The same with the minimum spelled out: a collection of subsets of a finite set
\* that is not empty has a member none of whose smaller subsets is in it.
LEMMA MinimoConjuntos ==
  ASSUME NEW S, IsFiniteSet(S), NEW Q \in SUBSET SUBSET S, Q # {}
  PROVE  \E m \in Q : \A T \in SUBSET m : T # m => T \notin Q
<1>1. Q \subseteq FiniteSubsetsOf(S)
  BY FS_FiniteSubsetsOfFinite
<1>2. IsWellFoundedOn(StrictSubsetOrdering(S), FiniteSubsetsOf(S))
  BY FS_StrictSubsetOrderingWellFounded
<1>3. PICK m \in Q : \A y \in Q : <<y, m>> \notin StrictSubsetOrdering(S)
  BY <1>1, <1>2, WFMin
<1>4. ASSUME NEW T \in SUBSET m, T # m PROVE T \notin Q
  BY <1>3, <1>4 DEF StrictSubsetOrdering
<1> QED BY <1>4

-----------------------------------------------------------------------------
\* A finite set of integers that is not empty has a least and a largest element.
LEMMA HayMinimo ==
  ASSUME NEW S \in SUBSET Int, IsFiniteSet(S), S # {}
  PROVE  \E x \in S : \A y \in S : x <= y
<1> DEFINE Q == {T \in SUBSET S : T = {} \/ \E x \in T : \A y \in T : x <= y}
<1>1. ASSUME NEW T \in SUBSET S, NEW z \in S, T \in Q PROVE T \cup {z} \in Q
  <2>1. CASE T = {}
    BY <2>1
  <2>2. CASE T # {}
    <3>1. PICK x \in T : \A y \in T : x <= y
      BY <1>1, <2>2
    <3>2. x \in Int /\ z \in Int /\ T \subseteq Int
      OBVIOUS
    <3>3. CASE x <= z
      BY <3>1, <3>3
    <3>4. CASE z < x
      BY <3>1, <3>2, <3>4
    <3> QED BY <3>2, <3>3, <3>4
  <2> QED BY <2>1, <2>2
<1>2. {} \in Q
  OBVIOUS
<1>3. S \in Q
  <2> HIDE DEF Q
  <2> QED BY <1>1, <1>2, InduccionConjuntos
<1> QED BY <1>3

LEMMA HayMaximo ==
  ASSUME NEW S \in SUBSET Int, IsFiniteSet(S), S # {}
  PROVE  \E x \in S : \A y \in S : x >= y
<1> DEFINE Q == {T \in SUBSET S : T = {} \/ \E x \in T : \A y \in T : x >= y}
<1>1. ASSUME NEW T \in SUBSET S, NEW z \in S, T \in Q PROVE T \cup {z} \in Q
  <2>1. CASE T = {}
    BY <2>1
  <2>2. CASE T # {}
    <3>1. PICK x \in T : \A y \in T : x >= y
      BY <1>1, <2>2
    <3>2. x \in Int /\ z \in Int /\ T \subseteq Int
      OBVIOUS
    <3>3. CASE x >= z
      BY <3>1, <3>3
    <3>4. CASE z > x
      BY <3>1, <3>2, <3>4
    <3> QED BY <3>2, <3>3, <3>4
  <2> QED BY <2>1, <2>2
<1>2. {} \in Q
  OBVIOUS
<1>3. S \in Q
  <2> HIDE DEF Q
  <2> QED BY <1>1, <1>2, InduccionConjuntos
<1> QED BY <1>3

LEMMA MinimoDe ==
  ASSUME NEW S \in SUBSET Int, IsFiniteSet(S), S # {}
  PROVE  Min(S) \in S /\ \A y \in S : Min(S) <= y
BY HayMinimo DEF Min

LEMMA MaximoDe ==
  ASSUME NEW S \in SUBSET Int, IsFiniteSet(S), S # {}
  PROVE  Max(S) \in S /\ \A y \in S : Max(S) >= y
BY HayMaximo DEF Max

\* Induction up to a bound: what holds of 0, and of each number if it holds of the
\* one before, holds of all.
LEMMA InduccionHasta ==
  ASSUME NEW n \in Nat, NEW Q, 0 \in Q, \A i \in 1 .. n : i - 1 \in Q => i \in Q
  PROVE  \A i \in 0 .. n : i \in Q
<1> DEFINE Malos == {i \in 0 .. n : i \notin Q}
<1> SUFFICES ASSUME Malos # {} PROVE FALSE
  OBVIOUS
<1>1. IsFiniteSet(Malos) /\ Malos \in SUBSET Int
  <2>1. IsFiniteSet(0 .. n) /\ Malos \in SUBSET (0 .. n)
    BY FS_Interval
  <2>2. IsFiniteSet(Malos)
    BY ONLY <2>1, FS_Subset
  <2> QED BY <2>2
<1>2. PICK i \in Malos : \A j \in Malos : i <= j
  <2> HIDE DEF Malos
  <2> QED BY <1>1, HayMinimo
<1>3. i \in 1 .. n /\ i - 1 \in 0 .. n
  BY <1>2
<1>4. i - 1 \in Q
  BY <1>2, <1>3
<1> QED BY <1>2, <1>3, <1>4

-----------------------------------------------------------------------------
(* A fold over the subsets of S, taking the elements in the order that the   *)
(* choice c gives: F has a step for each element, from values in M to M.    *)

Eleccion(c, S) == \A T \in SUBSET S : T # {} => c[T] \in T

Siguiente(g, F, b, M, c, T) == IF T = {} THEN b ELSE F[c[T]][g[T \ {c[T]}]]

EsFold(g, F, b, M, c, S) ==
  /\ g \in [SUBSET S -> M]
  /\ \A T \in SUBSET S : g[T] = Siguiente(g, F, b, M, c, T)

LEMMA FoldUnico ==
  ASSUME NEW S, IsFiniteSet(S), NEW F, NEW b, NEW M, NEW c, Eleccion(c, S),
         NEW U \in SUBSET S, NEW W \in SUBSET S,
         NEW g, EsFold(g, F, b, M, c, U), NEW h, EsFold(h, F, b, M, c, W),
         NEW T \in SUBSET (U \cap W)
  PROVE  g[T] = h[T]
<1> DEFINE Malos == {X \in SUBSET (U \cap W) : g[X] # h[X]}
<1> SUFFICES ASSUME Malos # {} PROVE FALSE
  OBVIOUS
<1>1. IsFiniteSet(U \cap W)
  BY FS_Subset
<1>2. PICK m \in Malos : \A X \in SUBSET m : X # m => X \notin Malos
  <2>1. Malos \in SUBSET SUBSET (U \cap W)
    OBVIOUS
  <2> HIDE DEF Malos
  <2> QED BY <1>1, <2>1, MinimoConjuntos
<1>3. m # {}
  BY <1>2 DEF EsFold, Siguiente
<1>4. c[m] \in m
  BY <1>3 DEF Eleccion
<1>5. g[m \ {c[m]}] = h[m \ {c[m]}]
  BY <1>2, <1>4
<1>6. g[m] = h[m]
  BY <1>3, <1>5 DEF EsFold, Siguiente
<1> QED BY <1>6

LEMMA FoldExiste ==
  ASSUME NEW S, IsFiniteSet(S), NEW F, NEW M, NEW b \in M, \A i \in S, x \in M : F[i][x] \in M,
         NEW c, Eleccion(c, S)
  PROVE  \E g : EsFold(g, F, b, M, c, S)
<1> DEFINE Malos == {X \in SUBSET S : ~ \E g : EsFold(g, F, b, M, c, X)}
<1> SUFFICES ASSUME Malos # {} PROVE FALSE
  OBVIOUS
<1>1. PICK m \in Malos : \A X \in SUBSET m : X # m => X \notin Malos
  <2>1. Malos \in SUBSET SUBSET S
    OBVIOUS
  <2> HIDE DEF Malos
  <2> QED BY <2>1, MinimoConjuntos
<1> DEFINE G == [X \in SUBSET m |-> CHOOSE g : EsFold(g, F, b, M, c, X)]
           g == [X \in SUBSET m |-> IF X = m THEN Siguiente(G[m \ {c[m]}], F, b, M, c, m) ELSE G[X][X]]
<1>2. \A X \in SUBSET m : X # m => EsFold(G[X], F, b, M, c, X)
  BY <1>1
<1>3. \A X \in SUBSET m : X # {} => c[X] \in X
  BY DEF Eleccion
<1>4. \A X \in SUBSET m : X # m => G[X] \in [SUBSET X -> M] /\ g[X] = G[X][X] /\ g[X] \in M
  <2> SUFFICES ASSUME NEW X \in SUBSET m, X # m
               PROVE  G[X] \in [SUBSET X -> M] /\ g[X] = G[X][X] /\ g[X] \in M
    OBVIOUS
  <2>1. G[X] \in [SUBSET X -> M]
    <3>1. EsFold(G[X], F, b, M, c, X)
      BY <1>2
    <3> HIDE DEF G
    <3> QED BY <3>1 DEF EsFold
  <2>2. g[X] = G[X][X]
    <3> HIDE DEF G
    <3> QED OBVIOUS
  <2> HIDE DEF G, g
  <2> QED BY <2>1, <2>2
<1>5. ASSUME NEW X \in SUBSET m PROVE Siguiente(g, F, b, M, c, X) = g[X] /\ g[X] \in M
  <2>1. CASE X = {} /\ m = {}
    BY <2>1 DEF Siguiente
  <2>2. CASE X = {} /\ m # {}
    <3>1. EsFold(G[X], F, b, M, c, X) /\ g[X] = G[X][X] /\ g[X] \in M
      BY <1>2, <1>4, <2>2
    <3> HIDE DEF G, g
    <3> QED BY <2>2, <3>1 DEF Siguiente, EsFold
  <2>3. CASE X # {}
    <3> DEFINE Y == X \ {c[X]}
    <3>1. c[X] \in X /\ Y \in SUBSET m /\ Y # m /\ Y \in SUBSET X /\ \A x \in M : F[c[X]][x] \in M
      BY <1>3, <2>3
    <3>2. EsFold(G[Y], F, b, M, c, Y) /\ g[Y] = G[Y][Y] /\ g[Y] \in M
      <4> HIDE DEF G, g, Y
      <4> QED BY <1>2, <1>4, <3>1
    <3>3. Siguiente(g, F, b, M, c, X) = F[c[X]][G[Y][Y]]
      <4> HIDE DEF G, g
      <4> QED BY <2>3, <3>2 DEF Siguiente
    <3>4. CASE X = m
      <4>1. g[X] = F[c[X]][G[Y][Y]]
        BY <2>3, <3>4 DEF Siguiente
      <4> HIDE DEF G, g, Y
      <4> QED BY <3>1, <3>2, <3>3, <4>1
    <3>5. CASE X # m
      <4>1. EsFold(G[X], F, b, M, c, X) /\ g[X] = G[X][X]
        <5> HIDE DEF G, g
        <5> QED BY <1>2, <1>4, <3>5
      <4>2. G[X][Y] = G[Y][Y]
        <5> HIDE DEF G, g, Y
        <5>1. X \in SUBSET S /\ Y \in SUBSET S /\ Y \in SUBSET (X \cap Y)
          BY <3>1
        <5>2. EsFold(G[X], F, b, M, c, X) /\ EsFold(G[Y], F, b, M, c, Y)
          BY <4>1, <3>2
        <5>3. ASSUME NEW a, EsFold(a, F, b, M, c, X), NEW h, EsFold(h, F, b, M, c, Y)
              PROVE  a[Y] = h[Y]
          BY ONLY <5>1, <5>3, FoldUnico, IsFiniteSet(S), Eleccion(c, S)
        <5> QED BY <5>2, <5>3
      <4>3. G[X][X] = F[c[X]][G[X][Y]]
        <5> HIDE DEF G, g
        <5> QED BY <2>3, <4>1 DEF EsFold, Siguiente
      <4> HIDE DEF G, g, Y
      <4> QED BY <3>1, <3>2, <3>3, <4>1, <4>2, <4>3
    <3> QED BY <3>4, <3>5
  <2> QED BY <2>1, <2>2, <2>3
<1>6. EsFold(g, F, b, M, c, m)
  <2>1. g \in [SUBSET m -> M]
    BY <1>5
  <2> HIDE DEF g, G
  <2> QED BY <1>5, <2>1 DEF EsFold
<1> QED BY <1>1, <1>6

\* The order in which the folds of a list take its positions: the last one outermost.
Mayores(n) == [T \in SUBSET (1 .. n) |-> Max(T)]

LEMMA MayoresEligen ==
  ASSUME NEW n \in Nat
  PROVE  /\ IsFiniteSet(1 .. n) /\ Eleccion(Mayores(n), 1 .. n)
         /\ \A i \in 1 .. n : Mayores(n)[1 .. i] = i
<1>1. IsFiniteSet(1 .. n)
  BY FS_Interval
<1>2. ASSUME NEW T \in SUBSET (1 .. n), T # {}
      PROVE  Max(T) \in T /\ \A y \in T : Max(T) >= y
  <2>1. IsFiniteSet(T)
    BY ONLY <1>1, T \in SUBSET (1 .. n), FS_Subset
  <2>2. T \in SUBSET Int
    OBVIOUS
  <2> QED BY <1>2, <2>1, <2>2, MaximoDe
<1>3. ASSUME NEW i \in 1 .. n PROVE Mayores(n)[1 .. i] = i
  <2>1. 1 .. i \in SUBSET (1 .. n) /\ i \in 1 .. i
    OBVIOUS
  <2>2. Max(1 .. i) \in 1 .. i /\ Max(1 .. i) >= i
    BY <1>2, <2>1
  <2> QED BY <2>1, <2>2 DEF Mayores
<1> QED BY <1>1, <1>2, <1>3 DEF Eleccion, Mayores

\* A fold over the positions of a list goes from the first to the last.
PorVueltas(g, F, b, M, n) ==
  /\ g[1 .. 0] = b
  /\ \A i \in 0 .. n : g[1 .. i] \in M
  /\ \A i \in 1 .. n : g[1 .. i] = F[i][g[1 .. i - 1]]

Cierra(F, b, M, n) == b \in M /\ \A i \in 1 .. n, x \in M : F[i][x] \in M

LEMMA FoldDeLista ==
  ASSUME NEW n \in Nat, NEW F, NEW M, NEW b, Cierra(F, b, M, n)
  PROVE  \E g : EsFold(g, F, b, M, Mayores(n), 1 .. n) /\ PorVueltas(g, F, b, M, n)
<1>1. IsFiniteSet(1 .. n) /\ Eleccion(Mayores(n), 1 .. n)
  BY MayoresEligen
<1>2. PICK g : EsFold(g, F, b, M, Mayores(n), 1 .. n)
  <2> DEFINE S == 1 .. n  c == Mayores(n)
  <2>1. IsFiniteSet(S) /\ Eleccion(c, S) /\ b \in M /\ \A i \in S, x \in M : F[i][x] \in M
    BY <1>1 DEF Cierra
  <2> HIDE DEF S, c
  <2>2. \E g : EsFold(g, F, b, M, c, S)
    BY <2>1, FoldExiste
  <2> QED BY <2>2 DEF S, c
<1>3. 1 .. 0 = {} /\ \A i \in 0 .. n : 1 .. i \in SUBSET (1 .. n)
  OBVIOUS
<1>4. g[1 .. 0] = b /\ \A i \in 0 .. n : g[1 .. i] \in M
  BY <1>2, <1>3 DEF EsFold, Siguiente
<1>5. ASSUME NEW i \in 1 .. n PROVE g[1 .. i] = F[i][g[1 .. i - 1]]
  <2>1. Mayores(n)[1 .. i] = i /\ 1 .. i # {} /\ (1 .. i) \ {i} = 1 .. i - 1 /\ 1 .. i \in SUBSET (1 .. n)
    BY MayoresEligen
  <2> QED BY <1>2, <2>1 DEF EsFold, Siguiente
<1> QED BY <1>2, <1>4, <1>5 DEF PorVueltas

-----------------------------------------------------------------------------
(* The sum of the values of v is the fold that adds them.                   *)

Paso(g, v, c, T) == IF T = {} THEN 0 ELSE v[c[T]] + g[T \ {c[T]}]

EsSuma(g, v, c, S) ==
  /\ g \in [SUBSET S -> Int]
  /\ \A T \in SUBSET S : g[T] = Paso(g, v, c, T)

Sumador(v, S) == [i \in S |-> [x \in Int |-> v[i] + x]]

LEMMA SumaEs ==
  ASSUME NEW S, NEW U \in SUBSET S, NEW v, NEW c, Eleccion(c, S), NEW g
  PROVE  EsSuma(g, v, c, U) <=> EsFold(g, Sumador(v, S), 0, Int, c, U)
<1> SUFFICES ASSUME g \in [SUBSET U -> Int], NEW T \in SUBSET U
             PROVE  Paso(g, v, c, T) = Siguiente(g, Sumador(v, S), 0, Int, c, T)
  BY DEF EsSuma, EsFold
<1>1. CASE T = {}
  BY <1>1 DEF Paso, Siguiente
<1>2. CASE T # {}
  <2>1. c[T] \in T /\ T \ {c[T]} \in SUBSET U
    BY <1>2 DEF Eleccion
  <2>2. c[T] \in S /\ g[T \ {c[T]}] \in Int
    BY <2>1
  <2> QED BY <1>2, <2>2 DEF Paso, Siguiente, Sumador
<1> QED BY <1>1, <1>2

LEMMA SumaUnica ==
  ASSUME NEW S, IsFiniteSet(S), NEW v, \A i \in S : v[i] \in Int, NEW c, Eleccion(c, S),
         NEW U \in SUBSET S, NEW W \in SUBSET S,
         NEW g, EsSuma(g, v, c, U), NEW h, EsSuma(h, v, c, W),
         NEW T \in SUBSET (U \cap W)
  PROVE  g[T] = h[T]
<1> DEFINE F == Sumador(v, S)
<1>1. EsFold(g, F, 0, Int, c, U) /\ EsFold(h, F, 0, Int, c, W)
  BY SumaEs
<1> HIDE DEF F
<1> QED BY <1>1, FoldUnico, SMTT(30)

LEMMA SumaExiste ==
  ASSUME NEW S, IsFiniteSet(S), NEW v, \A i \in S : v[i] \in Int, NEW c, Eleccion(c, S)
  PROVE  \E g : EsSuma(g, v, c, S)
<1> DEFINE F == Sumador(v, S)
<1>1. 0 \in Int /\ \A i \in S, x \in Int : F[i][x] \in Int
  BY DEF Sumador
<1>2. \E g : EsFold(g, F, 0, Int, c, S)
  <2> HIDE DEF F
  <2> QED BY ONLY <1>1, FoldExiste, IsFiniteSet(S), Eleccion(c, S)
<1> QED BY <1>2, SumaEs

\* The order in which SumFunctionOnSet takes the elements.
Elegir(S) == [T \in SUBSET S |-> CHOOSE x \in T : TRUE]

LEMMA ElegirElige == ASSUME NEW S PROVE Eleccion(Elegir(S), S)
BY DEF Eleccion, Elegir

\* SumFunctionOnSet is that sum, over the whole set.
LEMMA SumaEsFold ==
  ASSUME NEW S, IsFiniteSet(S), NEW v, \A i \in S : v[i] \in Int
  PROVE  \E g : EsSuma(g, v, Elegir(S), S) /\ SumFunctionOnSet(v, S) = g[S]
<1> DEFINE c == Elegir(S)
           Rec(h) == [T \in SUBSET S |->
                        IF T = {} THEN 0
                        ELSE v[CHOOSE x \in T : TRUE] + h[T \ {CHOOSE x \in T : TRUE}]]
           iter == CHOOSE h : h = Rec(h)
<1>1. Eleccion(c, S)
  BY ElegirElige
<1>2. PICK g : EsSuma(g, v, c, S)
  BY <1>1, SumaExiste
<1>3. g = Rec(g)
  <2>1. \A T \in SUBSET S : g[T] = Rec(g)[T]
    BY <1>2 DEF EsSuma, Paso, Elegir
  <2>2. g = [T \in SUBSET S |-> g[T]]
    BY <1>2 DEF EsSuma
  <2>3. Rec(g) = [T \in SUBSET S |-> Rec(g)[T]]
    OBVIOUS
  <2> HIDE DEF Rec
  <2> QED BY <2>1, <2>2, <2>3
<1>4. iter = Rec(iter)
  <2> HIDE DEF Rec
  <2> QED BY <1>3
<1>5. SumFunctionOnSet(v, S) = iter[S]
  BY DEF SumFunctionOnSet, FoldFunctionOnSet, MapThenFoldSet
<1>6. iter[S] = g[S]
  <2> HIDE DEF iter
  <2> DEFINE Malos == {X \in SUBSET S : iter[X] # g[X]}
  <2> SUFFICES ASSUME Malos # {} PROVE FALSE
    OBVIOUS
  <2>1. PICK m \in Malos : \A X \in SUBSET m : X # m => X \notin Malos
    <3>1. Malos \in SUBSET SUBSET S
      OBVIOUS
    <3> HIDE DEF Malos
    <3> QED BY <3>1, MinimoConjuntos
  <2>2. iter[m] = Rec(iter)[m] /\ g[m] = Rec(g)[m]
    <3> HIDE DEF Rec
    <3> QED BY <1>3, <1>4
  <2>3. CASE m = {}
    BY <2>1, <2>2, <2>3
  <2>4. CASE m # {}
    <3> DEFINE x == CHOOSE x \in m : TRUE
    <3>1. x \in m
      BY <2>4
    <3>2. iter[m] = v[x] + iter[m \ {x}] /\ g[m] = v[x] + g[m \ {x}]
      BY <2>2, <2>4
    <3> HIDE DEF x
    <3>3. iter[m \ {x}] = g[m \ {x}]
      BY <2>1, <3>1
    <3> QED BY <2>1, <3>2, <3>3
  <2> QED BY <2>3, <2>4
<1> QED BY <1>2, <1>5, <1>6

\* The order does not matter: any element may be taken out first.
LEMMA SumaQuitar ==
  ASSUME NEW S, IsFiniteSet(S), NEW v, \A i \in S : v[i] \in Int, NEW c, Eleccion(c, S),
         NEW g, EsSuma(g, v, c, S), NEW T \in SUBSET S, NEW y \in T
  PROVE  g[T] = v[y] + g[T \ {y}]
<1> DEFINE Malos == {X \in SUBSET S : \E z \in X : g[X] # v[z] + g[X \ {z}]}
<1> SUFFICES ASSUME Malos # {} PROVE FALSE
  OBVIOUS
<1>1. PICK m \in Malos : \A X \in SUBSET m : X # m => X \notin Malos
  <2>1. Malos \in SUBSET SUBSET S
    OBVIOUS
  <2> HIDE DEF Malos
  <2> QED BY <2>1, MinimoConjuntos
<1>2. PICK z \in m : g[m] # v[z] + g[m \ {z}]
  BY <1>1
<1> DEFINE x == c[m]
<1>3. x \in m /\ g[m] = v[x] + g[m \ {x}]
  BY <1>2 DEF Eleccion, EsSuma, Paso
<1> HIDE DEF x
<1>4. x # z
  BY <1>2, <1>3
<1>5. g[m \ {x}] = v[z] + g[(m \ {x}) \ {z}]
  BY <1>1, <1>2, <1>3, <1>4
<1>6. g[m \ {z}] = v[x] + g[(m \ {x}) \ {z}]
  <2>1. (m \ {x}) \ {z} = (m \ {z}) \ {x}
    OBVIOUS
  <2>2. g[m \ {z}] = v[x] + g[(m \ {z}) \ {x}]
    BY <1>1, <1>2, <1>3, <1>4
  <2> QED BY <2>1, <2>2, Zenon
<1> DEFINE a == g[(m \ {x}) \ {z}]
<1>7. a \in Int
  BY DEF EsSuma
<1>8. v[x] \in Int /\ v[z] \in Int
  BY <1>2, <1>3
<1>9. g[m] = v[x] + (v[z] + a) /\ g[m \ {z}] = v[x] + a
  BY <1>3, <1>5, <1>6
<1> HIDE DEF a
<1> QED BY <1>2, <1>7, <1>8, <1>9

-----------------------------------------------------------------------------
(* What a proof needs to know of SumFunctionOnSet. *)

LEMMA SumaEntera ==
  ASSUME NEW S, IsFiniteSet(S), NEW v, \A i \in S : v[i] \in Int
  PROVE  SumFunctionOnSet(v, S) \in Int
<1>1. PICK g : EsSuma(g, v, Elegir(S), S) /\ SumFunctionOnSet(v, S) = g[S]
  BY SumaEsFold
<1> QED BY <1>1 DEF EsSuma

LEMMA SumaVacia == ASSUME NEW v PROVE SumFunctionOnSet(v, {}) = 0
<1>1. IsFiniteSet({}) /\ \A i \in {} : v[i] \in Int
  BY FS_EmptySet
<1>2. PICK g : EsSuma(g, v, Elegir({}), {}) /\ SumFunctionOnSet(v, {}) = g[{}]
  BY <1>1, SumaEsFold
<1> QED BY <1>2 DEF EsSuma, Paso

LEMMA SumaAgregar ==
  ASSUME NEW S, IsFiniteSet(S), NEW x, x \notin S,
         NEW v, \A i \in S \cup {x} : v[i] \in Int
  PROVE  SumFunctionOnSet(v, S \cup {x}) = v[x] + SumFunctionOnSet(v, S)
<1> DEFINE U == S \cup {x}
<1>1. IsFiniteSet(U)
  BY FS_AddElement
<1>2. PICK g : EsSuma(g, v, Elegir(U), U) /\ SumFunctionOnSet(v, U) = g[U]
  BY <1>1, SumaEsFold
<1>3. PICK h : EsSuma(h, v, Elegir(S), S) /\ SumFunctionOnSet(v, S) = h[S]
  BY SumaEsFold
<1>4. EsSuma(h, v, Elegir(U), S)
  BY <1>3 DEF EsSuma, Paso, Elegir
<1>5. Eleccion(Elegir(U), U)
  BY ElegirElige
<1>6. g[S] = h[S]
  <2>1. U \in SUBSET U /\ S \in SUBSET U /\ S \in SUBSET (U \cap S)
    OBVIOUS
  <2>2. \A i \in U : v[i] \in Int
    OBVIOUS
  <2> HIDE DEF U
  <2> QED BY <1>1, <1>2, <1>4, <1>5, <2>1, <2>2, SumaUnica
<1>7. g[U] = v[x] + g[U \ {x}]
  <2>1. U \in SUBSET U /\ x \in U
    OBVIOUS
  <2>2. \A i \in U : v[i] \in Int
    OBVIOUS
  <2> HIDE DEF U
  <2> QED BY <1>1, <1>2, <1>5, <2>1, <2>2, SumaQuitar
<1>8. U \ {x} = S
  OBVIOUS
<1> QED BY <1>2, <1>3, <1>6, <1>7, <1>8

LEMMA SumaIgual ==
  ASSUME NEW S, IsFiniteSet(S), NEW v, NEW w, \A i \in S : v[i] \in Int /\ w[i] = v[i]
  PROVE  SumFunctionOnSet(w, S) = SumFunctionOnSet(v, S)
<1> DEFINE Q == {T \in SUBSET S : SumFunctionOnSet(w, T) = SumFunctionOnSet(v, T)}
<1>1. {} \in Q
  BY SumaVacia
<1>2. ASSUME NEW T \in SUBSET S, NEW x \in S, T \in Q PROVE T \cup {x} \in Q
  <2>1. CASE x \in T
    BY <1>2, <2>1, T \cup {x} = T
  <2>2. CASE x \notin T
    <3>1. IsFiniteSet(T)
      BY FS_Subset
    <3>2. SumFunctionOnSet(v, T \cup {x}) = v[x] + SumFunctionOnSet(v, T)
      BY <2>2, <3>1, SumaAgregar
    <3>3. SumFunctionOnSet(w, T \cup {x}) = w[x] + SumFunctionOnSet(w, T)
      BY <2>2, <3>1, SumaAgregar
    <3> QED BY <1>2, <3>2, <3>3
  <2> QED BY <2>1, <2>2
<1>3. S \in Q
  <2> HIDE DEF Q
  <2> QED BY <1>1, <1>2, InduccionConjuntos
<1> QED BY <1>3

\* Natural terms have a natural sum, which is at least each of them.
LEMMA SumaNatural ==
  ASSUME NEW S, IsFiniteSet(S), NEW v, \A i \in S : v[i] \in Nat
  PROVE  SumFunctionOnSet(v, S) \in Nat
<1> DEFINE Q == {T \in SUBSET S : SumFunctionOnSet(v, T) \in Nat}
<1>1. {} \in Q
  BY SumaVacia
<1>2. ASSUME NEW T \in SUBSET S, NEW x \in S, T \in Q PROVE T \cup {x} \in Q
  <2>1. CASE x \in T
    BY <1>2, <2>1, T \cup {x} = T
  <2>2. CASE x \notin T
    <3>1. IsFiniteSet(T)
      BY FS_Subset
    <3>2. SumFunctionOnSet(v, T \cup {x}) = v[x] + SumFunctionOnSet(v, T)
      BY <2>2, <3>1, SumaAgregar
    <3> QED BY <1>2, <3>2
  <2> QED BY <2>1, <2>2
<1>3. S \in Q
  <2> HIDE DEF Q
  <2> QED BY <1>1, <1>2, InduccionConjuntos
<1> QED BY <1>3

LEMMA SumaSacar ==
  ASSUME NEW S, IsFiniteSet(S), NEW v, \A i \in S : v[i] \in Int, NEW x \in S
  PROVE  /\ SumFunctionOnSet(v, S) = v[x] + SumFunctionOnSet(v, S \ {x})
         /\ SumFunctionOnSet(v, S \ {x}) \in Int
<1> DEFINE R == S \ {x}
<1>1. IsFiniteSet(R) /\ x \notin R /\ R \cup {x} = S /\ \A i \in R \cup {x} : v[i] \in Int
  BY FS_RemoveElement
<1>2. SumFunctionOnSet(v, R \cup {x}) = v[x] + SumFunctionOnSet(v, R)
  <2> HIDE DEF R
  <2> QED BY <1>1, SumaAgregar
<1>3. SumFunctionOnSet(v, R) \in Int
  <2> HIDE DEF R
  <2> QED BY <1>1, SumaEntera
<1> HIDE DEF R
<1>4. SumFunctionOnSet(v, S) = v[x] + SumFunctionOnSet(v, R)
  BY <1>1, <1>2
<1> QED BY <1>3, <1>4 DEF R

LEMMA SumaCeros ==
  ASSUME NEW S, IsFiniteSet(S), NEW v, \A i \in S : v[i] = 0
  PROVE  SumFunctionOnSet(v, S) = 0
<1> DEFINE Q == {T \in SUBSET S : SumFunctionOnSet(v, T) = 0}
<1>1. {} \in Q
  BY SumaVacia
<1>2. ASSUME NEW T \in SUBSET S, NEW x \in S, T \in Q PROVE T \cup {x} \in Q
  <2>1. CASE x \in T
    BY <1>2, <2>1, T \cup {x} = T
  <2>2. CASE x \notin T
    <3>1. IsFiniteSet(T)
      BY FS_Subset
    <3>2. SumFunctionOnSet(v, T \cup {x}) = v[x] + SumFunctionOnSet(v, T)
      <4>1. \A i \in T \cup {x} : v[i] \in Int
        OBVIOUS
      <4> QED BY <2>2, <3>1, <4>1, SumaAgregar
    <3> QED BY <1>2, <3>2
  <2> QED BY <2>1, <2>2
<1>3. S \in Q
  <2> HIDE DEF Q
  <2> QED BY <1>1, <1>2, InduccionConjuntos
<1> QED BY <1>3

\* Fewer terms, none of them negative, add up to less.
LEMMA SumaMonotona ==
  ASSUME NEW S, IsFiniteSet(S), NEW v, \A i \in S : v[i] \in Nat, NEW T \in SUBSET S
  PROVE  SumFunctionOnSet(v, T) <= SumFunctionOnSet(v, S)
<1> DEFINE R == S \ T
           Q == {X \in SUBSET R : /\ SumFunctionOnSet(v, T \cup X) \in Int
                                 /\ SumFunctionOnSet(v, T) <= SumFunctionOnSet(v, T \cup X)}
<1>1. IsFiniteSet(R) /\ IsFiniteSet(T)
  BY FS_Subset
<1>2. {} \in Q
  <2>1. SumFunctionOnSet(v, T) \in Nat
    BY <1>1, SumaNatural
  <2>2. T \cup {} = T
    OBVIOUS
  <2> QED BY <2>1, <2>2
<1>3. ASSUME NEW X \in SUBSET R, NEW x \in R, X \in Q PROVE X \cup {x} \in Q
  <2>1. CASE x \in X
    BY <1>3, <2>1, X \cup {x} = X
  <2>2. CASE x \notin X
    <3> DEFINE U == T \cup X
    <3>1. IsFiniteSet(U) /\ x \notin U /\ \A i \in U \cup {x} : v[i] \in Int
      BY <1>1, <2>2, FS_Subset, FS_Union
    <3>2. SumFunctionOnSet(v, U \cup {x}) = v[x] + SumFunctionOnSet(v, U)
      <4> HIDE DEF U
      <4> QED BY <3>1, SumaAgregar
    <3>3. U \cup {x} = T \cup (X \cup {x})
      OBVIOUS
    <3>4. SumFunctionOnSet(v, T) \in Nat /\ v[x] \in Nat /\ SumFunctionOnSet(v, U) \in Int
          /\ SumFunctionOnSet(v, T) <= SumFunctionOnSet(v, U)
      BY <1>1, <1>3, SumaNatural
    <3>5. SumFunctionOnSet(v, T \cup (X \cup {x})) \in Int
          /\ SumFunctionOnSet(v, T) <= SumFunctionOnSet(v, T \cup (X \cup {x}))
      <4> DEFINE Z == T \cup (X \cup {x})
      <4>1. SumFunctionOnSet(v, Z) = v[x] + SumFunctionOnSet(v, U)
        BY <3>2, <3>3
      <4> HIDE DEF U, Z
      <4>2. SumFunctionOnSet(v, Z) \in Int /\ SumFunctionOnSet(v, T) <= SumFunctionOnSet(v, Z)
        BY <3>4, <4>1
      <4> QED BY <4>2 DEF Z
    <3> QED BY <3>5
  <2> QED BY <2>1, <2>2
<1>4. R \in Q
  <2> HIDE DEF Q, R
  <2> QED BY <1>1, <1>2, <1>3, InduccionConjuntos
<1>5. T \cup R = S
  OBVIOUS
<1> QED BY <1>4, <1>5

\* Terms may be named otherwise: v takes w through f, which repeats none.
LEMMA SumaImagen ==
  ASSUME NEW S, IsFiniteSet(S), NEW f, \A i, j \in S : f[i] = f[j] => i = j,
         NEW w, NEW v, \A i \in S : v[i] \in Int /\ v[i] = w[f[i]]
  PROVE  SumFunctionOnSet(v, S) = SumFunctionOnSet(w, {f[i] : i \in S})
<1> DEFINE Im(T) == {f[i] : i \in T}
           Q == {T \in SUBSET S : SumFunctionOnSet(v, T) = SumFunctionOnSet(w, Im(T))}
<1>1. {} \in Q
  <2>1. Im({}) = {}
    OBVIOUS
  <2>2. SumFunctionOnSet(v, {}) = SumFunctionOnSet(w, Im({}))
    <3> HIDE DEF Im
    <3> QED BY <2>1, SumaVacia
  <2> QED BY <2>2
<1>2. ASSUME NEW T \in SUBSET S, NEW x \in S, T \in Q PROVE T \cup {x} \in Q
  <2>1. CASE x \in T
    BY <1>2, <2>1, T \cup {x} = T
  <2>2. CASE x \notin T
    <3>1. IsFiniteSet(T) /\ IsFiniteSet(Im(T))
      <4>1. IsFiniteSet(T)
        BY FS_Subset
      <4>2. IsFiniteSet(Im(T))
        <5>1. [i \in T |-> f[i]] \in Surjection(T, Im(T))
          BY DEF Surjection
        <5> HIDE DEF Im
        <5> QED BY <4>1, <5>1, FS_Surjection
      <4> QED BY <4>1, <4>2
    <3>2. Im(T \cup {x}) = Im(T) \cup {f[x]} /\ f[x] \notin Im(T)
      <4>1. ASSUME NEW i \in T PROVE f[i] # f[x]
        BY <2>2
      <4> QED BY <4>1
    <3>3. \A y \in Im(T) \cup {f[x]} : w[y] \in Int
      OBVIOUS
    <3>4. SumFunctionOnSet(v, T \cup {x}) = v[x] + SumFunctionOnSet(v, T)
      BY <2>2, <3>1, SumaAgregar
    <3>5. SumFunctionOnSet(w, Im(T) \cup {f[x]}) = w[f[x]] + SumFunctionOnSet(w, Im(T))
      <4> HIDE DEF Im
      <4> QED BY <3>1, <3>2, <3>3, SumaAgregar
    <3>6. SumFunctionOnSet(v, T) = SumFunctionOnSet(w, Im(T)) /\ v[x] = w[f[x]]
      BY <1>2
    <3>7. SumFunctionOnSet(v, T \cup {x}) = SumFunctionOnSet(w, Im(T \cup {x}))
      <4> HIDE DEF Im
      <4> QED BY <3>2, <3>4, <3>5, <3>6
    <3> QED BY <3>7
  <2> QED BY <2>1, <2>2
<1>3. S \in Q
  <2> HIDE DEF Q
  <2> QED BY <1>1, <1>2, InduccionConjuntos
<1> QED BY <1>3

-----------------------------------------------------------------------------
(* The same for SumFunction, over the whole domain of a function. *)

LEMMA SumaFuncion ==
  ASSUME NEW S, IsFiniteSet(S), NEW v \in [S -> Nat]
  PROVE  /\ SumFunction(v) \in Nat
         /\ \A x \in S : v[x] <= SumFunction(v)
         /\ (\A x \in S : v[x] = 0) => SumFunction(v) = 0
<1>1. SumFunction(v) = SumFunctionOnSet(v, S)
  BY DEF SumFunction
<1>2. ASSUME NEW x \in S PROVE v[x] <= SumFunctionOnSet(v, S)
  <2>1. IsFiniteSet(S \ {x})
    BY FS_RemoveElement
  <2>2. SumFunctionOnSet(v, S \ {x}) \in Nat
    BY <2>1, SumaNatural
  <2>3. SumFunctionOnSet(v, S) = v[x] + SumFunctionOnSet(v, S \ {x})
    BY SumaSacar
  <2> QED BY <2>2, <2>3
<1> QED BY <1>1, <1>2, SumaNatural, SumaCeros

\* One term changes: so does the sum, by as much.
LEMMA SumaCambiar ==
  ASSUME NEW S, IsFiniteSet(S), NEW v \in [S -> Int], NEW w \in [S -> Int], NEW x \in S,
         \A y \in S \ {x} : w[y] = v[y]
  PROVE  SumFunction(w) = SumFunction(v) + (w[x] - v[x])
<1>1. SumFunction(v) = SumFunctionOnSet(v, S) /\ SumFunction(w) = SumFunctionOnSet(w, S)
  BY DEF SumFunction
<1>2. IsFiniteSet(S \ {x})
  BY FS_RemoveElement
<1>3. SumFunctionOnSet(w, S \ {x}) = SumFunctionOnSet(v, S \ {x})
  BY <1>2, SumaIgual
<1>4. /\ SumFunctionOnSet(v, S) = v[x] + SumFunctionOnSet(v, S \ {x})
      /\ SumFunctionOnSet(v, S \ {x}) \in Int
  BY SumaSacar
<1>5. SumFunctionOnSet(w, S) = w[x] + SumFunctionOnSet(w, S \ {x})
  BY SumaSacar
<1> QED BY <1>1, <1>3, <1>4, <1>5

-----------------------------------------------------------------------------
(* Lists with no element twice.                                            *)

SinRepetir(l) == \A i, j \in DOMAIN l : l[i] = l[j] => i = j

LEMMA ListaMasUno ==
  ASSUME NEW S, NEW l \in Seq(S), NEW e \in S
  PROVE  /\ Append(l, e) \in Seq(S) /\ Len(Append(l, e)) = Len(l) + 1
         /\ ToSet(Append(l, e)) = ToSet(l) \cup {e}
         /\ SinRepetir(l) /\ e \notin ToSet(l) => SinRepetir(Append(l, e))
<1>1. /\ Append(l, e) \in Seq(S) /\ Len(Append(l, e)) = Len(l) + 1
      /\ \A i \in 1 .. Len(l) : Append(l, e)[i] = l[i]
      /\ Append(l, e)[Len(l) + 1] = e
      /\ DOMAIN Append(l, e) = 1 .. Len(l) + 1 /\ DOMAIN l = 1 .. Len(l) /\ Len(l) \in Nat
  OBVIOUS
<1> DEFINE m == Append(l, e)
<1>2. 1 .. Len(l) + 1 = (1 .. Len(l)) \cup {Len(l) + 1}
  BY <1>1
<1> HIDE DEF m
<1>3. ASSUME NEW i \in DOMAIN m PROVE (i \in DOMAIN l /\ m[i] = l[i]) \/ (i = Len(l) + 1 /\ m[i] = e)
  <2>1. i \in 1 .. Len(l) \/ i = Len(l) + 1
    BY <1>1 DEF m
  <2> QED BY <1>1, <2>1 DEF m
<1>4. \A i \in DOMAIN l : i \in DOMAIN m /\ m[i] = l[i]
  BY <1>1, <1>2 DEF m
<1>5. Len(l) + 1 \in DOMAIN m /\ m[Len(l) + 1] = e
  BY <1>1 DEF m
<1>6. ToSet(m) = ToSet(l) \cup {e}
  <2>1. ASSUME NEW x \in ToSet(m) PROVE x \in ToSet(l) \cup {e}
    BY <1>3 DEF ToSet
  <2>2. ASSUME NEW x \in ToSet(l) \cup {e} PROVE x \in ToSet(m)
    BY <1>4, <1>5 DEF ToSet
  <2> QED BY <2>1, <2>2
<1>7. ASSUME SinRepetir(l), e \notin ToSet(l) PROVE SinRepetir(m)
  <2>1. \A i \in DOMAIN l : l[i] # e
    BY <1>7 DEF ToSet
  <2> QED BY <1>3, <1>7, <2>1 DEF SinRepetir
<1> QED BY <1>1, <1>6, <1>7 DEF m

LEMMA ColaDeLista ==
  ASSUME NEW S, NEW l \in Seq(S), NEW k \in 1 .. Len(l)
  PROVE  /\ SubSeq(l, k + 1, Len(l)) \in Seq(S)
         /\ Len(SubSeq(l, k + 1, Len(l))) = Len(l) - k
         /\ \A i \in 1 .. Len(l) - k : SubSeq(l, k + 1, Len(l))[i] = l[k + i]
<1>1. Len(l) \in Nat /\ k \in Nat /\ 1 <= k /\ k <= Len(l)
  OBVIOUS
<1>2. SubSeq(l, k + 1, Len(l)) \in Seq(S)
  BY <1>1
<1>3. Len(SubSeq(l, k + 1, Len(l))) = Len(l) - k
  BY <1>1
<1>4. \A i \in 1 .. Len(l) - k : SubSeq(l, k + 1, Len(l))[i] = l[k + i]
  BY <1>1
<1> QED BY <1>2, <1>3, <1>4

\* A list without the element in place k.
LEMMA ListaSinLugar ==
  ASSUME NEW S, NEW l \in Seq(S), NEW k \in 1 .. Len(l)
  PROVE  /\ RemoveAt(l, k) \in Seq(S) /\ Len(RemoveAt(l, k)) = Len(l) - 1
         /\ DOMAIN RemoveAt(l, k) = 1 .. Len(l) - 1
         /\ \A i \in 1 .. Len(l) - 1 : RemoveAt(l, k)[i] = IF i < k THEN l[i] ELSE l[i + 1]
         /\ ToSet(RemoveAt(l, k)) \subseteq ToSet(l)
         /\ SinRepetir(l) => /\ ToSet(RemoveAt(l, k)) = ToSet(l) \ {l[k]}
                             /\ SinRepetir(RemoveAt(l, k))
<1> DEFINE n == Len(l)
           r == SubSeq(l, 1, k - 1) \o SubSeq(l, k + 1, n)
<1>1. n \in Nat /\ DOMAIN l = 1 .. n
  OBVIOUS
<1>2. RemoveAt(l, k) = r
  BY DEF RemoveAt
<1>3. /\ r \in Seq(S) /\ Len(r) = n - 1 /\ DOMAIN r = 1 .. n - 1
      /\ \A i \in 1 .. n - 1 : r[i] = IF i < k THEN l[i] ELSE l[i + 1]
  <2> DEFINE a == SubSeq(l, 1, k - 1)
             b == SubSeq(l, k + 1, n)
  <2>1. k \in Nat /\ 1 <= k /\ k <= n
    BY <1>1
  <2>2. a \in Seq(S) /\ Len(a) = k - 1 /\ \A i \in 1 .. k - 1 : a[i] = l[i]
    BY <1>1, <2>1
  <2>3. b \in Seq(S) /\ Len(b) = n - k /\ \A i \in 1 .. n - k : b[i] = l[k + i]
    BY <1>1, <2>1, ColaDeLista
  <2> HIDE DEF a, b, n
  <2>4. r \in Seq(S) /\ Len(r) = n - 1
    BY <1>1, <2>1, <2>2, <2>3 DEF a, b
  <2>5. ASSUME NEW i \in 1 .. n - 1 PROVE r[i] = IF i < k THEN l[i] ELSE l[i + 1]
    <3> HIDE DEF r
    <3>1. r[i] = IF i <= k - 1 THEN a[i] ELSE b[i - (k - 1)]
      BY <1>1, <2>1, <2>2, <2>3, <2>4 DEF r, a, b
    <3>2. CASE i < k
      BY <1>1, <2>1, <2>2, <3>1, <3>2
    <3>3. CASE ~(i < k)
      <4>1. i - (k - 1) \in 1 .. n - k /\ k + (i - (k - 1)) = i + 1
        BY <1>1, <2>1, <3>3
      <4> QED BY <1>1, <2>1, <2>3, <3>1, <3>3, <4>1
    <3> QED BY <3>2, <3>3
  <2> HIDE DEF r
  <2> QED BY <2>4, <2>5
<1> DEFINE viejo(i) == IF i < k THEN i ELSE i + 1
<1>4. \A i \in 1 .. n - 1 : viejo(i) \in 1 .. n /\ viejo(i) # k /\ r[i] = l[viejo(i)]
  <2>1. k \in Int /\ k <= n
    BY <1>1
  <2> HIDE DEF n, r
  <2> QED BY <1>1, <1>3, <2>1
<1>5. \A i, j \in 1 .. n - 1 : viejo(i) = viejo(j) => i = j
  BY <1>1
<1>6. ASSUME NEW j \in 1 .. n, j # k PROVE \E i \in 1 .. n - 1 : viejo(i) = j
  <2>1. CASE j < k
    BY <1>1, <2>1
  <2>2. CASE j > k
    <3>1. j - 1 \in 1 .. n - 1 /\ viejo(j - 1) = j
      BY <1>1, <2>2
    <3> QED BY <3>1
  <2> QED BY <1>1, <1>6, <2>1, <2>2
<1> HIDE DEF r, n, viejo
<1>7. ToSet(r) \subseteq ToSet(l)
  BY <1>1, <1>3, <1>4 DEF ToSet
<1>8. ASSUME SinRepetir(l) PROVE ToSet(r) = ToSet(l) \ {l[k]} /\ SinRepetir(r)
  <2>1. k \in 1 .. n
    BY DEF n
  <2>2. ASSUME NEW x \in ToSet(r) PROVE x # l[k]
    <3>1. PICK i \in 1 .. n - 1 : x = r[i]
      BY <1>3 DEF ToSet
    <3> QED BY <1>1, <1>4, <1>8, <2>1, <3>1 DEF SinRepetir
  <2>3. ASSUME NEW x \in ToSet(l) \ {l[k]} PROVE x \in ToSet(r)
    <3>1. PICK j \in 1 .. n : x = l[j]
      BY <1>1 DEF ToSet
    <3>2. PICK i \in 1 .. n - 1 : viejo(i) = j
      BY <1>6, <3>1
    <3> QED BY <1>3, <1>4, <3>1, <3>2 DEF ToSet
  <2>4. SinRepetir(r)
    <3> SUFFICES ASSUME NEW i \in 1 .. n - 1, NEW j \in 1 .. n - 1, r[i] = r[j] PROVE i = j
      BY <1>3 DEF SinRepetir
    <3>1. viejo(i) = viejo(j)
      BY <1>1, <1>4, <1>8 DEF SinRepetir
    <3> QED BY <1>5, <3>1
  <2> QED BY <1>7, <2>2, <2>3, <2>4
<1> QED BY <1>2, <1>3, <1>7, <1>8 DEF n

LEMMA ListaMenosUno ==
  ASSUME NEW S, NEW l \in Seq(S), SinRepetir(l), NEW e \in ToSet(l)
  PROVE  /\ RemoveFirst(l, e) \in Seq(S)
         /\ ToSet(RemoveFirst(l, e)) = ToSet(l) \ {e}
         /\ SinRepetir(RemoveFirst(l, e))
<1> DEFINE n == Len(l)
<1>1. n \in Nat /\ DOMAIN l = 1 .. n
  OBVIOUS
<1>2. PICK k \in 1 .. n : l[k] = e
  BY DEF ToSet
<1>3. {i \in 1 .. n : l[i] = e} = {k}
  BY <1>2 DEF SinRepetir
<1>4. Min({i \in 1 .. n : l[i] = e}) = k
  <2>1. Min({k}) = k
    BY <1>2 DEF Min
  <2> QED BY <1>3, <2>1
<1>5. RemoveFirst(l, e) = RemoveAt(l, k)
  BY <1>2, <1>3, <1>4 DEF RemoveFirst, SelectInSeq
<1> QED BY <1>2, <1>5, ListaSinLugar

\* A list with another element in place k.
LEMMA ListaConOtro ==
  ASSUME NEW S, NEW l \in Seq(S), NEW k \in 1 .. Len(l), NEW e \in S
  PROVE  /\ [l EXCEPT ![k] = e] \in Seq(S)
         /\ DOMAIN [l EXCEPT ![k] = e] = 1 .. Len(l)
         /\ ToSet([l EXCEPT ![k] = e]) \subseteq ToSet(l) \cup {e}
         /\ SinRepetir(l) /\ e \notin ToSet(l) \ {l[k]} =>
              /\ ToSet([l EXCEPT ![k] = e]) = (ToSet(l) \ {l[k]}) \cup {e}
              /\ SinRepetir([l EXCEPT ![k] = e])
<1> DEFINE m == [l EXCEPT ![k] = e]
<1>1. DOMAIN l = 1 .. Len(l) /\ \A i \in 1 .. Len(l) : l[i] \in S
  OBVIOUS
<1>2. m \in Seq(S) /\ DOMAIN m = 1 .. Len(l)
  OBVIOUS
<1>3. m[k] = e /\ \A i \in 1 .. Len(l) : i # k => m[i] = l[i]
  BY <1>1
<1> HIDE DEF m
<1>4. ToSet(m) \subseteq ToSet(l) \cup {e}
  BY <1>1, <1>2, <1>3 DEF ToSet
<1>5. ASSUME SinRepetir(l), e \notin ToSet(l) \ {l[k]}
      PROVE  ToSet(m) = (ToSet(l) \ {l[k]}) \cup {e} /\ SinRepetir(m)
  <2>1. \A i \in 1 .. Len(l) : i # k => l[i] \in ToSet(l) \ {l[k]}
    BY <1>1, <1>5 DEF SinRepetir, ToSet
  <2>2. ToSet(m) \subseteq (ToSet(l) \ {l[k]}) \cup {e}
    BY <1>2, <1>3, <2>1 DEF ToSet
  <2>3. ASSUME NEW x \in (ToSet(l) \ {l[k]}) \cup {e} PROVE x \in ToSet(m)
    <3>1. CASE x = e
      BY <1>2, <1>3, <3>1 DEF ToSet
    <3>2. CASE x \in ToSet(l) \ {l[k]}
      <4>1. PICK i \in 1 .. Len(l) : x = l[i] /\ i # k
        BY <1>1, <3>2 DEF ToSet
      <4> QED BY <1>2, <1>3, <4>1 DEF ToSet
    <3> QED BY <3>1, <3>2
  <2>4. SinRepetir(m)
    <3> SUFFICES ASSUME NEW i \in 1 .. Len(l), NEW j \in 1 .. Len(l), m[i] = m[j] PROVE i = j
      BY <1>2 DEF SinRepetir
    <3>1. CASE i = k \/ j = k
      BY <1>3, <1>5, <2>1, <3>1
    <3>2. CASE i # k /\ j # k
      BY <1>1, <1>3, <1>5, <3>2 DEF SinRepetir
    <3> QED BY <3>1, <3>2
  <2> QED BY <2>2, <2>3, <2>4
<1> QED BY <1>2, <1>4, <1>5 DEF m

\* A list in another order.
LEMMA ListaReordenada ==
  ASSUME NEW S, NEW l \in Seq(S), NEW f \in Bijection(DOMAIN l, DOMAIN l)
  PROVE  /\ [i \in DOMAIN l |-> l[f[i]]] \in Seq(S)
         /\ DOMAIN [i \in DOMAIN l |-> l[f[i]]] = DOMAIN l
         /\ ToSet([i \in DOMAIN l |-> l[f[i]]]) = ToSet(l)
         /\ SinRepetir(l) => SinRepetir([i \in DOMAIN l |-> l[f[i]]])
<1> DEFINE m == [i \in DOMAIN l |-> l[f[i]]]
<1>1. DOMAIN l = 1 .. Len(l) /\ Len(l) \in Nat /\ \A i \in DOMAIN l : l[i] \in S
  OBVIOUS
<1>2. /\ \A i \in DOMAIN l : f[i] \in DOMAIN l
      /\ \A i, j \in DOMAIN l : f[i] = f[j] => i = j
      /\ \A j \in DOMAIN l : \E i \in DOMAIN l : f[i] = j
  BY DEF Bijection, Injection, Surjection, IsInjective
<1>3. DOMAIN m = DOMAIN l /\ \A i \in DOMAIN l : m[i] = l[f[i]] /\ m[i] \in S
  BY <1>1, <1>2
<1>4. m \in Seq(S)
  <2>1. m \in [1 .. Len(l) -> S]
    BY <1>1, <1>2
  <2> HIDE DEF m
  <2> QED BY <1>1, <2>1
<1> HIDE DEF m
<1> DEFINE D == DOMAIN l
<1> HIDE DEF D
<1>5. /\ \A i \in D : f[i] \in D /\ m[i] = l[f[i]]
      /\ \A i, j \in D : f[i] = f[j] => i = j
      /\ \A j \in D : \E i \in D : f[i] = j
      /\ DOMAIN m = D
  BY <1>2, <1>3 DEF D
<1>6. ToSet(m) = ToSet(l)
  <2>1. ASSUME NEW x \in ToSet(m) PROVE x \in ToSet(l)
    <3>1. PICK i \in D : m[i] = x
      BY <1>5 DEF ToSet
    <3>2. f[i] \in D /\ x = l[f[i]]
      BY <1>5, <3>1
    <3> HIDE DEF m
    <3> QED BY <3>2 DEF ToSet, D
  <2>2. ASSUME NEW x \in ToSet(l) PROVE x \in ToSet(m)
    <3>1. PICK j \in D : x = l[j]
      BY DEF ToSet, D
    <3>2. PICK i \in D : f[i] = j
      BY <1>5
    <3> QED BY <1>5, <3>1, <3>2 DEF ToSet
  <2> QED BY <2>1, <2>2
<1>7. ASSUME SinRepetir(l) PROVE SinRepetir(m)
  <2>1. \A i, j \in D : l[i] = l[j] => i = j
    BY <1>7 DEF SinRepetir, D
  <2> QED BY <1>5, <2>1 DEF SinRepetir
<1> QED BY <1>3, <1>4, <1>6, <1>7 DEF m

\* The terms of a list that repeats nothing add up to those of its elements.
LEMMA SumaDeLista ==
  ASSUME NEW S, NEW l \in Seq(S), SinRepetir(l), NEW w, \A x \in S : w[x] \in Int
  PROVE  /\ SumFunction([i \in DOMAIN l |-> w[l[i]]]) = SumFunctionOnSet(w, ToSet(l))
         /\ SumFunctionOnSet(w, ToSet(l)) \in Int
         /\ IsFiniteSet(ToSet(l)) /\ ToSet(l) \subseteq S
<1> DEFINE D == DOMAIN l
           v == [i \in D |-> w[l[i]]]
<1>1. IsFiniteSet(D) /\ D = 1 .. Len(l) /\ \A i \in D : l[i] \in S
  BY FS_Interval
<1>2. /\ \A i, j \in D : l[i] = l[j] => i = j
      /\ \A i \in D : v[i] \in Int /\ v[i] = w[l[i]]
  BY <1>1 DEF SinRepetir
<1>3. SumFunction(v) = SumFunctionOnSet(v, D)
  BY DEF SumFunction
<1>4. ToSet(l) = {l[i] : i \in D} /\ ToSet(l) \subseteq S
  BY <1>1 DEF ToSet
<1>5. IsFiniteSet(ToSet(l))
  <2>1. l \in Surjection(D, ToSet(l))
    BY DEF Surjection, ToSet
  <2> QED BY <1>1, <2>1, FS_Surjection
<1> HIDE DEF D, v
<1>6. SumFunctionOnSet(v, D) = SumFunctionOnSet(w, {l[i] : i \in D})
  BY <1>1, <1>2, SumaImagen
<1>7. \A x \in ToSet(l) : w[x] \in Int
  BY <1>4
<1>8. SumFunctionOnSet(w, ToSet(l)) \in Int
  BY <1>5, <1>7, SumaEntera
<1> QED BY <1>3, <1>4, <1>5, <1>6, <1>8 DEF D, v
=============================================================================
