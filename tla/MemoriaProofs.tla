----------------------------- MODULE MemoriaProofs -----------------------------
(***************************************************************************)
(* What TLAPS proves of Memoria, for every size of memory and of tables,   *)
(* every algorithm and every number of processes.                          *)
(***************************************************************************)
EXTENDS Memoria, Sumas

H == ToSet(huecos_libres)
G == ToSet(lista_segmentos_actuales)
SEG0 == [id |-> SEGMENTO_0, base |-> 0, limite |-> tam_segmento_0]
ConTabla == {p \in Pids : proceso[p] \in {"activo", "fin"}}
Privadas == Sids \ {0}
Usadas(p) == {s \in Sids : tablas[p][s] # VACIO}

\* Two ranges one behind the other; with an address in between at least.
Aparte(r, q) == r.limite <= q.base \/ q.limite <= r.base
Lejos(r, q) == r.limite < q.base \/ q.limite < r.base

\* Holes may be empty, and segments may not.
Formas ==
  /\ \A h \in H : h.base <= h.limite
  /\ \A g \in G : g.base < g.limite

\* Segment 0 comes first and never moves; ids are handed out once.
Nombres ==
  /\ lista_segmentos_actuales # <<>> /\ lista_segmentos_actuales[1] = SEG0
  /\ SinRepetir(lista_segmentos_actuales)
  /\ \A g, k \in G : g.id = k.id => g = k
  /\ \A g \in G : g.id < segmento_id_global

\* Each segment but the one of all is in one entry of one table.
EnTablas ==
  /\ \A p \in Pids : tablas[p][0] = IF p \in ConTabla THEN SEGMENTO_0 ELSE VACIO
  /\ \A p \in Pids, s \in Privadas :
       tablas[p][s] # VACIO =>
         /\ p \in ConTabla /\ tablas[p][s] # SEGMENTO_0
         /\ \E g \in G : g.id = tablas[p][s]
         /\ \A q \in Pids, t \in Privadas : tablas[q][t] = tablas[p][s] => p = q /\ s = t
  /\ \A g \in G : g.id # SEGMENTO_0 => \E p \in Pids, s \in Privadas : tablas[p][s] = g.id
  /\ \A p \in Pids : cant_actuales[p] = Cardinality(Usadas(p))

\* The program whose creation waits for a compaction is still there, and so is
\* the entry; what it asks for fits behind the segments, however they move.
Pedido ==
  /\ kernel # "libre" =>
       /\ pedido.pid \in Pids /\ pedido.sid \in Privadas /\ pedido.tam \in Tamanios
       /\ proceso[pedido.pid] = "activo" /\ tablas[pedido.pid][pedido.sid] = VACIO
  /\ kernel = "compactar" /\ pedido.sana =>
       SumaTam(lista_segmentos_actuales) + pedido.tam <= tam_memoria

\* The holes X and the segments Y share no address and miss none, and no two
\* holes are side by side, not even one without an address.
Partida(X, Y) ==
  /\ \A h, k \in X : h # k => Lejos(h, k)
  /\ \A g, k \in Y : g # k => Aparte(g, k)
  /\ \A h \in X, g \in Y : Aparte(h, g)
  /\ \A a \in 0 .. tam_memoria - 1 : \E x \in X \cup Y : a \in Direcciones(x)

\* What holds of the lists while they are right. The sum is what the retry of a
\* creation relies on.
Sanas(hs, segs) ==
  /\ SinRepetir(hs)
  /\ Partida(ToSet(hs), ToSet(segs))
  /\ SumaTam(hs) + SumaTam(segs) = tam_memoria

Inv ==
  /\ TypeOK /\ Formas /\ Nombres /\ EnTablas /\ Pedido
  /\ sana => Sanas(huecos_libres, lista_segmentos_actuales)
  /\ ReintentoCabe

-----------------------------------------------------------------------------
LEMMA Constantes ==
  /\ tam_segmento_0 \in Nat \ {0} /\ tam_memoria \in Nat /\ tam_segmento_0 < tam_memoria
  /\ cant_segmentos \in Nat \ {0} /\ 0 \in Sids /\ Sids = 0 .. cant_segmentos - 1
  /\ \A t \in Tamanios : t \in Nat /\ t > 0
BY MemoriaAssumption DEF Sids

\* The sizes of a list.
LEMMA SumaTamEs ==
  ASSUME NEW S, NEW l \in Seq(S), SinRepetir(l), \A x \in S : Tam(x) \in Int
  PROVE  /\ SumaTam(l) = SumFunctionOnSet([x \in S |-> Tam(x)], ToSet(l))
         /\ SumaTam(l) \in Int
         /\ IsFiniteSet(ToSet(l)) /\ ToSet(l) \subseteq S
<1> DEFINE w == [x \in S |-> Tam(x)]
<1>1. \A x \in S : w[x] \in Int
  OBVIOUS
<1>2. [i \in DOMAIN l |-> Tam(l[i])] = [i \in DOMAIN l |-> w[l[i]]]
  OBVIOUS
<1> HIDE DEF w
<1>3. /\ SumFunction([i \in DOMAIN l |-> w[l[i]]]) = SumFunctionOnSet(w, ToSet(l))
      /\ SumFunctionOnSet(w, ToSet(l)) \in Int
      /\ IsFiniteSet(ToSet(l)) /\ ToSet(l) \subseteq S
  BY <1>1, SumaDeLista
<1> QED BY <1>2, <1>3 DEF SumaTam, w

LEMMA SumaTamIgual ==
  ASSUME NEW S, NEW l \in Seq(S), SinRepetir(l), \A x \in S : Tam(x) \in Int,
         NEW m \in Seq(S), SinRepetir(m), ToSet(m) = ToSet(l)
  PROVE  SumaTam(m) = SumaTam(l) /\ SumaTam(l) \in Int
BY SumaTamEs

\* Without x the sum is smaller by its size.
LEMMA SumaTamSin ==
  ASSUME NEW S, NEW l \in Seq(S), SinRepetir(l), \A x \in S : Tam(x) \in Int,
         NEW x \in ToSet(l),
         NEW m \in Seq(S), SinRepetir(m), ToSet(m) = ToSet(l) \ {x}
  PROVE  SumaTam(l) = SumaTam(m) + Tam(x) /\ SumaTam(l) \in Int /\ SumaTam(m) \in Int
<1> DEFINE w == [y \in S |-> Tam(y)]
<1>1. /\ SumaTam(l) = SumFunctionOnSet(w, ToSet(l)) /\ SumaTam(l) \in Int
      /\ IsFiniteSet(ToSet(l)) /\ ToSet(l) \subseteq S
  BY SumaTamEs
<1>2. SumaTam(m) = SumFunctionOnSet(w, ToSet(l) \ {x}) /\ SumaTam(m) \in Int
  BY SumaTamEs
<1>3. w[x] = Tam(x) /\ \A y \in ToSet(l) : w[y] \in Int
  BY <1>1
<1> DEFINE T == ToSet(l)
<1> HIDE DEF w, T
<1>4. SumFunctionOnSet(w, T) = w[x] + SumFunctionOnSet(w, T \ {x})
  BY <1>1, <1>3, SumaSacar DEF T
<1> QED BY <1>1, <1>2, <1>3, <1>4 DEF T

-----------------------------------------------------------------------------
(* The neighbours of a segment that is deleted.                            *)

\* The last of some positions up to k: -1 says there is none.
LEMMA UltimoEs ==
  ASSUME NEW n \in Nat, NEW D \in SUBSET (1 .. n), NEW k \in Int
  PROVE  /\ Ultimo(D, k) \in -1 .. n - 1
         /\ Ultimo(D, k) # -1 => Ultimo(D, k) + 1 \in D
         /\ k >= n /\ Ultimo(D, k) = -1 => D = {}
<1> DEFINE S == {i \in D : i <= k} \cup {0}
<1>1. n \in Int /\ n >= 0
  OBVIOUS
<1>2. \A x \in D : x \in Int /\ 1 <= x /\ x <= n
  OBVIOUS
<1>3. IsFiniteSet(S) /\ S \in SUBSET Int /\ S # {}
  <2>1. IsFiniteSet(0 .. n)
    BY FS_Interval
  <2>2. \A x \in S : x \in 0 .. n
    BY <1>1, <1>2
  <2> HIDE DEF S
  <2>3. IsFiniteSet(S)
    BY <2>1, <2>2, FS_Subset
  <2>4. S # {}
    BY DEF S
  <2> QED BY <2>2, <2>3, <2>4
<1>4. Max(S) \in S /\ \A y \in S : Max(S) >= y
  <2> HIDE DEF S
  <2>1. \E x \in S : \A y \in S : x >= y
    BY <1>3, HayMaximo
  <2> QED BY <2>1 DEF Max
<1> DEFINE m == Max(S)
<1>5. Ultimo(D, k) = m - 1
  BY DEF Ultimo
<1> HIDE DEF m
<1>6. m \in D \/ m = 0
  BY <1>4 DEF m
<1>7. ASSUME k >= n, m = 0 PROVE D = {}
  <2>1. \A y \in D : y \in S
    BY <1>7
  <2> QED BY <1>4, <1>7, <2>1 DEF m
<1> HIDE DEF S
<1>8. m \in Int /\ 0 <= m /\ m <= n
  <2>1. CASE m \in D
    BY <1>2, <2>1
  <2>2. CASE m = 0
    BY <1>1, <2>2
  <2> QED BY <1>6, <2>1, <2>2
<1> QED BY <1>5, <1>6, <1>7, <1>8

\* What the loop finds: it misses no neighbour, and what it gives is one.
LEMMA VecinosEs ==
  ASSUME NEW S, NEW hs \in Seq(S), NEW s, NEW v, v = Vecinos(hs, s)
  PROVE  /\ v.anterior \in -1 .. Len(hs) - 1 /\ v.posterior \in -1 .. Len(hs) - 1
         /\ v.anterior # -1 => hs[v.anterior + 1].limite = s.base
         /\ v.posterior # -1 => hs[v.posterior + 1].base = s.limite
         /\ v.anterior = -1 => \A i \in DOMAIN hs : hs[i].limite # s.base
         /\ v.posterior = -1 => \A i \in DOMAIN hs : hs[i].base # s.limite
<1> DEFINE n == Len(hs)
           antes   == {i \in DOMAIN hs : hs[i].limite = s.base}
           despues == {i \in DOMAIN hs : hs[i].base = s.limite}
           corta   == {k \in DOMAIN hs : Ultimo(antes, k) > 0 /\ Ultimo(despues, k) > 0}
           fin     == Min(corta \cup {n})
<1>1. n \in Nat /\ DOMAIN hs = 1 .. n /\ antes \in SUBSET (1 .. n) /\ despues \in SUBSET (1 .. n)
      /\ corta \in SUBSET (1 .. n)
  OBVIOUS
<1>2. v.anterior = Ultimo(antes, fin) /\ v.posterior = Ultimo(despues, fin)
  BY DEF Vecinos
<1>3. fin \in Int /\ (fin \in corta \/ fin = n)
  <2> DEFINE C == corta \cup {n}
  <2>1. IsFiniteSet(C) /\ C \in SUBSET Int /\ C # {}
    <3> HIDE DEF corta, n
    <3>1. IsFiniteSet(0 .. n) /\ C \subseteq 0 .. n
      BY <1>1, FS_Interval
    <3>2. IsFiniteSet(C)
      <4> HIDE DEF C
      <4> QED BY <3>1, FS_Subset
    <3> QED BY <1>1, <3>2
  <2>2. \E x \in C : \A y \in C : x <= y
    <3> HIDE DEF C
    <3> QED BY <2>1, HayMinimo
  <2>3. Min(C) \in C
    <3> HIDE DEF C
    <3> QED BY <2>2 DEF Min
  <2>4. fin = Min(C) /\ \A x \in C : x \in Int
    BY <2>1
  <2>5. \A x \in C : x \in corta \/ x = n
    OBVIOUS
  <2> HIDE DEF corta, n, C, fin
  <2> QED BY <2>3, <2>4, <2>5
<1>4. \A k : k \in corta => Ultimo(antes, k) > 0 /\ Ultimo(despues, k) > 0
  OBVIOUS
<1>5. \A i \in 1 .. n : (i \in antes <=> hs[i].limite = s.base)
                        /\ (i \in despues <=> hs[i].base = s.limite)
  BY <1>1
<1> HIDE DEF n, antes, despues, corta, fin
<1>6. /\ Ultimo(antes, fin) \in -1 .. n - 1
      /\ Ultimo(antes, fin) # -1 => Ultimo(antes, fin) + 1 \in antes
      /\ fin >= n /\ Ultimo(antes, fin) = -1 => antes = {}
  BY <1>1, <1>3, UltimoEs
<1>7. /\ Ultimo(despues, fin) \in -1 .. n - 1
      /\ Ultimo(despues, fin) # -1 => Ultimo(despues, fin) + 1 \in despues
      /\ fin >= n /\ Ultimo(despues, fin) = -1 => despues = {}
  BY <1>1, <1>3, UltimoEs
<1>8. /\ v.anterior \in -1 .. n - 1 /\ v.posterior \in -1 .. n - 1
      /\ v.anterior # -1 => v.anterior + 1 \in antes
      /\ v.posterior # -1 => v.posterior + 1 \in despues
      /\ v.anterior = -1 => antes = {}
      /\ v.posterior = -1 => despues = {}
  BY <1>1, <1>2, <1>3, <1>4, <1>6, <1>7
<1> QED BY <1>1, <1>5, <1>8 DEF n

\* The hole in index i, counted from 0; none in -1.
En(hs, i) == IF i = -1 THEN {} ELSE {hs[i + 1]}

\* The list without the neighbours. When the second removal takes the right hole
\* away, the hole that is made is as large as the segment and what it joins.
LEMMA ListaSinVecinos ==
  ASSUME NEW S, \A h \in S : h.base \in Int /\ h.limite \in Int,
         NEW hs \in Seq(S), \A h \in ToSet(hs) : h.base <= h.limite,
         NEW s, s.base \in Int, s.limite \in Int, s.base < s.limite,
         NEW v, v = Vecinos(hs, s),
         NEW r \in {"cabeza", "nada"},
         NEW m, m = QuitarPosterior(QuitarAnterior(hs, v), v, r)
  PROVE  /\ m \in Seq(S) /\ ToSet(m) \subseteq ToSet(hs)
         /\ SinRepetir(hs) /\ QuitaElPosterior(v, r) =>
              /\ SinRepetir(m)
              /\ ToSet(m) = ToSet(hs) \ (En(hs, v.anterior) \cup En(hs, v.posterior))
              /\ SumaTam(hs) + Tam(s) = SumaTam(m) + Tam(HuecoNuevo(hs, s, v))
<1> DEFINE n == Len(hs)
           a == v.anterior
           b == v.posterior
           R == QuitarAnterior(hs, v)
           k == IF b = 0 THEN 1 ELSE b
<1>1. n \in Nat /\ DOMAIN hs = 1 .. n /\ \A i \in 1 .. n : hs[i] \in S /\ hs[i] \in ToSet(hs)
  BY DEF ToSet
<1>2. /\ a \in -1 .. n - 1 /\ b \in -1 .. n - 1
      /\ a # -1 => hs[a + 1].limite = s.base
      /\ b # -1 => hs[b + 1].base = s.limite
  BY VecinosEs
<1>3. ASSUME a # -1, a = b PROVE FALSE
  <2>1. hs[a + 1] \in ToSet(hs) /\ hs[a + 1] \in S
    BY <1>1, <1>2, <1>3
  <2> QED BY <1>2, <1>3, <2>1
<1>4. /\ R \in Seq(S) /\ ToSet(R) \subseteq ToSet(hs)
      /\ a = -1 => R = hs
      /\ a # -1 => /\ Len(R) = n - 1
                   /\ \A i \in 1 .. n - 1 : R[i] = IF i < a + 1 THEN hs[i] ELSE hs[i + 1]
      /\ SinRepetir(hs) => SinRepetir(R) /\ ToSet(R) = ToSet(hs) \ En(hs, a)
  <2>1. CASE a = -1
    BY <2>1 DEF QuitarAnterior, En
  <2>2. CASE a # -1
    <3>1. a + 1 \in 1 .. Len(hs) /\ R = RemoveAt(hs, a + 1)
      BY <1>1, <1>2, <2>2 DEF QuitarAnterior
    <3> DEFINE j == a + 1
    <3> HIDE DEF R, j
    <3>2. /\ R \in Seq(S) /\ Len(R) = Len(hs) - 1
          /\ \A i \in 1 .. Len(hs) - 1 : R[i] = IF i < j THEN hs[i] ELSE hs[i + 1]
          /\ ToSet(R) \subseteq ToSet(hs)
          /\ SinRepetir(hs) => ToSet(R) = ToSet(hs) \ {hs[j]} /\ SinRepetir(R)
      BY <3>1, ListaSinLugar DEF j
    <3>3. En(hs, a) = {hs[j]}
      BY <2>2 DEF En, j
    <3>4. a \in Int
      BY <1>2
    <3>5. n = Len(hs)
      OBVIOUS
    <3> HIDE DEF n, a
    <3> QED BY ONLY <2>2, <3>2, <3>3, <3>4, <3>5 DEF j
  <2> QED BY <2>1, <2>2
<1> DEFINE quita == ~(b = -1 \/ (b = 0 /\ r = "nada"))
<1>5. m = IF quita THEN RemoveAt(R, k) ELSE R
  BY DEF QuitarPosterior
<1>6. ASSUME quita
      PROVE  k \in 1 .. Len(R) /\ (QuitaElPosterior(v, r) => R[k] = hs[b + 1])
  <2>1. CASE a = -1
    <3>1. R = hs
      BY <1>4, <2>1
    <3> HIDE DEF R
    <3> QED BY <1>1, <1>2, <1>6, <2>1, <3>1 DEF QuitaElPosterior
  <2>2. CASE a # -1
    <3>1. Len(R) = n - 1 /\ \A i \in 1 .. n - 1 : R[i] = IF i < a + 1 THEN hs[i] ELSE hs[i + 1]
      BY <1>4, <2>2
    <3>2. a # b
      BY <1>3, <2>2
    <3> HIDE DEF R, n
    <3>3. k \in 1 .. n - 1
      BY <1>1, <1>2, <1>6, <2>2, <3>2
    <3>4. ASSUME QuitaElPosterior(v, r) PROVE R[k] = hs[b + 1]
      <4>1. CASE b = 0
        <5>1. 1 < a + 1
          BY <1>1, <1>2, <2>2, <3>2, <4>1
        <5> QED BY <3>1, <3>3, <4>1, <5>1
      <4>2. CASE b # 0
        <5>1. a < b /\ k = b
          BY <1>6, <3>4, <4>2 DEF QuitaElPosterior
        <5> QED BY <1>1, <1>2, <3>1, <3>3, <5>1, SMTT(30)
      <4> QED BY <4>1, <4>2
    <3> QED BY <3>1, <3>3, <3>4
  <2> QED BY <2>1, <2>2
<1> HIDE DEF R, k, quita
<1>7. m \in Seq(S) /\ ToSet(m) \subseteq ToSet(hs)
  <2>1. CASE quita
    <3>1. RemoveAt(R, k) \in Seq(S) /\ ToSet(RemoveAt(R, k)) \subseteq ToSet(R)
      BY <1>4, <1>6, <2>1, ListaSinLugar
    <3> QED BY <1>4, <1>5, <2>1, <3>1
  <2>2. CASE ~quita
    BY <1>4, <1>5, <2>2
  <2> QED BY <2>1, <2>2
<1>8. ASSUME SinRepetir(hs), QuitaElPosterior(v, r)
      PROVE  /\ SinRepetir(m)
             /\ ToSet(m) = ToSet(hs) \ (En(hs, a) \cup En(hs, b))
             /\ SumaTam(hs) + Tam(s) = SumaTam(m) + Tam(HuecoNuevo(hs, s, v))
  <2>1. SinRepetir(R) /\ ToSet(R) = ToSet(hs) \ En(hs, a)
    BY <1>4, <1>8
  <2>2. quita <=> b # -1
    BY <1>2, <1>8 DEF quita, QuitaElPosterior
  <2>3. SinRepetir(m) /\ ToSet(m) = ToSet(R) \ En(hs, b)
    <3>1. CASE quita
      <4>1. /\ ToSet(RemoveAt(R, k)) = ToSet(R) \ {R[k]}
            /\ SinRepetir(RemoveAt(R, k))
        BY <1>4, <1>6, <2>1, <3>1, ListaSinLugar
      <4>2. En(hs, b) = {R[k]}
        BY <1>6, <1>8, <2>2, <3>1 DEF En
      <4> QED BY <1>5, <3>1, <4>1, <4>2
    <3>2. CASE ~quita
      BY <1>5, <2>1, <2>2, <3>2 DEF En
    <3> QED BY <3>1, <3>2
  <2> DEFINE da == IF a = -1 THEN 0 ELSE Tam(hs[a + 1])
             db == IF b = -1 THEN 0 ELSE Tam(hs[b + 1])
  <2>4. \A x \in S : Tam(x) \in Int
    BY DEF Tam
  <2>5. SumaTam(hs) = SumaTam(R) + da /\ SumaTam(hs) \in Int /\ SumaTam(R) \in Int
    <3>1. CASE a = -1
      <4>1. SumaTam(hs) \in Int
        BY <1>8, <2>4, SumaTamEs
      <4> QED BY <1>4, <3>1, <4>1
    <3>2. CASE a # -1
      <4> DEFINE x == hs[a + 1]
      <4>1. x \in ToSet(hs) /\ ToSet(R) = ToSet(hs) \ {x}
        BY <1>1, <1>2, <2>1, <3>2 DEF En
      <4> HIDE DEF x
      <4>2. SumaTam(hs) = SumaTam(R) + Tam(x) /\ SumaTam(hs) \in Int /\ SumaTam(R) \in Int
        BY <1>4, <1>8, <2>1, <2>4, <4>1, SumaTamSin
      <4> QED BY <3>2, <4>2 DEF x
    <3> QED BY <3>1, <3>2
  <2>6. SumaTam(R) = SumaTam(m) + db /\ SumaTam(m) \in Int
    <3>1. CASE b = -1
      <4>1. m = R
        BY <1>5, <2>2, <3>1
      <4> QED BY <2>5, <3>1, <4>1
    <3>2. CASE b # -1
      <4> DEFINE x == hs[b + 1]
      <4>1. x = R[k] /\ k \in 1 .. Len(R)
        BY <1>6, <1>8, <2>2, <3>2
      <4>2. x \in ToSet(R) /\ ToSet(m) = ToSet(R) \ {x}
        <5>1. R[k] \in ToSet(R)
          BY <1>4, <4>1 DEF ToSet
        <5> QED BY <2>3, <3>2, <4>1, <5>1 DEF En
      <4> HIDE DEF x
      <4>3. SumaTam(R) = SumaTam(m) + Tam(x) /\ SumaTam(m) \in Int
        BY <1>4, <1>7, <2>1, <2>3, <2>4, <4>2, SumaTamSin, SMTT(30)
      <4> QED BY <3>2, <4>3 DEF x
    <3> QED BY <3>1, <3>2
  <2>7. Tam(HuecoNuevo(hs, s, v)) = Tam(s) + da + db /\ da \in Int /\ db \in Int /\ Tam(s) \in Int
    <3>1. ASSUME a # -1
          PROVE  hs[a + 1].limite = s.base /\ hs[a + 1].base \in Int
      BY <1>1, <1>2, <3>1
    <3>2. ASSUME b # -1
          PROVE  hs[b + 1].base = s.limite /\ hs[b + 1].limite \in Int
      BY <1>1, <1>2, <3>2
    <3> DEFINE x == HuecoNuevo(hs, s, v)
    <3>3. x.base = s.base - da /\ da \in Int
      BY <3>1 DEF HuecoNuevo, Tam
    <3>4. x.limite = s.limite + db /\ db \in Int
      BY <3>2 DEF HuecoNuevo, Tam
    <3> HIDE DEF x, da, db
    <3>5. Tam(x) = Tam(s) + da + db /\ Tam(s) \in Int
      BY <3>3, <3>4 DEF Tam
    <3> QED BY <3>3, <3>4, <3>5 DEF x
  <2> HIDE DEF da, db
  <2>8. SumaTam(hs) + Tam(s) = SumaTam(m) + Tam(HuecoNuevo(hs, s, v))
    BY <2>5, <2>6, <2>7
  <2> QED BY <2>1, <2>3, <2>8
<1> QED BY <1>7, <1>8

Enteros(X) == \A x \in X : x.base \in Int /\ x.limite \in Int

\* The hole made of the segment s and of what touches it on each side.
Junta(X, s, nuevo, Ant, Pos) ==
  /\ nuevo.base \in Int /\ nuevo.limite \in Int
  /\ Ant \subseteq X /\ Pos \subseteq X
  /\ \A h \in Ant : h.limite = s.base /\ nuevo.base = h.base
  /\ \A h \in Pos : h.base = s.limite /\ nuevo.limite = h.limite
  /\ Ant = {} => (nuevo.base = s.base /\ \A h \in X : h.limite # s.base)
  /\ Pos = {} => (nuevo.limite = s.limite /\ \A h \in X : h.base # s.limite)

LEMMA Consolidada ==
  ASSUME NEW X, NEW Y, Partida(X, Y), Enteros(X \cup Y), \A h \in X : h.base <= h.limite,
         \A g \in Y : g.base < g.limite,
         NEW s \in Y, NEW nuevo, NEW Ant, NEW Pos, Junta(X, s, nuevo, Ant, Pos)
  PROVE  /\ Partida((X \ (Ant \cup Pos)) \cup {nuevo}, Y \ {s})
         /\ nuevo \notin X \ (Ant \cup Pos)
         /\ nuevo.base <= s.base /\ s.limite <= nuevo.limite
         /\ \A h \in Ant \cup Pos : Tam(h) <= Tam(nuevo)
<1> DEFINE Z == X \ (Ant \cup Pos)
<1>0. /\ nuevo.base \in Int /\ nuevo.limite \in Int
      /\ Ant \in SUBSET X /\ Pos \in SUBSET X
      /\ \A h \in Ant : h.limite = s.base /\ nuevo.base = h.base
      /\ \A h \in Pos : h.base = s.limite /\ nuevo.limite = h.limite
      /\ Ant = {} => (nuevo.base = s.base /\ \A h \in X : h.limite # s.base)
      /\ Pos = {} => (nuevo.limite = s.limite /\ \A h \in X : h.base # s.limite)
  BY DEF Junta
<1> USE <1>0
<1>1. /\ s.base \in Int /\ s.limite \in Int /\ s.base < s.limite
      /\ \A h \in X : h.base \in Int /\ h.limite \in Int /\ h.base <= h.limite
      /\ \A g \in Y : g.base \in Int /\ g.limite \in Int /\ g.base < g.limite
  BY DEF Enteros
\* Both ends of the new hole, in terms of what is there.
<1>2. \/ Ant = {} /\ nuevo.base = s.base /\ \A h \in X : h.limite # s.base
      \/ \E h \in Ant : h.limite = s.base /\ nuevo.base = h.base
  OBVIOUS
<1>3. \/ Pos = {} /\ nuevo.limite = s.limite /\ \A h \in X : h.base # s.limite
      \/ \E h \in Pos : h.base = s.limite /\ nuevo.limite = h.limite
  OBVIOUS
<1>4. nuevo.base <= s.base /\ s.limite <= nuevo.limite
  BY <1>1, <1>2, <1>3
<1>5. ASSUME NEW k \in Z PROVE Lejos(k, nuevo) /\ Lejos(nuevo, k)
  <2>1. Aparte(k, s) /\ \A h \in Ant \cup Pos : Lejos(k, h)
    BY DEF Partida
  <2>2. k.base \in Int /\ k.limite \in Int /\ k.base <= k.limite
    BY <1>1
  <2>3. k.limite <= s.base => k.limite < nuevo.base
    <3> SUFFICES ASSUME k.limite <= s.base PROVE k.limite < nuevo.base
      OBVIOUS
    <3>1. CASE Ant = {} /\ nuevo.base = s.base /\ \A h \in X : h.limite # s.base
      BY <1>1, <2>2, <3>1
    <3>2. ASSUME NEW h \in Ant, h.limite = s.base, nuevo.base = h.base PROVE k.limite < nuevo.base
      BY <1>1, <2>1, <2>2, <3>2 DEF Lejos
    <3> QED BY <1>2, <3>1, <3>2
  <2>4. s.limite <= k.base => nuevo.limite < k.base
    <3> SUFFICES ASSUME s.limite <= k.base PROVE nuevo.limite < k.base
      OBVIOUS
    <3>1. CASE Pos = {} /\ nuevo.limite = s.limite /\ \A h \in X : h.base # s.limite
      BY <1>1, <2>2, <3>1
    <3>2. ASSUME NEW h \in Pos, h.base = s.limite, nuevo.limite = h.limite
          PROVE  nuevo.limite < k.base
      BY <1>1, <2>1, <2>2, <3>2 DEF Lejos
    <3> QED BY <1>3, <3>1, <3>2
  <2> QED BY <2>1, <2>3, <2>4 DEF Lejos, Aparte
<1>6. ASSUME NEW g \in Y \ {s} PROVE Aparte(nuevo, g)
  <2>1. Aparte(g, s) /\ \A h \in Ant \cup Pos : Aparte(h, g)
    BY DEF Partida
  <2>2. g.base \in Int /\ g.limite \in Int /\ g.base < g.limite
    BY <1>1
  <2>3. g.limite <= s.base => g.limite <= nuevo.base
    <3> SUFFICES ASSUME g.limite <= s.base PROVE g.limite <= nuevo.base
      OBVIOUS
    <3>1. ASSUME NEW h \in Ant, h.limite = s.base, nuevo.base = h.base PROVE g.limite <= nuevo.base
      BY <1>1, <2>1, <2>2, <3>1 DEF Aparte
    <3> QED BY <1>2, <3>1
  <2>4. s.limite <= g.base => nuevo.limite <= g.base
    <3> SUFFICES ASSUME s.limite <= g.base PROVE nuevo.limite <= g.base
      OBVIOUS
    <3>1. ASSUME NEW h \in Pos, h.base = s.limite, nuevo.limite = h.limite
          PROVE  nuevo.limite <= g.base
      BY <1>1, <2>1, <2>2, <3>1 DEF Aparte
    <3> QED BY <1>3, <3>1
  <2> QED BY <2>1, <2>3, <2>4 DEF Aparte
<1>7. \A x \in Ant \cup Pos \cup {s} : x.base \in Int /\ x.limite \in Int
                                       /\ nuevo.base <= x.base /\ x.limite <= nuevo.limite
  BY <1>1, <1>4
<1>8. ASSUME NEW d \in 0 .. tam_memoria - 1
      PROVE  \E x \in Z \cup {nuevo} \cup (Y \ {s}) : d \in Direcciones(x)
  <2>1. PICK x \in X \cup Y : d \in Direcciones(x)
    BY DEF Partida
  <2>2. CASE x \in Z \cup (Y \ {s})
    BY <2>1, <2>2
  <2>3. CASE x \in Ant \cup Pos \cup {s}
    <3>1. d \in Int
      BY Constantes
    <3>2. d \in Direcciones(nuevo)
      BY <1>7, <2>1, <2>3, <3>1 DEF Direcciones
    <3> QED BY <3>2
  <2> QED BY <2>2, <2>3
<1>9. \A h \in Ant \cup Pos : Tam(h) <= Tam(nuevo)
  BY <1>7 DEF Tam
<1>10. Partida(Z \cup {nuevo}, Y \ {s})
  <2>1. \A h, k \in Z \cup {nuevo} : h # k => Lejos(h, k)
    <3>1. \A h, k \in Z : h # k => Lejos(h, k)
      BY DEF Partida
    <3> HIDE DEF Z
    <3> QED BY <1>5, <3>1
  <2>2. \A h \in Z \cup {nuevo}, g \in Y \ {s} : Aparte(h, g)
    <3>1. \A h \in Z, g \in Y \ {s} : Aparte(h, g)
      BY DEF Partida
    <3> HIDE DEF Z
    <3> QED BY <1>6, <3>1
  <2>3. \A g, k \in Y \ {s} : g # k => Aparte(g, k)
    BY DEF Partida
  <2> HIDE DEF Z
  <2> QED BY <1>8, <2>1, <2>2, <2>3 DEF Partida
<1>11. nuevo \notin Z
  <2>1. ~Lejos(nuevo, nuevo)
    BY <1>1, <1>4 DEF Lejos
  <2> QED BY <1>5, <2>1
<1> QED BY <1>4, <1>9, <1>10, <1>11

\* The first t units of a hole, and what is left of it.
Comienzo(n, h, t) == n.base = h.base /\ n.limite = h.base + t
Resto(h, t) == [base |-> h.base + t, limite |-> h.limite]
Sobra(h, t) == IF Tam(h) = t THEN {} ELSE {Resto(h, t)}

\* The start of a hole becomes a segment, and what is left of it stays a hole.
LEMMA Partido ==
  ASSUME NEW X, NEW Y, Partida(X, Y), Enteros(X \cup Y), \A h \in X : h.base <= h.limite,
         NEW h \in X, NEW t \in Int, t > 0, t <= Tam(h), NEW n, Comienzo(n, h, t)
  PROVE  /\ Partida((X \ {h}) \cup Sobra(h, t), Y \cup {n})
         /\ Tam(h) # t => Resto(h, t) \notin X \ {h}
<1> DEFINE k == Resto(h, t)
           R == Sobra(h, t)
<1>0. /\ n.base = h.base /\ n.limite = h.base + t
      /\ k.base = h.base + t /\ k.limite = h.limite
      /\ R = IF Tam(h) = t THEN {} ELSE {k}
  BY DEF Comienzo, Resto, Sobra
<1> HIDE DEF k, R
<1> USE <1>0
<1>1. h.base \in Int /\ h.limite \in Int
      /\ \A x \in X \cup Y : x.base \in Int /\ x.limite \in Int
  BY DEF Enteros
<1>2. /\ n.base \in Int /\ n.limite \in Int /\ n.limite <= h.limite
      /\ k.base \in Int /\ k.limite \in Int
  BY <1>1 DEF Tam
<1>3. R # {} => R = {k} /\ k.base < k.limite
  BY <1>1 DEF Tam
<1>4. ASSUME NEW x \in X \ {h} PROVE Lejos(x, k) /\ Lejos(k, x) /\ Aparte(x, n)
  <2>1. Lejos(x, h) /\ x.base \in Int /\ x.limite \in Int /\ x.base <= x.limite
    BY <1>1 DEF Partida
  <2> QED BY <1>1, <1>2, <2>1 DEF Lejos, Aparte
<1>5. ASSUME NEW g \in Y PROVE Aparte(k, g) /\ Aparte(n, g) /\ Aparte(g, n)
  <2>1. Aparte(h, g) /\ g.base \in Int /\ g.limite \in Int
    BY <1>1 DEF Partida
  <2> QED BY <1>1, <1>2, <2>1 DEF Aparte
<1>6. Aparte(k, n)
  BY <1>1 DEF Aparte
<1>7. ASSUME NEW d \in 0 .. tam_memoria - 1
      PROVE  \E x \in (X \ {h}) \cup R \cup (Y \cup {n}) : d \in Direcciones(x)
  <2>1. PICK x \in X \cup Y : d \in Direcciones(x)
    BY DEF Partida
  <2>2. CASE x # h
    BY <2>1, <2>2
  <2>3. CASE x = h
    <3>1. d \in Int
      BY Constantes
    <3>2. CASE d < h.base + t
      <4>1. d \in Direcciones(n)
        BY <1>1, <2>1, <2>3, <3>1, <3>2 DEF Direcciones
      <4> QED BY <4>1
    <3>3. CASE h.base + t <= d
      <4>1. d \in Direcciones(k)
        BY <1>1, <2>1, <2>3, <3>1, <3>3 DEF Direcciones
      <4>2. Tam(h) # t
        BY <1>1, <2>1, <2>3, <3>1, <3>3 DEF Direcciones, Tam
      <4> QED BY <4>1, <4>2
    <3> QED BY <1>1, <3>1, <3>2, <3>3
  <2> QED BY <2>2, <2>3
<1>8. \A x, y \in (X \ {h}) \cup R : x # y => Lejos(x, y)
  <2>1. \A x, y \in X \ {h} : x # y => Lejos(x, y)
    BY DEF Partida
  <2> QED BY <1>3, <1>4, <2>1
<1>9. \A x \in (X \ {h}) \cup R, g \in Y \cup {n} : Aparte(x, g)
  <2>1. \A x \in X \ {h}, g \in Y : Aparte(x, g)
    BY DEF Partida
  <2> QED BY <1>3, <1>4, <1>5, <1>6, <2>1
<1>10. \A g, x \in Y \cup {n} : g # x => Aparte(g, x)
  <2>1. \A g, x \in Y : g # x => Aparte(g, x)
    BY DEF Partida
  <2> QED BY <1>5, <2>1
<1>11. Tam(h) # t => k \notin X \ {h}
  <2>1. Tam(h) # t => ~Lejos(k, k)
    BY <1>2, <1>3 DEF Lejos
  <2> QED BY <1>4, <2>1
<1>12. Partida((X \ {h}) \cup R, Y \cup {n})
  BY <1>7, <1>8, <1>9, <1>10 DEF Partida
<1> QED BY <1>11, <1>12 DEF k, R

-----------------------------------------------------------------------------
(* The lists of holes that a creation makes.                               *)

LEMMA HuecosEnteros ==
  /\ Enteros(Huecos) /\ Enteros(Segmentos)
  /\ \A x \in Huecos : Tam(x) \in Int
  /\ \A x \in Segmentos : Tam(x) \in Int
BY Constantes DEF Enteros, Huecos, Segmentos, Tam

LEMMA UnHueco ==
  ASSUME NEW b \in Int, NEW l \in Int, 0 <= b, b <= l, l <= tam_memoria,
         NEW k, k = [base |-> b, limite |-> l]
  PROVE  k \in Huecos /\ k.base = b /\ k.limite = l /\ Tam(k) = l - b
BY Constantes DEF Huecos, Tam

LEMMA SumaHuecosSin ==
  ASSUME NEW l \in Seq(Huecos), SinRepetir(l), NEW x \in ToSet(l),
         NEW m \in Seq(Huecos), SinRepetir(m), ToSet(m) = ToSet(l) \ {x}
  PROVE  SumaTam(l) = SumaTam(m) + Tam(x) /\ SumaTam(l) \in Int /\ SumaTam(m) \in Int
BY HuecosEnteros, SumaTamSin

LEMMA DeHueco ==
  ASSUME NEW h \in Huecos
  PROVE  /\ h.base \in Int /\ 0 <= h.base /\ h.base <= tam_memoria
         /\ h.limite \in Int /\ 0 <= h.limite /\ h.limite <= tam_memoria
BY Constantes DEF Huecos

\* list_sort changes the order, and nothing else.
LEMMA Ordenada ==
  ASSUME NEW S, NEW l \in Seq(S), NEW hs \in Ordenaciones(l)
  PROVE  /\ hs \in Seq(S) /\ DOMAIN hs = DOMAIN l /\ ToSet(hs) = ToSet(l)
         /\ SinRepetir(l) => SinRepetir(hs)
<1>1. PICK f \in Bijection(DOMAIN l, DOMAIN l) : hs = [i \in DOMAIN l |-> l[f[i]]]
  BY DEF Ordenaciones
<1> QED BY <1>1, ListaReordenada

LEMMA Modificada ==
  ASSUME NEW hs \in Seq(Huecos), \A h \in ToSet(hs) : h.base <= h.limite,
         NEW i \in DOMAIN hs, NEW t \in Int, t > 0, t <= Tam(hs[i]),
         NEW m, m = modificar_lista_hueco_libre(hs, i, t)
  PROVE  /\ m \in Seq(Huecos) /\ \A h \in ToSet(m) : h.base <= h.limite
         /\ SinRepetir(hs) /\ (Tam(hs[i]) # t => Resto(hs[i], t) \notin ToSet(hs) \ {hs[i]}) =>
              /\ SinRepetir(m)
              /\ ToSet(m) = (ToSet(hs) \ {hs[i]}) \cup Sobra(hs[i], t)
              /\ SumaTam(hs) = SumaTam(m) + t
<1> DEFINE k == Resto(hs[i], t)
           R == Sobra(hs[i], t)
<1>0. /\ k = [base |-> hs[i].base + t, limite |-> hs[i].limite]
      /\ R = IF Tam(hs[i]) = t THEN {} ELSE {k}
  BY DEF Resto, Sobra
<1> HIDE DEF k, R
<1> USE <1>0
<1>1. /\ i \in 1 .. Len(hs) /\ hs[i] \in Huecos /\ hs[i] \in ToSet(hs)
      /\ hs[i].base \in Int /\ hs[i].limite \in Int /\ hs[i].base <= hs[i].limite
  <2>1. hs[i] \in Huecos /\ hs[i] \in ToSet(hs)
    BY DEF ToSet
  <2> QED BY <2>1, HuecosEnteros DEF Enteros
<1> DEFINE q == RemoveAt(hs, i)
<1>2. /\ q \in Seq(Huecos) /\ ToSet(q) \subseteq ToSet(hs)
      /\ SinRepetir(hs) => ToSet(q) = ToSet(hs) \ {hs[i]} /\ SinRepetir(q)
  <2> HIDE DEF q
  <2> QED BY <1>1, ListaSinLugar DEF q
<1>3. ASSUME SinRepetir(hs)
      PROVE  SumaTam(hs) = SumaTam(q) + Tam(hs[i]) /\ SumaTam(hs) \in Int /\ SumaTam(q) \in Int
  <2> DEFINE x == hs[i]
  <2>1. x \in ToSet(hs) /\ ToSet(q) = ToSet(hs) \ {x} /\ SinRepetir(q)
    BY <1>1, <1>2, <1>3
  <2> HIDE DEF x, q
  <2>2. SumaTam(hs) = SumaTam(q) + Tam(x) /\ SumaTam(hs) \in Int /\ SumaTam(q) \in Int
    BY <1>2, <1>3, <2>1, HuecosEnteros, SumaTamSin
  <2> QED BY <2>2 DEF x
<1>4. CASE Tam(hs[i]) = t
  <2>1. m = q /\ R = {}
    BY <1>4 DEF modificar_lista_hueco_libre
  <2> HIDE DEF q
  <2> QED BY <1>2, <1>3, <1>4, <2>1 DEF R
<1>5. CASE Tam(hs[i]) # t
  <2>1. k \in Huecos /\ k.base <= k.limite /\ Tam(k) = Tam(hs[i]) - t /\ R = {k}
    <3>1. R = {k}
      BY <1>5
    <3> DEFINE h == hs[i]
    <3>2. /\ h.base \in Int /\ 0 <= h.base /\ h.base <= tam_memoria
          /\ h.limite \in Int /\ h.limite <= tam_memoria
          /\ t <= h.limite - h.base /\ Tam(h) = h.limite - h.base
          /\ k = [base |-> h.base + t, limite |-> h.limite]
      BY <1>1, DeHueco DEF Tam
    <3> DEFINE b == h.base + t
               l == h.limite
    <3>3. b \in Int /\ l \in Int /\ 0 <= b /\ b <= l /\ l <= tam_memoria
      BY <3>2
    <3> HIDE DEF h
    <3>4. k = [base |-> b, limite |-> l]
      BY <3>2
    <3> HIDE DEF b, l
    <3>5. k \in Huecos /\ k.base = b /\ k.limite = l /\ Tam(k) = l - b
      BY ONLY <3>3, <3>4, UnHueco
    <3> QED BY <3>1, <3>2, <3>3, <3>5 DEF h, b, l
  <2>2. m = [hs EXCEPT ![i] = k]
    <3>1. m = [hs EXCEPT ![i].base = @ + t]
      BY <1>5 DEF modificar_lista_hueco_libre
    <3>2. [hs[i] EXCEPT !.base = @ + t] = k
      BY <1>1 DEF Huecos
    <3> QED BY <3>1, <3>2
  <2>3. /\ m \in Seq(Huecos) /\ ToSet(m) \subseteq ToSet(hs) \cup {k}
        /\ SinRepetir(hs) /\ k \notin ToSet(hs) \ {hs[i]} =>
             /\ ToSet(m) = (ToSet(hs) \ {hs[i]}) \cup {k}
             /\ SinRepetir(m)
    <3> DEFINE e == [hs EXCEPT ![i] = k]
    <3>1. /\ e \in Seq(Huecos) /\ ToSet(e) \subseteq ToSet(hs) \cup {k}
          /\ SinRepetir(hs) /\ k \notin ToSet(hs) \ {hs[i]} =>
               /\ ToSet(e) = (ToSet(hs) \ {hs[i]}) \cup {k}
               /\ SinRepetir(e)
      BY ONLY <1>1, <2>1, ListaConOtro, hs \in Seq(Huecos)
    <3> HIDE DEF e
    <3> QED BY <2>2, <3>1 DEF e
  <2>4. ASSUME SinRepetir(hs), k \notin ToSet(hs) \ {hs[i]} PROVE SumaTam(hs) = SumaTam(m) + t
    <3>1. SinRepetir(m) /\ k \in ToSet(m) /\ ToSet(q) = ToSet(m) \ {k} /\ SinRepetir(q)
      BY <1>2, <2>3, <2>4
    <3> HIDE DEF q
    <3>2. SumaTam(m) = SumaTam(q) + Tam(k) /\ SumaTam(m) \in Int
      BY ONLY <1>2, <2>3, <3>1, SumaHuecosSin
    <3>3. Tam(hs[i]) \in Int
      BY <1>1 DEF Tam
    <3> QED BY <1>3, <2>1, <2>4, <3>2, <3>3
  <2>5. k = Resto(hs[i], t) /\ R = Sobra(hs[i], t)
    BY DEF k, R
  <2> QED BY <1>5, <2>1, <2>3, <2>4, <2>5
<1> QED BY <1>4, <1>5

-----------------------------------------------------------------------------
(* The tables.                                                             *)

TipoListas ==
  /\ huecos_libres \in Seq(Huecos) /\ lista_segmentos_actuales \in Seq(Segmentos)
  /\ segmento_id_global \in Nat \ {0}
TipoTablas ==
  /\ tablas \in [Pids -> [Sids -> {VACIO} \cup 0 .. segmento_id_global - 1]]
  /\ cant_actuales \in [Pids -> 0 .. cant_segmentos]
  /\ proceso \in [Pids -> {"nuevo", "activo", "fin", "borrado"}]
TipoKernel ==
  /\ kernel \in {"libre", "compactar", "reintentar", "trabado"}
  /\ pedido.pid \in Pids \cup {-1} /\ pedido.sid \in Sids \cup {-1} /\ pedido.tam \in Nat
  /\ sana \in BOOLEAN /\ vivo \in BOOLEAN

LEMMA Tipos ==
  /\ TypeOK <=> TipoListas /\ TipoTablas /\ TipoKernel
  /\ TypeOK' <=> TipoListas' /\ TipoTablas' /\ TipoKernel'
BY DEF TypeOK, TipoListas, TipoTablas, TipoKernel

\* The entries in use of a table.
UsadasDe(t) == {s \in Sids : t[s] # VACIO}

LEMMA UsadasFinitas ==
  ASSUME NEW t
  PROVE  /\ IsFiniteSet(UsadasDe(t)) /\ Cardinality(UsadasDe(t)) \in 0 .. cant_segmentos
         /\ \A s \in UsadasDe(t) :
              /\ Cardinality(UsadasDe(t) \ {s}) = Cardinality(UsadasDe(t)) - 1
              /\ Cardinality(UsadasDe(t)) > 0
         /\ \A s \in Sids \ UsadasDe(t) :
              Cardinality(UsadasDe(t) \cup {s}) = Cardinality(UsadasDe(t)) + 1
<1>1. IsFiniteSet(Sids) /\ Cardinality(Sids) = cant_segmentos
  BY Constantes, FS_Interval
<1>2. UsadasDe(t) \in SUBSET Sids
  BY DEF UsadasDe
<1> DEFINE U == UsadasDe(t)
<1> HIDE DEF U
<1>3. IsFiniteSet(U) /\ Cardinality(U) <= Cardinality(Sids)
  BY <1>1, <1>2, FS_Subset DEF U
<1>4. Cardinality(U) \in Nat
  BY <1>3, FS_CardinalityType
<1>5. ASSUME NEW s \in U PROVE Cardinality(U \ {s}) = Cardinality(U) - 1 /\ Cardinality(U) > 0
  <2>1. Cardinality(U \ {s}) = Cardinality(U) - 1 /\ IsFiniteSet(U \ {s})
    BY <1>3, FS_RemoveElement
  <2>2. Cardinality(U \ {s}) \in Nat
    BY <2>1, FS_CardinalityType
  <2> QED BY <1>4, <2>1, <2>2
<1>6. ASSUME NEW s \in Sids \ U PROVE Cardinality(U \cup {s}) = Cardinality(U) + 1
  BY <1>3, FS_AddElement
<1>7. Cardinality(U) \in 0 .. cant_segmentos
  BY <1>1, <1>3, <1>4, Constantes
<1> QED BY <1>3, <1>5, <1>6, <1>7 DEF U

LEMMA EntradaPrivada ==
  ASSUME EnTablas, NEW p \in Pids, NEW sid \in SlotsOcupados(p)
  PROVE  /\ sid \in Privadas /\ tablas[p][sid] # VACIO /\ tablas[p][sid] # SEGMENTO_0
         /\ p \in ConTabla /\ \E g \in G : g.id = tablas[p][sid]
<1>1. sid \in Sids /\ tablas[p][sid] \notin {VACIO, SEGMENTO_0}
  BY DEF SlotsOcupados
<1>2. sid # 0
  BY <1>1 DEF EnTablas
<1> QED BY <1>1, <1>2 DEF EnTablas, Privadas

\* A segment and its entry go away together.
LEMMA TablasMenos ==
  ASSUME TipoTablas, Nombres, EnTablas, NEW p \in Pids, NEW sid \in SlotsOcupados(p),
         tablas' = [tablas EXCEPT ![p][sid] = VACIO],
         cant_actuales' = [cant_actuales EXCEPT ![p] = @ - 1],
         UNCHANGED <<proceso, segmento_id_global>>,
         NEW g \in G, g.id = tablas[p][sid], G' = G \ {g}
  PROVE  EnTablas' /\ TipoTablas'
<1>1. sid \in Privadas /\ sid \in Sids /\ tablas[p][sid] # VACIO
  BY EntradaPrivada DEF Privadas
<1>2. /\ tablas' \in [Pids -> [Sids -> {VACIO} \cup 0 .. segmento_id_global - 1]]
      /\ \A q \in Pids, t \in Sids :
           tablas'[q][t] = IF q = p /\ t = sid THEN VACIO ELSE tablas[q][t]
  BY <1>1 DEF TipoTablas
<1>3. ConTabla' = ConTabla
  BY DEF ConTabla
<1>4. ASSUME NEW q \in Pids, NEW t \in Privadas, tablas[q][t] = tablas[p][sid]
      PROVE  q = p /\ t = sid
  BY <1>1, <1>4 DEF EnTablas
<1>5. \A q \in Pids : tablas'[q][0] = IF q \in ConTabla' THEN SEGMENTO_0 ELSE VACIO
  BY <1>1, <1>2, <1>3, Constantes DEF EnTablas, Privadas
<1>6. ASSUME NEW q \in Pids, NEW t \in Privadas, tablas'[q][t] # VACIO
      PROVE  /\ q \in ConTabla' /\ tablas'[q][t] # SEGMENTO_0
             /\ \E k \in G' : k.id = tablas'[q][t]
             /\ \A u \in Pids, w \in Privadas : tablas'[u][w] = tablas'[q][t] => q = u /\ t = w
  <2>1. t \in Sids /\ ~(q = p /\ t = sid) /\ tablas'[q][t] = tablas[q][t]
    BY <1>2, <1>6 DEF Privadas
  <2>2. q \in ConTabla /\ tablas[q][t] # SEGMENTO_0
        /\ \A u \in Pids, w \in Privadas : tablas[u][w] = tablas[q][t] => q = u /\ t = w
    BY <1>6, <2>1 DEF EnTablas
  <2>3. PICK k \in G : k.id = tablas[q][t]
    BY <1>6, <2>1 DEF EnTablas
  <2>4. k # g
    BY <1>4, <2>1, <2>3
  <2>5. ASSUME NEW u \in Pids, NEW w \in Privadas, tablas'[u][w] = tablas'[q][t]
        PROVE  q = u /\ t = w
    <3>1. w \in Sids /\ ~(u = p /\ w = sid)
      BY <1>2, <1>6, <2>5 DEF Privadas
    <3>2. tablas[u][w] = tablas[q][t]
      BY <1>2, <2>1, <2>5, <3>1
    <3> QED BY <2>2, <3>2
  <2> QED BY <1>3, <2>1, <2>2, <2>3, <2>4, <2>5
<1>7. ASSUME NEW k \in G', k.id # SEGMENTO_0
      PROVE  \E q \in Pids, t \in Privadas : tablas'[q][t] = k.id
  <2>1. PICK q \in Pids, t \in Privadas : tablas[q][t] = k.id
    BY <1>7 DEF EnTablas
  <2>2. k.id # g.id
    BY DEF Nombres
  <2>3. t \in Sids /\ tablas'[q][t] = k.id
    BY <1>2, <2>1, <2>2 DEF Privadas
  <2> QED BY <2>3
<1>8. \A q \in Pids : /\ cant_actuales'[q] = Cardinality(Usadas(q)')
                      /\ cant_actuales'[q] \in 0 .. cant_segmentos
  <2> SUFFICES ASSUME NEW q \in Pids
               PROVE  /\ cant_actuales'[q] = Cardinality(Usadas(q)')
                      /\ cant_actuales'[q] \in 0 .. cant_segmentos
    OBVIOUS
  <2>1. /\ cant_actuales[q] = Cardinality(UsadasDe(tablas[q]))
        /\ cant_actuales[q] \in 0 .. cant_segmentos
    BY DEF EnTablas, TipoTablas, Usadas, UsadasDe
  <2>2. Usadas(q)' = UsadasDe(tablas'[q])
    BY DEF Usadas, UsadasDe
  <2>3. CASE q = p
    <3>1. sid \in UsadasDe(tablas[p]) /\ UsadasDe(tablas'[p]) = UsadasDe(tablas[p]) \ {sid}
      BY <1>1, <1>2 DEF UsadasDe
    <3>2. cant_actuales'[p] = cant_actuales[p] - 1
      BY DEF TipoTablas
    <3> DEFINE U == UsadasDe(tablas[p])
    <3>3. /\ Cardinality(U) \in 0 .. cant_segmentos /\ Cardinality(U) > 0
          /\ Cardinality(U \ {sid}) = Cardinality(U) - 1
      BY <3>1, UsadasFinitas
    <3>4. cant_actuales[p] = Cardinality(U) /\ Usadas(p)' = U \ {sid}
      BY <2>1, <2>2, <2>3, <3>1
    <3> HIDE DEF U
    <3> QED BY <2>3, <3>2, <3>3, <3>4, Constantes
  <2>4. CASE q # p
    <3>1. tablas'[q] = tablas[q] /\ cant_actuales'[q] = cant_actuales[q]
      BY <2>4 DEF TipoTablas
    <3> QED BY <2>1, <2>2, <3>1
  <2> QED BY <2>3, <2>4
<1>9. TipoTablas'
  <2>1. cant_actuales' \in [Pids -> 0 .. cant_segmentos]
    BY <1>8 DEF TipoTablas
  <2> QED BY <1>2, <2>1 DEF TipoTablas
<1> QED BY <1>5, <1>6, <1>7, <1>8, <1>9 DEF EnTablas

\* So do they come.
LEMMA TablasMas ==
  ASSUME TipoTablas, Nombres, EnTablas, segmento_id_global \in Nat \ {0},
         NEW p \in ConTabla, NEW sid \in Privadas, tablas[p][sid] = VACIO,
         tablas' = [tablas EXCEPT ![p][sid] = segmento_id_global],
         cant_actuales' = [cant_actuales EXCEPT ![p] = @ + 1],
         UNCHANGED proceso, segmento_id_global' = segmento_id_global + 1,
         NEW g, g.id = segmento_id_global, G' = G \cup {g},
         \A k \in G : k.id \in Nat
  PROVE  EnTablas' /\ TipoTablas'
<1>1. /\ sid \in Sids /\ p \in Pids /\ sid # 0
      /\ segmento_id_global # VACIO /\ segmento_id_global # SEGMENTO_0
  BY DEF Privadas, ConTabla, VACIO, SEGMENTO_0
<1>2. /\ tablas' \in [Pids -> [Sids -> {VACIO} \cup 0 .. segmento_id_global' - 1]]
      /\ \A q \in Pids, t \in Sids :
           tablas'[q][t] = IF q = p /\ t = sid THEN segmento_id_global ELSE tablas[q][t]
  <2> DEFINE V == {VACIO} \cup 0 .. segmento_id_global - 1
             W == {VACIO} \cup 0 .. segmento_id_global' - 1
  <2>1. V \subseteq W /\ segmento_id_global \in W
    OBVIOUS
  <2>2. tablas \in [Pids -> [Sids -> V]]
    BY DEF TipoTablas
  <2> HIDE DEF V, W
  <2>3. tablas \in [Pids -> [Sids -> W]]
    BY <2>1, <2>2
  <2>4. tablas' \in [Pids -> [Sids -> W]]
    BY <1>1, <2>1, <2>3
  <2>5. \A q \in Pids, t \in Sids :
          tablas'[q][t] = IF q = p /\ t = sid THEN segmento_id_global ELSE tablas[q][t]
    BY <1>1, <2>3
  <2> QED BY <2>4, <2>5 DEF W
<1>3. ConTabla' = ConTabla
  BY DEF ConTabla
<1>4. \A q \in Pids, t \in Sids : tablas[q][t] # segmento_id_global
  <2> SUFFICES ASSUME NEW q \in Pids, NEW t \in Sids PROVE tablas[q][t] # segmento_id_global
    OBVIOUS
  <2>1. tablas[q][t] \in {VACIO} \cup 0 .. segmento_id_global - 1
    BY DEF TipoTablas
  <2> QED BY <1>1, <2>1
<1>5. \A q \in Pids : tablas'[q][0] = IF q \in ConTabla' THEN SEGMENTO_0 ELSE VACIO
  BY <1>1, <1>2, <1>3, Constantes DEF EnTablas
<1>6. ASSUME NEW q \in Pids, NEW t \in Privadas, tablas'[q][t] # VACIO
      PROVE  /\ q \in ConTabla' /\ tablas'[q][t] # SEGMENTO_0
             /\ \E k \in G' : k.id = tablas'[q][t]
             /\ \A u \in Pids, w \in Privadas : tablas'[u][w] = tablas'[q][t] => q = u /\ t = w
  <2>1. t \in Sids /\ \A w \in Privadas : w \in Sids
    BY DEF Privadas
  <2>2. CASE q = p /\ t = sid
    <3>1. tablas'[q][t] = segmento_id_global
      BY <1>1, <1>2, <2>2
    <3>2. \A u \in Pids, w \in Privadas : tablas'[u][w] = segmento_id_global => u = p /\ w = sid
      BY <1>2, <1>4, <2>1
    <3> QED BY <1>1, <1>3, <2>2, <3>1, <3>2
  <2>3. CASE ~(q = p /\ t = sid)
    <3>1. tablas'[q][t] = tablas[q][t]
      BY <1>2, <2>1, <2>3
    <3>2. /\ q \in ConTabla /\ tablas[q][t] # SEGMENTO_0
          /\ \E k \in G : k.id = tablas[q][t]
          /\ \A u \in Pids, w \in Privadas : tablas[u][w] = tablas[q][t] => q = u /\ t = w
      BY <1>6, <3>1 DEF EnTablas
    <3>3. tablas[q][t] # segmento_id_global
      BY <1>4, <2>1
    <3>4. ASSUME NEW u \in Pids, NEW w \in Privadas, tablas'[u][w] = tablas'[q][t]
          PROVE  q = u /\ t = w
      <4>1. tablas[u][w] = tablas[q][t]
        BY <1>2, <2>1, <3>1, <3>3, <3>4
      <4> QED BY <3>2, <4>1
    <3> QED BY <1>3, <3>1, <3>2, <3>4
  <2> QED BY <2>2, <2>3
<1>7. ASSUME NEW k \in G', k.id # SEGMENTO_0
      PROVE  \E q \in Pids, t \in Privadas : tablas'[q][t] = k.id
  <2>1. CASE k = g
    <3>1. tablas'[p][sid] = k.id
      BY <1>1, <1>2, <2>1
    <3> QED BY <1>1, <3>1
  <2>2. CASE k \in G
    <3>1. PICK q \in Pids, t \in Privadas : tablas[q][t] = k.id
      BY <1>7, <2>2 DEF EnTablas
    <3>2. ~(q = p /\ t = sid)
      BY <2>2, <3>1 DEF VACIO
    <3>3. tablas'[q][t] = k.id
      BY <1>2, <3>1, <3>2 DEF Privadas
    <3> QED BY <3>3
  <2> QED BY <2>1, <2>2
<1>8. \A q \in Pids : /\ cant_actuales'[q] = Cardinality(Usadas(q)')
                      /\ cant_actuales'[q] \in 0 .. cant_segmentos
  <2> SUFFICES ASSUME NEW q \in Pids
               PROVE  /\ cant_actuales'[q] = Cardinality(Usadas(q)')
                      /\ cant_actuales'[q] \in 0 .. cant_segmentos
    OBVIOUS
  <2>1. /\ cant_actuales[q] = Cardinality(UsadasDe(tablas[q]))
        /\ cant_actuales[q] \in 0 .. cant_segmentos
    BY DEF EnTablas, TipoTablas, Usadas, UsadasDe
  <2>2. Usadas(q)' = UsadasDe(tablas'[q])
    BY DEF Usadas, UsadasDe
  <2>3. CASE q = p
    <3>1. /\ sid \in Sids \ UsadasDe(tablas[p])
          /\ UsadasDe(tablas'[p]) = UsadasDe(tablas[p]) \cup {sid}
      BY <1>1, <1>2 DEF UsadasDe
    <3>2. cant_actuales'[p] = cant_actuales[p] + 1
      BY <1>1 DEF TipoTablas
    <3> DEFINE U == UsadasDe(tablas[p])
               W == UsadasDe(tablas'[p])
    <3>3. Cardinality(U \cup {sid}) = Cardinality(U) + 1
      BY <3>1, UsadasFinitas
    <3>4. Cardinality(W) \in 0 .. cant_segmentos
      BY UsadasFinitas
    <3>5. cant_actuales[p] = Cardinality(U) /\ Usadas(p)' = W /\ W = U \cup {sid}
      BY <2>1, <2>2, <2>3, <3>1
    <3> HIDE DEF U, W
    <3> QED BY <2>3, <3>2, <3>3, <3>4, <3>5
  <2>4. CASE q # p
    <3>1. tablas'[q] = tablas[q] /\ cant_actuales'[q] = cant_actuales[q]
      BY <2>4 DEF TipoTablas
    <3> QED BY <2>1, <2>2, <3>1
  <2> QED BY <2>3, <2>4
<1>9. TipoTablas'
  <2>1. cant_actuales' \in [Pids -> 0 .. cant_segmentos]
    BY <1>8 DEF TipoTablas
  <2> QED BY <1>2, <2>1 DEF TipoTablas
<1> QED BY <1>5, <1>6, <1>7, <1>8, <1>9 DEF EnTablas

-----------------------------------------------------------------------------
(* What Asignador sees: the range of the segment that each entry names.    *)

RangoEn(l, id) ==
  LET i == CHOOSE j \in DOMAIN l : l[j].id = id IN [base |-> l[i].base, limite |-> l[i].limite]
MapaDe(t, l) == [p \in Pids |-> [s \in Sids |->
                   IF t[p][s] = VACIO THEN A!NADA ELSE RangoEn(l, t[p][s])]]
Mapa == [p \in Pids |-> [s \in Sids |->
          IF tablas[p][s] = VACIO THEN [base |-> 0, limite |-> 0] ELSE RangoDe(tablas[p][s])]]

LEMMA MapaEs ==
  /\ Mapa = MapaDe(tablas, lista_segmentos_actuales)
  /\ Mapa' = MapaDe(tablas', lista_segmentos_actuales')
BY Zenon DEF Mapa, MapaDe, RangoDe, RangoEn, A!NADA

\* What a step says of the refinement.
DeAsignador == [sana \/ sana' => A!Next]_(A!vars)

Nombrada(l) == \A g, k \in ToSet(l) : g.id = k.id => g = k

LEMMA RangoEs ==
  ASSUME NEW S, NEW l \in Seq(S), Nombrada(l), NEW g \in ToSet(l)
  PROVE  RangoEn(l, g.id) = [base |-> g.base, limite |-> g.limite]
<1>1. PICK i \in DOMAIN l : l[i] = g
  BY DEF ToSet
<1> DEFINE j == CHOOSE k \in DOMAIN l : l[k].id = g.id
<1>2. j \in DOMAIN l /\ l[j].id = g.id
  BY <1>1
<1> HIDE DEF j
<1>3. l[j] \in ToSet(l)
  BY <1>2 DEF ToSet
<1>4. l[j] = g
  BY <1>2, <1>3 DEF Nombrada
<1> QED BY <1>4 DEF RangoEn, j

LEMMA AQuieto ==
  ASSUME UNCHANGED <<tablas, lista_segmentos_actuales, proceso>> PROVE UNCHANGED A!vars
BY DEF A!vars, RangoDe

LEMMA AIgual == ASSUME Mapa' = Mapa, ConTabla' = ConTabla PROVE UNCHANGED A!vars
BY DEF A!vars, Mapa, ConTabla

LEMMA AIniciar ==
  ASSUME NEW p \in Pids, p \notin ConTabla, ConTabla' = ConTabla \cup {p},
         Mapa' = [Mapa EXCEPT ![p][0] = A!SEGMENTO_0], Mapa' # Mapa
  PROVE  A!Next
<1>1. A!Iniciar(p)
  BY DEF A!Iniciar, Mapa, ConTabla
<1> QED BY <1>1 DEF A!Next, Mapa

LEMMA ACrear ==
  ASSUME NEW p \in ConTabla, NEW s \in Privadas, Mapa[p][s] = A!NADA, ConTabla' = ConTabla,
         NEW r, r \in A!Rangos, r.base < r.limite, r = Mapa'[p][s],
         Mapa' = [Mapa EXCEPT ![p][s] = r], Mapa' # Mapa,
         A!Separados(r, A!SEGMENTO_0),
         \A q \in Pids, t \in Privadas : A!Separados(r, Mapa[q][t])
  PROVE  A!Next
<1>1. A!Libre(Mapa'[p][s])
  BY DEF A!Libre, A!Privadas, Privadas, Mapa
<1>2. Mapa' = [Mapa EXCEPT ![p][s] = Mapa'[p][s]]
  OBVIOUS
<1>3. Mapa'[p][s] \in A!Rangos /\ Mapa'[p][s].base < Mapa'[p][s].limite
  OBVIOUS
<1>4. A!Crear(p, s)
  BY <1>1, <1>2, <1>3 DEF A!Crear, Mapa, ConTabla
<1>5. p \in Pids /\ s \in A!Privadas
  BY DEF ConTabla, Privadas, A!Privadas
<1> QED BY <1>4, <1>5 DEF A!Next, Mapa

LEMMA AEliminar ==
  ASSUME NEW p \in ConTabla, NEW s \in Privadas, Mapa[p][s] # A!NADA, ConTabla' = ConTabla,
         Mapa' = [Mapa EXCEPT ![p][s] = A!NADA], Mapa' # Mapa
  PROVE  A!Next
<1>1. A!Eliminar(p, s)
  BY DEF A!Eliminar, Mapa, ConTabla
<1>2. p \in Pids /\ s \in A!Privadas
  BY DEF ConTabla, Privadas, A!Privadas
<1> QED BY <1>1, <1>2 DEF A!Next, Mapa

LEMMA ATerminar ==
  ASSUME NEW p \in ConTabla, ConTabla' = ConTabla \ {p},
         Mapa' = [Mapa EXCEPT ![p] = [s \in Sids |-> A!NADA]], Mapa' # Mapa
  PROVE  A!Next
<1>1. A!Terminar(p)
  BY DEF A!Terminar, Mapa, ConTabla
<1>2. p \in Pids
  BY DEF ConTabla
<1> QED BY <1>1, <1>2 DEF A!Next, Mapa

LEMMA ACompactar ==
  ASSUME ConTabla' = ConTabla, Mapa' \in [Pids -> [Sids -> A!Rangos]],
         \A p \in Pids, s \in Sids :
           /\ Mapa'[p][s] = A!NADA <=> Mapa[p][s] = A!NADA
           /\ A!Tam(Mapa'[p][s]) = A!Tam(Mapa[p][s]),
         \A p \in Pids : Mapa'[p][0] = Mapa[p][0],
         A!Separadas(Mapa'), Mapa' # Mapa
  PROVE  A!Next
<1>1. A!Compactar
  BY DEF A!Compactar, Mapa, ConTabla
<1> QED BY <1>1 DEF A!Next, Mapa

-----------------------------------------------------------------------------
(* What a deletion does to the lists.                                      *)

LEMMA DeSegmento ==
  ASSUME NEW g \in Segmentos
  PROVE  /\ g.base \in Int /\ 0 <= g.base /\ g.base <= tam_memoria
         /\ g.limite \in Int /\ 0 <= g.limite /\ g.limite <= tam_memoria
         /\ g.id \in Nat
BY Constantes DEF Segmentos

LEMMA DeLista ==
  ASSUME NEW S, NEW l \in Seq(S)
  PROVE  /\ DOMAIN l = 1 .. Len(l) /\ Len(l) \in Nat /\ ToSet(l) \subseteq S
         /\ \A i \in DOMAIN l : l[i] \in ToSet(l)
         /\ \A x \in ToSet(l) : \E i \in DOMAIN l : l[i] = x
<1>1. DOMAIN l = 1 .. Len(l) /\ Len(l) \in Nat /\ \A i \in DOMAIN l : l[i] \in S
  OBVIOUS
<1> QED BY <1>1 DEF ToSet

\* The hole made of a segment and what touches it.
LEMMA NuevoEs ==
  ASSUME TipoListas, Formas, NEW s \in G, NEW v, v = Vecinos(huecos_libres, s),
         NEW nuevo, nuevo = HuecoNuevo(huecos_libres, s, v),
         NEW Ant, Ant = En(huecos_libres, v.anterior),
         NEW Pos, Pos = En(huecos_libres, v.posterior)
  PROVE  nuevo \in Huecos /\ nuevo.base <= nuevo.limite /\ Junta(H, s, nuevo, Ant, Pos)
<1> DEFINE hs == huecos_libres
           a == v.anterior
           b == v.posterior
<1>1. /\ hs \in Seq(Huecos) /\ DOMAIN hs = 1 .. Len(hs) /\ Len(hs) \in Nat /\ H \subseteq Huecos
      /\ \A i \in DOMAIN hs : hs[i] \in H
      /\ \A x \in H : \E i \in DOMAIN hs : hs[i] = x
      /\ s \in Segmentos /\ s.base < s.limite
  BY DeLista DEF TipoListas, Formas, H, G
<1>2. /\ s.base \in Int /\ 0 <= s.base /\ s.limite \in Int /\ s.limite <= tam_memoria
  BY <1>1, DeSegmento
<1>3. /\ a \in -1 .. Len(hs) - 1 /\ b \in -1 .. Len(hs) - 1
      /\ a # -1 => hs[a + 1].limite = s.base
      /\ b # -1 => hs[b + 1].base = s.limite
      /\ a = -1 => \A i \in DOMAIN hs : hs[i].limite # s.base
      /\ b = -1 => \A i \in DOMAIN hs : hs[i].base # s.limite
  BY <1>1, VecinosEs
<1> HIDE DEF hs
<1>4. ASSUME NEW c \in -1 .. Len(hs) - 1, c # -1 PROVE hs[c + 1] \in H
  <2>1. c + 1 \in DOMAIN hs
    BY <1>1, <1>4
  <2> QED BY <1>1, <2>1
<1>5. nuevo = [base   |-> IF a = -1 THEN s.base ELSE hs[a + 1].base,
               limite |-> IF b = -1 THEN s.limite ELSE hs[b + 1].limite]
  BY DEF HuecoNuevo, hs
<1> DEFINE nb == IF a = -1 THEN s.base ELSE hs[a + 1].base
           nl == IF b = -1 THEN s.limite ELSE hs[b + 1].limite
<1>6. nb \in Int /\ 0 <= nb /\ nb <= s.base
  <2>1. CASE a = -1
    BY <1>2, <2>1
  <2>2. CASE a # -1
    <3>1. hs[a + 1] \in H /\ hs[a + 1] \in Huecos /\ hs[a + 1].limite = s.base
      BY <1>1, <1>3, <1>4, <2>2
    <3>2. hs[a + 1].base \in Int /\ 0 <= hs[a + 1].base /\ hs[a + 1].base <= hs[a + 1].limite
      BY <3>1, DeHueco DEF Formas
    <3> QED BY <2>2, <3>1, <3>2
  <2> QED BY <2>1, <2>2
<1>7. nl \in Int /\ s.limite <= nl /\ nl <= tam_memoria
  <2>1. CASE b = -1
    BY <1>2, <2>1
  <2>2. CASE b # -1
    <3>1. hs[b + 1] \in H /\ hs[b + 1] \in Huecos /\ hs[b + 1].base = s.limite
      BY <1>1, <1>3, <1>4, <2>2
    <3>2. /\ hs[b + 1].limite \in Int /\ hs[b + 1].limite <= tam_memoria
          /\ hs[b + 1].base <= hs[b + 1].limite
      BY <3>1, DeHueco DEF Formas
    <3> QED BY <2>2, <3>1, <3>2
  <2> QED BY <2>1, <2>2
<1>8. /\ nuevo \in Huecos /\ nuevo.base = nb /\ nuevo.limite = nl /\ nb <= nl
      /\ nb \in Int /\ nl \in Int
  <2>1. nuevo = [base |-> nb, limite |-> nl]
    BY <1>5
  <2> HIDE DEF nb, nl
  <2>2. nb <= nl
    BY <1>1, <1>2, <1>6, <1>7
  <2> QED BY ONLY <1>6, <1>7, <2>1, <2>2, UnHueco
<1>9. /\ Ant = IF a = -1 THEN {} ELSE {hs[a + 1]}
      /\ Pos = IF b = -1 THEN {} ELSE {hs[b + 1]}
  BY DEF En, hs
<1>10. Ant \subseteq H /\ Pos \subseteq H
  BY <1>3, <1>4, <1>9
<1>11. /\ \A h \in Ant : h.limite = s.base /\ nuevo.base = h.base
       /\ Ant = {} => nuevo.base = s.base /\ \A h \in H : h.limite # s.base
  <2>1. CASE a = -1
    <3>1. \A h \in H : h.limite # s.base
      BY <1>1, <1>3, <2>1
    <3> QED BY <1>8, <1>9, <2>1, <3>1
  <2>2. CASE a # -1
    <3>1. Ant = {hs[a + 1]} /\ hs[a + 1].limite = s.base /\ nuevo.base = hs[a + 1].base
      BY <1>3, <1>8, <1>9, <2>2
    <3> QED BY ONLY <3>1
  <2> QED BY <2>1, <2>2
<1>12. /\ \A h \in Pos : h.base = s.limite /\ nuevo.limite = h.limite
       /\ Pos = {} => nuevo.limite = s.limite /\ \A h \in H : h.base # s.limite
  <2>1. CASE b = -1
    <3>1. \A h \in H : h.base # s.limite
      BY <1>1, <1>3, <2>1
    <3> QED BY <1>8, <1>9, <2>1, <3>1
  <2>2. CASE b # -1
    <3>1. Pos = {hs[b + 1]} /\ hs[b + 1].base = s.limite /\ nuevo.limite = hs[b + 1].limite
      BY <1>3, <1>8, <1>9, <2>2
    <3> QED BY ONLY <3>1
  <2> QED BY <2>1, <2>2
<1> HIDE DEF nb, nl
<1> QED BY <1>8, <1>10, <1>11, <1>12 DEF Junta

\* The sizes of the segments, without one of them.
LEMMA SumaSegmentosSin ==
  ASSUME NEW l \in Seq(Segmentos), SinRepetir(l), NEW x \in ToSet(l),
         NEW m \in Seq(Segmentos), SinRepetir(m), ToSet(m) = ToSet(l) \ {x}
  PROVE  SumaTam(l) = SumaTam(m) + Tam(x) /\ SumaTam(l) \in Int /\ SumaTam(m) \in Int
BY HuecosEnteros, SumaTamSin

\* The list of segments, without the one that is deleted.
LEMMA SegmentosMenos ==
  ASSUME TipoListas, Formas, Nombres,
         NEW j \in DOMAIN lista_segmentos_actuales,
         lista_segmentos_actuales[j].id # SEGMENTO_0,
         NEW s, s = lista_segmentos_actuales[j],
         lista_segmentos_actuales' = RemoveAt(lista_segmentos_actuales, j),
         UNCHANGED segmento_id_global
  PROVE  /\ lista_segmentos_actuales' \in Seq(Segmentos) /\ Nombres' /\ G' = G \ {s}
         /\ \A g \in G' : g.base < g.limite
         /\ s \in G /\ Tam(s) > 0 /\ Tam(s) \in Int
         /\ SumaTam(lista_segmentos_actuales) = SumaTam(lista_segmentos_actuales') + Tam(s)
         /\ SumaTam(lista_segmentos_actuales) \in Int
         /\ SumaTam(lista_segmentos_actuales') \in Int
<1> DEFINE l == lista_segmentos_actuales
           m == lista_segmentos_actuales'
<1>1. /\ l \in Seq(Segmentos) /\ DOMAIN l = 1 .. Len(l) /\ Len(l) \in Nat
      /\ ToSet(l) \subseteq Segmentos /\ SinRepetir(l) /\ l # <<>> /\ l[1] = SEG0
      /\ j \in 1 .. Len(l) /\ s \in ToSet(l)
  BY DeLista DEF TipoListas, Nombres
<1>2. j # 1
  BY <1>1 DEF SEG0
<1>3. /\ m \in Seq(Segmentos) /\ Len(m) = Len(l) - 1
      /\ \A i \in 1 .. Len(l) - 1 : m[i] = IF i < j THEN l[i] ELSE l[i + 1]
      /\ ToSet(m) = ToSet(l) \ {s} /\ SinRepetir(m)
  <2> HIDE DEF l, m
  <2>1. m = RemoveAt(l, j) /\ s = l[j]
    BY DEF l, m
  <2>2. /\ RemoveAt(l, j) \in Seq(Segmentos) /\ Len(RemoveAt(l, j)) = Len(l) - 1
        /\ \A i \in 1 .. Len(l) - 1 : RemoveAt(l, j)[i] = IF i < j THEN l[i] ELSE l[i + 1]
        /\ SinRepetir(l) => /\ ToSet(RemoveAt(l, j)) = ToSet(l) \ {l[j]}
                            /\ SinRepetir(RemoveAt(l, j))
    <3>1. l \in Seq(Segmentos) /\ j \in 1 .. Len(l)
      BY <1>1
    <3> QED BY ONLY <3>1, ListaSinLugar
  <2> QED BY ONLY <1>1, <2>1, <2>2
<1> HIDE DEF l, m
<1>4. m # <<>> /\ m[1] = SEG0
  <2>1. Len(m) > 0 /\ 1 \in 1 .. Len(l) - 1 /\ 1 < j
    BY <1>1, <1>2, <1>3
  <2> QED BY <1>1, <1>3, <2>1
<1>5. SumaTam(l) = SumaTam(m) + Tam(s) /\ SumaTam(l) \in Int /\ SumaTam(m) \in Int
  BY ONLY <1>1, <1>3, SumaSegmentosSin
<1>6. s \in G /\ G = ToSet(l) /\ G' = ToSet(m) /\ G' = G \ {s}
  BY <1>1, <1>3 DEF G, l, m
<1>7. s.base \in Int /\ s.limite \in Int /\ s.base < s.limite
  BY <1>1, <1>6, DeSegmento DEF Formas
<1>8. Nombres'
  BY <1>3, <1>4, <1>6 DEF Nombres, m
<1> QED BY <1>3, <1>5, <1>6, <1>7, <1>8 DEF Formas, Tam, l, m

\* The list of holes, with the one that the deletion leaves.
LEMMA HuecosMenos ==
  ASSUME TipoListas, Formas, NEW s \in G,
         NEW v, v = Vecinos(huecos_libres, s), NEW r \in {"cabeza", "nada"},
         NEW nuevo, nuevo = HuecoNuevo(huecos_libres, s, v),
         huecos_libres' =
           Append(QuitarPosterior(QuitarAnterior(huecos_libres, v), v, r), nuevo),
         NEW Y, G \ {s} = Y
  PROVE  /\ huecos_libres' \in Seq(Huecos) /\ \A h \in H' : h.base <= h.limite
         /\ SinRepetir(huecos_libres) /\ Partida(H, G) /\ QuitaElPosterior(v, r) =>
              /\ SinRepetir(huecos_libres') /\ Partida(H', Y)
              /\ SumaTam(huecos_libres') = SumaTam(huecos_libres) + Tam(s)
              /\ \A h \in H : \E k \in H' : Tam(h) <= Tam(k)
<1> DEFINE hs == huecos_libres
           ms == huecos_libres'
           m == QuitarPosterior(QuitarAnterior(hs, v), v, r)
           Ant == En(hs, v.anterior)
           Pos == En(hs, v.posterior)
<1>1. /\ hs \in Seq(Huecos) /\ H \subseteq Huecos /\ G \subseteq Segmentos
      /\ H = ToSet(hs) /\ H' = ToSet(ms) /\ ms = Append(m, nuevo)
      /\ s.base \in Int /\ s.limite \in Int /\ s.base < s.limite
  BY DeLista, DeSegmento DEF TipoListas, Formas, H, G
<1>2. nuevo \in Huecos /\ nuevo.base <= nuevo.limite /\ Junta(H, s, nuevo, Ant, Pos)
  <2>1. Ant = En(huecos_libres, v.anterior) /\ Pos = En(huecos_libres, v.posterior)
    OBVIOUS
  <2> HIDE DEF Ant, Pos
  <2> QED BY <2>1, NuevoEs
<1>3. v = Vecinos(hs, s) /\ nuevo = HuecoNuevo(hs, s, v)
  OBVIOUS
<1>4. \A h \in H : h.base <= h.limite
  BY DEF Formas
<1>5. \A h \in Huecos : h.base \in Int /\ h.limite \in Int
  BY HuecosEnteros DEF Enteros
<1>6. Enteros(H \cup G)
  BY <1>1, HuecosEnteros DEF Enteros
<1>8. \A h \in Huecos : Tam(h) \in Int
  BY <1>5 DEF Tam
<1> HIDE DEF hs, ms, m, Ant, Pos
<1>9. /\ m \in Seq(Huecos) /\ ToSet(m) \subseteq H
      /\ SinRepetir(hs) /\ QuitaElPosterior(v, r) =>
           /\ SinRepetir(m)
           /\ ToSet(m) = H \ (Ant \cup Pos)
           /\ SumaTam(hs) + Tam(s) = SumaTam(m) + Tam(nuevo)
  <2>1. \A h \in ToSet(hs) : h.base <= h.limite
    BY <1>1, <1>4
  <2>2. m = QuitarPosterior(QuitarAnterior(hs, v), v, r) /\ r \in {"cabeza", "nada"}
    BY DEF m
  <2>3. /\ m \in Seq(Huecos) /\ ToSet(m) \subseteq ToSet(hs)
        /\ SinRepetir(hs) /\ QuitaElPosterior(v, r) =>
             /\ SinRepetir(m)
             /\ ToSet(m) = ToSet(hs) \ (En(hs, v.anterior) \cup En(hs, v.posterior))
             /\ SumaTam(hs) + Tam(s) = SumaTam(m) + Tam(HuecoNuevo(hs, s, v))
    BY ONLY <1>1, <1>3, <1>5, <2>1, <2>2, ListaSinVecinos
  <2> QED BY <1>1, <1>3, <2>3 DEF Ant, Pos
<1>10. /\ ms \in Seq(Huecos) /\ ToSet(ms) = ToSet(m) \cup {nuevo}
       /\ SinRepetir(m) /\ nuevo \notin ToSet(m) => SinRepetir(ms)
  BY ONLY <1>1, <1>2, <1>9, ListaMasUno
<1>11. \A h \in H' : h.base <= h.limite
  BY <1>1, <1>2, <1>4, <1>9, <1>10
<1>12. ASSUME SinRepetir(hs), Partida(H, G), QuitaElPosterior(v, r)
       PROVE  /\ SinRepetir(ms) /\ Partida(H', Y)
              /\ SumaTam(ms) = SumaTam(hs) + Tam(s)
              /\ \A h \in H : \E k \in H' : Tam(h) <= Tam(k)
  <2>1. /\ SinRepetir(m) /\ ToSet(m) = H \ (Ant \cup Pos)
        /\ SumaTam(hs) + Tam(s) = SumaTam(m) + Tam(nuevo)
    BY <1>9, <1>12
  <2>2. /\ Partida((H \ (Ant \cup Pos)) \cup {nuevo}, Y)
        /\ nuevo \notin H \ (Ant \cup Pos)
        /\ \A h \in Ant \cup Pos : Tam(h) <= Tam(nuevo)
    <3>1. \A g \in G : g.base < g.limite
      BY DEF Formas
    <3>2. s \in G /\ Partida(H, G) /\ Junta(H, s, nuevo, Ant, Pos)
      BY <1>2, <1>12
    <3>3. /\ Partida((H \ (Ant \cup Pos)) \cup {nuevo}, G \ {s})
          /\ nuevo \notin H \ (Ant \cup Pos)
          /\ \A h \in Ant \cup Pos : Tam(h) <= Tam(nuevo)
      BY ONLY <1>4, <1>6, <3>1, <3>2, Consolidada
    <3> QED BY <3>3
  <2>3. SinRepetir(ms) /\ ToSet(ms) = (H \ (Ant \cup Pos)) \cup {nuevo}
    BY <1>10, <2>1, <2>2
  <2>4. SumaTam(ms) = SumaTam(m) + Tam(nuevo) /\ SumaTam(ms) \in Int /\ SumaTam(m) \in Int
    <3>1. nuevo \in ToSet(ms) /\ ToSet(m) = ToSet(ms) \ {nuevo}
      BY <2>1, <2>2, <2>3
    <3> QED BY ONLY <1>9, <1>10, <2>1, <2>3, <3>1, SumaHuecosSin
  <2>5. SumaTam(hs) \in Int /\ Tam(s) \in Int
    <3>1. SumaTam(hs) \in Int
      BY <1>1, <1>8, <1>12, SumaTamEs
    <3> QED BY <1>1, <3>1 DEF Tam
  <2>6. SumaTam(ms) = SumaTam(hs) + Tam(s)
    BY <2>1, <2>4, <2>5
  <2>7. \A h \in H : \E k \in H' : Tam(h) <= Tam(k)
    <3> SUFFICES ASSUME NEW h \in H PROVE \E k \in H' : Tam(h) <= Tam(k)
      OBVIOUS
    <3>1. CASE h \in Ant \cup Pos
      BY <1>1, <2>2, <2>3, <3>1
    <3>2. CASE h \notin Ant \cup Pos
      <4>1. h \in H' /\ Tam(h) \in Int
        BY <1>1, <1>8, <2>3, <3>2
      <4>2. Tam(h) <= Tam(h)
        BY <4>1
      <4> QED BY <4>1, <4>2
    <3> QED BY <3>1, <3>2
  <2> QED BY <1>1, <2>2, <2>3, <2>6, <2>7
<1> QED BY <1>10, <1>11, <1>12 DEF hs, ms

\* Both lists.
LEMMA ListasMenos ==
  ASSUME TipoListas, Formas, Nombres,
         NEW j \in DOMAIN lista_segmentos_actuales,
         lista_segmentos_actuales[j].id # SEGMENTO_0,
         NEW s, s = lista_segmentos_actuales[j],
         NEW v, v = Vecinos(huecos_libres, s), NEW r \in {"cabeza", "nada"},
         huecos_libres' = Append(QuitarPosterior(QuitarAnterior(huecos_libres, v), v, r),
                                 HuecoNuevo(huecos_libres, s, v)),
         lista_segmentos_actuales' = RemoveAt(lista_segmentos_actuales, j),
         UNCHANGED segmento_id_global
  PROVE  /\ TipoListas' /\ Formas' /\ Nombres' /\ s \in G /\ G' = G \ {s}
         /\ SumaTam(lista_segmentos_actuales) \in Int
         /\ SumaTam(lista_segmentos_actuales') \in Int
         /\ SumaTam(lista_segmentos_actuales') < SumaTam(lista_segmentos_actuales)
         /\ Sanas(huecos_libres, lista_segmentos_actuales) /\ QuitaElPosterior(v, r) =>
              /\ Sanas(huecos_libres', lista_segmentos_actuales')
              /\ \A h \in H : \E k \in H' : Tam(h) <= Tam(k)
<1> DEFINE l == lista_segmentos_actuales
           m == lista_segmentos_actuales'
           nuevo == HuecoNuevo(huecos_libres, s, v)
<1>1. /\ m \in Seq(Segmentos) /\ Nombres' /\ G' = G \ {s}
      /\ \A g \in G' : g.base < g.limite
      /\ s \in G /\ Tam(s) > 0 /\ Tam(s) \in Int
      /\ SumaTam(l) = SumaTam(m) + Tam(s)
      /\ SumaTam(l) \in Int /\ SumaTam(m) \in Int
  BY SegmentosMenos
<1>2. huecos_libres' = Append(QuitarPosterior(QuitarAnterior(huecos_libres, v), v, r), nuevo)
  OBVIOUS
<1> HIDE DEF nuevo
<1>3. /\ huecos_libres' \in Seq(Huecos) /\ \A h \in H' : h.base <= h.limite
      /\ SinRepetir(huecos_libres) /\ Partida(H, G) /\ QuitaElPosterior(v, r) =>
           /\ SinRepetir(huecos_libres') /\ Partida(H', G')
           /\ SumaTam(huecos_libres') = SumaTam(huecos_libres) + Tam(s)
           /\ \A h \in H : \E k \in H' : Tam(h) <= Tam(k)
  <2>1. nuevo = HuecoNuevo(huecos_libres, s, v) /\ s \in G /\ G \ {s} = G'
    BY <1>1 DEF nuevo
  <2> QED BY <1>2, <2>1, HuecosMenos
<1> HIDE DEF l, m
<1>4. TipoListas' /\ Formas'
  BY <1>1, <1>3 DEF TipoListas, Formas, m
<1>5. SumaTam(m) < SumaTam(l)
  BY <1>1
<1>6. ASSUME Sanas(huecos_libres, l), QuitaElPosterior(v, r)
      PROVE  /\ Sanas(huecos_libres', m)
             /\ \A h \in H : \E k \in H' : Tam(h) <= Tam(k)
  <2>1. /\ SinRepetir(huecos_libres) /\ Partida(H, G)
        /\ SumaTam(huecos_libres) + SumaTam(l) = tam_memoria
    BY <1>6 DEF Sanas, H, G, l
  <2>2. /\ SinRepetir(huecos_libres') /\ Partida(H', G')
        /\ SumaTam(huecos_libres') = SumaTam(huecos_libres) + Tam(s)
        /\ \A h \in H : \E k \in H' : Tam(h) <= Tam(k)
    BY <1>3, <1>6, <2>1
  <2>3. SumaTam(huecos_libres) \in Int
    <3>1. huecos_libres \in Seq(Huecos)
      BY DEF TipoListas
    <3> QED BY <2>1, <3>1, HuecosEnteros, SumaTamEs
  <2>4. SumaTam(huecos_libres') + SumaTam(m) = tam_memoria
    BY <1>1, <2>1, <2>2, <2>3, Constantes
  <2>5. Partida(ToSet(huecos_libres'), ToSet(m))
    BY <2>2 DEF H, G, m
  <2> QED BY <2>2, <2>4, <2>5 DEF Sanas
<1> QED BY <1>1, <1>4, <1>5, <1>6 DEF l, m

-----------------------------------------------------------------------------
(* What a step does to the ranges of the entries.                          *)

\* Every entry in use names a segment of the list.
LEMMA Nombra ==
  ASSUME TipoListas, Nombres, EnTablas
  PROVE  /\ lista_segmentos_actuales \in Seq(Segmentos) /\ Nombrada(lista_segmentos_actuales)
         /\ SEG0 \in G
         /\ \A q \in Pids, t \in Sids :
              tablas[q][t] # VACIO => \E g \in G : g.id = tablas[q][t]
<1>1. lista_segmentos_actuales \in Seq(Segmentos) /\ Nombrada(lista_segmentos_actuales)
  BY DEF TipoListas, Nombres, Nombrada, G
<1>2. SEG0 \in G
  <2>1. 1 \in DOMAIN lista_segmentos_actuales /\ lista_segmentos_actuales[1] = SEG0
    BY <1>1 DEF Nombres
  <2> QED BY <2>1 DEF G, ToSet
<1>3. ASSUME NEW q \in Pids, NEW t \in Sids, tablas[q][t] # VACIO
      PROVE  \E g \in G : g.id = tablas[q][t]
  <2>1. CASE t = 0
    <3>1. tablas[q][t] = SEG0.id
      BY <1>3, <2>1 DEF EnTablas, SEG0
    <3> QED BY <1>2, <3>1
  <2>2. CASE t # 0
    BY <1>3, <2>2 DEF EnTablas, Privadas
  <2> QED BY <2>1, <2>2
<1> QED BY <1>1, <1>2, <1>3

LEMMA MapaEn ==
  ASSUME NEW q \in Pids, NEW t \in Sids
  PROVE  /\ Mapa[q][t] = IF tablas[q][t] = VACIO THEN A!NADA
                         ELSE RangoEn(lista_segmentos_actuales, tablas[q][t])
         /\ Mapa'[q][t] = IF tablas'[q][t] = VACIO THEN A!NADA
                          ELSE RangoEn(lista_segmentos_actuales', tablas'[q][t])
<1> DEFINE M(f, l) == MapaDe(f, l)
<1>1. \A f, l : MapaDe(f, l)[q][t] = IF f[q][t] = VACIO THEN A!NADA ELSE RangoEn(l, f[q][t])
  BY DEF MapaDe
<1> QED BY <1>1, MapaEs

LEMMA MapaTipo ==
  \E Q : Mapa \in [Pids -> [Sids -> Q]] /\ Mapa' \in [Pids -> [Sids -> Q]]
<1> DEFINE Q == {Mapa[e[1]][e[2]] : e \in Pids \X Sids}
                \cup {Mapa'[e[1]][e[2]] : e \in Pids \X Sids}
<1>1. \A q \in Pids, t \in Sids : Mapa[q][t] \in Q /\ Mapa'[q][t] \in Q
  <2> SUFFICES ASSUME NEW q \in Pids, NEW t \in Sids PROVE Mapa[q][t] \in Q /\ Mapa'[q][t] \in Q
    OBVIOUS
  <2>1. <<q, t>> \in Pids \X Sids /\ <<q, t>>[1] = q /\ <<q, t>>[2] = t
    OBVIOUS
  <2> QED BY <2>1
<1> HIDE DEF Q
<1>2. \A f, l :
        (\A q \in Pids, t \in Sids : MapaDe(f, l)[q][t] \in Q)
        => MapaDe(f, l) \in [Pids -> [Sids -> Q]]
  BY DEF MapaDe
<1> QED BY <1>1, <1>2, MapaEs

LEMMA MapaCambia ==
  ASSUME NEW p \in Pids, NEW s \in Sids, NEW r,
         \A q \in Pids, t \in Sids :
           Mapa'[q][t] = IF q = p /\ t = s THEN r ELSE Mapa[q][t]
  PROVE  Mapa' = [Mapa EXCEPT ![p][s] = r] /\ r = Mapa'[p][s]
<1>1. PICK Q : Mapa \in [Pids -> [Sids -> Q]] /\ Mapa' \in [Pids -> [Sids -> Q]]
  BY MapaTipo
<1> DEFINE M == Mapa
           N == Mapa'
<1>2. \A q \in Pids, t \in Sids : N[q][t] = IF q = p /\ t = s THEN r ELSE M[q][t]
  OBVIOUS
<1> HIDE DEF M, N
<1>3. \A q \in Pids : N[q] = IF q = p THEN [M[q] EXCEPT ![s] = r] ELSE M[q]
  BY <1>1, <1>2 DEF M, N
<1>4. N = [M EXCEPT ![p][s] = r]
  BY <1>1, <1>3 DEF M, N
<1>5. r = N[p][s]
  BY <1>2
<1> QED BY <1>4, <1>5 DEF M, N

\* A segment that stays in the list keeps its range.
LEMMA MapaSigue ==
  ASSUME TipoListas, Nombres, EnTablas, TipoListas', Nombres',
         NEW q \in Pids, NEW t \in Sids, tablas'[q][t] = tablas[q][t],
         NEW g \in G \cap G', tablas[q][t] = VACIO \/ g.id = tablas[q][t]
  PROVE  Mapa'[q][t] = Mapa[q][t]
<1> DEFINE l == lista_segmentos_actuales
           m == lista_segmentos_actuales'
<1>1. /\ l \in Seq(Segmentos) /\ Nombrada(l) /\ g \in ToSet(l)
      /\ m \in Seq(Segmentos) /\ Nombrada(m) /\ g \in ToSet(m)
  BY DEF TipoListas, Nombres, Nombrada, G
<1> HIDE DEF l, m
<1>2. RangoEn(l, g.id) = RangoEn(m, g.id)
  BY <1>1, RangoEs
<1> QED BY <1>2, MapaEn DEF l, m

-----------------------------------------------------------------------------
(* The steps.                                                              *)

\* What the invariant says of the lists and tables does not read vivo.
LEMMA Quieta ==
  ASSUME Inv, UNCHANGED <<vListas, vTablas, vKernel, sana>>, vivo' \in BOOLEAN
  PROVE  Inv' /\ DeAsignador
<1>1. UNCHANGED <<huecos_libres, lista_segmentos_actuales, segmento_id_global, tablas,
                  cant_actuales, proceso, kernel, pedido, sana>>
  BY DEF vListas, vTablas, vKernel
<1>2. H' = H /\ G' = G /\ ConTabla' = ConTabla /\ \A p \in Pids : Usadas(p)' = Usadas(p)
  BY <1>1 DEF H, G, ConTabla, Usadas
<1>3. TypeOK' /\ Formas' /\ Nombres'
  BY <1>1, <1>2 DEF Inv, TypeOK, Formas, Nombres
<1>4. EnTablas' /\ Pedido' /\ ReintentoCabe'
  BY <1>1, <1>2 DEF Inv, EnTablas, Pedido, ReintentoCabe
<1>5. (sana => Sanas(huecos_libres, lista_segmentos_actuales))'
  BY <1>1 DEF Inv
<1>6. UNCHANGED A!vars
  BY <1>1, AQuieto
<1> QED BY <1>3, <1>4, <1>5, <1>6 DEF Inv, DeAsignador

LEMMA Caida == ASSUME Inv, Caer PROVE Inv' /\ DeAsignador
<1>1. vivo' \in BOOLEAN /\ UNCHANGED <<vListas, vTablas, vKernel, sana>>
  BY DEF Caer
<1> QED BY <1>1, Quieta

\* Where the segment of an entry is in the list.
LEMMA Elegido ==
  ASSUME Inv, NEW p \in Pids, NEW sid \in SlotsOcupados(p),
         NEW j, j = CHOOSE i \in DOMAIN lista_segmentos_actuales :
                      lista_segmentos_actuales[i].id = tablas[p][sid]
  PROVE  /\ j \in DOMAIN lista_segmentos_actuales
         /\ lista_segmentos_actuales[j].id = tablas[p][sid]
         /\ tablas[p][sid] # SEGMENTO_0
<1>1. PICK g \in G : g.id = tablas[p][sid] /\ tablas[p][sid] # SEGMENTO_0
  BY EntradaPrivada DEF Inv
<1>2. \E i \in DOMAIN lista_segmentos_actuales : lista_segmentos_actuales[i] = g
  BY DEF G, ToSet
<1> QED BY <1>1, <1>2

\* What eliminar_segmento does when it does not crash. The effect of list_remove
\* with -1 matters only when the index is -1.
Eliminacion(p, sid, j, s, v, r) ==
  /\ j \in DOMAIN lista_segmentos_actuales /\ s = lista_segmentos_actuales[j]
  /\ s.id = tablas[p][sid] /\ tablas[p][sid] # SEGMENTO_0
  /\ v = Vecinos(huecos_libres, s)
  /\ huecos_libres' =
       Append(QuitarPosterior(QuitarAnterior(huecos_libres, v), v, r),
              HuecoNuevo(huecos_libres, s, v))
  /\ lista_segmentos_actuales' = RemoveAt(lista_segmentos_actuales, j)
  /\ tablas' = [tablas EXCEPT ![p][sid] = VACIO]
  /\ cant_actuales' = [cant_actuales EXCEPT ![p] = @ - 1]
  /\ sana' = (sana /\ QuitaElPosterior(v, r))
  /\ UNCHANGED <<segmento_id_global, vivo>>

LEMMA EliminarEs ==
  ASSUME Inv, NEW p \in Pids, NEW sid \in SlotsOcupados(p), eliminar_segmento(p, sid), ~Caer
  PROVE  \E j, s, v : \E r \in {"cabeza", "nada"} : Eliminacion(p, sid, j, s, v, r)
<1> DEFINE j == CHOOSE i \in DOMAIN lista_segmentos_actuales :
                  lista_segmentos_actuales[i].id = tablas[p][sid]
           s == lista_segmentos_actuales[j]
           v == Vecinos(huecos_libres, s)
<1>1. PICK q \in QuitarMenosUno :
        /\ ~(v.posterior = 0 /\ q = "cae")
        /\ huecos_libres' =
             Append(QuitarPosterior(QuitarAnterior(huecos_libres, v), v, q),
                    HuecoNuevo(huecos_libres, s, v))
        /\ lista_segmentos_actuales' = RemoveAt(lista_segmentos_actuales, j)
        /\ tablas' = [tablas EXCEPT ![p][sid] = VACIO]
        /\ cant_actuales' = [cant_actuales EXCEPT ![p] = @ - 1]
        /\ sana' = (sana /\ QuitaElPosterior(v, q))
        /\ UNCHANGED <<segmento_id_global, vivo>>
  BY Zenon DEF eliminar_segmento, BajarCuenta
<1>2. /\ j \in DOMAIN lista_segmentos_actuales /\ s = lista_segmentos_actuales[j]
      /\ s.id = tablas[p][sid] /\ tablas[p][sid] # SEGMENTO_0
      /\ v = Vecinos(huecos_libres, s)
  BY Elegido
<1> HIDE DEF j, s, v
<1>3. q \in {"cabeza", "nada", "cae"}
  BY MemoriaAssumption
<1>4. CASE q \in {"cabeza", "nada"}
  BY <1>1, <1>4, <1>2 DEF Eliminacion
<1>5. CASE q = "cae"
  <2>1. v.posterior # 0
    BY <1>1, <1>5
  <2> DEFINE R == QuitarAnterior(huecos_libres, v)
  <2>2. QuitarPosterior(R, v, q) = QuitarPosterior(R, v, "nada")
    BY <2>1 DEF QuitarPosterior
  <2>3. QuitaElPosterior(v, q) <=> QuitaElPosterior(v, "nada")
    BY <2>1 DEF QuitaElPosterior
  <2>4. sana' = (sana /\ QuitaElPosterior(v, "nada"))
    BY <1>1, <2>3
  <2>5. Eliminacion(p, sid, j, s, v, "nada")
    BY <1>1, <1>2, <2>2, <2>4 DEF Eliminacion
  <2> QED BY <2>5
<1> QED BY <1>3, <1>4, <1>5

\* The entry is left without a range, and no other entry changes.
LEMMA MapaMenos ==
  ASSUME Inv, TipoListas', Nombres', NEW p \in Pids, NEW sid \in SlotsOcupados(p),
         tablas' = [tablas EXCEPT ![p][sid] = VACIO], UNCHANGED proceso,
         NEW s \in G, s.id = tablas[p][sid], G' = G \ {s}
  PROVE  DeAsignador
<1>1. /\ TipoListas /\ TipoTablas /\ Nombres /\ EnTablas /\ Formas
      /\ sid \in Privadas /\ sid \in Sids /\ p \in ConTabla
      /\ tablas[p][sid] # VACIO /\ s.id # SEGMENTO_0
  BY Tipos, EntradaPrivada DEF Inv, Privadas
<1>2. \A q \in Pids, t \in Sids :
        tablas'[q][t] = IF q = p /\ t = sid THEN VACIO ELSE tablas[q][t]
  BY <1>1 DEF TipoTablas
<1>3. SEG0 \in G /\ SEG0 # s
  BY <1>1, Nombra DEF SEG0
<1>4. ASSUME NEW q \in Pids, NEW t \in Sids
      PROVE  Mapa'[q][t] = IF q = p /\ t = sid THEN A!NADA ELSE Mapa[q][t]
  <2>1. CASE q = p /\ t = sid
    BY <1>2, <2>1, MapaEn
  <2>2. CASE ~(q = p /\ t = sid)
    <3>1. tablas'[q][t] = tablas[q][t]
      BY <1>2, <2>2
    <3>2. \E g \in G \cap G' : tablas[q][t] = VACIO \/ g.id = tablas[q][t]
      <4>1. CASE tablas[q][t] = VACIO
        BY <1>3, <4>1
      <4>2. CASE tablas[q][t] # VACIO
        <5>1. PICK g \in G : g.id = tablas[q][t]
          BY <1>1, <4>2, Nombra
        <5>2. g # s
          <6>1. CASE t = 0
            <7>1. tablas[q][t] = SEGMENTO_0
              BY <1>1, <4>2, <6>1 DEF EnTablas
            <7> QED BY <1>1, <5>1, <7>1
          <6>2. CASE t # 0
            <7>1. t \in Privadas
              BY <6>2 DEF Privadas
            <7>2. tablas[q][t] = tablas[p][sid] => q = p /\ t = sid
              BY <1>1, <7>1 DEF EnTablas
            <7> QED BY <2>2, <5>1, <7>2
          <6> QED BY <6>1, <6>2
        <5> QED BY <5>1, <5>2
      <4> QED BY <4>1, <4>2
    <3>3. Mapa'[q][t] = Mapa[q][t]
      BY <1>1, <3>1, <3>2, MapaSigue
    <3> QED BY <2>2, <3>3
  <2> QED BY <2>1, <2>2
<1>5. Mapa' = [Mapa EXCEPT ![p][sid] = A!NADA]
  BY <1>1, <1>4, MapaCambia
<1>6. Mapa[p][sid] # A!NADA
  <2>1. Mapa[p][sid] = [base |-> s.base, limite |-> s.limite]
    <3>1. /\ lista_segmentos_actuales \in Seq(Segmentos)
          /\ Nombrada(lista_segmentos_actuales) /\ s \in ToSet(lista_segmentos_actuales)
      BY <1>1, Nombra DEF G
    <3>2. RangoEn(lista_segmentos_actuales, s.id) = [base |-> s.base, limite |-> s.limite]
      BY <3>1, RangoEs
    <3> QED BY <1>1, <3>2, MapaEn
  <2>2. s \in Segmentos /\ s.base < s.limite
    BY <1>1, DeLista DEF Formas, TipoListas, G
  <2>3. s.base \in Int /\ s.limite \in Int
    BY <2>2, DeSegmento
  <2> QED BY <2>1, <2>2, <2>3 DEF A!NADA
<1>7. ConTabla' = ConTabla
  BY DEF ConTabla
<1>8. CASE Mapa' = Mapa
  BY <1>7, <1>8, AIgual DEF DeAsignador
<1>9. CASE Mapa' # Mapa
  <2>1. A!Next
    BY <1>1, <1>5, <1>6, <1>7, <1>9, AEliminar
  <2> QED BY <2>1 DEF DeAsignador
<1> QED BY <1>8, <1>9

\* A deletion, by the program or at its end.
LEMMA Eliminado ==
  ASSUME Inv, NEW p \in Pids, NEW sid \in SlotsOcupados(p), eliminar_segmento(p, sid),
         UNCHANGED <<proceso, vKernel>>
  PROVE  Inv' /\ DeAsignador
<1>1. CASE Caer
  BY <1>1, Caida
<1>2. CASE ~Caer
  <2> DEFINE l == lista_segmentos_actuales
  <2> HIDE DEF l
  <2>1. PICK j, s, v, r : r \in {"cabeza", "nada"} /\ Eliminacion(p, sid, j, s, v, r)
    BY <1>2, EliminarEs
  <2>2. /\ huecos_libres' =
             Append(QuitarPosterior(QuitarAnterior(huecos_libres, v), v, r),
                    HuecoNuevo(huecos_libres, s, v))
        /\ lista_segmentos_actuales' = RemoveAt(lista_segmentos_actuales, j)
        /\ tablas' = [tablas EXCEPT ![p][sid] = VACIO]
        /\ cant_actuales' = [cant_actuales EXCEPT ![p] = @ - 1]
        /\ sana' = (sana /\ QuitaElPosterior(v, r))
        /\ segmento_id_global' = segmento_id_global /\ vivo' = vivo
    BY <2>1 DEF Eliminacion
  <2>3. TipoListas /\ TipoTablas /\ TipoKernel /\ Formas /\ Nombres /\ EnTablas /\ Pedido
    BY Tipos DEF Inv
  <2>4. /\ r \in {"cabeza", "nada"}
        /\ j \in DOMAIN lista_segmentos_actuales /\ s = lista_segmentos_actuales[j]
        /\ lista_segmentos_actuales[j].id # SEGMENTO_0 /\ s.id = tablas[p][sid]
        /\ v = Vecinos(huecos_libres, s)
    BY <2>1 DEF Eliminacion
  <2>5. /\ TipoListas' /\ Formas' /\ Nombres' /\ s \in G /\ G' = G \ {s}
        /\ SumaTam(l) \in Int /\ SumaTam(l') \in Int /\ SumaTam(l') < SumaTam(l)
        /\ Sanas(huecos_libres, l) /\ QuitaElPosterior(v, r) =>
             Sanas(huecos_libres', l') /\ \A h \in H : \E k \in H' : Tam(h) <= Tam(k)
    BY <2>2, <2>3, <2>4, ListasMenos DEF l
  <2>6. s.id = tablas[p][sid]
    BY <2>4
  <2>7. EnTablas' /\ TipoTablas'
    BY <2>2, <2>3, <2>5, <2>6, TablasMenos
  <2>8. DeAsignador
    BY <2>2, <2>5, <2>6, MapaMenos
  <2>9. TipoKernel'
    BY <2>2, <2>3 DEF TipoKernel, vKernel
  <2>10. Pedido'
    <3>1. kernel' = kernel /\ pedido' = pedido /\ proceso' = proceso
      BY DEF vKernel
    <3>2. \A q \in Pids, t \in Sids : tablas[q][t] = VACIO => tablas'[q][t] = VACIO
      BY <2>2, <2>3 DEF TipoTablas, SlotsOcupados
    <3>3. ASSUME kernel # "libre"
          PROVE  /\ pedido.pid \in Pids /\ pedido.sid \in Privadas /\ pedido.tam \in Tamanios
                 /\ proceso[pedido.pid] = "activo" /\ tablas'[pedido.pid][pedido.sid] = VACIO
      BY <2>3, <3>2, <3>3 DEF Pedido, Privadas
    <3>4. ASSUME kernel = "compactar", pedido.sana
          PROVE  SumaTam(l') + pedido.tam <= tam_memoria
      <4>1. SumaTam(l) + pedido.tam <= tam_memoria /\ pedido.tam \in Nat
        BY <2>3, <3>4 DEF Pedido, TipoKernel, l
      <4> QED BY <2>5, <4>1, Constantes
    <3> QED BY <3>1, <3>3, <3>4 DEF Pedido, l
  <2>11. sana' => Sanas(huecos_libres', l') /\ \A h \in H : \E k \in H' : Tam(h) <= Tam(k)
    BY <2>2, <2>5 DEF Inv, l
  <2>12. ReintentoCabe'
    <3> SUFFICES ASSUME kernel' = "reintentar", pedido'.sana, sana'
                 PROVE  \E i \in DOMAIN huecos_libres' : Tam(huecos_libres'[i]) >= pedido'.tam
      BY DEF ReintentoCabe
    <3>1. pedido' = pedido /\ kernel = "reintentar" /\ pedido.sana /\ sana
      BY <2>2 DEF vKernel
    <3>2. PICK i \in DOMAIN huecos_libres : Tam(huecos_libres[i]) >= pedido.tam
      BY <3>1 DEF Inv, ReintentoCabe
    <3>3. huecos_libres[i] \in H
      BY DEF H, ToSet
    <3>4. PICK k \in H' : Tam(huecos_libres[i]) <= Tam(k)
      BY <2>11, <3>3
    <3>5. PICK n \in DOMAIN huecos_libres' : huecos_libres'[n] = k
      BY DEF H, ToSet
    <3>6. Tam(k) >= pedido.tam
      <4>1. huecos_libres[i] \in Huecos /\ k \in Huecos /\ pedido.tam \in Nat
        BY <2>3, <2>5, <3>3, DeLista DEF TipoListas, TipoKernel, H
      <4>2. Tam(huecos_libres[i]) \in Int /\ Tam(k) \in Int
        BY <4>1, HuecosEnteros
      <4> QED BY <3>2, <3>4, <4>1, <4>2
    <3> QED BY <3>1, <3>5, <3>6
  <2> QED BY <2>5, <2>7, <2>8, <2>9, <2>10, <2>11, <2>12, Tipos DEF Inv, l
<1> QED BY <1>1, <1>2

-----------------------------------------------------------------------------
(* A creation.                                                             *)

\* A segment of size t at the start of a hole.
LEMMA UnSegmento ==
  ASSUME NEW h \in Huecos, NEW t \in Int, t > 0, t <= Tam(h), NEW n \in Nat,
         NEW g, g = [id |-> n, base |-> h.base, limite |-> h.base + t]
  PROVE  /\ g \in Segmentos /\ g.id = n /\ g.base = h.base /\ g.limite = h.base + t
         /\ g.base < g.limite /\ Tam(g) = t
         /\ g.base \in 0 .. tam_memoria /\ g.limite \in 0 .. tam_memoria
<1>1. /\ h.base \in Int /\ 0 <= h.base /\ h.limite \in Int /\ h.limite <= tam_memoria
      /\ t <= h.limite - h.base
  BY DeHueco DEF Tam
<1> DEFINE b == h.base
           l == h.base + t
<1>2. b \in 0 .. tam_memoria /\ l \in 0 .. tam_memoria /\ b < l /\ l - b = t
  BY <1>1, Constantes
<1>3. g = [id |-> n, base |-> b, limite |-> l]
  OBVIOUS
<1> HIDE DEF b, l
<1>4. g \in Segmentos /\ g.id = n /\ g.base = b /\ g.limite = l
  BY ONLY <1>2, <1>3, n \in Nat DEF Segmentos
<1> QED BY <1>2, <1>4 DEF b, l, Tam

\* The list of segments, with the new one.
LEMMA SegmentosMas ==
  ASSUME TipoListas, Formas, Nombres, NEW g \in Segmentos, g.id = segmento_id_global,
         g.base < g.limite,
         lista_segmentos_actuales' = Append(lista_segmentos_actuales, g),
         segmento_id_global' = segmento_id_global + 1
  PROVE  /\ lista_segmentos_actuales' \in Seq(Segmentos) /\ Nombres'
         /\ G' = G \cup {g} /\ g \notin G
         /\ \A k \in G' : k.base < k.limite
         /\ SumaTam(lista_segmentos_actuales') = SumaTam(lista_segmentos_actuales) + Tam(g)
         /\ SumaTam(lista_segmentos_actuales) \in Int
         /\ SumaTam(lista_segmentos_actuales') \in Int
<1> DEFINE l == lista_segmentos_actuales
           m == lista_segmentos_actuales'
<1>1. /\ l \in Seq(Segmentos) /\ DOMAIN l = 1 .. Len(l) /\ Len(l) \in Nat
      /\ ToSet(l) \subseteq Segmentos /\ SinRepetir(l) /\ l # <<>> /\ l[1] = SEG0
      /\ G = ToSet(l) /\ G' = ToSet(m) /\ m = Append(l, g)
  BY DeLista DEF TipoListas, Nombres, G
<1>2. /\ segmento_id_global \in Nat
      /\ \A k \in G : k.id < segmento_id_global /\ k.id \in Int /\ k.base < k.limite
      /\ \A k, c \in G : k.id = c.id => k = c
  <2>1. \A k \in G : k.id \in Int
    BY <1>1, DeSegmento
  <2> QED BY <2>1 DEF TipoListas, Nombres, Formas
<1>3. g \notin G
  BY <1>2
<1> HIDE DEF l, m
<1>4. m \in Seq(Segmentos) /\ ToSet(m) = ToSet(l) \cup {g} /\ SinRepetir(m)
  BY <1>1, <1>3, ListaMasUno
<1>5. m # <<>> /\ m[1] = SEG0
  <2>1. 1 \in 1 .. Len(l)
    BY <1>1
  <2> QED BY <1>1, <2>1
<1>6. SumaTam(m) = SumaTam(l) + Tam(g) /\ SumaTam(m) \in Int /\ SumaTam(l) \in Int
  <2>1. g \in ToSet(m) /\ ToSet(l) = ToSet(m) \ {g}
    BY <1>1, <1>3, <1>4
  <2> QED BY ONLY <1>1, <1>4, <2>1, SumaSegmentosSin
<1>7. G' = G \cup {g}
  BY <1>1, <1>4
<1>8. \A k \in G' : k.base < k.limite /\ k.id < segmento_id_global'
  BY <1>2, <1>7
<1>9. \A k, c \in G' : k.id = c.id => k = c
  BY <1>2, <1>7
<1>10. Nombres'
  BY <1>4, <1>5, <1>8, <1>9 DEF Nombres, m
<1> QED BY <1>3, <1>4, <1>6, <1>7, <1>8, <1>10 DEF l, m

\* Both lists.
LEMMA ListasMas ==
  ASSUME TipoListas, Formas, Nombres, NEW hs \in Ordenaciones(huecos_libres),
         NEW i \in DOMAIN hs, NEW t \in Int, t > 0, t <= Tam(hs[i]),
         NEW g, g = [id |-> segmento_id_global, base |-> hs[i].base, limite |-> hs[i].base + t],
         huecos_libres' = modificar_lista_hueco_libre(hs, i, t),
         lista_segmentos_actuales' = Append(lista_segmentos_actuales, g),
         segmento_id_global' = segmento_id_global + 1
  PROVE  /\ TipoListas' /\ Formas' /\ Nombres' /\ G' = G \cup {g}
         /\ g \in Segmentos /\ g.id = segmento_id_global /\ g.base < g.limite
         /\ g.base \in 0 .. tam_memoria /\ g.limite \in 0 .. tam_memoria
         /\ Sanas(huecos_libres, lista_segmentos_actuales) =>
              /\ Sanas(huecos_libres', lista_segmentos_actuales')
              /\ \A k \in G : Aparte(g, k)
<1> DEFINE l == lista_segmentos_actuales
           m == lista_segmentos_actuales'
           ms == huecos_libres'
           h == hs[i]
           k == Resto(h, t)
           R == Sobra(h, t)
<1>1. /\ huecos_libres \in Seq(Huecos) /\ H \subseteq Huecos
      /\ G \subseteq Segmentos /\ segmento_id_global \in Nat
      /\ H = ToSet(huecos_libres) /\ G = ToSet(l) /\ H' = ToSet(ms) /\ G' = ToSet(m)
  BY DeLista DEF TipoListas, H, G
<1>2. /\ hs \in Seq(Huecos) /\ ToSet(hs) = H
      /\ SinRepetir(huecos_libres) => SinRepetir(hs)
  BY <1>1, Ordenada
<1>3. h \in H /\ h \in Huecos /\ \A x \in ToSet(hs) : x.base <= x.limite
  <2>1. h \in ToSet(hs)
    BY DEF ToSet
  <2> QED BY <1>1, <1>2, <2>1 DEF Formas
<1>4. /\ g \in Segmentos /\ g.id = segmento_id_global /\ g.base = h.base /\ g.limite = h.base + t
      /\ g.base < g.limite /\ Tam(g) = t
      /\ g.base \in 0 .. tam_memoria /\ g.limite \in 0 .. tam_memoria
  <2> DEFINE c == segmento_id_global
  <2>1. /\ c \in Nat /\ h \in Huecos /\ t \in Int /\ t > 0 /\ t <= Tam(h)
        /\ g = [id |-> c, base |-> h.base, limite |-> h.base + t]
    BY <1>1, <1>3
  <2> HIDE DEF c, h
  <2>2. /\ g \in Segmentos /\ g.id = c /\ g.base = h.base /\ g.limite = h.base + t
        /\ g.base < g.limite /\ Tam(g) = t
        /\ g.base \in 0 .. tam_memoria /\ g.limite \in 0 .. tam_memoria
    BY ONLY <2>1, UnSegmento
  <2> QED BY <2>2 DEF c
<1>5. /\ m \in Seq(Segmentos) /\ Nombres' /\ G' = G \cup {g}
      /\ \A x \in G' : x.base < x.limite
      /\ SumaTam(m) = SumaTam(l) + t /\ SumaTam(l) \in Int /\ SumaTam(m) \in Int
  BY <1>4, SegmentosMas
<1>6. /\ ms \in Seq(Huecos) /\ \A x \in ToSet(ms) : x.base <= x.limite
      /\ SinRepetir(hs) /\ (Tam(h) # t => k \notin ToSet(hs) \ {h}) =>
           /\ SinRepetir(ms)
           /\ ToSet(ms) = (ToSet(hs) \ {h}) \cup R
           /\ SumaTam(hs) = SumaTam(ms) + t
  <2> HIDE DEF k, R, ms
  <2>1. ms = modificar_lista_hueco_libre(hs, i, t) /\ hs \in Seq(Huecos) /\ i \in DOMAIN hs
        /\ t \in Int /\ t > 0 /\ t <= Tam(hs[i]) /\ \A x \in ToSet(hs) : x.base <= x.limite
    BY <1>2, <1>3 DEF ms
  <2> QED BY ONLY <2>1, Modificada DEF k, R
<1>7. Comienzo(g, h, t)
  BY <1>4 DEF Comienzo
<1>8. h = hs[i]
  OBVIOUS
<1> HIDE DEF l, m, ms, h, k, R
<1>9. TipoListas' /\ Formas'
  BY <1>1, <1>5, <1>6 DEF TipoListas, Formas, m, ms
<1>10. ASSUME Sanas(huecos_libres, l)
       PROVE  Sanas(ms, m) /\ \A x \in G : Aparte(g, x)
  <2>1. /\ SinRepetir(huecos_libres) /\ Partida(H, G)
        /\ SumaTam(huecos_libres) + SumaTam(l) = tam_memoria
    BY <1>1, <1>10 DEF Sanas
  <2>2. Enteros(H \cup G) /\ \A x \in H : x.base <= x.limite
    BY <1>1, HuecosEnteros DEF Enteros, Formas
  <2>3. t \in Int /\ t > 0 /\ t <= Tam(h)
    BY <1>8
  <2>4. Partida((H \ {h}) \cup R, G \cup {g}) /\ (Tam(h) # t => k \notin H \ {h})
    BY ONLY <1>3, <1>7, <2>1, <2>2, <2>3, Partido DEF k, R
  <2>5. SinRepetir(ms) /\ ToSet(ms) = (H \ {h}) \cup R /\ SumaTam(hs) = SumaTam(ms) + t
    BY <1>2, <1>6, <2>1, <2>4
  <2>6. Partida(ToSet(ms), ToSet(m))
    BY <1>1, <1>5, <2>4, <2>5
  <2>7. SumaTam(hs) = SumaTam(huecos_libres) /\ SumaTam(hs) \in Int
    BY <1>1, <1>2, <2>1, HuecosEnteros, SumaTamIgual
  <2>8. SumaTam(ms) \in Int
    BY <1>6, <2>5, HuecosEnteros, SumaTamEs
  <2>9. SumaTam(ms) + SumaTam(m) = tam_memoria
    BY <1>5, <2>1, <2>3, <2>5, <2>7, <2>8, Constantes
  <2>10. \A x \in G : Aparte(g, x)
    <3>1. \A x \in G : Aparte(h, x)
      BY <1>3, <2>1 DEF Partida
    <3>2. /\ h.base \in Int /\ h.limite \in Int
          /\ \A x \in G : x.base \in Int /\ x.limite \in Int
      BY <1>3, <2>2 DEF Enteros
    <3>3. g.base = h.base /\ g.limite = h.base + t /\ t <= h.limite - h.base
      BY <1>4, <2>3 DEF Tam
    <3> QED BY ONLY <2>3, <3>1, <3>2, <3>3 DEF Aparte
  <2> QED BY <2>5, <2>6, <2>9, <2>10 DEF Sanas
<1> QED BY <1>4, <1>5, <1>9, <1>10 DEF l, m, ms

\* The new range is nobody else's.
LEMMA MapaMas ==
  ASSUME Inv, TipoListas', Nombres', sana, UNCHANGED proceso,
         NEW p \in ConTabla, NEW sid \in Privadas, tablas[p][sid] = VACIO,
         tablas' = [tablas EXCEPT ![p][sid] = segmento_id_global],
         NEW g \in Segmentos, g.id = segmento_id_global, g.base < g.limite,
         g.base \in 0 .. tam_memoria, g.limite \in 0 .. tam_memoria,
         G' = G \cup {g}, \A k \in G : Aparte(g, k)
  PROVE  DeAsignador
<1> DEFINE r == [base |-> g.base, limite |-> g.limite]
<1>1. /\ TipoListas /\ TipoTablas /\ Nombres /\ EnTablas
      /\ sid \in Sids /\ p \in Pids /\ SEG0 \in G
  BY Tipos, Nombra DEF Inv, Privadas, ConTabla
<1>2. \A q \in Pids, t \in Sids :
        tablas'[q][t] = IF q = p /\ t = sid THEN segmento_id_global ELSE tablas[q][t]
  BY <1>1 DEF TipoTablas
<1>3. RangoEn(lista_segmentos_actuales', g.id) = r
  <2> DEFINE m == lista_segmentos_actuales'
  <2>1. m \in Seq(Segmentos) /\ Nombrada(m) /\ g \in ToSet(m)
    BY DEF TipoListas, Nombres, Nombrada, G
  <2> HIDE DEF m
  <2>2. RangoEn(m, g.id) = [base |-> g.base, limite |-> g.limite]
    BY <2>1, RangoEs
  <2> QED BY <2>2 DEF m
<1> HIDE DEF r
<1>4. ASSUME NEW q \in Pids, NEW t \in Sids
      PROVE  Mapa'[q][t] = IF q = p /\ t = sid THEN r ELSE Mapa[q][t]
  <2>1. CASE q = p /\ t = sid
    <3>1. tablas'[q][t] = g.id /\ tablas'[q][t] # VACIO
      BY <1>1, <1>2, <2>1 DEF TipoListas, VACIO
    <3> QED BY <1>3, <2>1, <3>1, MapaEn
  <2>2. CASE ~(q = p /\ t = sid)
    <3>1. tablas'[q][t] = tablas[q][t]
      BY <1>2, <2>2
    <3>2. \E k \in G \cap G' : tablas[q][t] = VACIO \/ k.id = tablas[q][t]
      BY <1>1, Nombra
    <3>3. Mapa'[q][t] = Mapa[q][t]
      BY <1>1, <3>1, <3>2, MapaSigue
    <3> QED BY <2>2, <3>3
  <2> QED BY <2>1, <2>2
<1>5. Mapa' = [Mapa EXCEPT ![p][sid] = r] /\ r = Mapa'[p][sid]
  BY <1>1, <1>4, MapaCambia
<1>6. r \in A!Rangos /\ r.base < r.limite /\ r.base = g.base /\ r.limite = g.limite
  BY DEF A!Rangos, r
<1>7. A!Separados(r, A!SEGMENTO_0)
  <2>1. Aparte(g, SEG0)
    BY <1>1
  <2> QED BY <1>6, <2>1 DEF A!Separados, A!SEGMENTO_0, Aparte, SEG0
<1>8. ASSUME NEW q \in Pids, NEW t \in Privadas PROVE A!Separados(r, Mapa[q][t])
  <2>1. t \in Sids
    BY DEF Privadas
  <2>2. CASE tablas[q][t] = VACIO
    <3>1. Mapa[q][t] = A!NADA
      BY <2>1, <2>2, MapaEn
    <3> QED BY <3>1 DEF A!NADA, A!Separados
  <2>3. CASE tablas[q][t] # VACIO
    <3>1. PICK k \in G : k.id = tablas[q][t]
      BY <1>1, <2>1, <2>3, Nombra
    <3>2. Mapa[q][t] = [base |-> k.base, limite |-> k.limite]
      <4>1. /\ lista_segmentos_actuales \in Seq(Segmentos)
            /\ Nombrada(lista_segmentos_actuales) /\ k \in ToSet(lista_segmentos_actuales)
        BY <1>1, Nombra DEF G
      <4>2. RangoEn(lista_segmentos_actuales, k.id) = [base |-> k.base, limite |-> k.limite]
        BY <4>1, RangoEs
      <4> QED BY <2>1, <2>3, <3>1, <4>2, MapaEn
    <3>3. Aparte(g, k)
      OBVIOUS
    <3> QED BY <1>6, <3>2, <3>3 DEF A!Separados, Aparte
  <2> QED BY <2>2, <2>3
<1>9. Mapa[p][sid] = A!NADA
  BY <1>1, MapaEn
<1>10. ConTabla' = ConTabla
  BY DEF ConTabla
<1>11. CASE Mapa' = Mapa
  BY <1>10, <1>11, AIgual DEF DeAsignador
<1>12. CASE Mapa' # Mapa
  <2>1. A!Next
    BY <1>5, <1>6, <1>7, <1>8, <1>9, <1>10, <1>12, ACrear
  <2> QED BY <2>1 DEF DeAsignador
<1> QED BY <1>11, <1>12

LEMMA Creado ==
  ASSUME Inv, NEW p \in Pids, proceso[p] = "activo", NEW sid \in Privadas,
         tablas[p][sid] = VACIO, NEW tam \in Tamanios,
         NEW hs \in Ordenaciones(huecos_libres), NEW i \in DOMAIN hs, Tam(hs[i]) >= tam,
         SEGMENTO_CREADO(p, sid, hs, i, tam), UNCHANGED sana
  PROVE  Inv' /\ DeAsignador
<1> DEFINE l == lista_segmentos_actuales
           g == [id |-> segmento_id_global, base |-> hs[i].base, limite |-> hs[i].base + tam]
<1>1. /\ huecos_libres' = modificar_lista_hueco_libre(hs, i, tam)
      /\ lista_segmentos_actuales' = Append(lista_segmentos_actuales, g)
      /\ tablas' = [tablas EXCEPT ![p][sid] = segmento_id_global]
      /\ cant_actuales' = [cant_actuales EXCEPT ![p] = @ + 1]
      /\ segmento_id_global' = segmento_id_global + 1
      /\ kernel' = "libre" /\ pedido' = SinPedido
      /\ proceso' = proceso /\ vivo' = vivo
  BY DEF SEGMENTO_CREADO
<1>2. TipoListas /\ TipoTablas /\ TipoKernel /\ Formas /\ Nombres /\ EnTablas
  BY Tipos DEF Inv
<1>3. p \in ConTabla /\ tam \in Int /\ tam > 0 /\ segmento_id_global \in Nat \ {0}
  BY <1>2, Constantes DEF ConTabla, TipoListas
<1>4. tam <= Tam(hs[i])
  <2>1. hs[i] \in Huecos
    BY <1>2, Ordenada DEF TipoListas
  <2>2. Tam(hs[i]) \in Int
    BY <2>1, HuecosEnteros
  <2> QED BY <1>3, <2>2
<1>5. g = [id |-> segmento_id_global, base |-> hs[i].base, limite |-> hs[i].base + tam]
  OBVIOUS
<1> HIDE DEF g, l
<1>6. /\ TipoListas' /\ Formas' /\ Nombres' /\ G' = G \cup {g}
      /\ g \in Segmentos /\ g.id = segmento_id_global /\ g.base < g.limite
      /\ g.base \in 0 .. tam_memoria /\ g.limite \in 0 .. tam_memoria
      /\ Sanas(huecos_libres, lista_segmentos_actuales) =>
           /\ Sanas(huecos_libres', lista_segmentos_actuales')
           /\ \A k \in G : Aparte(g, k)
  BY <1>1, <1>2, <1>3, <1>4, <1>5, ListasMas
<1>7. EnTablas' /\ TipoTablas'
  <2>1. \A k \in G : k.id \in Nat
    <3>1. G \subseteq Segmentos
      BY <1>2, DeLista DEF TipoListas, G
    <3> QED BY <3>1, DeSegmento
  <2> QED BY <1>1, <1>2, <1>3, <1>6, <2>1, TablasMas
<1>8. TipoKernel' /\ Pedido' /\ ReintentoCabe'
  BY <1>1, <1>2 DEF TipoKernel, Pedido, ReintentoCabe, SinPedido
<1>9. sana' => Sanas(huecos_libres', lista_segmentos_actuales')
  BY <1>6 DEF Inv
<1>10. DeAsignador
  <2>1. CASE ~sana
    BY <2>1 DEF DeAsignador
  <2>2. CASE sana
    <3>1. \A k \in G : Aparte(g, k)
      BY <1>6, <2>2 DEF Inv
    <3> QED BY <1>1, <1>3, <1>6, <2>2, <3>1, MapaMas
  <2> QED BY <2>1, <2>2
<1> QED BY <1>6, <1>7, <1>8, <1>9, <1>10, Tipos DEF Inv

\* The answers that create nothing leave the holes in another order.
LEMMA HuecosOrdenados ==
  ASSUME Inv, NEW hs \in Ordenaciones(huecos_libres), huecos_libres' = hs,
         UNCHANGED <<lista_segmentos_actuales, segmento_id_global, sana>>
  PROVE  /\ TipoListas' /\ Formas' /\ Nombres' /\ G' = G
         /\ (sana => Sanas(huecos_libres, lista_segmentos_actuales))'
         /\ sana => SumaTam(hs) + SumaTam(lista_segmentos_actuales) = tam_memoria
<1>1. TipoListas /\ Formas /\ Nombres
  BY Tipos DEF Inv
<1>2. /\ huecos_libres \in Seq(Huecos) /\ hs \in Seq(Huecos) /\ ToSet(hs) = H
      /\ SinRepetir(huecos_libres) => SinRepetir(hs)
  BY <1>1, Ordenada DEF TipoListas, H
<1>3. H' = H /\ G' = G
  BY <1>2 DEF H, G
<1>4. TipoListas' /\ Formas' /\ Nombres'
  BY <1>1, <1>2, <1>3 DEF TipoListas, Formas, Nombres
<1>5. ASSUME sana
      PROVE  /\ Sanas(hs, lista_segmentos_actuales)
             /\ SumaTam(hs) + SumaTam(lista_segmentos_actuales) = tam_memoria
  <2>1. Sanas(huecos_libres, lista_segmentos_actuales)
    BY <1>5 DEF Inv
  <2>2. SumaTam(hs) = SumaTam(huecos_libres)
    <3>1. SinRepetir(huecos_libres) /\ SinRepetir(hs) /\ ToSet(hs) = ToSet(huecos_libres)
      BY <1>2, <2>1 DEF Sanas, H
    <3> QED BY <1>2, <3>1, HuecosEnteros, SumaTamIgual
  <2> QED BY <1>2, <2>1, <2>2 DEF Sanas, H
<1> QED BY <1>3, <1>4, <1>5

\* Nothing happens to the entries.
LEMMA EntradasQuietas ==
  ASSUME Inv, UNCHANGED <<lista_segmentos_actuales, tablas, cant_actuales, segmento_id_global>>,
         ConTabla' = ConTabla, proceso' \in [Pids -> {"nuevo", "activo", "fin", "borrado"}]
  PROVE  EnTablas' /\ TipoTablas' /\ DeAsignador
<1>1. EnTablas /\ TipoTablas
  BY Tipos DEF Inv
<1>2. G' = G /\ \A p \in Pids : Usadas(p)' = Usadas(p)
  BY DEF G, Usadas
<1>3. Mapa' = Mapa
  BY MapaEs
<1>4. EnTablas' /\ TipoTablas'
  BY <1>1, <1>2 DEF EnTablas, TipoTablas
<1> QED BY <1>3, <1>4, AIgual DEF DeAsignador

LEMMA Llena ==
  ASSUME Inv, NEW p \in Pids, proceso[p] = "activo", NEW hs \in Ordenaciones(huecos_libres),
         OUT_OF_MEMORY(p, hs), UNCHANGED <<sana, vivo>>
  PROVE  Inv' /\ DeAsignador
<1>1. /\ huecos_libres' = hs /\ proceso' = [proceso EXCEPT ![p] = "fin"]
      /\ kernel' = "libre" /\ pedido' = SinPedido
      /\ UNCHANGED <<lista_segmentos_actuales, segmento_id_global, tablas, cant_actuales>>
  BY DEF OUT_OF_MEMORY
<1>2. TipoTablas /\ TipoKernel
  BY Tipos DEF Inv
<1>3. /\ TipoListas' /\ Formas' /\ Nombres'
      /\ (sana => Sanas(huecos_libres, lista_segmentos_actuales))'
  BY <1>1, HuecosOrdenados
<1>4. /\ ConTabla' = ConTabla
      /\ proceso' \in [Pids -> {"nuevo", "activo", "fin", "borrado"}]
  BY <1>1, <1>2 DEF ConTabla, TipoTablas
<1>5. EnTablas' /\ TipoTablas' /\ DeAsignador
  BY <1>1, <1>4, EntradasQuietas
<1>6. TipoKernel' /\ Pedido' /\ ReintentoCabe'
  BY <1>1, <1>2 DEF TipoKernel, Pedido, ReintentoCabe, SinPedido
<1> QED BY <1>3, <1>5, <1>6, Tipos DEF Inv

\* There is room in all, so the request fits behind the segments.
LEMMA Compactara ==
  ASSUME Inv, NEW p \in Pids, proceso[p] = "activo", NEW sid \in Privadas,
         tablas[p][sid] = VACIO, NEW tam \in Tamanios, NEW sigue \in {"compactar", "trabado"},
         NEW hs \in Ordenaciones(huecos_libres), SumaTam(hs) >= tam,
         COMPACTAR(p, sid, hs, tam, sigue), UNCHANGED sana
  PROVE  Inv' /\ DeAsignador
<1>1. /\ huecos_libres' = hs /\ kernel' = sigue
      /\ pedido' = [pid |-> p, sid |-> sid, tam |-> tam, sana |-> sana]
      /\ UNCHANGED <<lista_segmentos_actuales, segmento_id_global>>
      /\ UNCHANGED <<tablas, cant_actuales, proceso, vivo>>
  BY DEF COMPACTAR, vTablas
<1>2. TipoListas /\ TipoTablas /\ TipoKernel /\ Nombres
  BY Tipos DEF Inv
<1>3. /\ TipoListas' /\ Formas' /\ Nombres'
      /\ (sana => Sanas(huecos_libres, lista_segmentos_actuales))'
      /\ sana => SumaTam(hs) + SumaTam(lista_segmentos_actuales) = tam_memoria
  BY <1>1, HuecosOrdenados
<1>4. EnTablas' /\ TipoTablas' /\ DeAsignador
  <2>1. ConTabla' = ConTabla /\ proceso' \in [Pids -> {"nuevo", "activo", "fin", "borrado"}]
    BY <1>1, <1>2 DEF ConTabla, TipoTablas
  <2> QED BY <1>1, <2>1, EntradasQuietas
<1>5. /\ pedido'.pid = p /\ pedido'.sid = sid /\ pedido'.tam = tam /\ pedido'.sana = sana
      /\ sid \in Sids /\ tam \in Nat
  BY <1>1, Constantes DEF Privadas
<1>6. TipoKernel' /\ ReintentoCabe'
  BY <1>1, <1>2, <1>5 DEF TipoKernel, ReintentoCabe
<1>7. ASSUME sana PROVE SumaTam(lista_segmentos_actuales) + tam <= tam_memoria
  <2> DEFINE l == lista_segmentos_actuales
  <2>1. l \in Seq(Segmentos) /\ SinRepetir(l) /\ hs \in Seq(Huecos)
    BY <1>2, Ordenada DEF TipoListas, Nombres
  <2> HIDE DEF l
  <2>2. SinRepetir(hs)
    BY <1>1, <1>3, <1>7 DEF Sanas
  <2>3. SumaTam(l) \in Int
    BY <2>1, HuecosEnteros, SumaTamEs
  <2>4. SumaTam(hs) \in Int
    BY <2>1, <2>2, HuecosEnteros, SumaTamEs
  <2>5. SumaTam(hs) + SumaTam(l) = tam_memoria
    BY <1>3, <1>7 DEF l
  <2>6. SumaTam(l) + tam <= tam_memoria
    BY <1>5, <2>3, <2>4, <2>5, Constantes
  <2> QED BY <2>6 DEF l
<1>8. Pedido'
  BY <1>1, <1>5, <1>7 DEF Pedido
<1> QED BY <1>3, <1>4, <1>6, <1>8, Tipos DEF Inv

LEMMA Pedida ==
  ASSUME Inv, NEW p \in Pids, proceso[p] = "activo", NEW sid \in Privadas,
         tablas[p][sid] = VACIO, NEW tam \in Tamanios, NEW sigue \in {"compactar", "trabado"},
         crear_segmento(p, sid, tam, sigue)
  PROVE  Inv' /\ DeAsignador
<1>1. UNCHANGED sana
  BY DEF crear_segmento
<1> DEFINE Caben(hs) == {i \in DOMAIN hs : Tam(hs[i]) >= tam}
<1>2. PICK hs \in Ordenaciones(huecos_libres) :
        \/ Caer
        \/ OUT_OF_MEMORY(p, hs) /\ UNCHANGED vivo
        \/ Caben(hs) # {} /\ SEGMENTO_CREADO(p, sid, hs, Min(Caben(hs)), tam)
        \/ SumaTam(hs) >= tam /\ COMPACTAR(p, sid, hs, tam, sigue)
  BY Zenon DEF crear_segmento, tamanio_libre_disponible
<1>3. CASE Caer
  BY <1>3, Caida
<1>4. CASE OUT_OF_MEMORY(p, hs) /\ UNCHANGED vivo
  BY <1>1, <1>4, Llena
<1>5. CASE Caben(hs) # {} /\ SEGMENTO_CREADO(p, sid, hs, Min(Caben(hs)), tam)
  <2> DEFINE C == Caben(hs)
             i == Min(C)
  <2>1. DOMAIN hs = 1 .. Len(hs) /\ Len(hs) \in Nat
    <3>1. huecos_libres \in Seq(Huecos)
      BY DEF Inv, TypeOK
    <3> QED BY <3>1, Ordenada
  <2>2. IsFiniteSet(1 .. Len(hs)) /\ C \subseteq 1 .. Len(hs)
    BY <2>1, FS_Interval
  <2>3. IsFiniteSet(C) /\ C \in SUBSET Int /\ C # {}
    <3>1. C # {}
      BY <1>5
    <3> HIDE DEF C
    <3>2. IsFiniteSet(C)
      BY <2>2, FS_Subset
    <3> QED BY <2>1, <2>2, <3>1, <3>2
  <2>4. \A x \in C : x \in DOMAIN hs /\ Tam(hs[x]) >= tam
    OBVIOUS
  <2>5. SEGMENTO_CREADO(p, sid, hs, i, tam)
    BY <1>5
  <2> HIDE DEF C
  <2>6. i \in C
    <3>1. \E x \in C : \A y \in C : x <= y
      BY <2>3, HayMinimo
    <3> QED BY <3>1 DEF Min
  <2> HIDE DEF i
  <2> QED BY <1>1, <2>4, <2>5, <2>6, Creado
<1>6. CASE SumaTam(hs) >= tam /\ COMPACTAR(p, sid, hs, tam, sigue)
  BY <1>1, <1>6, Compactara
<1> QED BY <1>2, <1>3, <1>4, <1>5, <1>6

-----------------------------------------------------------------------------
(* A compaction.                                                           *)

\* Sums of the first sizes of a list.
SumaHasta(l, n) == SumFunctionOnSet([i \in DOMAIN l |-> Tam(l[i])], 1 .. n)

LEMMA SumasParciales ==
  ASSUME NEW l \in Seq(Segmentos), \A i \in DOMAIN l : l[i].base < l[i].limite
  PROVE  /\ DOMAIN l = 1 .. Len(l) /\ Len(l) \in Nat /\ SumaTam(l) = SumaHasta(l, Len(l))
         /\ \A i \in DOMAIN l : Tam(l[i]) \in Nat /\ Tam(l[i]) > 0
         /\ \A i \in DOMAIN l : Destino(l, i) = SumaHasta(l, i - 1)
         /\ \A i \in DOMAIN l : SumaHasta(l, i) = SumaHasta(l, i - 1) + Tam(l[i])
         /\ \A n \in 0 .. Len(l) : SumaHasta(l, n) \in Nat
         /\ \A n \in 0 .. Len(l) : \A k \in 0 .. n : SumaHasta(l, k) <= SumaHasta(l, n)
         /\ SumaHasta(l, 0) = 0
<1> DEFINE v == [i \in DOMAIN l |-> Tam(l[i])]
           S(n) == SumFunctionOnSet(v, 1 .. n)
<1>1. DOMAIN l = 1 .. Len(l) /\ Len(l) \in Nat
  OBVIOUS
<1>2. ASSUME NEW i \in DOMAIN l PROVE v[i] = Tam(l[i]) /\ v[i] \in Nat /\ v[i] > 0
  <2>1. l[i] \in Segmentos
    OBVIOUS
  <2>2. l[i].base \in Int /\ l[i].limite \in Int /\ l[i].base < l[i].limite
    BY <2>1, DeSegmento
  <2> QED BY <2>2 DEF Tam
<1>3. SumaTam(l) = S(Len(l))
  BY <1>1 DEF SumaTam, SumFunction
<1>4. ASSUME NEW i \in DOMAIN l PROVE Destino(l, i) = S(i - 1)
  <2> DEFINE a == SubSeq(l, 1, i - 1)
             w == [j \in DOMAIN a |-> Tam(a[j])]
  <2>1. DOMAIN a = 1 .. i - 1 /\ \A j \in 1 .. i - 1 : a[j] = l[j] /\ j \in DOMAIN l
    BY <1>1
  <2>2. IsFiniteSet(1 .. i - 1)
    BY <1>1, FS_Interval
  <2>3. Destino(l, i) = SumFunctionOnSet(w, DOMAIN w)
    BY DEF Destino, SumaTam, SumFunction
  <2>4. DOMAIN w = 1 .. i - 1 /\ \A j \in 1 .. i - 1 : v[j] \in Int /\ w[j] = v[j]
    BY <1>2, <2>1
  <2> HIDE DEF v, w, a
  <2>5. SumFunctionOnSet(w, 1 .. i - 1) = SumFunctionOnSet(v, 1 .. i - 1)
    BY <2>2, <2>4, SumaIgual
  <2> QED BY <2>3, <2>4, <2>5
<1> HIDE DEF v
<1>5. ASSUME NEW n \in 0 .. Len(l)
      PROVE  IsFiniteSet(1 .. n) /\ (\A i \in 1 .. n : v[i] \in Nat) /\ S(n) \in Nat
  <2>1. IsFiniteSet(1 .. n)
    BY <1>1, FS_Interval
  <2>2. \A i \in 1 .. n : v[i] \in Nat
    BY <1>1, <1>2
  <2> QED BY <2>1, <2>2, SumaNatural
<1>6. ASSUME NEW n \in 0 .. Len(l), NEW k \in 0 .. n PROVE S(k) <= S(n)
  <2>1. 1 .. k \in SUBSET (1 .. n)
    BY <1>1
  <2> QED BY <1>5, <2>1, SumaMonotona
<1>7. ASSUME NEW i \in DOMAIN l PROVE S(i) = S(i - 1) + Tam(l[i])
  <2>1. i - 1 \in 0 .. Len(l) /\ i \in 0 .. Len(l)
    BY <1>1
  <2>2. 1 .. i = (1 .. i - 1) \cup {i} /\ i \notin 1 .. i - 1
    BY <1>1
  <2>3. \A x \in (1 .. i - 1) \cup {i} : v[x] \in Int
    BY <1>5, <2>1, <2>2
  <2>4. SumFunctionOnSet(v, (1 .. i - 1) \cup {i}) = v[i] + S(i - 1)
    BY <1>5, <2>1, <2>2, <2>3, SumaAgregar
  <2>5. S(i - 1) \in Nat /\ v[i] \in Nat /\ v[i] = Tam(l[i]) /\ S(i) = v[i] + S(i - 1)
    BY <1>2, <1>5, <2>1, <2>2, <2>4
  <2> HIDE DEF S
  <2> QED BY <2>5
<1>8. S(0) = 0
  <2>1. 1 .. 0 = {}
    OBVIOUS
  <2> QED BY <2>1, SumaVacia
<1>9. \A n : SumaHasta(l, n) = S(n)
  BY DEF SumaHasta, v
<1> HIDE DEF S
<1> QED BY <1>1, <1>2, <1>3, <1>4, <1>5, <1>6, <1>7, <1>8, <1>9

\* One behind the other, the segments take no more room than they have, in the
\* order of the list and with no address left out.
LEMMA EnFila ==
  ASSUME NEW l \in Seq(Segmentos), l # <<>>, \A i \in DOMAIN l : l[i].base < l[i].limite
  PROVE  /\ SumaTam(l) \in Nat /\ Destino(l, 1) = 0
         /\ \A i \in DOMAIN l : /\ Destino(l, i) \in Nat /\ Tam(l[i]) \in Nat /\ Tam(l[i]) > 0
                                /\ Destino(l, i) + Tam(l[i]) <= SumaTam(l)
         /\ \A i, j \in DOMAIN l : i < j => Destino(l, i) + Tam(l[i]) <= Destino(l, j)
         /\ \A d \in Nat : d < SumaTam(l) =>
              \E i \in DOMAIN l : Destino(l, i) <= d /\ d < Destino(l, i) + Tam(l[i])
<1> DEFINE n == Len(l)
           S(k) == SumaHasta(l, k)
           D(i) == Destino(l, i)
           T(i) == Tam(l[i])
<1>1. /\ DOMAIN l = 1 .. n /\ n \in Nat /\ SumaTam(l) = S(n) /\ S(0) = 0
      /\ \A i \in 1 .. n : /\ T(i) \in Nat /\ T(i) > 0
                           /\ D(i) = S(i - 1) /\ S(i) = S(i - 1) + T(i)
      /\ \A k \in 0 .. n : S(k) \in Nat
      /\ \A k \in 0 .. n : \A c \in 0 .. k : S(c) <= S(k)
  BY SumasParciales
<1>2. n > 0
  OBVIOUS
<1>3. \A d \in Nat : d < S(n) => \E i \in 1 .. n : S(i - 1) <= d /\ d < S(i)
  <2> SUFFICES ASSUME NEW d \in Nat, d < S(n)
               PROVE  \E i \in 1 .. n : S(i - 1) <= d /\ d < S(i)
    OBVIOUS
  <2> HIDE DEF n, S, D, T
  <2> DEFINE C == {k \in 0 .. n : S(k) <= d}
  <2>1. IsFiniteSet(0 .. n) /\ C \subseteq 0 .. n /\ 0 \in C
    <3>1. n \in Int /\ 0 \in 0 .. n /\ S(0) <= d
      BY <1>1
    <3>2. IsFiniteSet(0 .. n)
      BY ONLY <3>1, FS_Interval
    <3> QED BY <3>1, <3>2
  <2>2. \A k \in 0 .. n : k \in C <=> S(k) <= d
    OBVIOUS
  <2> HIDE DEF C
  <2>3. IsFiniteSet(C) /\ C \in SUBSET Int /\ C # {}
    <3>1. \A k \in 0 .. n : k \in Int
      BY <1>1
    <3>2. IsFiniteSet(C)
      BY ONLY <2>1, FS_Subset
    <3> QED BY <2>1, <3>1, <3>2
  <2>4. PICK k \in C : \A c \in C : k >= c
    BY <2>3, HayMaximo
  <2>5. k \in 0 .. n /\ S(k) <= d /\ k # n
    BY <1>1, <2>1, <2>2, <2>4
  <2>6. k + 1 \in 1 .. n /\ k + 1 \in 0 .. n /\ (k + 1) - 1 = k
    BY <1>1, <2>5
  <2>7. k + 1 \notin C
    BY <2>4, <2>6
  <2>8. d < S(k + 1)
    BY <1>1, <2>2, <2>6, <2>7
  <2> QED BY <2>5, <2>6, <2>8
<1>4. ASSUME NEW i \in 1 .. n
      PROVE  D(i) \in Nat /\ D(i) + T(i) = S(i) /\ D(i) + T(i) <= S(n)
  <2>1. i \in 0 .. n /\ i - 1 \in 0 .. n /\ n \in 0 .. n /\ i \in 0 .. n
    BY <1>1
  <2>2. D(i) = S(i - 1) /\ S(i) = S(i - 1) + T(i) /\ S(i - 1) \in Nat /\ S(i) <= S(n)
    BY <1>1, <2>1
  <2> QED BY <2>2
<1>5. ASSUME NEW i \in 1 .. n, NEW j \in 1 .. n, i < j PROVE D(i) + T(i) <= D(j)
  <2>1. j - 1 \in 0 .. n /\ i \in 0 .. j - 1
    BY <1>1, <1>5
  <2>2. D(i) + T(i) = S(i) /\ D(j) = S(j - 1) /\ S(i) <= S(j - 1)
    BY <1>1, <1>4, <2>1
  <2> QED BY <2>2
<1>6. D(1) = 0
  <2>1. 1 \in 1 .. n /\ 1 - 1 = 0
    BY <1>1, <1>2
  <2> QED BY <1>1, <2>1
<1>7. S(n) \in Nat /\ \A i \in 1 .. n : T(i) \in Nat /\ T(i) > 0 /\ S(i - 1) = D(i)
  BY <1>1
<1>8. \A d \in Nat : d < S(n) => \E i \in 1 .. n : D(i) <= d /\ d < D(i) + T(i)
  BY <1>3, <1>4, <1>7
<1> QED BY <1>1, <1>4, <1>5, <1>6, <1>7, <1>8

\* The lists after the move: right, whatever they were.
LEMMA ListasCompactas ==
  ASSUME TipoListas, Formas, Nombres, NEW l, l = lista_segmentos_actuales,
         NEW total, total = SumaTam(l), total <= tam_memoria,
         NEW m, m = [i \in DOMAIN l |-> [id |-> l[i].id, base |-> Destino(l, i),
                                         limite |-> Destino(l, i) + Tam(l[i])]],
         lista_segmentos_actuales' = m,
         NEW hueco, hueco = [base |-> total, limite |-> tam_memoria],
         huecos_libres' = <<hueco>>, UNCHANGED segmento_id_global
  PROVE  /\ TipoListas' /\ Formas' /\ Nombres'
         /\ Sanas(huecos_libres', lista_segmentos_actuales')
         /\ DOMAIN m = DOMAIN l /\ \A i \in DOMAIN l : m[i].id = l[i].id /\ Tam(m[i]) = Tam(l[i])
         /\ hueco \in H' /\ Tam(hueco) = tam_memoria - total /\ total \in Nat
<1>1. /\ l \in Seq(Segmentos) /\ DOMAIN l = 1 .. Len(l) /\ Len(l) \in Nat
      /\ ToSet(l) = G /\ G \subseteq Segmentos /\ SinRepetir(l) /\ l # <<>> /\ l[1] = SEG0
      /\ \A i \in DOMAIN l : l[i] \in G /\ l[i].base < l[i].limite /\ l[i] \in Segmentos
  BY DeLista DEF TipoListas, Nombres, Formas, G
<1>2. /\ total \in Nat /\ Destino(l, 1) = 0
      /\ \A i \in DOMAIN l : /\ Destino(l, i) \in Nat /\ Tam(l[i]) \in Nat /\ Tam(l[i]) > 0
                             /\ Destino(l, i) + Tam(l[i]) <= total
      /\ \A i, j \in DOMAIN l : i < j => Destino(l, i) + Tam(l[i]) <= Destino(l, j)
      /\ \A d \in Nat : d < total =>
           \E i \in DOMAIN l : Destino(l, i) <= d /\ d < Destino(l, i) + Tam(l[i])
  BY ONLY <1>1, EnFila, total = SumaTam(l)
<1>3. tam_memoria \in Nat /\ total <= tam_memoria
  BY Constantes
<1>4. ASSUME NEW i \in DOMAIN l
      PROVE  /\ m[i] \in Segmentos /\ m[i].id = l[i].id
             /\ m[i].base = Destino(l, i) /\ m[i].limite = Destino(l, i) + Tam(l[i])
             /\ m[i].base < m[i].limite /\ Tam(m[i]) = Tam(l[i])
             /\ m[i].base \in Int /\ m[i].limite \in Int
  <2> DEFINE b == Destino(l, i)
             k == Destino(l, i) + Tam(l[i])
  <2>1. /\ m[i] = [id |-> l[i].id, base |-> b, limite |-> k]
        /\ l[i].id \in Nat
    BY <1>1, DeSegmento
  <2>2. b \in 0 .. tam_memoria /\ k \in 0 .. tam_memoria /\ b < k /\ k - b = Tam(l[i])
        /\ b \in Int /\ k \in Int
    BY <1>2, <1>3
  <2> HIDE DEF b, k
  <2>3. m[i] \in Segmentos /\ m[i].base = b /\ m[i].limite = k /\ m[i].id = l[i].id
    BY ONLY <2>1, <2>2 DEF Segmentos
  <2> QED BY <2>2, <2>3 DEF b, k, Tam
<1>5. DOMAIN m = DOMAIN l /\ m \in Seq(Segmentos)
  <2>1. m = [i \in 1 .. Len(l) |-> m[i]] /\ DOMAIN m = 1 .. Len(l)
    BY <1>1
  <2>2. \A i \in 1 .. Len(l) : m[i] \in Segmentos
    BY <1>1, <1>4
  <2> QED BY ONLY <1>1, <2>1, <2>2
<1>6. /\ G' = ToSet(m)
      /\ \A i \in DOMAIN l : m[i] \in G'
      /\ \A g \in G' : \E i \in DOMAIN l : m[i] = g
  BY <1>5 DEF G, ToSet
<1>7. ASSUME NEW i \in DOMAIN l, NEW j \in DOMAIN l, m[i].id = m[j].id PROVE i = j
  <2>1. l[i].id = l[j].id
    BY <1>4, <1>7
  <2>2. l[i] = l[j]
    BY <1>1, <2>1 DEF Nombres
  <2> QED BY <1>1, <2>2 DEF SinRepetir
<1>8. SinRepetir(m)
  BY <1>5, <1>7 DEF SinRepetir
<1>9. m # <<>> /\ m[1] = SEG0
  <2>1. 1 \in DOMAIN l /\ DOMAIN m # {}
    BY <1>1, <1>5
  <2>2. m[1] = [id |-> l[1].id, base |-> 0, limite |-> 0 + Tam(l[1])]
    BY <1>2, <2>1
  <2>3. l[1].id = SEGMENTO_0 /\ Tam(l[1]) = tam_segmento_0 - 0
    BY <1>1 DEF SEG0, Tam
  <2>4. m[1] = SEG0
    BY <2>2, <2>3, Constantes DEF SEG0
  <2> QED BY <2>1, <2>4
<1>10. \A g, k \in G' : g.id = k.id => g = k
  BY <1>6, <1>7
<1>11. ASSUME NEW g \in G' PROVE g.id < segmento_id_global' /\ g.base < g.limite
  <2>1. PICK i \in DOMAIN l : m[i] = g
    BY <1>6
  <2>2. m[i].id = l[i].id /\ m[i].base < m[i].limite
    BY <1>4
  <2>3. l[i].id < segmento_id_global
    BY <1>1 DEF Nombres
  <2> QED BY <2>1, <2>2, <2>3
<1>12. Nombres'
  BY <1>8, <1>9, <1>10, <1>11 DEF Nombres
<1>13. /\ hueco \in Huecos /\ hueco.base = total /\ hueco.limite = tam_memoria
       /\ Tam(hueco) = tam_memoria - total
  <2> DEFINE c == tam_memoria
  <2>1. total \in Int /\ c \in Int /\ 0 <= total /\ total <= c /\ c <= tam_memoria
        /\ hueco = [base |-> total, limite |-> c]
    BY <1>2, <1>3
  <2> HIDE DEF c
  <2>2. hueco \in Huecos /\ hueco.base = total /\ hueco.limite = c /\ Tam(hueco) = c - total
    BY ONLY <2>1, UnHueco
  <2> QED BY <2>2 DEF c
<1> DEFINE ms == <<hueco>>
<1>14. ms \in Seq(Huecos) /\ ToSet(ms) = {hueco} /\ H' = {hueco} /\ SinRepetir(ms)
  <2>1. DOMAIN ms = {1} /\ ms[1] = hueco
    OBVIOUS
  <2>2. ms \in Seq(Huecos)
    BY ONLY <1>13
  <2> HIDE DEF ms
  <2>3. ToSet(ms) = {hueco} /\ SinRepetir(ms)
    BY <2>1 DEF ToSet, SinRepetir
  <2> QED BY <2>2, <2>3 DEF H, ms
<1>15. Formas'
  BY <1>3, <1>11, <1>13, <1>14 DEF Formas
<1>16. TipoListas'
  BY <1>5, <1>14 DEF TipoListas
<1>17. \A g, k \in G' : g # k => Aparte(g, k)
  <2> SUFFICES ASSUME NEW g \in G', NEW k \in G', g # k PROVE Aparte(g, k)
    OBVIOUS
  <2>1. PICK i \in DOMAIN l, j \in DOMAIN l : g = m[i] /\ k = m[j]
    BY <1>6
  <2>2. i < j \/ j < i
    BY <1>1, <2>1
  <2> QED BY <1>2, <1>4, <2>1, <2>2 DEF Aparte
<1>18. \A g \in G' : Aparte(hueco, g)
  BY <1>2, <1>4, <1>6, <1>13 DEF Aparte
<1>19. ASSUME NEW d \in 0 .. tam_memoria - 1 PROVE \E x \in H' \cup G' : d \in Direcciones(x)
  <2>1. d \in Nat /\ d < tam_memoria
    BY <1>3
  <2>2. CASE d < total
    <3>1. PICK i \in DOMAIN l : Destino(l, i) <= d /\ d < Destino(l, i) + Tam(l[i])
      BY <1>2, <2>1, <2>2
    <3>2. d \in Direcciones(m[i])
      BY <1>4, <2>1, <3>1 DEF Direcciones
    <3> QED BY <1>6, <3>2
  <2>3. CASE total <= d
    <3>1. d \in Direcciones(hueco)
      BY <1>2, <1>3, <1>13, <2>1, <2>3 DEF Direcciones
    <3> QED BY <1>14, <3>1
  <2> QED BY <1>2, <2>1, <2>2, <2>3
<1>20. Partida(H', G')
  BY <1>14, <1>17, <1>18, <1>19 DEF Partida
<1>21. SumaTam(m) = total
  <2>1. [i \in DOMAIN m |-> Tam(m[i])] = [i \in DOMAIN l |-> Tam(l[i])]
    BY <1>4, <1>5
  <2> QED BY <2>1 DEF SumaTam
<1>22. SumaTam(ms) = Tam(hueco)
  <2>1. SumaTam(<<>>) = 0
    <3>1. SumaTam(<<>>) = SumFunctionOnSet([i \in DOMAIN <<>> |-> Tam(<<>>[i])], {})
      BY DEF SumaTam, SumFunction
    <3> QED BY <3>1, SumaVacia
  <2>2. <<>> \in Seq(Huecos) /\ SinRepetir(<<>>) /\ ToSet(<<>>) = {}
    BY DEF SinRepetir, ToSet
  <2> DEFINE n == <<>>
  <2>3. n \in Seq(Huecos) /\ SinRepetir(n) /\ hueco \in ToSet(ms) /\ ToSet(n) = ToSet(ms) \ {hueco}
    BY <1>14, <2>2
  <2> HIDE DEF n, ms
  <2>4. SumaTam(ms) = SumaTam(n) + Tam(hueco) /\ SumaTam(n) \in Int
    BY ONLY <1>14, <2>3, SumaHuecosSin
  <2>5. Tam(hueco) \in Int
    BY <1>2, <1>3, <1>13
  <2> QED BY <2>1, <2>4, <2>5 DEF n
<1>23. Sanas(ms, m)
  <2>1. SumaTam(ms) + SumaTam(m) = tam_memoria
    BY <1>2, <1>3, <1>13, <1>21, <1>22
  <2>2. Partida(ToSet(ms), ToSet(m))
    BY <1>6, <1>14, <1>20
  <2> HIDE DEF ms
  <2> QED BY <1>14, <2>1, <2>2 DEF Sanas
<1> QED BY <1>2, <1>4, <1>5, <1>12, <1>13, <1>14, <1>15, <1>16, <1>23

\* Every entry keeps the size of its range, and no two ranges overlap.
LEMMA MapaCompacta ==
  ASSUME Inv, TipoListas', Formas', Nombres', EnTablas', UNCHANGED <<tablas, proceso>>,
         \A g \in G : \E k \in G' : k.id = g.id /\ Tam(k) = Tam(g),
         \A g, k \in G' : g # k => Aparte(g, k)
  PROVE  DeAsignador
<1> DEFINE l == lista_segmentos_actuales
           m == lista_segmentos_actuales'
<1>1. /\ TipoListas /\ Nombres /\ EnTablas /\ Formas
      /\ l \in Seq(Segmentos) /\ Nombrada(l) /\ G = ToSet(l) /\ G \subseteq Segmentos
      /\ m \in Seq(Segmentos) /\ Nombrada(m) /\ G' = ToSet(m) /\ G' \subseteq Segmentos
      /\ \A g \in G : g.base < g.limite
      /\ \A g \in G' : g.base < g.limite
  BY Tipos, DeLista DEF Inv, TipoListas, Nombres, Nombrada, G, Formas
<1>2. SEG0 \in G /\ SEG0 \in G'
  <2>1. 1 \in DOMAIN m /\ m[1] = SEG0
    BY <1>1 DEF Nombres
  <2> QED BY <1>1, <2>1, Nombra DEF ToSet
<1>3. \A p \in Pids : Mapa'[p][0] = Mapa[p][0]
  <2> SUFFICES ASSUME NEW p \in Pids PROVE Mapa'[p][0] = Mapa[p][0]
    OBVIOUS
  <2>1. tablas[p][0] = VACIO \/ SEG0.id = tablas[p][0]
    BY <1>1 DEF EnTablas, SEG0
  <2> QED BY <1>1, <1>2, <2>1, MapaSigue, Constantes
<1> HIDE DEF l, m
<1>4. ASSUME NEW p \in Pids, NEW s \in Sids, tablas[p][s] # VACIO
      PROVE  \E g \in G, k \in G' :
               /\ k.id = tablas[p][s] /\ Tam(k) = Tam(g)
               /\ Mapa[p][s] = [base |-> g.base, limite |-> g.limite]
               /\ Mapa'[p][s] = [base |-> k.base, limite |-> k.limite]
  <2>1. PICK g \in G : g.id = tablas[p][s]
    BY <1>1, <1>4, Nombra
  <2>2. PICK k \in G' : k.id = g.id /\ Tam(k) = Tam(g)
    OBVIOUS
  <2>3. RangoEn(l, g.id) = [base |-> g.base, limite |-> g.limite]
    BY <1>1, RangoEs
  <2>4. RangoEn(m, k.id) = [base |-> k.base, limite |-> k.limite]
    BY <1>1, RangoEs
  <2>5. Mapa[p][s] = RangoEn(l, g.id) /\ Mapa'[p][s] = RangoEn(m, k.id)
    BY <1>4, <2>1, <2>2, MapaEn DEF l, m
  <2> QED BY <2>1, <2>2, <2>3, <2>4, <2>5
<1>5. ASSUME NEW p \in Pids, NEW s \in Sids, tablas[p][s] = VACIO
      PROVE  Mapa[p][s] = A!NADA /\ Mapa'[p][s] = A!NADA
  BY <1>5, MapaEn
<1>6. \A g \in Segmentos : /\ g.base \in 0 .. tam_memoria /\ g.limite \in 0 .. tam_memoria
                           /\ g.base \in Int /\ g.limite \in Int
  BY Constantes DEF Segmentos
<1>7. ASSUME NEW p \in Pids, NEW s \in Sids
      PROVE  /\ Mapa'[p][s] \in A!Rangos
             /\ Mapa'[p][s] = A!NADA <=> Mapa[p][s] = A!NADA
             /\ A!Tam(Mapa'[p][s]) = A!Tam(Mapa[p][s])
  <2>1. CASE tablas[p][s] = VACIO
    BY <1>5, <2>1, Constantes DEF A!NADA, A!Rangos, A!Tam
  <2>2. CASE tablas[p][s] # VACIO
    <3>1. PICK g \in G, k \in G' :
            /\ Tam(k) = Tam(g)
            /\ Mapa[p][s] = [base |-> g.base, limite |-> g.limite]
            /\ Mapa'[p][s] = [base |-> k.base, limite |-> k.limite]
      BY <1>4, <2>2
    <3>2. /\ g.base < g.limite /\ k.base < k.limite
          /\ k.base \in 0 .. tam_memoria /\ k.limite \in 0 .. tam_memoria
          /\ k.base \in Int /\ k.limite \in Int /\ g.base \in Int /\ g.limite \in Int
      BY <1>1, <1>6
    <3> QED BY <3>1, <3>2 DEF A!NADA, A!Rangos, A!Tam, Tam
  <2> QED BY <2>1, <2>2
<1>8. Mapa' \in [Pids -> [Sids -> A!Rangos]]
  <2>1. \A f, c :
          (\A q \in Pids, t \in Sids : MapaDe(f, c)[q][t] \in A!Rangos)
          => MapaDe(f, c) \in [Pids -> [Sids -> A!Rangos]]
    BY DEF MapaDe
  <2> QED BY <1>7, <2>1, MapaEs
<1>9. ASSUME NEW p \in Pids, NEW s \in Privadas
      PROVE  A!Separados(Mapa'[p][s], A!SEGMENTO_0)
  <2>1. s \in Sids
    BY DEF Privadas
  <2>2. CASE tablas[p][s] = VACIO
    BY <1>5, <2>1, <2>2 DEF A!NADA, A!Separados
  <2>3. CASE tablas[p][s] # VACIO
    <3>1. PICK k \in G' :
            k.id = tablas[p][s] /\ Mapa'[p][s] = [base |-> k.base, limite |-> k.limite]
      BY <1>4, <2>1, <2>3
    <3>2. k # SEG0
      BY <1>1, <2>3, <3>1 DEF EnTablas, SEG0
    <3>3. Aparte(k, SEG0)
      BY <1>2, <3>2
    <3> QED BY <3>1, <3>3 DEF A!Separados, A!SEGMENTO_0, Aparte, SEG0
  <2> QED BY <2>2, <2>3
<1>10. ASSUME NEW p \in Pids, NEW s \in Privadas, NEW q \in Pids, NEW t \in Privadas,
              ~(p = q /\ s = t)
       PROVE  A!Separados(Mapa'[p][s], Mapa'[q][t])
  <2>1. s \in Sids /\ t \in Sids
    BY DEF Privadas
  <2>2. CASE tablas[p][s] = VACIO
    BY <1>5, <2>1, <2>2 DEF A!NADA, A!Separados
  <2>3. CASE tablas[q][t] = VACIO
    BY <1>5, <2>1, <2>3 DEF A!NADA, A!Separados
  <2>4. CASE tablas[p][s] # VACIO /\ tablas[q][t] # VACIO
    <3>1. PICK g \in G' :
            g.id = tablas[p][s] /\ Mapa'[p][s] = [base |-> g.base, limite |-> g.limite]
      BY <1>4, <2>1, <2>4
    <3>2. PICK k \in G' :
            k.id = tablas[q][t] /\ Mapa'[q][t] = [base |-> k.base, limite |-> k.limite]
      BY <1>4, <2>1, <2>4
    <3>3. tablas[p][s] # tablas[q][t]
      BY <1>1, <1>10, <2>4 DEF EnTablas
    <3>4. Aparte(g, k)
      BY <3>1, <3>2, <3>3
    <3> QED BY <3>1, <3>2, <3>4 DEF A!Separados, Aparte
  <2> QED BY <2>2, <2>3, <2>4
<1>11. A!Separadas(Mapa')
  <2>1. \A p \in Pids, s \in Privadas, q \in Pids, t \in Privadas :
          <<p, s>> # <<q, t>> => A!Separados(Mapa'[p][s], Mapa'[q][t])
    BY <1>10
  <2>2. A!Privadas = Privadas
    BY DEF A!Privadas, Privadas
  <2> QED BY <1>9, <2>1, <2>2 DEF A!Separadas
<1>12. ConTabla' = ConTabla
  BY DEF ConTabla
<1>13. CASE Mapa' = Mapa
  BY <1>12, <1>13, AIgual DEF DeAsignador
<1>14. CASE Mapa' # Mapa
  <2>1. A!Next
    BY <1>3, <1>7, <1>8, <1>11, <1>12, <1>14, ACompactar
  <2> QED BY <2>1 DEF DeAsignador
<1> QED BY <1>13, <1>14

LEMMA Compactada == ASSUME Inv, compactar_memoria PROVE Inv' /\ DeAsignador
<1> DEFINE l == lista_segmentos_actuales
           total == SumaTam(l)
           m == [i \in DOMAIN l |-> [id |-> l[i].id, base |-> Destino(l, i),
                                     limite |-> Destino(l, i) + Tam(l[i])]]
           hueco == [base |-> total, limite |-> tam_memoria]
<1>1. CASE total > tam_memoria
  <2>1. Caer
    BY <1>1 DEF compactar_memoria
  <2> QED BY <2>1, Caida
<1>2. CASE ~(total > tam_memoria)
  <2>1. /\ kernel = "compactar" /\ kernel' = "reintentar" /\ sana' = TRUE
        /\ lista_segmentos_actuales' = m /\ huecos_libres' = <<hueco>>
        /\ UNCHANGED <<segmento_id_global, pedido, vivo>>
        /\ UNCHANGED <<tablas, cant_actuales, proceso>>
    BY <1>2 DEF compactar_memoria, vTablas
  <2>2. TipoListas /\ TipoTablas /\ TipoKernel /\ Formas /\ Nombres /\ EnTablas /\ Pedido
    BY Tipos DEF Inv
  <2>3. /\ l = lista_segmentos_actuales /\ total = SumaTam(l)
        /\ hueco = [base |-> total, limite |-> tam_memoria]
        /\ m = [i \in DOMAIN l |-> [id |-> l[i].id, base |-> Destino(l, i),
                                    limite |-> Destino(l, i) + Tam(l[i])]]
    OBVIOUS
  <2> HIDE DEF l, total, m, hueco
  <2>4. total <= tam_memoria
    <3>1. l \in Seq(Segmentos) /\ SinRepetir(l)
      BY <2>2, <2>3 DEF TipoListas, Nombres
    <3>2. total \in Int
      BY <2>3, <3>1, HuecosEnteros, SumaTamEs
    <3> QED BY <1>2, <3>2, Constantes
  <2>5. /\ TipoListas' /\ Formas' /\ Nombres'
        /\ Sanas(huecos_libres', lista_segmentos_actuales')
        /\ DOMAIN m = DOMAIN l /\ \A i \in DOMAIN l : m[i].id = l[i].id /\ Tam(m[i]) = Tam(l[i])
        /\ hueco \in H' /\ Tam(hueco) = tam_memoria - total /\ total \in Nat
    BY <2>1, <2>2, <2>3, <2>4, ListasCompactas
  <2>6. /\ \A g \in G : \E k \in G' : k.id = g.id /\ Tam(k) = Tam(g)
        /\ \A k \in G' : \E g \in G : k.id = g.id
    <3>1. /\ G = ToSet(l) /\ G' = ToSet(m) /\ DOMAIN m = DOMAIN l
          /\ \A i \in DOMAIN l : m[i].id = l[i].id /\ Tam(m[i]) = Tam(l[i])
      BY <2>1, <2>3, <2>5 DEF G
    <3> QED BY ONLY <3>1 DEF ToSet
  <2>7. EnTablas'
    <3>1. ConTabla' = ConTabla /\ \A p \in Pids : Usadas(p)' = Usadas(p)
      BY <2>1 DEF ConTabla, Usadas
    <3>2. ASSUME NEW p \in Pids, NEW s \in Privadas, tablas[p][s] # VACIO
          PROVE  /\ p \in ConTabla /\ tablas[p][s] # SEGMENTO_0
                 /\ \E k \in G' : k.id = tablas[p][s]
                 /\ \A q \in Pids, t \in Privadas : tablas[q][t] = tablas[p][s] => p = q /\ s = t
      BY <2>2, <2>6, <3>2 DEF EnTablas
    <3>3. ASSUME NEW k \in G', k.id # SEGMENTO_0
          PROVE  \E p \in Pids, s \in Privadas : tablas[p][s] = k.id
      BY <2>2, <2>6, <3>3 DEF EnTablas
    <3>4. /\ \A p \in Pids : tablas[p][0] = IF p \in ConTabla THEN SEGMENTO_0 ELSE VACIO
          /\ \A p \in Pids : cant_actuales[p] = Cardinality(Usadas(p))
      BY <2>2 DEF EnTablas
    <3> QED BY <2>1, <3>1, <3>2, <3>3, <3>4 DEF EnTablas
  <2>8. TipoTablas' /\ TipoKernel'
    BY <2>1, <2>2 DEF TipoTablas, TipoKernel
  <2>9. Pedido'
    BY <2>1, <2>2 DEF Pedido
  <2>10. ReintentoCabe'
    <3> SUFFICES ASSUME pedido.sana
                 PROVE  \E i \in DOMAIN huecos_libres' : Tam(huecos_libres'[i]) >= pedido.tam
      BY <2>1 DEF ReintentoCabe
    <3>1. total + pedido.tam <= tam_memoria /\ pedido.tam \in Nat
      BY <2>1, <2>2, <2>3 DEF Pedido, TipoKernel
    <3>2. Tam(hueco) >= pedido.tam
      BY <2>5, <3>1, Constantes
    <3>3. \E i \in DOMAIN huecos_libres' : huecos_libres'[i] = hueco
      BY <2>5 DEF H, ToSet
    <3> QED BY <3>2, <3>3
  <2>11. DeAsignador
    <3>1. \A g, k \in G' : g # k => Aparte(g, k)
      BY <2>5 DEF Sanas, Partida, G
    <3> QED BY <2>1, <2>5, <2>6, <2>7, <3>1, MapaCompacta
  <2> QED BY <2>5, <2>7, <2>8, <2>9, <2>10, <2>11, Tipos DEF Inv
<1> QED BY <1>1, <1>2

-----------------------------------------------------------------------------
(* The life of a table.                                                    *)

\* Nothing happens to the lists, nor to what the kernel waits for.
LEMMA ListasQuietas ==
  ASSUME Inv, UNCHANGED <<vListas, sana, vivo>>, UNCHANGED vKernel
  PROVE  TipoListas' /\ TipoKernel' /\ Formas' /\ Nombres' /\ ReintentoCabe'
         /\ (sana => Sanas(huecos_libres, lista_segmentos_actuales))'
<1>1. UNCHANGED <<huecos_libres, lista_segmentos_actuales, segmento_id_global, sana, vivo,
                  kernel, pedido>>
  BY DEF vListas, vKernel
<1>2. H' = H /\ G' = G
  BY <1>1 DEF H, G
<1>3. TipoListas' /\ TipoKernel'
  BY <1>1, Tipos DEF Inv, TipoListas, TipoKernel
<1>4. Formas' /\ Nombres' /\ ReintentoCabe'
  BY <1>1, <1>2 DEF Inv, Formas, Nombres, ReintentoCabe
<1>5. (sana => Sanas(huecos_libres, lista_segmentos_actuales))'
  BY <1>1 DEF Inv
<1> QED BY <1>3, <1>4, <1>5

\* A table gets or loses the entry of segment 0, and has no other.
LEMMA TablaDe ==
  ASSUME Inv, UNCHANGED vListas, NEW p \in Pids, SlotsOcupados(p) = {},
         NEW x \in {SEGMENTO_0, VACIO}, NEW n, n = IF x = VACIO THEN 0 ELSE 1,
         tablas' = [tablas EXCEPT ![p][0] = x], cant_actuales' = [cant_actuales EXCEPT ![p] = n],
         proceso' \in [Pids -> {"nuevo", "activo", "fin", "borrado"}],
         \A q \in Pids : q \in ConTabla' <=> IF q = p THEN x = SEGMENTO_0 ELSE q \in ConTabla
  PROVE  EnTablas' /\ TipoTablas'
<1>1. /\ TipoTablas /\ EnTablas /\ TipoListas /\ G' = G
      /\ segmento_id_global' = segmento_id_global
  BY Tipos DEF Inv, vListas, G
<1>2. /\ 0 \in Sids /\ VACIO # SEGMENTO_0 /\ VACIO = -1 /\ SEGMENTO_0 = 0
      /\ cant_segmentos \in Nat \ {0} /\ segmento_id_global \in Nat \ {0}
  BY <1>1, Constantes DEF VACIO, SEGMENTO_0, TipoListas
<1>3. \A q \in Pids, t \in Sids :
        tablas'[q][t] = IF q = p /\ t = 0 THEN x ELSE tablas[q][t]
  BY <1>1, <1>2 DEF TipoTablas
<1>4. \A t \in Privadas : t \in Sids /\ t # 0 /\ tablas[p][t] = VACIO
  BY <1>1 DEF SlotsOcupados, EnTablas, Privadas
<1>5. UsadasDe(tablas'[p]) = IF x = VACIO THEN {} ELSE {0}
  <2>1. \A t \in Sids : tablas'[p][t] = IF t = 0 THEN x ELSE VACIO
    BY <1>3, <1>4 DEF Privadas
  <2> QED BY <1>2, <2>1 DEF UsadasDe
<1>6. Cardinality(UsadasDe(tablas'[p])) = n
  BY <1>5, FS_EmptySet, FS_Singleton
<1>7. \A q \in Pids : Usadas(q)' = UsadasDe(tablas'[q]) /\ Usadas(q) = UsadasDe(tablas[q])
  BY DEF Usadas, UsadasDe
<1>8. \A q \in Pids : cant_actuales'[q] = Cardinality(Usadas(q)')
  <2>1. ASSUME NEW q \in Pids, q # p PROVE cant_actuales'[q] = Cardinality(Usadas(q)')
    <3>1. tablas'[q] = tablas[q] /\ cant_actuales'[q] = cant_actuales[q]
      BY <1>1, <2>1 DEF TipoTablas
    <3> QED BY <1>1, <1>7, <3>1 DEF EnTablas
  <2>2. cant_actuales'[p] = Cardinality(Usadas(p)')
    BY <1>1, <1>6, <1>7 DEF TipoTablas
  <2> QED BY <2>1, <2>2
<1>9. \A q \in Pids, t \in Privadas : tablas'[q][t] = tablas[q][t]
  BY <1>3 DEF Privadas
<1>10. EnTablas'
  <2>1. \A q \in Pids : tablas'[q][0] = IF q \in ConTabla' THEN SEGMENTO_0 ELSE VACIO
    BY <1>1, <1>2, <1>3 DEF EnTablas
  <2>2. \A q \in Pids, s \in Privadas :
          tablas'[q][s] # VACIO =>
            /\ q \in ConTabla' /\ tablas'[q][s] # SEGMENTO_0
            /\ \E g \in G' : g.id = tablas'[q][s]
            /\ \A k \in Pids, t \in Privadas : tablas'[k][t] = tablas'[q][s] => q = k /\ s = t
    BY <1>1, <1>4, <1>9 DEF EnTablas
  <2>3. \A g \in G' : g.id # SEGMENTO_0 => \E q \in Pids, s \in Privadas : tablas'[q][s] = g.id
    BY <1>1, <1>9 DEF EnTablas
  <2> QED BY <1>8, <2>1, <2>2, <2>3 DEF EnTablas
<1>11. TipoTablas'
  <2>1. n \in 0 .. cant_segmentos /\ x \in {VACIO} \cup 0 .. segmento_id_global - 1
    BY <1>2
  <2> QED BY <1>1, <2>1 DEF TipoTablas
<1> QED BY <1>10, <1>11

\* The ranges of a table that gets or loses the entry of segment 0.
LEMMA MapaDeTabla ==
  ASSUME Inv, UNCHANGED vListas, NEW p \in Pids, NEW x,
         tablas' = [tablas EXCEPT ![p][0] = x]
  PROVE  /\ Mapa' = [Mapa EXCEPT ![p][0] = Mapa'[p][0]]
         /\ x = SEGMENTO_0 => Mapa'[p][0] = A!SEGMENTO_0
         /\ x = VACIO => Mapa'[p][0] = A!NADA
<1>1. TipoTablas /\ TipoListas /\ Nombres /\ EnTablas /\ 0 \in Sids
  BY Tipos, Constantes DEF Inv
<1>2. lista_segmentos_actuales' = lista_segmentos_actuales
  BY DEF vListas
<1>3. \A q \in Pids, t \in Sids :
        tablas'[q][t] = IF q = p /\ t = 0 THEN x ELSE tablas[q][t]
  BY <1>1 DEF TipoTablas
<1>4. \A q \in Pids, t \in Sids :
        Mapa'[q][t] = IF q = p /\ t = 0 THEN Mapa'[p][0] ELSE Mapa[q][t]
  BY <1>2, <1>3, MapaEn
<1> DEFINE r == Mapa'[p][0]
<1>5. \A q \in Pids, t \in Sids : Mapa'[q][t] = IF q = p /\ t = 0 THEN r ELSE Mapa[q][t]
  BY <1>4
<1>6. tablas'[p][0] = x
  BY <1>1, <1>3
<1>7. ASSUME x = VACIO PROVE r = A!NADA
  BY <1>1, <1>6, <1>7, MapaEn
<1>8. ASSUME x = SEGMENTO_0 PROVE r = A!SEGMENTO_0
  <2> DEFINE l == lista_segmentos_actuales
  <2>1. l \in Seq(Segmentos) /\ Nombrada(l) /\ SEG0 \in ToSet(l)
    BY <1>1, Nombra DEF G
  <2> HIDE DEF l
  <2>2. RangoEn(l, SEG0.id) = [base |-> SEG0.base, limite |-> SEG0.limite]
    BY <2>1, RangoEs
  <2>3. SEG0.id = SEGMENTO_0 /\ SEG0.base = 0 /\ SEG0.limite = tam_segmento_0
    BY DEF SEG0
  <2>4. SEGMENTO_0 # VACIO
    BY DEF SEGMENTO_0, VACIO
  <2>5. r = RangoEn(l, SEGMENTO_0)
    BY <1>1, <1>2, <1>6, <1>8, <2>4, MapaEn DEF l
  <2> QED BY <2>2, <2>3, <2>5 DEF A!SEGMENTO_0
<1> HIDE DEF r
<1>9. Mapa' = [Mapa EXCEPT ![p][0] = r]
  BY <1>1, <1>5, MapaCambia
<1> QED BY <1>7, <1>8, <1>9 DEF r

\* A program that is not the one whose creation waits changes its state.
LEMMA PedidoSigue ==
  ASSUME Inv, UNCHANGED vListas, UNCHANGED vKernel,
         NEW p \in Pids, proceso[p] # "activo",
         \A q \in Pids : q # p => proceso'[q] = proceso[q] /\ tablas'[q] = tablas[q]
  PROVE  Pedido'
<1>1. UNCHANGED <<lista_segmentos_actuales, kernel, pedido>>
  BY DEF vListas, vKernel
<1>2. kernel # "libre" => pedido.pid # p
  BY DEF Inv, Pedido
<1> QED BY <1>1, <1>2 DEF Inv, Pedido

LEMMA Iniciado ==
  ASSUME Inv, NEW p \in Pids, inicializar_estructuras_pcb(p)
  PROVE  Inv' /\ DeAsignador
<1>1. /\ proceso[p] = "nuevo" /\ proceso' = [proceso EXCEPT ![p] = "activo"]
      /\ tablas' = [tablas EXCEPT ![p][0] = SEGMENTO_0]
      /\ cant_actuales' = [cant_actuales EXCEPT ![p] = 1]
      /\ UNCHANGED vListas /\ UNCHANGED vKernel /\ UNCHANGED <<sana, vivo>>
  BY DEF inicializar_estructuras_pcb
<1>2. TipoTablas /\ EnTablas
  BY Tipos DEF Inv
<1>3. SlotsOcupados(p) = {}
  BY <1>1, <1>2, EntradaPrivada DEF ConTabla
<1>4. /\ proceso' \in [Pids -> {"nuevo", "activo", "fin", "borrado"}]
      /\ \A q \in Pids : proceso'[q] = IF q = p THEN "activo" ELSE proceso[q]
      /\ \A q \in Pids : q # p => tablas'[q] = tablas[q]
  BY <1>1, <1>2 DEF TipoTablas
<1>5. p \notin ConTabla /\ ConTabla' = ConTabla \cup {p}
  BY <1>1, <1>4 DEF ConTabla
<1>6. \A q \in Pids : q \in ConTabla' <=> IF q = p THEN SEGMENTO_0 = SEGMENTO_0 ELSE q \in ConTabla
  BY <1>5
<1>7. SEGMENTO_0 \in {SEGMENTO_0, VACIO} /\ 1 = IF SEGMENTO_0 = VACIO THEN 0 ELSE 1
  BY DEF SEGMENTO_0, VACIO
<1>8. EnTablas' /\ TipoTablas'
  BY <1>1, <1>3, <1>4, <1>6, <1>7, TablaDe
<1>9. /\ TipoListas' /\ TipoKernel' /\ Formas' /\ Nombres' /\ ReintentoCabe'
      /\ (sana => Sanas(huecos_libres, lista_segmentos_actuales))'
  BY <1>1, ListasQuietas
<1>10. Pedido'
  BY <1>1, <1>4, PedidoSigue
<1>11. Mapa' = [Mapa EXCEPT ![p][0] = A!SEGMENTO_0]
  BY <1>1, MapaDeTabla
<1>12. UNCHANGED A!vars \/ A!Next
  <2>1. 0 \in Sids /\ tablas[p][0] = VACIO /\ tablas'[p][0] = SEGMENTO_0
    BY <1>1, <1>2, <1>5, Constantes DEF EnTablas, TipoTablas
  <2>2. Mapa[p][0] = A!NADA
    BY <2>1, MapaEn
  <2>3. Mapa'[p][0] = A!SEGMENTO_0
    BY <1>1, MapaDeTabla
  <2>4. A!NADA # A!SEGMENTO_0
    BY Constantes DEF A!NADA, A!SEGMENTO_0
  <2>5. Mapa' # Mapa
    BY <2>2, <2>3, <2>4
  <2> QED BY <1>5, <1>11, <2>5, AIniciar
<1> QED BY <1>8, <1>9, <1>10, <1>12, Tipos DEF Inv, DeAsignador

LEMMA Terminado ==
  ASSUME Inv, NEW p \in Pids, terminar(p)
  PROVE  Inv' /\ DeAsignador
<1>1. /\ kernel = "libre" /\ proceso[p] = "activo" /\ proceso' = [proceso EXCEPT ![p] = "fin"]
      /\ UNCHANGED vListas /\ UNCHANGED vKernel /\ UNCHANGED <<tablas, cant_actuales, sana, vivo>>
  BY DEF terminar
<1>2. /\ ConTabla' = ConTabla
      /\ proceso' \in [Pids -> {"nuevo", "activo", "fin", "borrado"}]
  BY <1>1, Tipos DEF ConTabla, Inv, TipoTablas
<1>3. UNCHANGED <<lista_segmentos_actuales, segmento_id_global, kernel, pedido>>
  BY <1>1 DEF vListas, vKernel
<1>4. EnTablas' /\ TipoTablas' /\ DeAsignador
  BY <1>1, <1>2, <1>3, EntradasQuietas
<1>5. /\ TipoListas' /\ TipoKernel' /\ Formas' /\ Nombres' /\ ReintentoCabe'
      /\ (sana => Sanas(huecos_libres, lista_segmentos_actuales))'
  BY <1>1, ListasQuietas
<1>6. Pedido'
  BY <1>1, <1>3 DEF Inv, Pedido
<1> QED BY <1>4, <1>5, <1>6, Tipos DEF Inv

\* The last step of fin_proceso: the entry of segment 0, and the table.
LEMMA SinTabla ==
  ASSUME Inv, NEW p \in Pids, proceso[p] = "fin", SlotsOcupados(p) = {},
         UNCHANGED vKernel, UNCHANGED vListas, UNCHANGED <<sana, vivo>>,
         proceso' = [proceso EXCEPT ![p] = "borrado"],
         tablas' = [tablas EXCEPT ![p][0] = VACIO],
         cant_actuales' = [cant_actuales EXCEPT ![p] = 0]
  PROVE  Inv' /\ DeAsignador
<1>1. TipoTablas /\ EnTablas /\ TipoListas /\ Nombres
  BY Tipos DEF Inv
<1>2. /\ proceso' \in [Pids -> {"nuevo", "activo", "fin", "borrado"}]
      /\ \A q \in Pids : proceso'[q] = IF q = p THEN "borrado" ELSE proceso[q]
      /\ \A q \in Pids : q # p => tablas'[q] = tablas[q]
  BY <1>1 DEF TipoTablas
<1>3. p \in ConTabla /\ ConTabla' = ConTabla \ {p}
  BY <1>2 DEF ConTabla
<1>4. VACIO # SEGMENTO_0
  BY DEF SEGMENTO_0, VACIO
<1>5. \A q \in Pids : q \in ConTabla' <=> IF q = p THEN VACIO = SEGMENTO_0 ELSE q \in ConTabla
  BY <1>3, <1>4
<1>6. VACIO \in {SEGMENTO_0, VACIO} /\ 0 = IF VACIO = VACIO THEN 0 ELSE 1
  OBVIOUS
<1>7. EnTablas' /\ TipoTablas'
  BY <1>2, <1>5, <1>6, TablaDe
<1>8. /\ TipoListas' /\ TipoKernel' /\ Formas' /\ Nombres' /\ ReintentoCabe'
      /\ (sana => Sanas(huecos_libres, lista_segmentos_actuales))'
  BY ListasQuietas
<1>9. Pedido'
  BY <1>2, PedidoSigue
<1>10. UNCHANGED A!vars \/ A!Next
  <2>1. /\ 0 \in Sids /\ tablas[p][0] = SEGMENTO_0
        /\ \A t \in Sids : t # 0 => tablas[p][t] = VACIO
    BY <1>1, <1>3, Constantes DEF EnTablas, SlotsOcupados, Privadas
  <2>2. Mapa' = [Mapa EXCEPT ![p][0] = A!NADA] /\ Mapa'[p][0] = A!NADA
    BY MapaDeTabla
  <2>3. \A t \in Sids : t # 0 => Mapa[p][t] = A!NADA
    BY <2>1, MapaEn
  <2>4. PICK Q : Mapa \in [Pids -> [Sids -> Q]] /\ Mapa' \in [Pids -> [Sids -> Q]]
    BY MapaTipo
  <2>5. Mapa' = [Mapa EXCEPT ![p] = [s \in Sids |-> A!NADA]]
    <3> DEFINE M == Mapa
               N == Mapa'
    <3>1. M \in [Pids -> [Sids -> Q]] /\ N = [M EXCEPT ![p][0] = A!NADA]
          /\ \A t \in Sids : t # 0 => M[p][t] = A!NADA
      BY <2>2, <2>3, <2>4
    <3> HIDE DEF M, N
    <3>2. [M[p] EXCEPT ![0] = A!NADA] = [s \in Sids |-> A!NADA]
      BY <3>1
    <3>3. N = [M EXCEPT ![p] = [s \in Sids |-> A!NADA]]
      BY <3>1, <3>2
    <3> QED BY <3>3 DEF M, N
  <2>6. Mapa' # Mapa
    <3> DEFINE l == lista_segmentos_actuales
    <3>1. l \in Seq(Segmentos) /\ Nombrada(l) /\ SEG0 \in ToSet(l)
      BY <1>1, Nombra DEF G
    <3> HIDE DEF l
    <3>2. RangoEn(l, SEG0.id) = [base |-> SEG0.base, limite |-> SEG0.limite]
      BY <3>1, RangoEs
    <3>3. SEG0.id = SEGMENTO_0 /\ SEG0.base = 0 /\ SEG0.limite = tam_segmento_0
      BY DEF SEG0
    <3>4. Mapa[p][0] = RangoEn(l, SEGMENTO_0)
      BY <1>4, <2>1, MapaEn DEF l
    <3>5. [base |-> 0, limite |-> tam_segmento_0] # A!NADA
      BY Constantes DEF A!NADA
    <3> QED BY <2>2, <3>2, <3>3, <3>4, <3>5
  <2> QED BY <1>3, <2>5, <2>6, ATerminar
<1> QED BY <1>7, <1>8, <1>9, <1>10, Tipos DEF Inv, DeAsignador

LEMMA Borrada ==
  ASSUME Inv, NEW p \in Pids, fin_proceso(p)
  PROVE  Inv' /\ DeAsignador
<1>1. proceso[p] = "fin" /\ UNCHANGED vKernel
  BY DEF fin_proceso
<1>2. CASE SlotsOcupados(p) # {}
  <2> DEFINE S == SlotsOcupados(p)
  <2>1. eliminar_segmento(p, Min(S)) /\ UNCHANGED proceso
    BY <1>2 DEF fin_proceso
  <2>2. IsFiniteSet(Sids) /\ S \in SUBSET Sids /\ Sids \in SUBSET Int /\ S # {}
    <3>1. IsFiniteSet(Sids) /\ Sids \in SUBSET Int
      BY Constantes, FS_Interval
    <3>2. S \in SUBSET Sids
      BY DEF SlotsOcupados
    <3> QED BY <1>2, <3>1, <3>2
  <2> HIDE DEF S
  <2>3. IsFiniteSet(S) /\ S \in SUBSET Int
    BY <2>2, FS_Subset
  <2>4. \E x \in S : \A y \in S : x <= y
    BY <2>2, <2>3, HayMinimo
  <2>5. Min(S) \in S
    BY <2>4 DEF Min
  <2> QED BY <1>1, <2>1, <2>5, Eliminado DEF S
<1>3. CASE SlotsOcupados(p) = {}
  BY <1>1, <1>3, SinTabla DEF fin_proceso
<1> QED BY <1>2, <1>3

-----------------------------------------------------------------------------
(* The invariant and the refinement.                                       *)

LEMMA SumaDeUno ==
  ASSUME NEW S, \A y \in S : Tam(y) \in Int, NEW x \in S
  PROVE  SumaTam(<<x>>) = Tam(x)
<1> DEFINE w == [y \in S |-> Tam(y)]
           l == <<x>>
<1>1. l \in Seq(S) /\ SinRepetir(l) /\ ToSet(l) = {x}
  BY DEF SinRepetir, ToSet
<1>2. w[x] = Tam(x) /\ w[x] \in Int
  OBVIOUS
<1> HIDE DEF l
<1>3. SumaTam(l) = SumFunctionOnSet(w, {x})
  BY <1>1, SumaTamEs
<1> HIDE DEF w
<1>4. SumFunctionOnSet(w, {x}) = w[x] + SumFunctionOnSet(w, {})
  <2>1. IsFiniteSet({x}) /\ {x} \ {x} = {} /\ \A y \in {x} : w[y] \in Int
    BY <1>2, FS_Singleton
  <2> DEFINE T == {x}
  <2>2. IsFiniteSet(T) /\ x \in T /\ T \ {x} = {} /\ \A y \in T : w[y] \in Int
    BY <2>1
  <2> HIDE DEF T
  <2>3. SumFunctionOnSet(w, T) = w[x] + SumFunctionOnSet(w, T \ {x})
    BY <2>2, SumaSacar
  <2> QED BY <2>2, <2>3 DEF T
<1>5. SumFunctionOnSet(w, {}) = 0
  BY SumaVacia
<1> QED BY <1>2, <1>3, <1>4, <1>5 DEF l

LEMMA Inicial == ASSUME Init PROVE Inv /\ A!Init
<1> USE DEF VACIO, SEGMENTO_0
<1>1. /\ huecos_libres = << [base |-> tam_segmento_0, limite |-> tam_memoria] >>
      /\ lista_segmentos_actuales = << SEG0 >>
      /\ segmento_id_global = 1
      /\ tablas = [p \in Pids |-> [s \in Sids |-> VACIO]]
      /\ cant_actuales = [p \in Pids |-> 0]
      /\ proceso = [p \in Pids |-> "nuevo"]
      /\ kernel = "libre" /\ pedido = SinPedido /\ sana = TRUE /\ vivo = TRUE
  BY DEF Init, SEG0
<1> DEFINE h0 == [base |-> tam_segmento_0, limite |-> tam_memoria]
<1>2. /\ h0 \in Huecos /\ h0.base = tam_segmento_0 /\ h0.limite = tam_memoria
      /\ Tam(h0) = tam_memoria - tam_segmento_0
      /\ SEG0 \in Segmentos /\ SEG0.base = 0 /\ SEG0.limite = tam_segmento_0 /\ SEG0.id = 0
      /\ Tam(SEG0) = tam_segmento_0
  BY Constantes DEF Huecos, Segmentos, SEG0, Tam
<1>3. huecos_libres = << h0 >>
  BY <1>1
<1> HIDE DEF h0
<1>4. /\ huecos_libres \in Seq(Huecos) /\ lista_segmentos_actuales \in Seq(Segmentos)
      /\ H = {h0} /\ G = {SEG0}
      /\ SinRepetir(huecos_libres) /\ SinRepetir(lista_segmentos_actuales)
  BY <1>1, <1>2, <1>3 DEF H, G, ToSet, SinRepetir
<1>5. TypeOK
  <2>1. TipoListas
    BY <1>1, <1>4 DEF TipoListas
  <2>2. TipoTablas
    BY <1>1, Constantes DEF TipoTablas
  <2>3. TipoKernel
    BY <1>1 DEF TipoKernel, SinPedido
  <2> QED BY <2>1, <2>2, <2>3, Tipos
<1>6. Formas
  BY <1>2, <1>4, Constantes DEF Formas
<1>7. Nombres
  BY <1>1, <1>2, <1>4 DEF Nombres
<1>8. EnTablas
  <2>1. \A p \in Pids, s \in Sids : tablas[p][s] = VACIO
    BY <1>1
  <2>2. ConTabla = {}
    BY <1>1 DEF ConTabla
  <2>3. \A p \in Pids : Usadas(p) = {} /\ cant_actuales[p] = 0
    BY <1>1, <2>1 DEF Usadas
  <2>4. \A p \in Pids : cant_actuales[p] = Cardinality(Usadas(p))
    BY <2>3, FS_EmptySet
  <2> QED BY <1>2, <1>4, <2>1, <2>2, <2>4, Constantes DEF EnTablas, Privadas
<1>9. Pedido /\ ReintentoCabe
  BY <1>1 DEF Pedido, ReintentoCabe
<1>10. Sanas(huecos_libres, lista_segmentos_actuales)
  <2>1. Partida({h0}, {SEG0})
    <3>1. Aparte(h0, SEG0)
      BY <1>2, Constantes DEF Aparte
    <3>2. \A a \in 0 .. tam_memoria - 1 : a \in Direcciones(h0) \/ a \in Direcciones(SEG0)
      BY <1>2, Constantes DEF Direcciones
    <3> QED BY <3>1, <3>2 DEF Partida
  <2>2. SumaTam(huecos_libres) = Tam(h0)
    BY <1>3, <1>2, HuecosEnteros, SumaDeUno
  <2>3. SumaTam(lista_segmentos_actuales) = Tam(SEG0)
    BY <1>1, <1>2, HuecosEnteros, SumaDeUno
  <2> QED BY <1>2, <1>4, <2>1, <2>2, <2>3, Constantes DEF Sanas, H, G
<1>11. A!Init
  BY <1>1 DEF A!Init, A!NADA
<1> QED BY <1>5, <1>6, <1>7, <1>8, <1>9, <1>10, <1>11 DEF Inv

LEMMA EntradaLibre ==
  ASSUME Inv, NEW p \in Pids, proceso[p] = "activo", NEW sid \in SlotsLibres(p)
  PROVE  sid \in Privadas /\ tablas[p][sid] = VACIO
<1>1. p \in ConTabla /\ sid \in Sids /\ tablas[p][sid] = VACIO
  BY DEF ConTabla, SlotsLibres
<1>2. tablas[p][0] = SEGMENTO_0 /\ SEGMENTO_0 # VACIO
  BY <1>1 DEF Inv, EnTablas, SEGMENTO_0, VACIO
<1> QED BY <1>1, <1>2 DEF Privadas

\* What every step keeps, and the step of Asignador that it is.
LEMMA UnPaso == ASSUME Inv, [Next]_vars PROVE Inv' /\ DeAsignador
<1>1. CASE UNCHANGED vars
  <2>1. vivo' \in BOOLEAN /\ UNCHANGED <<vListas, vTablas, vKernel, sana>>
    BY <1>1 DEF vars, Inv, TypeOK
  <2> QED BY <2>1, Quieta
<1>2. CASE Next
  <2>1. ASSUME NEW p \in Pids, inicializar_estructuras_pcb(p) PROVE Inv' /\ DeAsignador
    BY <2>1, Iniciado
  <2>2. ASSUME NEW p \in Pids, pedir_segmento(p) PROVE Inv' /\ DeAsignador
    <3>1. PICK sid \in SlotsLibres(p), tam \in Tamanios :
            crear_segmento(p, sid, tam, "compactar")
      BY <2>2 DEF pedir_segmento
    <3>2. proceso[p] = "activo"
      BY <2>2 DEF pedir_segmento
    <3>3. sid \in Privadas /\ tablas[p][sid] = VACIO
      BY <2>2, <3>2, EntradaLibre
    <3>4. "compactar" \in {"compactar", "trabado"}
      OBVIOUS
    <3> QED BY <2>2, <3>1, <3>2, <3>3, <3>4, Pedida
  <2>3. ASSUME NEW p \in Pids, borrar(p) PROVE Inv' /\ DeAsignador
    <3>1. PICK sid \in SlotsOcupados(p) : eliminar_segmento(p, sid)
      BY <2>3 DEF borrar
    <3>2. UNCHANGED <<proceso, vKernel>>
      BY <2>3 DEF borrar
    <3> QED BY <2>3, <3>1, <3>2, Eliminado
  <2>4. ASSUME NEW p \in Pids, terminar(p) PROVE Inv' /\ DeAsignador
    BY <2>4, Terminado
  <2>5. ASSUME NEW p \in Pids, fin_proceso(p) PROVE Inv' /\ DeAsignador
    BY <2>5, Borrada
  <2>6. ASSUME compactar_memoria PROVE Inv' /\ DeAsignador
    BY <2>6, Compactada
  <2>7. ASSUME reintentar PROVE Inv' /\ DeAsignador
    <3>1. kernel = "reintentar"
          /\ crear_segmento(pedido.pid, pedido.sid, pedido.tam, "trabado")
      BY <2>7 DEF reintentar
    <3>2. /\ pedido.pid \in Pids /\ pedido.sid \in Privadas /\ pedido.tam \in Tamanios
          /\ proceso[pedido.pid] = "activo" /\ tablas[pedido.pid][pedido.sid] = VACIO
      BY <3>1 DEF Inv, Pedido
    <3>3. "trabado" \in {"compactar", "trabado"}
      OBVIOUS
    <3> QED BY <3>1, <3>2, <3>3, Pedida
  <2> QED BY <1>2, <2>1, <2>2, <2>3, <2>4, <2>5, <2>6, <2>7 DEF Next
<1> QED BY <1>1, <1>2

LEMMA InvSiempre == Spec => []Inv
<1>1. Init => Inv
  BY Inicial
<1>2. Inv /\ [Next]_vars => Inv'
  BY UnPaso
<1> QED BY <1>1, <1>2, PTL DEF Spec

-----------------------------------------------------------------------------
(* What the invariant says of the runs' properties.                        *)

LEMMA DeTablasYLista == ASSUME Inv PROVE TablasYLista
<1> DEFINE l == lista_segmentos_actuales
<1>1. /\ TipoListas /\ TipoTablas /\ Nombres /\ EnTablas
      /\ l \in Seq(Segmentos) /\ SinRepetir(l) /\ Nombrada(l) /\ ToSet(l) = G
      /\ \A q \in Pids, t \in Sids : tablas[q][t] # VACIO => \E g \in G : g.id = tablas[q][t]
  BY Tipos, Nombra DEF Inv, Nombres, G
<1> HIDE DEF l
<1>2. \A i \in DOMAIN l : l[i] \in G /\ l[i].id \in Nat
  <2> SUFFICES ASSUME NEW i \in DOMAIN l PROVE l[i] \in G /\ l[i].id \in Nat
    OBVIOUS
  <2>1. l[i] \in ToSet(l) /\ l[i] \in Segmentos
    BY <1>1, DeLista
  <2> QED BY <1>1, <2>1, DeSegmento
<1>3. \A p \in Pids : cant_actuales[p] = Cardinality({s \in Sids : tablas[p][s] # VACIO})
  BY <1>1 DEF EnTablas, Usadas
<1>4. ASSUME NEW i \in DOMAIN l, l[i].id # SEGMENTO_0
      PROVE  Cardinality({e \in Pids \X Sids : tablas[e[1]][e[2]] = l[i].id}) = 1
  <2>1. PICK p \in Pids, s \in Privadas : tablas[p][s] = l[i].id
    BY <1>1, <1>2, <1>4 DEF EnTablas
  <2>2. s \in Sids /\ l[i].id # VACIO
    BY <1>2, <1>4 DEF Privadas, VACIO
  <2>3. \A q \in Pids, t \in Sids : tablas[q][t] = l[i].id => q = p /\ t = s
    <3> SUFFICES ASSUME NEW q \in Pids, NEW t \in Sids, tablas[q][t] = l[i].id
                 PROVE  q = p /\ t = s
      OBVIOUS
    <3>1. t # 0
      BY <1>1, <1>4, <2>2 DEF EnTablas
    <3> QED BY <1>1, <2>1, <2>2, <3>1 DEF EnTablas, Privadas
  <2>4. {e \in Pids \X Sids : tablas[e[1]][e[2]] = l[i].id} = {<<p, s>>}
    BY <2>1, <2>2, <2>3
  <2> QED BY <2>4, FS_Singleton
<1>5. ASSUME NEW p \in Pids, NEW s \in Sids, tablas[p][s] # VACIO
      PROVE  Cardinality({i \in DOMAIN l : l[i].id = tablas[p][s]}) = 1
  <2>1. PICK g \in G : g.id = tablas[p][s]
    BY <1>1, <1>5
  <2>2. PICK i \in DOMAIN l : l[i] = g
    BY <1>1, DeLista
  <2>3. \A j \in DOMAIN l : l[j].id = tablas[p][s] => j = i
    <3> SUFFICES ASSUME NEW j \in DOMAIN l, l[j].id = tablas[p][s] PROVE j = i
      OBVIOUS
    <3>1. l[j] = g
      BY <1>1, <1>2, <2>1 DEF Nombrada
    <3> QED BY <1>1, <2>2, <3>1 DEF SinRepetir
  <2>4. {j \in DOMAIN l : l[j].id = tablas[p][s]} = {i}
    BY <2>1, <2>2, <2>3
  <2> QED BY <2>4, FS_Singleton
<1> QED BY <1>3, <1>4, <1>5 DEF TablasYLista, l

\* The positions of a list that satisfy what only one element does.
LEMMA UnaPosicion ==
  ASSUME NEW S, NEW l \in Seq(S), SinRepetir(l), NEW a, NEW x \in ToSet(l), a \in Direcciones(x),
         \A y \in ToSet(l) : a \in Direcciones(y) => y = x
  PROVE  Cardinality({i \in DOMAIN l : a \in Direcciones(l[i])}) = 1
<1>1. PICK i \in DOMAIN l : l[i] = x
  BY DeLista
<1>2. \A j \in DOMAIN l : l[j] \in ToSet(l)
  BY DeLista
<1>3. \A j \in DOMAIN l : a \in Direcciones(l[j]) => j = i
  BY <1>1, <1>2 DEF SinRepetir
<1>4. {j \in DOMAIN l : a \in Direcciones(l[j])} = {i}
  BY <1>1, <1>3
<1> QED BY <1>4, FS_Singleton

LEMMA NingunaPosicion ==
  ASSUME NEW S, NEW l \in Seq(S), NEW a, \A y \in ToSet(l) : a \notin Direcciones(y)
  PROVE  Cardinality({i \in DOMAIN l : a \in Direcciones(l[i])}) = 0
<1>1. \A j \in DOMAIN l : l[j] \in ToSet(l)
  BY DeLista
<1>2. {j \in DOMAIN l : a \in Direcciones(l[j])} = {}
  BY <1>1
<1> QED BY <1>2, FS_EmptySet

LEMMA EnUno ==
  ASSUME NEW x, NEW y, x.base \in Int, x.limite \in Int, y.base \in Int, y.limite \in Int,
         Aparte(x, y) \/ Lejos(x, y),
         NEW a \in Int, a \in Direcciones(x)
  PROVE  a \notin Direcciones(y)
<1>1. Aparte(x, y) => a \notin Direcciones(y)
  BY DEF Aparte, Direcciones
<1>2. Lejos(x, y) => a \notin Direcciones(y)
  BY DEF Lejos, Direcciones
<1> QED BY <1>1, <1>2

LEMMA DeParticion == ASSUME Inv PROVE ParticionSana
<1> SUFFICES ASSUME sana, NEW a \in 0 .. tam_memoria - 1 PROVE Usos(a) = 1
  BY DEF ParticionSana, Particion
<1> DEFINE hs == huecos_libres
           l == lista_segmentos_actuales
<1>1. /\ hs \in Seq(Huecos) /\ l \in Seq(Segmentos) /\ ToSet(hs) = H /\ ToSet(l) = G
      /\ SinRepetir(hs) /\ SinRepetir(l) /\ Partida(H, G)
  BY Tipos DEF Inv, TipoListas, Nombres, Sanas, H, G
<1>2. /\ Usos(a) = Cardinality({i \in DOMAIN hs : a \in Direcciones(hs[i])})
                 + Cardinality({i \in DOMAIN l : a \in Direcciones(l[i])})
      /\ a \in Int
  BY Constantes DEF Usos
<1> HIDE DEF hs, l
<1>3. \A x \in H \cup G : x.base \in Int /\ x.limite \in Int
  <2>1. \A x \in H : x.base \in Int /\ x.limite \in Int
    BY <1>1, DeLista, DeHueco
  <2>2. \A x \in G : x.base \in Int /\ x.limite \in Int
    BY <1>1, DeLista, DeSegmento
  <2> QED BY <2>1, <2>2
<1>4. /\ \A h, k \in H : h # k => Lejos(h, k)
      /\ \A g, k \in G : g # k => Aparte(g, k)
      /\ \A h \in H, g \in G : Aparte(h, g)
  BY <1>1 DEF Partida
<1>5. PICK x \in H \cup G : a \in Direcciones(x)
  BY <1>1 DEF Partida
<1>6. CASE x \in H
  <2>1. \A y \in H : a \in Direcciones(y) => y = x
    BY <1>2, <1>3, <1>4, <1>5, <1>6, EnUno
  <2>2. \A y \in G : a \notin Direcciones(y)
    BY <1>2, <1>3, <1>4, <1>5, <1>6, EnUno
  <2>3. Cardinality({i \in DOMAIN hs : a \in Direcciones(hs[i])}) = 1
    BY <1>1, <1>5, <1>6, <2>1, UnaPosicion
  <2>4. Cardinality({i \in DOMAIN l : a \in Direcciones(l[i])}) = 0
    BY <1>1, <2>2, NingunaPosicion
  <2> QED BY <1>2, <2>3, <2>4
<1>7. CASE x \in G
  <2>1. \A y \in G : a \in Direcciones(y) => y = x
    BY <1>2, <1>3, <1>4, <1>5, <1>7, EnUno
  <2>2. \A y \in H : a \notin Direcciones(y)
    <3>1. \A y \in H : a \in Direcciones(y) => a \notin Direcciones(x)
      BY <1>2, <1>3, <1>4, <1>7, EnUno
    <3> QED BY <1>5, <3>1
  <2>3. Cardinality({i \in DOMAIN l : a \in Direcciones(l[i])}) = 1
    BY <1>1, <1>5, <1>7, <2>1, UnaPosicion
  <2>4. Cardinality({i \in DOMAIN hs : a \in Direcciones(hs[i])}) = 0
    BY <1>1, <2>2, NingunaPosicion
  <2> QED BY <1>2, <2>3, <2>4
<1> QED BY <1>6, <1>7

LEMMA DeConsolidados == ASSUME Inv PROVE HuecosConsolidados
<1> SUFFICES ASSUME sana, NEW i \in DOMAIN huecos_libres, NEW j \in DOMAIN huecos_libres, i # j
             PROVE  huecos_libres[i].limite # huecos_libres[j].base
  BY DEF HuecosConsolidados
<1>1. /\ huecos_libres \in Seq(Huecos) /\ SinRepetir(huecos_libres) /\ Formas
      /\ \A h, k \in H : h # k => Lejos(h, k)
  BY Tipos DEF Inv, TipoListas, Sanas, Partida, H
<1>2. PICK h \in H, k \in H : h = huecos_libres[i] /\ k = huecos_libres[j] /\ h # k
  BY <1>1, DeLista DEF H, SinRepetir
<1>3. h \in Huecos /\ k \in Huecos
  BY <1>1, DeLista DEF H
<1>4. /\ h.base \in Int /\ h.limite \in Int /\ k.base \in Int /\ k.limite \in Int
      /\ h.base <= h.limite /\ k.base <= k.limite /\ Lejos(h, k)
  BY <1>1, <1>2, <1>3, DeHueco DEF Formas
<1>5. h.limite # k.base
  BY <1>4 DEF Lejos
<1> QED BY <1>2, <1>5

\* The range of an entry in use is that of a segment of the list.
LEMMA RangoDeEntrada ==
  ASSUME Inv, NEW p \in Pids, NEW s \in Sids, tablas[p][s] # VACIO
  PROVE  \E g \in G : /\ g.id = tablas[p][s] /\ g \in Segmentos
                      /\ Mapa[p][s].base = g.base /\ Mapa[p][s].limite = g.limite
<1> DEFINE l == lista_segmentos_actuales
<1>1. /\ l \in Seq(Segmentos) /\ Nombrada(l) /\ G = ToSet(l)
      /\ \E g \in G : g.id = tablas[p][s]
  BY Tipos, Nombra DEF Inv, G
<1> HIDE DEF l
<1>2. PICK g \in G : g.id = tablas[p][s]
  BY <1>1
<1>3. g \in Segmentos /\ RangoEn(l, g.id) = [base |-> g.base, limite |-> g.limite]
  BY <1>1, DeLista, RangoEs
<1>4. Mapa[p][s] = RangoEn(l, g.id)
  BY <1>2, MapaEn DEF l
<1> QED BY <1>2, <1>3, <1>4

LEMMA DeAislamiento == ASSUME Inv, sana PROVE A!Disjuntos
<1>1. /\ Partida(H, G) /\ Nombres /\ EnTablas /\ SEG0 \in G
      /\ \A g, k \in G : g # k => Aparte(g, k)
  BY Tipos, Nombra DEF Inv, Sanas, Partida, H, G
<1>2. /\ A!Privadas = Privadas /\ Privadas \subseteq Sids
      /\ A!SEGMENTO_0.base = SEG0.base /\ A!SEGMENTO_0.limite = SEG0.limite
      /\ SEG0.id = SEGMENTO_0
  BY DEF A!Privadas, Privadas, A!SEGMENTO_0, SEG0
<1>3. ASSUME NEW p \in Pids, NEW s \in Privadas, tablas[p][s] = VACIO, NEW r
      PROVE  A!Separados(Mapa[p][s], r) /\ A!Separados(r, Mapa[p][s])
  <2>1. Mapa[p][s] = A!NADA
    BY <1>2, <1>3, MapaEn
  <2>2. Mapa[p][s].limite <= Mapa[p][s].base
    BY <2>1 DEF A!NADA
  <2> QED BY <2>2 DEF A!Separados
<1>4. ASSUME NEW g \in G, NEW k \in G, g # k, NEW r, NEW q,
             r.base = g.base, r.limite = g.limite, q.base = k.base, q.limite = k.limite
      PROVE  A!Separados(r, q)
  BY <1>1, <1>4 DEF A!Separados, Aparte
<1>5. ASSUME NEW p \in Pids, NEW s \in Privadas
      PROVE  A!Separados(Mapa[p][s], A!SEGMENTO_0)
  <2>1. CASE tablas[p][s] = VACIO
    BY <1>3, <2>1
  <2>2. CASE tablas[p][s] # VACIO
    <3>1. PICK g \in G : /\ g.id = tablas[p][s]
                         /\ Mapa[p][s].base = g.base /\ Mapa[p][s].limite = g.limite
      BY <1>2, <2>2, RangoDeEntrada
    <3>2. g # SEG0
      BY <1>1, <1>2, <2>2, <3>1 DEF EnTablas
    <3> QED BY <1>1, <1>2, <1>4, <3>1, <3>2
  <2> QED BY <2>1, <2>2
<1>6. ASSUME NEW p \in Pids, NEW s \in Privadas, NEW q \in Pids, NEW t \in Privadas,
             <<p, s>> # <<q, t>>
      PROVE  A!Separados(Mapa[p][s], Mapa[q][t])
  <2>1. CASE tablas[p][s] = VACIO \/ tablas[q][t] = VACIO
    BY <1>3, <2>1
  <2>2. CASE tablas[p][s] # VACIO /\ tablas[q][t] # VACIO
    <3>1. PICK g \in G : /\ g.id = tablas[p][s]
                         /\ Mapa[p][s].base = g.base /\ Mapa[p][s].limite = g.limite
      BY <1>2, <2>2, RangoDeEntrada
    <3>2. PICK k \in G : /\ k.id = tablas[q][t]
                         /\ Mapa[q][t].base = k.base /\ Mapa[q][t].limite = k.limite
      BY <1>2, <2>2, RangoDeEntrada
    <3>3. g # k
      BY <1>1, <1>6, <2>2, <3>1, <3>2 DEF EnTablas
    <3> QED BY <1>4, <3>1, <3>2, <3>3
  <2> QED BY <2>1, <2>2
<1>7. A!Separadas(Mapa)
  BY <1>2, <1>5, <1>6 DEF A!Separadas
<1> QED BY <1>7 DEF A!Disjuntos, Mapa

-----------------------------------------------------------------------------
(* The copy of a compaction.                                               *)

Lugares == 0 .. tam_memoria - 1
Copias == [Lugares -> Lugares]

\* Round i of the loop.
Vuelta(l, i, m) ==
  [a \in Lugares |-> IF a \in Destino(l, i) .. Destino(l, i) + Tam(l[i]) - 1
                     THEN m[l[i].base + (a - Destino(l, i))] ELSE m[a]]

\* A round reads no byte outside the memory.
LEMMA VueltaEs ==
  ASSUME NEW l \in Seq(Segmentos), \A i \in DOMAIN l : l[i].base < l[i].limite,
         NEW i \in DOMAIN l, NEW m \in Copias
  PROVE  Vuelta(l, i, m) \in Copias
<1>1. Destino(l, i) \in Nat /\ Tam(l[i]) \in Nat
  <2>1. l # <<>>
    OBVIOUS
  <2> QED BY <2>1, EnFila
<1>2. l[i].base \in Nat /\ l[i].limite \in Nat /\ l[i].limite <= tam_memoria
  <2>1. l[i] \in Segmentos
    OBVIOUS
  <2> HIDE DEF Tam
  <2> QED BY <2>1, Constantes DEF Segmentos
<1>3. ASSUME NEW a \in Lugares, a \in Destino(l, i) .. Destino(l, i) + Tam(l[i]) - 1
      PROVE  l[i].base + (a - Destino(l, i)) \in Lugares
  <2> DEFINE d == Destino(l, i)
  <2>1. d \in Nat /\ a \in Nat /\ d <= a /\ a - d < l[i].limite - l[i].base
    <3> HIDE DEF d
    <3> QED BY <1>1, <1>2, <1>3, Constantes DEF Lugares, Tam, d
  <2> HIDE DEF d
  <2>2. l[i].base + (a - d) \in Nat /\ l[i].base + (a - d) < tam_memoria
    BY <1>2, <2>1, Constantes, SMTT(30)
  <2> QED BY <2>2, Constantes DEF Lugares, d
<1> HIDE DEF Lugares
<1> QED BY <1>3 DEF Vuelta, Copias

\* The fold of the model goes round by round.
LEMMA CopiaPorVueltas ==
  ASSUME NEW l \in Seq(Segmentos), \A i \in DOMAIN l : l[i].base < l[i].limite
  PROVE  \E g : /\ g[0] = [a \in Lugares |-> a]
                /\ \A i \in 0 .. Len(l) : g[i] \in Copias
                /\ \A i \in 1 .. Len(l) : g[i] = Vuelta(l, i, g[i - 1])
                /\ CopiarSegmentos(l) = g[Len(l)]
<1> DEFINE n == Len(l)
           F == [i \in 1 .. n |-> [m \in Copias |-> Vuelta(l, i, m)]]
           b == [a \in Lugares |-> a]
           q == [i \in DOMAIN l |-> i]
           Rec(h) == [s \in SUBSET DOMAIN q |->
                        IF s = {} THEN [a \in 0 .. tam_memoria - 1 |-> a]
                        ELSE [a \in DOMAIN h[s \ {Max(s)}] |->
                               IF a \in Destino(l, q[Max(s)])
                                        .. Destino(l, q[Max(s)]) + Tam(l[q[Max(s)]]) - 1
                               THEN h[s \ {Max(s)}][l[q[Max(s)]].base + (a - Destino(l, q[Max(s)]))]
                               ELSE h[s \ {Max(s)}][a]]]
           iter == CHOOSE h : h = Rec(h)
<1>1. n \in Nat /\ DOMAIN l = 1 .. n /\ DOMAIN q = 1 .. n /\ b \in Copias
  BY DEF Copias
<1>2. \A i \in 1 .. n, m \in Copias : F[i][m] = Vuelta(l, i, m) /\ F[i][m] \in Copias
  BY <1>1, VueltaEs
<1> HIDE DEF F
<1>3. PICK g : EsFold(g, F, b, Copias, Mayores(n), 1 .. n) /\ PorVueltas(g, F, b, Copias, n)
  <2>1. n \in Nat /\ Cierra(F, b, Copias, n)
    BY <1>1, <1>2 DEF Cierra
  <2> HIDE DEF n, b
  <2> QED BY ONLY <2>1, FoldDeLista
<1>4. IsFiniteSet(1 .. n) /\ Eleccion(Mayores(n), 1 .. n)
  BY <1>1, MayoresEligen
<1>5. ASSUME NEW h, h \in [SUBSET (1 .. n) -> Copias], NEW s \in SUBSET (1 .. n)
      PROVE  Rec(h)[s] = Siguiente(h, F, b, Copias, Mayores(n), s)
  <2>1. CASE s = {}
    BY <1>1, <2>1 DEF Siguiente, Lugares
  <2>2. CASE s # {}
    <3> DEFINE x == Max(s)
               c == h[s \ {x}]
    <3>1. Mayores(n)[s] = x /\ x \in s
      BY <1>4, <2>2 DEF Mayores, Eleccion
    <3>2. x \in 1 .. n /\ q[x] = x /\ c \in Copias /\ DOMAIN c = Lugares
      BY <1>1, <1>5, <3>1 DEF Copias
    <3>3. Siguiente(h, F, b, Copias, Mayores(n), s) = Vuelta(l, x, c)
      BY <1>2, <2>2, <3>1, <3>2 DEF Siguiente
    <3>4. Rec(h)[s] = [a \in DOMAIN c |->
                         IF a \in Destino(l, q[x]) .. Destino(l, q[x]) + Tam(l[q[x]]) - 1
                         THEN c[l[q[x]].base + (a - Destino(l, q[x]))] ELSE c[a]]
      BY <1>1, <2>2
    <3> HIDE DEF x, c, q
    <3> QED BY <3>2, <3>3, <3>4 DEF Vuelta
  <2> QED BY <2>1, <2>2
<1>6. CopiarSegmentos(l) = iter[DOMAIN q]
  BY DEF CopiarSegmentos, FoldLeftDomain, FoldLeft, MapThenFoldSet
<1>7. g \in [SUBSET (1 .. n) -> Copias]
      /\ \A s \in SUBSET (1 .. n) : g[s] = Siguiente(g, F, b, Copias, Mayores(n), s)
  BY <1>3 DEF EsFold
<1>8. g = Rec(g)
  <2>1. g = [s \in SUBSET (1 .. n) |-> g[s]]
    BY <1>7
  <2>2. Rec(g) = [s \in SUBSET (1 .. n) |-> Rec(g)[s]]
    BY <1>1
  <2> HIDE DEF Rec
  <2>3. \A s \in SUBSET (1 .. n) : g[s] = Rec(g)[s]
    BY <1>5, <1>7
  <2> QED BY <2>1, <2>2, <2>3
<1>9. iter = Rec(iter)
  <2> HIDE DEF Rec
  <2> QED BY <1>8
<1>10. iter[1 .. n] = g[1 .. n]
  <2> DEFINE Malos == {X \in SUBSET (1 .. n) : iter[X] # g[X]}
  <2> SUFFICES ASSUME Malos # {} PROVE FALSE
    OBVIOUS
  <2>1. PICK m \in Malos : \A X \in SUBSET m : X # m => X \notin Malos
    <3>1. Malos \in SUBSET SUBSET (1 .. n)
      OBVIOUS
    <3> HIDE DEF Malos
    <3> QED BY <1>4, <3>1, MinimoConjuntos
  <2>2. iter[m] = Rec(iter)[m] /\ g[m] = Rec(g)[m]
    <3> HIDE DEF Rec, iter
    <3> QED BY <1>8, <1>9
  <2> HIDE DEF iter
  <2>3. m # {}
    BY <1>1, <2>1, <2>2
  <2>4. Max(m) \in m
    BY <1>4, <2>3 DEF Mayores, Eleccion
  <2>5. iter[m \ {Max(m)}] = g[m \ {Max(m)}]
    BY <2>1, <2>4
  <2>6. Rec(iter)[m] = Rec(g)[m]
    BY <1>1, <2>3, <2>5
  <2> QED BY <2>1, <2>2, <2>6
<1> DEFINE f == [i \in 0 .. n |-> g[1 .. i]]
<1>11. f[0] = b /\ f[n] = CopiarSegmentos(l)
  <2> HIDE DEF iter, b
  <2> QED BY <1>1, <1>3, <1>6, <1>10 DEF PorVueltas
<1>12. ASSUME NEW i \in 0 .. n PROVE f[i] \in Copias
  BY <1>3 DEF PorVueltas
<1>13. ASSUME NEW i \in 1 .. n PROVE f[i] = Vuelta(l, i, f[i - 1])
  <2>1. i \in 0 .. n /\ i - 1 \in 0 .. n
    BY <1>1
  <2>2. f[i] = g[1 .. i] /\ f[i - 1] = g[1 .. i - 1] /\ f[i - 1] \in Copias /\ f[i] = F[i][g[1 .. i - 1]]
    BY <1>3, <2>1 DEF PorVueltas
  <2> HIDE DEF f
  <2> QED BY <1>2, <2>2
<1> HIDE DEF f
<1> QED BY <1>11, <1>12, <1>13

\* Segments in the order of their addresses, no two of them over each other, move
\* down or stay.
LEMMA BajanOQuedan ==
  ASSUME NEW l \in Seq(Segmentos), \A i \in DOMAIN l : l[i].base < l[i].limite,
         \A i, j \in DOMAIN l : i < j => l[i].limite <= l[j].base
  PROVE  \A i \in 1 .. Len(l) : Destino(l, i) <= l[i].base
<1> DEFINE n == Len(l)
           Q == {i \in 0 .. n : i = 0 \/ Destino(l, i) <= l[i].base}
<1>1. /\ DOMAIN l = 1 .. n /\ n \in Nat
      /\ \A i \in 1 .. n : Tam(l[i]) \in Nat /\ Destino(l, i) = SumaHasta(l, i - 1)
                           /\ SumaHasta(l, i) = SumaHasta(l, i - 1) + Tam(l[i])
      /\ \A i \in 0 .. n : SumaHasta(l, i) \in Nat
      /\ SumaHasta(l, 0) = 0
  BY SumasParciales
<1>2. ASSUME NEW i \in 1 .. n PROVE l[i].base \in Nat /\ l[i].limite \in Nat
  <2>1. l[i] \in Segmentos
    BY <1>1
  <2> QED BY <2>1, Constantes, SMTT(30) DEF Segmentos
<1>3. ASSUME NEW i \in 1 .. n, i - 1 \in Q PROVE i \in Q
  <2>1. CASE i = 1
    <3>1. Destino(l, 1) = 0 /\ l[1].base \in Nat
      BY <1>1, <1>2, <2>1
    <3> QED BY <1>1, <2>1, <3>1
  <2>2. CASE i # 1
    <3> DEFINE k == i - 1
    <3>1. k \in 1 .. n /\ i \in 1 .. n /\ k \in 0 .. n /\ k < i /\ i \in 0 .. n
      BY <1>1, <2>2
    <3>2. Destino(l, k) <= l[k].base /\ l[k].limite <= l[i].base
      BY <1>1, <1>3, <3>1
    <3>3. Destino(l, i) = SumaHasta(l, k) /\ SumaHasta(l, k) = Destino(l, k) + Tam(l[k])
          /\ Destino(l, k) \in Nat
      <4>1. k - 1 \in 0 .. n
        BY <1>1, <3>1
      <4> QED BY <1>1, <3>1, <4>1
    <3>4. Tam(l[k]) = l[k].limite - l[k].base
      BY DEF Tam
    <3>5. l[k].base \in Nat /\ l[k].limite \in Nat /\ l[i].base \in Nat
      BY <1>2, <3>1
    <3>6. Destino(l, i) <= l[i].base
      <4> HIDE DEF k
      <4> QED BY <3>2, <3>3, <3>4, <3>5, SMTT(30)
    <3> QED BY <3>1, <3>6
  <2> QED BY <2>1, <2>2
<1>4. 0 \in Q
  BY <1>1
<1>5. \A i \in 0 .. n : i \in Q
  <2> HIDE DEF Q
  <2> QED BY <1>1, <1>3, <1>4, InduccionHasta
<1> QED BY <1>1, <1>5

\* The loop, in that order: after round i the first i segments have arrived, and what
\* lies behind them has not been written.
LEMMA CopiaEnOrden ==
  ASSUME NEW l \in Seq(Segmentos), \A i \in DOMAIN l : l[i].base < l[i].limite,
         \A i, j \in DOMAIN l : i < j => l[i].limite <= l[j].base,
         SumaTam(l) <= tam_memoria,
         NEW i \in DOMAIN l, NEW k \in Nat, k < Tam(l[i])
  PROVE  CopiarSegmentos(l)[Destino(l, i) + k] = l[i].base + k
<1> DEFINE n == Len(l)
           S(x) == SumaHasta(l, x)
           D(x) == Destino(l, x)
           T(x) == Tam(l[x])
<1>1. /\ DOMAIN l = 1 .. n /\ n \in Nat /\ SumaTam(l) = S(n)
      /\ \A x \in 1 .. n : T(x) \in Nat /\ D(x) = S(x - 1) /\ S(x) = S(x - 1) + T(x)
      /\ \A x \in 0 .. n : S(x) \in Nat
      /\ \A x \in 0 .. n : \A y \in 0 .. x : S(y) <= S(x)
      /\ S(0) = 0
  BY SumasParciales
<1>2. PICK g : /\ g[0] = [a \in Lugares |-> a]
               /\ \A x \in 0 .. n : g[x] \in Copias
               /\ \A x \in 1 .. n : g[x] = Vuelta(l, x, g[x - 1])
               /\ CopiarSegmentos(l) = g[n]
  BY CopiaPorVueltas
<1> DEFINE Llegaron(x) == \A y \in 1 .. x, c \in Nat : c < T(y) => g[x][D(y) + c] = l[y].base + c
           Intacto(x) == \A a \in Lugares : a >= S(x) => g[x][a] = a
           Q == {x \in 0 .. n : Llegaron(x) /\ Intacto(x)}
<1>3. 0 \in Q
  BY <1>1, <1>2
<1>4. ASSUME NEW x \in 1 .. n, x - 1 \in Q PROVE x \in Q
  <2>0. x - 1 \in 0 .. n /\ x \in 0 .. n /\ x \in 1 .. n /\ n \in 0 .. n /\ x \in DOMAIN l
    BY <1>1
  <2>1. /\ Llegaron(x - 1) /\ Intacto(x - 1)
        /\ D(x) = S(x - 1) /\ S(x) = D(x) + T(x) /\ D(x) \in Nat /\ T(x) \in Nat
        /\ S(x) \in Nat /\ S(x) <= tam_memoria /\ tam_memoria \in Nat
    <3>1. Llegaron(x - 1) /\ Intacto(x - 1)
      BY <1>4
    <3>2. D(x) = S(x - 1) /\ S(x - 1) \in Nat /\ T(x) \in Nat /\ S(x) = S(x - 1) + T(x)
      BY <1>1, <2>0
    <3>3. S(x) <= S(n) /\ S(n) \in Nat /\ S(n) <= tam_memoria
      <4> HIDE DEF S
      <4> QED BY <1>1, <2>0
    <3> HIDE DEF S, D, T, Llegaron, Intacto
    <3> QED BY <3>1, <3>2, <3>3, Constantes
  <2>2. D(x) <= l[x].base /\ l[x].base \in Nat /\ l[x].limite \in Nat
        /\ l[x].limite <= tam_memoria /\ T(x) = l[x].limite - l[x].base
    <3>1. D(x) <= l[x].base
      BY BajanOQuedan
    <3>2. l[x] \in Segmentos
      BY <2>0
    <3>3. l[x].base \in Nat /\ l[x].limite \in Nat /\ l[x].limite <= tam_memoria
      BY <3>2, DeSegmento
    <3> QED BY <3>1, <3>3 DEF Tam
  <2>3. \A a \in Lugares : g[x][a] = IF a \in D(x) .. D(x) + T(x) - 1
                                     THEN g[x - 1][l[x].base + (a - D(x))] ELSE g[x - 1][a]
    <3>1. g[x] = Vuelta(l, x, g[x - 1])
      BY <1>2, <2>0
    <3> QED BY <3>1 DEF Vuelta
  <2>4. \A a \in Nat : a < tam_memoria <=> a \in Lugares
    BY <2>1, SMTT(30) DEF Lugares
  <2>5. ASSUME NEW a \in Lugares, a >= S(x) PROVE g[x][a] = a
    <3>1. a \in Nat /\ a >= S(x - 1) /\ a \notin D(x) .. D(x) + T(x) - 1
      BY <2>1, <2>5 DEF Lugares
    <3> QED BY <2>1, <2>3, <3>1
  <2>6. ASSUME NEW y \in 1 .. x, NEW c \in Nat, c < T(y) PROVE g[x][D(y) + c] = l[y].base + c
    <3>1. CASE y = x
      <4>1. /\ c < T(x) /\ D(x) = S(x - 1) /\ S(x) = D(x) + T(x) /\ D(x) \in Nat /\ T(x) \in Nat
            /\ S(x) <= tam_memoria /\ tam_memoria \in Nat /\ D(x) <= l[x].base
            /\ l[x].base \in Nat /\ l[x].limite \in Nat /\ l[x].limite <= tam_memoria
            /\ T(x) = l[x].limite - l[x].base
        BY ONLY <2>1, <2>2, <2>6, <3>1
      <4> HIDE DEF D, T, S, Llegaron, Intacto
      <4>2. D(x) + c \in Nat /\ D(x) + c < tam_memoria /\ D(x) + c \in D(x) .. D(x) + T(x) - 1
            /\ (D(x) + c) - D(x) = c
        BY ONLY <4>1, c \in Nat, SMTT(30)
      <4>3. l[x].base + c \in Nat /\ l[x].base + c < tam_memoria /\ l[x].base + c >= S(x - 1)
        BY ONLY <4>1, c \in Nat, SMTT(30)
      <4>4. D(x) + c \in Lugares /\ l[x].base + c \in Lugares
        BY <2>4, <4>2, <4>3
      <4>5. g[x - 1][l[x].base + c] = l[x].base + c
        BY <2>1, <4>3, <4>4 DEF Intacto
      <4>6. g[x][D(x) + c] = g[x - 1][l[x].base + ((D(x) + c) - D(x))]
        BY <2>3, <4>2, <4>4
      <4> QED BY <3>1, <4>2, <4>5, <4>6
    <3>2. CASE y # x
      <4>1. y \in 1 .. x - 1 /\ y \in 1 .. n /\ y \in 0 .. x - 1
        BY <1>1, <3>2, SMTT(30)
      <4>2. D(y) \in Nat /\ D(y) + T(y) = S(y) /\ S(y) <= S(x - 1) /\ T(y) \in Nat /\ S(y) \in Nat
        <5>1. y - 1 \in 0 .. n /\ y \in 0 .. n
          BY <1>1, <4>1
        <5> HIDE DEF D, T, S, n
        <5>2. T(y) \in Nat /\ D(y) = S(y - 1) /\ S(y) = S(y - 1) + T(y)
          BY ONLY <1>1, <4>1
        <5>3. S(y - 1) \in Nat /\ S(y) \in Nat /\ S(y) <= S(x - 1)
          BY ONLY <1>1, <2>0, <4>1, <5>1
        <5> QED BY ONLY <5>2, <5>3
      <4>3. D(y) + c \in Lugares /\ D(y) + c \notin D(x) .. D(x) + T(x) - 1
        <5>1. /\ c < T(y) /\ D(y) \in Nat /\ D(y) + T(y) = S(y) /\ S(y) <= S(x - 1)
              /\ T(y) \in Nat /\ D(x) = S(x - 1) /\ D(x) \in Nat /\ T(x) \in Nat
              /\ S(x) = D(x) + T(x) /\ S(x) <= tam_memoria /\ tam_memoria \in Nat
          BY <2>1, <2>6, <4>2
        <5> HIDE DEF D, T, S, Llegaron, Intacto
        <5>2. D(y) + c \in Nat /\ D(y) + c < D(x) /\ D(y) + c < tam_memoria
          BY ONLY <5>1, c \in Nat, SMTT(30)
        <5>3. D(y) + c \notin D(x) .. D(x) + T(x) - 1
          BY ONLY <5>1, <5>2, SMTT(30)
        <5> QED BY <2>4, <5>2, <5>3
      <4>4. g[x - 1][D(y) + c] = l[y].base + c
        BY <2>1, <2>6, <4>1 DEF Llegaron
      <4> QED BY <2>3, <4>3, <4>4
    <3> QED BY <3>1, <3>2
  <2>7. Llegaron(x)
    <3> HIDE DEF D, T
    <3> QED BY ONLY <2>6
  <2>8. Intacto(x)
    <3> HIDE DEF S
    <3> QED BY ONLY <2>5
  <2> HIDE DEF Llegaron, Intacto
  <2> QED BY ONLY <2>1, <2>7, <2>8
<1>5. n \in Q
  <2>1. \A x \in 0 .. n : x \in Q
    <3> HIDE DEF Q
    <3> QED BY <1>1, <1>3, <1>4, InduccionHasta
  <2> HIDE DEF Q
  <2> QED BY <1>1, <2>1
<1> QED BY <1>1, <1>2, <1>5

LEMMA SumaHuecosNatural ==
  ASSUME NEW l \in Seq(Huecos), \A h \in ToSet(l) : h.base <= h.limite
  PROVE  SumaTam(l) \in Nat
<1> DEFINE v == [i \in DOMAIN l |-> Tam(l[i])]
<1>1. ASSUME NEW i \in DOMAIN l PROVE v[i] \in Nat
  <2>1. l[i] \in Huecos /\ l[i].base <= l[i].limite
    BY DeLista
  <2>2. l[i].base \in Int /\ l[i].limite \in Int
    BY <2>1, DeHueco
  <2> QED BY <2>1, <2>2 DEF Tam
<1>2. IsFiniteSet(DOMAIN l) /\ DOMAIN v = DOMAIN l
  <2>1. DOMAIN l = 1 .. Len(l) /\ Len(l) \in Nat
    OBVIOUS
  <2>2. IsFiniteSet(1 .. Len(l))
    BY <2>1, FS_Interval
  <2> QED BY <2>1, <2>2
<1>3. SumaTam(l) = SumFunctionOnSet(v, DOMAIN l)
  BY <1>2 DEF SumaTam, SumFunction
<1> HIDE DEF v
<1> QED BY <1>1, <1>2, <1>3, SumaNatural

\* While the lists are right no segment lies over another and all of them fit.
LEMMA DeCopia == ASSUME Inv PROVE CopiaFiel
<1> SUFFICES ASSUME kernel = "compactar", sana, PorBase(lista_segmentos_actuales),
                    NEW i \in DOMAIN lista_segmentos_actuales, NEW k \in 0 .. tam_memoria - 1,
                    k < Tam(lista_segmentos_actuales[i])
             PROVE  CopiarSegmentos(lista_segmentos_actuales)
                      [Destino(lista_segmentos_actuales, i) + k]
                    = lista_segmentos_actuales[i].base + k
  BY DEF CopiaFiel
<1> DEFINE l == lista_segmentos_actuales
<1>1. l \in Seq(Segmentos) /\ SinRepetir(l) /\ \A j \in DOMAIN l : l[j] \in G /\ l[j] \in Segmentos /\ l[j].base < l[j].limite
  BY DeLista, Tipos DEF Inv, TipoListas, Nombres, Formas, G
<1>2. Sanas(huecos_libres, l)
  BY DEF Inv
<1>3. SumaTam(l) <= tam_memoria
  <2>1. huecos_libres \in Seq(Huecos) /\ \A h \in H : h.base <= h.limite
    BY Tipos DEF Inv, TipoListas, Formas
  <2>2. SumaTam(huecos_libres) \in Nat
    BY <2>1, SumaHuecosNatural DEF H
  <2>3. SumaTam(l) \in Int
    BY <1>1, SumaTamEs, HuecosEnteros
  <2>4. SumaTam(huecos_libres) + SumaTam(l) = tam_memoria
    BY <1>2 DEF Sanas
  <2> HIDE DEF l
  <2> QED BY <2>2, <2>3, <2>4, Constantes
<1>4. ASSUME NEW x \in DOMAIN l, NEW y \in DOMAIN l, x < y PROVE l[x].limite <= l[y].base
  <2>1. Aparte(l[x], l[y])
    <3>1. x # y /\ l[x] \in ToSet(l) /\ l[y] \in ToSet(l)
      BY <1>1, <1>4, DeLista
    <3>2. l[x] # l[y]
      BY <1>1, <3>1 DEF SinRepetir
    <3> QED BY <1>2, <3>1, <3>2 DEF Sanas, Partida
  <2>2. l[x].base <= l[y].base
    BY <1>4 DEF PorBase
  <2>3. /\ l[x].base \in Int /\ l[y].base \in Int /\ l[x].limite \in Int /\ l[y].limite \in Int
        /\ l[x].base < l[x].limite /\ l[y].base < l[y].limite
    <3>1. l[x] \in Segmentos /\ l[y] \in Segmentos /\ l[x].base < l[x].limite /\ l[y].base < l[y].limite
      BY <1>1
    <3> HIDE DEF l
    <3> QED BY <3>1, DeSegmento
  <2> QED BY <2>1, <2>2, <2>3 DEF Aparte
<1> QED BY <1>1, <1>3, <1>4, CopiaEnOrden, Constantes

-----------------------------------------------------------------------------
(* The theorems.                                                           *)

\* The lists always hold ranges of the memory, and the tables ids that
\* crear_segmento has handed out (utils.c:188).
THEOREM TypeCorrect == Spec => []TypeOK
<1>1. Inv => TypeOK
  BY DEF Inv
<1> QED BY <1>1, InvSiempre, PTL

\* The tables and the list of segments always name the same segments, each in one
\* entry of one table, and cant_segmentos_actuales counts the entries in use, also
\* while FIN_PROCESO takes a table apart between other requests.
THEOREM TablasYListaSiempre == Spec => []TablasYLista
<1>1. Inv => TablasYLista
  BY DeTablasYLista
<1> QED BY <1>1, InvSiempre, PTL

\* Until a consolidation takes the wrong hole away, creation, deletion, the end of
\* a process and compaction leave every address in one hole or one segment.
THEOREM ParticionSiempre == Spec => []ParticionSana
<1>1. Inv => ParticionSana
  BY DeParticion
<1> QED BY <1>1, InvSiempre, PTL

\* Until then no two holes are left side by side either: eliminar_segmento finds
\* both neighbours, though its loop keeps one of each and may stop early.
THEOREM ConsolidadosSiempre == Spec => []HuecosConsolidados
<1>1. Inv => HuecosConsolidados
  BY DeConsolidados
<1> QED BY <1>1, InvSiempre, PTL

\* The retry that the kernel makes with semFS taken finds a hole that is large
\* enough, whatever FIN_PROCESO frees between the COMPACTAR answer and the retry.
THEOREM ReintentoSiempreCabe == Spec => []ReintentoCabe
<1>1. Inv => ReintentoCabe
  BY DEF Inv
<1> QED BY <1>1, InvSiempre, PTL

\* Each step on the lists and tables, of any of the connection threads, is one step
\* of Asignador or none, as long as the list of holes is right before or after it.
THEOREM ImplementaAsignadorSiempre == Spec => ImplementaAsignador
<1>1. Init => A!Init
  BY Inicial
<1>2. Inv /\ [Next]_vars => [sana \/ sana' => A!Next]_(A!vars)
  BY UnPaso DEF DeAsignador
<1> QED BY <1>1, <1>2, InvSiempre, PTL DEF Spec, ImplementaAsignador

\* Until a consolidation takes the wrong hole away, two entries of the tables never
\* share an address: what belongs to a process is out of reach of every other.
THEOREM AislamientoSano == Spec => [](sana => A!Disjuntos)
<1>1. Inv => (sana => A!Disjuntos)
  BY DeAislamiento
<1> QED BY <1>1, InvSiempre, PTL

\* A compaction of right lists whose segments are in the order of their addresses
\* moves every byte of every segment to where the segment goes (utils.c:264-275),
\* for every number and every size of them: no round overwrites what a later one reads.
THEOREM CopiaSiempreFiel == Spec => []CopiaFiel
<1>1. Inv => CopiaFiel
  BY DeCopia
<1> QED BY <1>1, InvSiempre, PTL
===============================================================================
