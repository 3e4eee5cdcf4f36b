--------------------------- MODULE ColaListosProofs ---------------------------
(***************************************************************************)
(* What TLAPS proves of ColaListos, for every number of processes and of   *)
(* threads, every length of a burst and every estimate: the timer created  *)
(* after the push finds its process in the queue, and the process that     *)
(* executes has the largest response ratio. Its types: no more permits     *)
(* than processes, no estimate outside the range of those before it. And   *)
(* that nobody is overtaken for ever: a bound on the wait in the queue.    *)
(***************************************************************************)
EXTENDS ColaListos, FiniteSetTheorems, TLAPS

Tipos ==
  /\ ready_queue \in Seq(Pids) /\ semProcesoListo \in Nat
  /\ espera_en_ready \in [Pids -> {NULL} \cup Nat]
  /\ est_next_burst \in [Pids -> {BASURA} \cup Nat]
  /\ lugar \in [Pids -> {"ready", "exec", "fuera"}]
  /\ hilo \in [Hilos -> [pc : {"libre", "temporizar", "mostrar", "leer"},
                         pid : Pids \cup {NADIE}, n : Nat]]
  /\ sts \in {"espera", "ordena", "saca", "cpu"}

Indices == 1 .. Len(ready_queue)
Temporiza(t, p) == hilo[t].pc = "temporizar" /\ hilo[t].pid = p

\* Threads that have pushed and not posted.
Ocupados == {t \in Hilos : hilo[t].pc # "libre"}
EnMano == IF sts \in {"ordena", "saca"} THEN 1 ELSE 0

\* Every entry of the queue has its permit, in the semaphore, in the hand of the
\* scheduler, or still to be posted by its thread.
Balance == semProcesoListo + Cardinality(Ocupados) + EnMano = Len(ready_queue)

\* The queue holds ready processes, each of them once.
Cola ==
  /\ \A i \in Indices : lugar[ready_queue[i]] = "ready"
  /\ \A i, j \in Indices : ready_queue[i] = ready_queue[j] => i = j

\* A process has a timer when it is ready and nobody is about to create it.
Temporizadores ==
  \A p \in Pids :
    espera_en_ready[p] # NULL <=> lugar[p] = "ready" /\ \A t \in Hilos : ~Temporiza(t, p)

\* A thread about to create a timer does so for a process in the queue, and no
\* other does it for the same.
Pendientes ==
  /\ \A t \in Hilos : hilo[t].pc = "temporizar" => \E i \in Indices : hilo[t].pid = ready_queue[i]
  /\ \A t, u \in Hilos :
       hilo[t].pc = "temporizar" /\ hilo[u].pc = "temporizar" /\ hilo[t].pid = hilo[u].pid => t = u

\* Between the sort and the moment it is taken, the first of the queue has a timer
\* and, if every ratio is known, the largest.
EstimadosEnCola == \A i \in Indices : est_next_burst[ready_queue[i]] # BASURA
Cabeza ==
  sts = "saca" =>
    /\ espera_en_ready[ready_queue[1]] # NULL
    /\ EstimadosEnCola => \A i \in Indices :
         espera_en_ready[ready_queue[i]] # NULL =>
           espera_en_ready[ready_queue[1]] * est_next_burst[ready_queue[i]]
             >= espera_en_ready[ready_queue[i]] * est_next_burst[ready_queue[1]]

IInv == Tipos /\ Balance /\ Cola /\ Temporizadores /\ Pendientes /\ Cabeza

-----------------------------------------------------------------------------
LEMMA EsSucesion ==
  ASSUME NEW S, NEW n \in Nat, NEW s \in [1 .. n -> S]
  PROVE  s \in Seq(S) /\ Len(s) = n
OBVIOUS

LEMMA MinDeDos == ASSUME NEW a \in Int, NEW b \in Int PROVE Min({a, b}) \in {a, b}
<1>1. \E x \in {a, b} : \A y \in {a, b} : x <= y
  OBVIOUS
<1> QED BY <1>1 DEF Min

LEMMA MaxDeDos == ASSUME NEW a \in Int, NEW b \in Int PROVE Max({a, b}) \in {a, b}
<1>1. \E x \in {a, b} : \A y \in {a, b} : x >= y
  OBVIOUS
<1> QED BY <1>1 DEF Max

\* Time passes for those that have a timer, and for nobody else.
LEMMA TiempoTranscurrido ==
  ASSUME Tipos, NEW b \in Nat
  PROVE  /\ Transcurrir(b) \in [Pids -> {NULL} \cup Nat]
         /\ \A p \in Pids : Transcurrir(b)[p] = NULL <=> espera_en_ready[p] = NULL
<1>1. ASSUME NEW p \in Pids, espera_en_ready[p] # NULL
      PROVE  Min({MaxEspera, espera_en_ready[p] + b}) \in Nat
  <2>1. espera_en_ready[p] \in Nat
    BY <1>1 DEF Tipos
  <2>2. MaxEspera \in Nat /\ espera_en_ready[p] + b \in Nat
    BY <2>1, ColaListosAssumption
  <2> QED BY <2>2, MinDeDos
<1>2. ASSUME NEW p \in Pids
      PROVE  /\ Transcurrir(b)[p] \in {NULL} \cup Nat
             /\ Transcurrir(b)[p] = NULL <=> espera_en_ready[p] = NULL
  BY <1>1 DEF Transcurrir, NULL
<1> QED BY <1>2 DEF Transcurrir

LEMMA EstimacionNat ==
  ASSUME NEW e \in {BASURA} \cup Nat, NEW b \in Nat, NEW x \in estimacion_next_burst(e, b)
  PROVE  x \in {BASURA} \cup Nat
BY MinDeDos, MaxDeDos DEF estimacion_next_burst

LEMMA OcupadosFinito == IsFiniteSet(Ocupados) /\ Cardinality(Ocupados) \in Nat
BY ColaListosAssumption, FS_Subset, FS_CardinalityType DEF Ocupados

LEMMA Inicio == Init => IInv
<1> SUFFICES ASSUME Init PROVE IInv
  OBVIOUS
<1>1. Tipos
  BY ColaListosAssumption DEF Init, Tipos, Libre
<1>2. Ocupados = {}
  BY DEF Init, Ocupados, Libre
<1>3. Balance
  BY <1>2, FS_EmptySet DEF Init, Balance, EnMano
<1>4. Cola /\ Temporizadores /\ Pendientes /\ Cabeza
  BY DEF Init, Cola, Temporizadores, Pendientes, Cabeza, EstimadosEnCola, Indices, Temporiza, Libre
<1> QED BY <1>1, <1>3, <1>4 DEF IInv

-----------------------------------------------------------------------------
\* A thread pushes a process that is out of the queue.
LEMMA PasoAgregar ==
  ASSUME IInv, NEW t \in Hilos, agregar_pcb_en_cola_listos(t)
  PROVE  IInv'
<1>1. PICK p \in Pids :
        /\ lugar[p] = "fuera"
        /\ ready_queue' = Append(ready_queue, p)
        /\ lugar' = [lugar EXCEPT ![p] = "ready"]
        /\ hilo' = [hilo EXCEPT ![t] = [Libre EXCEPT !.pc = "temporizar", !.pid = p]]
  BY DEF agregar_pcb_en_cola_listos
<1>2. UNCHANGED <<semProcesoListo, espera_en_ready, est_next_burst, sts>> /\ hilo[t] = Libre
  BY DEF agregar_pcb_en_cola_listos, vTiempos
<1>3. /\ Len(ready_queue') = Len(ready_queue) + 1
      /\ \A i \in Indices : ready_queue'[i] = ready_queue[i] /\ ready_queue[i] \in Pids
      /\ ready_queue'[Len(ready_queue) + 1] = p
      /\ \A i \in Indices' : i \in Indices \/ i = Len(ready_queue) + 1
      /\ Len(ready_queue) \in Nat
  BY <1>1 DEF IInv, Tipos, Indices
<1>4. Tipos'
  <2>1. [Libre EXCEPT !.pc = "temporizar", !.pid = p]
          \in [pc : {"libre", "temporizar", "mostrar", "leer"}, pid : Pids \cup {NADIE}, n : Nat]
    BY DEF Libre
  <2>2. hilo' \in [Hilos -> [pc : {"libre", "temporizar", "mostrar", "leer"},
                             pid : Pids \cup {NADIE}, n : Nat]]
    BY <1>1, <2>1 DEF IInv, Tipos
  <2>3. ready_queue' \in Seq(Pids)
    BY <1>1 DEF IInv, Tipos
  <2>4. lugar' \in [Pids -> {"ready", "exec", "fuera"}]
    BY <1>1 DEF IInv, Tipos
  <2> QED BY <1>2, <2>2, <2>3, <2>4 DEF IInv, Tipos
<1>5. /\ hilo'[t].pc = "temporizar" /\ hilo'[t].pid = p /\ hilo[t].pc = "libre"
      /\ \A u \in Hilos \ {t} : hilo'[u] = hilo[u]
  BY <1>1, <1>2 DEF IInv, Tipos, Libre
<1>6. \A i \in Indices : ready_queue[i] # p
  BY <1>1 DEF IInv, Cola
<1>7. Balance'
  <2>1. Ocupados' = Ocupados \cup {t} /\ t \notin Ocupados
    BY <1>5 DEF Ocupados
  <2>2. Cardinality(Ocupados') = Cardinality(Ocupados) + 1
    BY <2>1, OcupadosFinito, FS_AddElement
  <2> QED BY <1>2, <1>3, <2>2, OcupadosFinito DEF IInv, Tipos, Balance, EnMano
<1>8. Cola'
  BY <1>1, <1>3, <1>6 DEF IInv, Tipos, Cola, Indices
<1>9. Temporizadores'
  <2>1. \A u \in Hilos : ~Temporiza(u, p)
    BY <1>6 DEF IInv, Pendientes, Temporiza
  <2> SUFFICES ASSUME NEW q \in Pids
               PROVE  espera_en_ready'[q] # NULL
                        <=> lugar'[q] = "ready" /\ \A u \in Hilos : ~Temporiza(u, q)'
    BY DEF Temporizadores
  <2>2. CASE q = p
    BY <2>2, <1>1, <1>2, <1>5 DEF IInv, Tipos, Temporizadores, Temporiza
  <2>3. CASE q # p
    <3>1. \A u \in Hilos : Temporiza(u, q)' <=> Temporiza(u, q)
      BY <2>3, <1>5 DEF Temporiza
    <3> QED BY <2>3, <3>1, <1>1, <1>2 DEF IInv, Tipos, Temporizadores
  <2> QED BY <2>2, <2>3
<1>10. Pendientes'
  BY <1>3, <1>5, <1>6 DEF IInv, Pendientes, Indices
<1>11. Cabeza'
  <2> SUFFICES ASSUME sts = "saca" PROVE Cabeza'
    BY <1>2 DEF Cabeza
  <2>1. 1 \in Indices
    BY <1>3, OcupadosFinito DEF IInv, Tipos, Balance, EnMano, Indices
  <2>2. espera_en_ready[p] = NULL
    BY <1>1 DEF IInv, Temporizadores
  <2> QED BY <1>2, <1>3, <2>1, <2>2 DEF IInv, Cabeza, EstimadosEnCola, Indices
<1> QED BY <1>4, <1>7, <1>8, <1>9, <1>10, <1>11 DEF IInv

\* The timer starts at 0.
LEMMA PasoTemporizar ==
  ASSUME IInv, NEW t \in Hilos, empezar_espera_ready(t)
  PROVE  IInv'
<1> DEFINE p == hilo[t].pid
<1>1. /\ hilo[t].pc = "temporizar"
      /\ espera_en_ready' = [espera_en_ready EXCEPT ![p] = 0]
      /\ hilo' = [hilo EXCEPT ![t].pc = "mostrar"]
      /\ UNCHANGED <<ready_queue, semProcesoListo, est_next_burst, lugar, sts>>
  BY DEF empezar_espera_ready
<1>2. PICK k \in Indices : p = ready_queue[k]
  BY <1>1 DEF IInv, Pendientes
<1>3. p \in Pids /\ lugar[p] = "ready" /\ espera_en_ready[p] = NULL
  BY <1>1, <1>2 DEF IInv, Tipos, Cola, Temporizadores, Temporiza, Indices
<1>4. /\ hilo'[t].pc = "mostrar"
      /\ \A u \in Hilos \ {t} : hilo'[u] = hilo[u]
  BY <1>1 DEF IInv, Tipos
<1>5. Tipos'
  BY <1>1, <1>3, ZenonT(40) DEF IInv, Tipos
<1>6. Balance'
  <2>1. Ocupados' = Ocupados
    BY <1>1, <1>4 DEF Ocupados
  <2> QED BY <1>1, <2>1 DEF IInv, Balance, EnMano
<1>7. Cola' /\ Pendientes'
  BY <1>1, <1>4 DEF IInv, Cola, Pendientes, Indices
<1>8. Temporizadores'
  <2> SUFFICES ASSUME NEW q \in Pids
               PROVE  espera_en_ready'[q] # NULL
                        <=> lugar'[q] = "ready" /\ \A u \in Hilos : ~Temporiza(u, q)'
    BY DEF Temporizadores
  <2>1. CASE q = p
    <3>1. \A u \in Hilos : ~Temporiza(u, q)'
      BY <2>1, <1>1, <1>4 DEF IInv, Pendientes, Temporiza
    <3>2. espera_en_ready'[q] # NULL
      BY <2>1, <1>1, <1>3 DEF IInv, Tipos, NULL
    <3> QED BY <2>1, <3>1, <3>2, <1>1, <1>3
  <2>2. CASE q # p
    <3>1. \A u \in Hilos : Temporiza(u, q)' <=> Temporiza(u, q)
      BY <2>2, <1>1, <1>4 DEF Temporiza
    <3> QED BY <2>2, <3>1, <1>1 DEF IInv, Tipos, Temporizadores
  <2> QED BY <2>1, <2>2
<1>9. Cabeza'
  <2> SUFFICES ASSUME sts = "saca" PROVE Cabeza'
    BY <1>1 DEF Cabeza
  <2> DEFINE h == ready_queue[1]
  <2>1. 1 \in Indices /\ h \in Pids
    BY OcupadosFinito DEF IInv, Tipos, Balance, EnMano, Indices
  <2>2. h # p /\ espera_en_ready[h] \in Nat
    BY <1>3, <2>1 DEF IInv, Tipos, Cabeza
  <2>3. espera_en_ready'[h] = espera_en_ready[h]
    BY <1>1, <2>1, <2>2 DEF IInv, Tipos
  <2>4. ASSUME EstimadosEnCola, NEW i \in Indices, espera_en_ready'[ready_queue[i]] # NULL
        PROVE  espera_en_ready'[h] * est_next_burst[ready_queue[i]]
                 >= espera_en_ready'[ready_queue[i]] * est_next_burst[h]
    <3>1. ready_queue[i] \in Pids
      BY DEF IInv, Tipos, Indices
    <3>2. CASE ready_queue[i] = p
      <4>1. espera_en_ready'[ready_queue[i]] = 0
        BY <3>1, <3>2, <1>1 DEF IInv, Tipos
      <4>2. est_next_burst[ready_queue[i]] \in Nat /\ est_next_burst[h] \in Nat
        BY <2>1, <2>4, <3>1 DEF IInv, Tipos, EstimadosEnCola
      <4>3. 0 * est_next_burst[h] = 0
        BY <4>2
      <4>4. \A x, y \in Nat : x * y >= 0
        OBVIOUS
      <4> QED BY <2>2, <2>3, <4>1, <4>2, <4>3, <4>4
    <3>3. CASE ready_queue[i] # p
      BY <3>1, <3>3, <1>1, <2>3, <2>4 DEF IInv, Tipos, Cabeza
    <3> QED BY <3>2, <3>3
  <2>5. EstimadosEnCola' => EstimadosEnCola
    BY <1>1 DEF EstimadosEnCola, Indices
  <2> QED BY <1>1, <2>2, <2>3, <2>4, <2>5 DEF Cabeza, Indices, NULL
<1> QED BY <1>5, <1>6, <1>7, <1>8, <1>9 DEF IInv

\* What the end of a push leaves alone: no timer is pending for t any more.
LEMMA PasoMostrado ==
  ASSUME IInv, NEW t \in Hilos,
         hilo[t].pc \in {"mostrar", "leer"}, hilo'[t].pc \in {"leer", "libre"},
         \A u \in Hilos \ {t} : hilo'[u] = hilo[u],
         UNCHANGED <<ready_queue, espera_en_ready, est_next_burst, lugar, sts>>
  PROVE  Cola' /\ Temporizadores' /\ Pendientes' /\ Cabeza'
<1>1. hilo[t].pc # "temporizar" /\ hilo'[t].pc # "temporizar"
  OBVIOUS
<1>2. \A u \in Hilos, p \in Pids : Temporiza(u, p)' <=> Temporiza(u, p)
  BY <1>1 DEF Temporiza
<1>3. Cola' /\ Cabeza'
  BY DEF IInv, Cola, Cabeza, EstimadosEnCola, Indices
<1>4. Temporizadores'
  BY <1>2 DEF IInv, Temporizadores
<1>5. Pendientes'
  BY <1>1 DEF IInv, Pendientes, Indices
<1> QED BY <1>3, <1>4, <1>5

\* The permit passes from the thread to the semaphore.
LEMMA PasoPublicar ==
  ASSUME IInv, NEW t \in Hilos, hilo[t].pc \in {"mostrar", "leer"}, publicar(t)
  PROVE  IInv'
<1>1. /\ semProcesoListo' = semProcesoListo + 1
      /\ hilo' = [hilo EXCEPT ![t] = Libre]
      /\ UNCHANGED <<ready_queue, espera_en_ready, est_next_burst, lugar, sts>>
  BY DEF publicar, vTiempos
<1>2. hilo'[t].pc = "libre" /\ \A u \in Hilos \ {t} : hilo'[u] = hilo[u]
  BY <1>1 DEF IInv, Tipos, Libre
<1>3. Tipos'
  <2>1. Libre \in [pc : {"libre", "temporizar", "mostrar", "leer"}, pid : Pids \cup {NADIE}, n : Nat]
    BY DEF Libre
  <2> QED BY <1>1, <2>1 DEF IInv, Tipos
<1>4. Balance'
  <2>1. Ocupados' = Ocupados \ {t} /\ t \in Ocupados
    BY <1>2 DEF Ocupados
  <2>2. Cardinality(Ocupados') = Cardinality(Ocupados) - 1
    BY <2>1, OcupadosFinito, FS_RemoveElement
  <2> QED BY <1>1, <2>2, OcupadosFinito DEF IInv, Tipos, Balance, EnMano
<1>5. Cola' /\ Temporizadores' /\ Pendientes' /\ Cabeza'
  BY <1>1, <1>2, PasoMostrado
<1> QED BY <1>3, <1>4, <1>5 DEF IInv

\* A push is logged and announced, or the walk falls off the queue.
LEMMA PasoMostrar ==
  ASSUME IInv, NEW t \in Hilos, mostrar_cola_ready(t)
  PROVE  IInv'
<1>1. CASE ready_queue = <<>>
  BY <1>1, PasoPublicar DEF mostrar_cola_ready
<1>2. CASE ready_queue # <<>>
  <2>1. /\ hilo[t].pc = "mostrar"
        /\ hilo' = [hilo EXCEPT ![t].pc = "leer", ![t].n = Len(ready_queue)]
        /\ UNCHANGED <<ready_queue, semProcesoListo, espera_en_ready, est_next_burst, lugar, sts>>
    BY <1>2 DEF mostrar_cola_ready, vTiempos
  <2>2. hilo'[t].pc = "leer" /\ \A u \in Hilos \ {t} : hilo'[u] = hilo[u]
    BY <2>1 DEF IInv, Tipos
  <2>3. Len(ready_queue) \in Nat
    BY DEF IInv, Tipos
  <2>4. Tipos'
    BY <2>1, <2>3, ZenonT(40) DEF IInv, Tipos
  <2>5. Ocupados' = Ocupados
    BY <2>1, <2>2 DEF Ocupados
  <2>6. Balance'
    BY <2>1, <2>5 DEF IInv, Balance, EnMano
  <2>7. Cola' /\ Temporizadores' /\ Pendientes' /\ Cabeza'
    BY <2>1, <2>2, PasoMostrado
  <2> QED BY <2>4, <2>6, <2>7 DEF IInv
<1> QED BY <1>1, <1>2

\* A stutter, or the end of the process kernel.
LEMMA PasoQuieto ==
  ASSUME IInv, UNCHANGED <<ready_queue, semProcesoListo, vTiempos, lugar, hilo, sts>>
  PROVE  IInv'
BY ZenonT(40) DEF IInv, Tipos, Balance, EnMano, Ocupados, Cola, Temporizadores, Pendientes, Cabeza, EstimadosEnCola,
       Indices, Temporiza, vTiempos

LEMMA PasoLeer ==
  ASSUME IInv, NEW t \in Hilos, leer_ultimo(t)
  PROVE  IInv'
<1>1. CASE Len(ready_queue) < hilo[t].n
  BY <1>1, PasoQuieto DEF leer_ultimo, Caer
<1>2. CASE ~(Len(ready_queue) < hilo[t].n)
  BY <1>2, PasoPublicar DEF leer_ultimo
<1> QED BY <1>1, <1>2

-----------------------------------------------------------------------------
LEMMA PasoEsperar == ASSUME IInv, sts_esperar PROVE IInv'
<1>1. /\ sts = "espera" /\ sts' = "ordena" /\ semProcesoListo > 0
      /\ semProcesoListo' = semProcesoListo - 1
      /\ UNCHANGED <<ready_queue, espera_en_ready, est_next_burst, lugar, hilo>>
  BY DEF sts_esperar, vTiempos
<1>2. Tipos'
  BY <1>1 DEF IInv, Tipos
<1>3. Balance'
  <2>1. Ocupados' = Ocupados
    BY <1>1 DEF Ocupados
  <2> QED BY <1>1, <2>1, OcupadosFinito DEF IInv, Tipos, Balance, EnMano
<1>4. Cola' /\ Temporizadores' /\ Pendientes' /\ Cabeza'
  BY <1>1 DEF IInv, Cola, Temporizadores, Pendientes, Cabeza, EstimadosEnCola, Indices, Temporiza
<1> QED BY <1>2, <1>3, <1>4 DEF IInv

\* While the scheduler has a permit the queue is not empty, and when it has one
\* entry only, no thread is between its push and its post.
LEMMA UnoSolo ==
  ASSUME IInv, sts \in {"ordena", "saca"}
  PROVE  /\ Len(ready_queue) \in Nat /\ Len(ready_queue) >= 1
         /\ Len(ready_queue) = 1 => \A t \in Hilos : hilo[t].pc # "temporizar"
<1>1. /\ Len(ready_queue) \in Nat /\ semProcesoListo \in Nat
      /\ semProcesoListo + Cardinality(Ocupados) + 1 = Len(ready_queue)
  BY DEF IInv, Tipos, Balance, EnMano
<1>2. Len(ready_queue) = 1 => Cardinality(Ocupados) = 0
  BY <1>1, OcupadosFinito
<1>3. Len(ready_queue) = 1 => Ocupados = {}
  BY <1>2, OcupadosFinito, FS_EmptySet
<1>4. Ocupados = {} => \A t \in Hilos : hilo[t].pc # "temporizar"
  BY DEF Ocupados
<1> QED BY <1>1, <1>3, <1>4, OcupadosFinito

\* Sorting permutes the queue.
LEMMA Permuta ==
  ASSUME IInv, ready_queue' \in Ordenes(ready_queue)
  PROVE  \E f \in [Indices -> Indices] :
           /\ \A i, j \in Indices : f[i] = f[j] => i = j
           /\ \A j \in Indices : \E i \in Indices : f[i] = j
           /\ ready_queue' = [i \in Indices |-> ready_queue[f[i]]]
<1>1. DOMAIN ready_queue = Indices
  BY DEF IInv, Tipos, Indices
<1>2. PICK f \in Bijection(Indices, Indices) : ready_queue' = [i \in Indices |-> ready_queue[f[i]]]
  BY <1>1 DEF Ordenes
<1> QED BY <1>2 DEF Bijection, Injection, Surjection, IsInjective

LEMMA RazonMayor ==
  ASSUME NEW p, NEW q, mayor_RR(p, q),
         espera_en_ready[p] * est_next_burst[q] \in Nat, espera_en_ready[q] * est_next_burst[p] \in Nat
  PROVE  espera_en_ready[p] * est_next_burst[q] >= espera_en_ready[q] * est_next_burst[p]
<1> DEFINE a == espera_en_ready[p] * est_next_burst[q]
           b == espera_en_ready[q] * est_next_burst[p]
<1>1. a > b \/ a = b
  BY DEF mayor_RR
<1>2. a \in Nat /\ b \in Nat
  OBVIOUS
<1> HIDE DEF a, b
<1>3. a >= b
  BY <1>1, <1>2
<1> QED BY <1>3 DEF a, b

LEMMA PasoOrdenar == ASSUME IInv, ordenar_cola_listos PROVE IInv'
<1>1. CASE Len(ready_queue) > 1 /\ \E p \in ToSet(ready_queue) : espera_en_ready[p] = NULL
  BY <1>1, PasoQuieto DEF ordenar_cola_listos, Caer
<1>2. CASE ~(Len(ready_queue) > 1 /\ \E p \in ToSet(ready_queue) : espera_en_ready[p] = NULL)
  <2>1. /\ sts = "ordena" /\ sts' = "saca"
        /\ ready_queue' \in IF Len(ready_queue) > 1 THEN Ordenes(ready_queue) ELSE {ready_queue}
        /\ UNCHANGED <<semProcesoListo, espera_en_ready, est_next_burst, lugar, hilo>>
    BY <1>2 DEF ordenar_cola_listos, vTiempos
  <2>2. PICK f \in [Indices -> Indices] :
          /\ \A i, j \in Indices : f[i] = f[j] => i = j
          /\ \A j \in Indices : \E i \in Indices : f[i] = j
          /\ ready_queue' = [i \in Indices |-> ready_queue[f[i]]]
    <3>1. CASE Len(ready_queue) > 1
      BY <3>1, <2>1, Permuta
    <3>2. CASE ~(Len(ready_queue) > 1)
      <4>1. ready_queue' = ready_queue
        BY <3>2, <2>1
      <4>2. [i \in Indices |-> ready_queue[[k \in Indices |-> k][i]]] = ready_queue
        BY DEF IInv, Tipos, Indices
      <4> QED BY <4>1, <4>2
    <3> QED BY <3>1, <3>2
  <2>3. /\ ready_queue' \in Seq(Pids) /\ Len(ready_queue') = Len(ready_queue) /\ Indices' = Indices
        /\ \A i \in Indices : f[i] \in Indices /\ ready_queue'[i] = ready_queue[f[i]]
    <3> DEFINE n == Len(ready_queue)
    <3>1. n \in Nat /\ Indices = 1 .. n /\ \A i \in Indices : ready_queue[i] \in Pids
      BY DEF IInv, Tipos, Indices
    <3>2. ready_queue' \in [1 .. n -> Pids]
      BY <2>2, <3>1
    <3>3. ready_queue' \in Seq(Pids) /\ Len(ready_queue') = n
      BY <3>1, <3>2, EsSucesion
    <3> QED BY <2>2, <3>1, <3>3 DEF Indices
  <2>4. Tipos'
    BY <2>1, <2>3 DEF IInv, Tipos
  <2>5. Balance'
    <3>1. Ocupados' = Ocupados
      BY <2>1 DEF Ocupados
    <3> QED BY <2>1, <2>3, <3>1 DEF IInv, Balance, EnMano
  <2>6. Cola'
    <3>1. \A i \in Indices : lugar[ready_queue'[i]] = "ready"
      BY <2>3 DEF IInv, Cola
    <3>2. ASSUME NEW i \in Indices, NEW j \in Indices, ready_queue'[i] = ready_queue'[j]
          PROVE  i = j
      <4>1. f[i] = f[j]
        BY <2>3, <3>2 DEF IInv, Cola
      <4> QED BY <4>1, <2>2
    <3> QED BY <2>1, <2>3, <3>1, <3>2 DEF Cola
  <2>7. Temporizadores'
    BY <2>1 DEF IInv, Temporizadores, Temporiza
  <2>8. Pendientes'
    <3>1. ASSUME NEW t \in Hilos, hilo[t].pc = "temporizar"
          PROVE  \E i \in Indices : hilo[t].pid = ready_queue'[i]
      <4>1. PICK j \in Indices : hilo[t].pid = ready_queue[j]
        BY <3>1 DEF IInv, Pendientes
      <4>2. PICK i \in Indices : f[i] = j
        BY <2>2
      <4> QED BY <2>3, <4>1, <4>2
    <3> QED BY <2>1, <2>3, <3>1 DEF IInv, Pendientes
  <2>9. Cabeza'
    <3>1. 1 \in Indices /\ \A i \in Indices : ready_queue[i] \in Pids /\ ready_queue'[i] \in Pids
      BY <2>1, <2>3, UnoSolo DEF IInv, Tipos, Indices
    <3>2. \A i \in Indices : espera_en_ready[ready_queue[i]] # NULL
      <4>1. CASE Len(ready_queue) > 1
        BY <4>1, <1>2 DEF IInv, Tipos, Indices, ToSet
      <4>2. CASE ~(Len(ready_queue) > 1)
        <5>0. Len(ready_queue) = 1
          BY <4>2, <2>1, UnoSolo, SMTT(30)
        <5>1. \A t \in Hilos : hilo[t].pc # "temporizar"
          BY <5>0, <2>1, UnoSolo
        <5> QED BY <5>1, <3>1 DEF IInv, Cola, Temporizadores, Temporiza
      <4> QED BY <4>1, <4>2
    <3>0. EstimadosEnCola' <=> \A i \in Indices : est_next_burst[ready_queue'[i]] # BASURA
      BY <2>1, <2>3 DEF EstimadosEnCola
    <3>3. EstimadosEnCola' =>
            \A i \in Indices : espera_en_ready[ready_queue'[i]] \in Nat /\ est_next_burst[ready_queue'[i]] \in Nat
      <4>1. \A i \in Indices : espera_en_ready[ready_queue'[i]] \in Nat
        BY <2>3, <3>1, <3>2, ZenonT(40) DEF IInv, Tipos
      <4>2. \A i \in Indices : est_next_burst[ready_queue'[i]] \in {BASURA} \cup Nat
        BY <3>1 DEF IInv, Tipos
      <4> QED BY <3>0, <4>1, <4>2
    <3>4. ASSUME EstimadosEnCola', NEW i \in Indices
          PROVE  espera_en_ready[ready_queue'[1]] * est_next_burst[ready_queue'[i]]
                   >= espera_en_ready[ready_queue'[i]] * est_next_burst[ready_queue'[1]]
      <4> DEFINE h == ready_queue'[1]  q == ready_queue'[i]
      <4>1. /\ espera_en_ready[h] * est_next_burst[q] \in Nat
            /\ espera_en_ready[q] * est_next_burst[h] \in Nat
        BY <3>1, <3>3, <3>4
      <4>2. CASE i = 1
        BY <4>1, <4>2
      <4>3. CASE i # 1
        <5>1. Len(ready_queue) > 1 /\ 1 < i
          BY <4>3, <2>1, UnoSolo DEF Indices
        <5>2. mayor_RR(h, q)
          <6>1. ready_queue' \in Ordenes(ready_queue) /\ DOMAIN ready_queue = Indices
            BY <5>1, <2>1 DEF IInv, Tipos, Indices
          <6>2. Estimados(ToSet(ready_queue))
            <7>1. \A j \in Indices : est_next_burst[ready_queue[j]] # BASURA
              <8> SUFFICES ASSUME NEW j \in Indices PROVE est_next_burst[ready_queue[j]] # BASURA
                OBVIOUS
              <8>1. PICK k \in Indices : f[k] = j
                BY <2>2
              <8>2. est_next_burst[ready_queue'[k]] # BASURA
                BY <3>0, <3>4
              <8> QED BY <2>3, <8>1, <8>2
            <7> QED BY <6>1, <7>1 DEF Estimados, ToSet
          <6>3. \A a, b \in Indices : a < b => mayor_RR(ready_queue'[a], ready_queue'[b])
            BY <6>1, <6>2 DEF Ordenes
          <6> QED BY <5>1, <3>1, <6>3
        <5> QED BY <4>1, <5>2, RazonMayor
      <4> QED BY <4>2, <4>3
    <3>5. espera_en_ready[ready_queue'[1]] # NULL
      BY <3>1, <3>2, <2>3
    <3> QED BY <2>1, <2>3, <3>4, <3>5 DEF Cabeza
  <2> QED BY <2>4, <2>5, <2>6, <2>7, <2>8, <2>9 DEF IInv
<1> QED BY <1>1, <1>2

\* What sacar_pcb_cola_listos takes: the first of the queue, which is there once,
\* has a timer, and is not the process of a timer still to be created.
LEMMA Primero ==
  ASSUME IInv, sts = "saca"
  PROVE  LET h == Head(ready_queue) IN
         /\ Len(ready_queue) \in Nat /\ Len(ready_queue) >= 1
         /\ h \in Pids /\ h = ready_queue[1] /\ lugar[h] = "ready" /\ espera_en_ready[h] \in Nat
         /\ \A t \in Hilos : ~Temporiza(t, h)
         /\ \A i \in Indices : i # 1 => ready_queue[i] # h
<1> DEFINE h == Head(ready_queue)
<1>1. Len(ready_queue) \in Nat /\ Len(ready_queue) >= 1 /\ 1 \in Indices
  BY UnoSolo DEF Indices
<1>2. h = ready_queue[1] /\ h \in Pids
  BY <1>1 DEF IInv, Tipos
<1>3. lugar[h] = "ready" /\ \A i \in Indices : i # 1 => ready_queue[i] # h
  BY <1>1, <1>2 DEF IInv, Cola
<1>4. espera_en_ready[h] # NULL /\ espera_en_ready[h] \in Nat
  BY <1>2 DEF IInv, Tipos, Cabeza
<1>5. \A t \in Hilos : ~Temporiza(t, h)
  BY <1>2, <1>4 DEF IInv, Temporizadores
<1> QED BY <1>1, <1>2, <1>3, <1>4, <1>5

LEMMA PasoSacar == ASSUME IInv, sacar_pcb_cola_listos PROVE IInv'
<1> DEFINE h == Head(ready_queue)
<1>1. /\ sts = "saca" /\ sts' = "cpu"
      /\ ready_queue' = Tail(ready_queue)
      /\ lugar' = [lugar EXCEPT ![h] = "exec"]
      /\ espera_en_ready' = [espera_en_ready EXCEPT ![h] = NULL]
      /\ UNCHANGED <<semProcesoListo, est_next_burst, hilo>>
  BY DEF sacar_pcb_cola_listos
<1>2. /\ Len(ready_queue) \in Nat /\ Len(ready_queue) >= 1
      /\ h \in Pids /\ h = ready_queue[1] /\ lugar[h] = "ready"
      /\ \A t \in Hilos : ~Temporiza(t, h)
      /\ \A i \in Indices : i # 1 => ready_queue[i] # h
  BY <1>1, Primero
<1>3. ready_queue # <<>> /\ ready_queue \in Seq(Pids)
  BY <1>2 DEF IInv, Tipos
<1>4. /\ ready_queue' \in Seq(Pids) /\ Len(ready_queue') = Len(ready_queue) - 1
      /\ \A i \in Indices' : i \in Nat /\ i + 1 \in Indices /\ i + 1 # 1 /\ ready_queue'[i] = ready_queue[i + 1]
  BY <1>1, <1>2, <1>3 DEF Indices
<1>5. Tipos'
  BY <1>1, <1>2, <1>4 DEF IInv, Tipos
<1>6. Balance'
  <2>1. Ocupados' = Ocupados
    BY <1>1 DEF Ocupados
  <2>2. EnMano = 1 /\ EnMano' = 0
    BY <1>1 DEF EnMano
  <2>3. semProcesoListo \in Nat /\ semProcesoListo' = semProcesoListo
    BY <1>1 DEF IInv, Tipos
  <2>4. semProcesoListo + Cardinality(Ocupados) + 1 = Len(ready_queue)
    BY <2>2 DEF IInv, Balance
  <2>5. semProcesoListo' + Cardinality(Ocupados') + 0 = Len(ready_queue')
    BY <1>2, <1>4, <2>1, <2>3, <2>4, OcupadosFinito
  <2> QED BY <2>2, <2>5 DEF Balance
<1>7. Cola'
  <2>1. \A i \in Indices' : ready_queue'[i] # h /\ ready_queue'[i] \in Pids
    <3>1. \A i \in Indices : ready_queue[i] \in Pids
      BY DEF IInv, Tipos, Indices
    <3> QED BY <1>2, <1>4, <3>1
  <2>2. \A i \in Indices' : lugar'[ready_queue'[i]] = "ready"
    <3>1. \A q \in Pids \ {h} : lugar'[q] = lugar[q]
      BY <1>1 DEF IInv, Tipos
    <3> QED BY <1>4, <2>1, <3>1 DEF IInv, Cola
  <2>3. ASSUME NEW i \in Indices', NEW j \in Indices', ready_queue'[i] = ready_queue'[j]
        PROVE  i = j
    <3>1. i + 1 = j + 1
      BY <1>4, <2>3 DEF IInv, Cola
    <3> QED BY <3>1 DEF Indices
  <2> QED BY <2>2, <2>3 DEF Cola
<1>8. Temporizadores'
  <2>1. \A q \in Pids, t \in Hilos : Temporiza(t, q)' <=> Temporiza(t, q)
    BY <1>1 DEF Temporiza
  <2>2. espera_en_ready'[h] = NULL /\ lugar'[h] = "exec"
    BY <1>1, <1>2 DEF IInv, Tipos
  <2>3. \A q \in Pids \ {h} : espera_en_ready'[q] = espera_en_ready[q] /\ lugar'[q] = lugar[q]
    BY <1>1, <1>2 DEF IInv, Tipos
  <2> QED BY <2>1, <2>2, <2>3 DEF IInv, Temporizadores
<1>9. Pendientes'
  <2>1. ASSUME NEW t \in Hilos, hilo[t].pc = "temporizar"
        PROVE  \E i \in Indices' : hilo[t].pid = ready_queue'[i]
    <3>1. PICK i \in Indices : hilo[t].pid = ready_queue[i]
      BY <2>1 DEF IInv, Pendientes
    <3>2. i # 1
      BY <2>1, <3>1, <1>2 DEF Temporiza
    <3>3. i - 1 \in Indices' /\ ready_queue'[i - 1] = ready_queue[i]
      BY <3>2, <1>2, <1>4 DEF Indices
    <3> QED BY <3>1, <3>3
  <2> QED BY <2>1, <1>1 DEF IInv, Pendientes
<1>10. Cabeza'
  BY <1>1 DEF Cabeza
<1> QED BY <1>5, <1>6, <1>7, <1>8, <1>9, <1>10 DEF IInv

\* The process that leaves the CPU for good or to wait: nothing but its place, its
\* estimate and the time of the others changes.
LEMMA PasoFuera ==
  ASSUME IInv, NEW p \in Pids, NEW b \in Nat,
         sts = "cpu", lugar[p] = "exec", sts' = "espera",
         est_next_burst' \in [Pids -> {BASURA} \cup Nat],
         lugar' = [lugar EXCEPT ![p] = "fuera"],
         espera_en_ready' = Transcurrir(b),
         UNCHANGED <<ready_queue, semProcesoListo, hilo>>
  PROVE  IInv'
<1>1. /\ espera_en_ready' \in [Pids -> {NULL} \cup Nat]
      /\ \A q \in Pids : espera_en_ready'[q] = NULL <=> espera_en_ready[q] = NULL
  BY TiempoTranscurrido DEF IInv
<1>2. lugar'[p] = "fuera" /\ \A q \in Pids \ {p} : lugar'[q] = lugar[q]
  BY DEF IInv, Tipos
<1>3. Tipos'
  BY <1>1 DEF IInv, Tipos
<1>4. Balance'
  <2>1. Ocupados' = Ocupados
    BY DEF Ocupados
  <2> QED BY <2>1 DEF IInv, Balance, EnMano
<1>5. Cola' /\ Pendientes' /\ Cabeza'
  BY DEF IInv, Tipos, Cola, Pendientes, Cabeza, EstimadosEnCola, Indices
<1>6. Temporizadores'
  <2>1. \A q \in Pids, t \in Hilos : Temporiza(t, q)' <=> Temporiza(t, q)
    BY DEF Temporiza
  <2> QED BY <1>1, <1>2, <2>1 DEF IInv, Temporizadores
<1> QED BY <1>3, <1>4, <1>5, <1>6 DEF IInv

\* The process that goes straight back to the queue: the scheduler itself pushes,
\* starts the timer and posts.
LEMMA PasoVuelve ==
  ASSUME IInv, NEW p \in Pids, NEW b \in Nat,
         sts = "cpu", lugar[p] = "exec", sts' = "espera",
         est_next_burst' \in [Pids -> {BASURA} \cup Nat],
         lugar' = [lugar EXCEPT ![p] = "ready"],
         espera_en_ready' = [Transcurrir(b) EXCEPT ![p] = 0],
         ready_queue' = Append(ready_queue, p),
         semProcesoListo' = semProcesoListo + 1,
         UNCHANGED hilo
  PROVE  IInv'
<1>1. /\ Transcurrir(b) \in [Pids -> {NULL} \cup Nat]
      /\ \A q \in Pids : Transcurrir(b)[q] = NULL <=> espera_en_ready[q] = NULL
  BY TiempoTranscurrido DEF IInv
<1>2. /\ Len(ready_queue') = Len(ready_queue) + 1
      /\ \A i \in Indices : ready_queue'[i] = ready_queue[i] /\ ready_queue[i] \in Pids
      /\ ready_queue'[Len(ready_queue) + 1] = p
      /\ \A i \in Indices' : i \in Indices \/ i = Len(ready_queue) + 1
      /\ Len(ready_queue) \in Nat
      /\ ready_queue' \in Seq(Pids)
  BY DEF IInv, Tipos, Indices
<1>3. lugar'[p] = "ready" /\ \A q \in Pids \ {p} : lugar'[q] = lugar[q]
  BY DEF IInv, Tipos
<1>4. /\ espera_en_ready'[p] = 0
      /\ \A q \in Pids \ {p} : espera_en_ready'[q] = Transcurrir(b)[q]
      /\ espera_en_ready' \in [Pids -> {NULL} \cup Nat]
  BY <1>1
<1>5. Tipos'
  BY <1>2, <1>4 DEF IInv, Tipos
<1>6. Balance'
  <2>1. Ocupados' = Ocupados
    BY DEF Ocupados
  <2>2. EnMano = 0 /\ EnMano' = 0
    BY DEF EnMano
  <2>3. semProcesoListo + Cardinality(Ocupados) + 0 = Len(ready_queue)
    BY <2>2 DEF IInv, Balance
  <2>4. semProcesoListo' + Cardinality(Ocupados') + 0 = Len(ready_queue')
    BY <1>2, <2>1, <2>3, OcupadosFinito, SMTT(30) DEF IInv, Tipos
  <2> QED BY <2>2, <2>4 DEF Balance
<1>7. \A i \in Indices : ready_queue[i] # p
  BY DEF IInv, Cola
<1>8. Cola'
  BY <1>2, <1>3, <1>7 DEF IInv, Tipos, Cola, Indices
<1>9. Pendientes'
  BY <1>2 DEF IInv, Pendientes, Indices
<1>10. Temporizadores'
  <2>1. \A q \in Pids, t \in Hilos : Temporiza(t, q)' <=> Temporiza(t, q)
    BY DEF Temporiza
  <2>2. \A t \in Hilos : ~Temporiza(t, p)
    BY <1>7 DEF IInv, Pendientes, Temporiza
  <2>3. espera_en_ready'[p] # NULL
    BY <1>4 DEF NULL
  <2> QED BY <1>1, <1>3, <1>4, <2>1, <2>2, <2>3 DEF IInv, Temporizadores
<1>11. Cabeza'
  BY DEF Cabeza
<1> QED BY <1>5, <1>6, <1>8, <1>9, <1>10, <1>11 DEF IInv

LEMMA PasoRecibir ==
  ASSUME IInv, NEW p \in Pids, recibir_pcb_de_CPU(p)
  PROVE  IInv'
<1>1. PICK b \in 1 .. MaxRafaga :
        /\ \E e \in estimacion_next_burst(est_next_burst[p], b) :
             est_next_burst' = [est_next_burst EXCEPT ![p] = e]
        /\ \/ /\ lugar' = [lugar EXCEPT ![p] = "fuera"]
              /\ espera_en_ready' = Transcurrir(b)
              /\ UNCHANGED <<ready_queue, semProcesoListo>>
           \/ /\ lugar' = [lugar EXCEPT ![p] = "ready"]
              /\ espera_en_ready' = [Transcurrir(b) EXCEPT ![p] = 0]
              /\ ready_queue' = Append(ready_queue, p)
              /\ semProcesoListo' = semProcesoListo + 1
  BY DEF recibir_pcb_de_CPU
<1>2. sts = "cpu" /\ lugar[p] = "exec" /\ sts' = "espera" /\ UNCHANGED hilo
  BY DEF recibir_pcb_de_CPU
<1>3. b \in Nat /\ est_next_burst[p] \in {BASURA} \cup Nat
  BY ColaListosAssumption DEF IInv, Tipos
<1>4. est_next_burst' \in [Pids -> {BASURA} \cup Nat]
  <2>1. PICK e \in estimacion_next_burst(est_next_burst[p], b) :
          est_next_burst' = [est_next_burst EXCEPT ![p] = e]
    BY <1>1
  <2>2. e \in {BASURA} \cup Nat
    BY <1>3, EstimacionNat
  <2> QED BY <2>1, <2>2 DEF IInv, Tipos
<1>5. CASE lugar' = [lugar EXCEPT ![p] = "fuera"] /\ espera_en_ready' = Transcurrir(b)
           /\ UNCHANGED <<ready_queue, semProcesoListo>>
  BY <1>2, <1>3, <1>4, <1>5, PasoFuera
<1>6. CASE /\ lugar' = [lugar EXCEPT ![p] = "ready"]
           /\ espera_en_ready' = [Transcurrir(b) EXCEPT ![p] = 0]
           /\ ready_queue' = Append(ready_queue, p)
           /\ semProcesoListo' = semProcesoListo + 1
  BY <1>2, <1>3, <1>4, <1>6, PasoVuelve
<1> QED BY <1>1, <1>5, <1>6

LEMMA PasoArchivo ==
  ASSUME IInv, NEW p \in Pids, esperar_archivo(p)
  PROVE  IInv'
<1>1. PICK e \in SinEscribir(est_next_burst[p]) : est_next_burst' = [est_next_burst EXCEPT ![p] = e]
  BY DEF esperar_archivo
<1>2. PICK b \in 1 .. MaxRafaga : espera_en_ready' = Transcurrir(b)
  BY DEF esperar_archivo
<1>3. b \in Nat /\ e \in {BASURA} \cup Nat
  BY ColaListosAssumption DEF SinEscribir
<1>4. est_next_burst' \in [Pids -> {BASURA} \cup Nat]
  BY <1>1, <1>3 DEF IInv, Tipos
<1> QED BY <1>2, <1>3, <1>4, PasoFuera DEF esperar_archivo

-----------------------------------------------------------------------------
LEMMA PasoAgregarHilo == ASSUME IInv, NEW t \in Hilos, agregar(t) PROVE IInv'
BY PasoAgregar, PasoTemporizar, PasoMostrar, PasoLeer DEF agregar

LEMMA PasoPlanificador == ASSUME IInv, short_term_scheduler PROVE IInv'
BY PasoEsperar, PasoOrdenar, PasoSacar, PasoRecibir, PasoArchivo DEF short_term_scheduler

LEMMA Paso == IInv /\ [Next]_vars => IInv'
<1>1. ASSUME IInv, UNCHANGED vars PROVE IInv'
  BY <1>1, PasoQuieto DEF vars
<1> QED BY <1>1, PasoAgregarHilo, PasoPlanificador DEF Next

LEMMA Invariante == Spec => []IInv
BY Inicio, Paso, PTL DEF Spec

\* The only step from "saca" takes the first of the queue, which has the largest
\* ratio of those that are timed; a NULL timer counts as no wait.
LEMMA PasoDespacho ==
  ASSUME IInv, [Next]_vars, sts = "saca", sts' = "cpu", Estimados(ToSet(ready_queue))
  PROVE  LET h == Head(ready_queue) IN
         \A p \in ToSet(ready_queue) :
           espera_en_ready[h] * est_next_burst[p] >= espera_en_ready[p] * est_next_burst[h]
<1> DEFINE h == Head(ready_queue)
<1> SUFFICES ASSUME NEW i \in Indices
             PROVE  espera_en_ready[h] * est_next_burst[ready_queue[i]]
                      >= espera_en_ready[ready_queue[i]] * est_next_burst[h]
  <2>1. \A p \in ToSet(ready_queue) : \E i \in Indices : p = ready_queue[i]
    BY DEF IInv, Tipos, Indices, ToSet
  <2> QED BY <2>1
<1> DEFINE q == ready_queue[i]
<1>1. h \in Pids /\ h = ready_queue[1] /\ espera_en_ready[h] \in Nat
  BY Primero
<1>2. q \in Pids
  BY DEF IInv, Tipos, Indices
<1>0. EstimadosEnCola
  BY DEF IInv, Tipos, Indices, EstimadosEnCola, Estimados, ToSet
<1>3. est_next_burst[h] \in Nat /\ est_next_burst[q] \in Nat
  <2>1. 1 \in Indices
    BY Primero DEF Indices
  <2> QED BY <1>0, <1>1, <1>2, <2>1 DEF IInv, Tipos, EstimadosEnCola
<1>4. CASE espera_en_ready[q] # NULL
  BY <1>0, <1>1, <1>4 DEF IInv, Cabeza
<1>5. CASE espera_en_ready[q] = NULL
  <2>1. \A x, y \in Nat : x * y \in Nat
    OBVIOUS
  <2>2. espera_en_ready[q] * est_next_burst[h] = NULL * est_next_burst[h]
    BY <1>5, Zenon
  <2>3. NULL * est_next_burst[h] \in Int /\ NULL * est_next_burst[h] <= 0
    BY <1>3 DEF NULL
  <2>4. espera_en_ready[h] * est_next_burst[q] \in Nat
    BY <1>1, <1>3, <2>1
  <2>5. \A a \in Nat, z \in Int : z <= 0 => a >= z
    OBVIOUS
  <2> QED BY <2>2, <2>3, <2>4, <2>5
<1> QED BY <1>4, <1>5

\* empezar_espera_ready runs after the mutex of the queue was released, and the
\* permit that lets the scheduler take the process is posted after it: the timer is
\* created while the process is still in ready_queue, however many threads push at
\* once and in whatever order they post.
THEOREM TemporizadorSiempreATiempo == Spec => []TemporizadorATiempo
<1>1. IInv => TemporizadorATiempo
  BY DEF IInv, Tipos, Pendientes, TemporizadorATiempo, Indices, ToSet
<1> QED BY <1>1, Invariante, PTL

\* Whom meter_pcb_en_ejecucion dispatches has the largest response ratio of those
\* timed, although the queue is sorted in one step, and the head taken in another
\* after other threads may have pushed: when every estimate in the queue was written.
THEOREM DespachaMayorRazon == Spec => DespachoPorRatio
<1>1. IInv /\ [Next]_vars =>
        [sts = "saca" /\ sts' = "cpu" /\ Estimados(ToSet(ready_queue)) =>
           LET h == Head(ready_queue) IN
           \A p \in ToSet(ready_queue) :
             espera_en_ready[h] * est_next_burst[p] >= espera_en_ready[p] * est_next_burst[h]]_vars
  BY PasoDespacho
<1> QED BY <1>1, Invariante, PTL DEF Spec, DespachoPorRatio

-----------------------------------------------------------------------------
(* What the numbers of a finite set of processes are bounded by.           *)

Medidas ==
  /\ \A p \in Pids : espera_en_ready[p] = NULL \/ espera_en_ready[p] <= MaxEspera
  /\ \A p \in Pids : est_next_burst[p] \in {BASURA} \cup 1 .. MaxEstimacion
  /\ \A t \in Hilos : hilo[t].n <= Cardinality(Pids)
  /\ vivo \in BOOLEAN

LEMMA MinDeDosCota ==
  ASSUME NEW a \in Int, NEW b \in Int PROVE Min({a, b}) <= a /\ Min({a, b}) <= b
<1>1. \E x \in {a, b} : \A y \in {a, b} : x <= y
  OBVIOUS
<1> QED BY <1>1 DEF Min

\* The queue holds a process once at most.
LEMMA LargoDeCola ==
  ASSUME IInv, IsFiniteSet(Pids)
  PROVE  /\ Cardinality(Pids) \in Nat /\ Len(ready_queue) \in 0 .. Cardinality(Pids)
         /\ semProcesoListo \in 0 .. Cardinality(Pids)
<1>1. Len(ready_queue) \in Nat /\ \A i \in Indices : ready_queue[i] \in Pids
  BY DEF IInv, Tipos, Indices
<1> DEFINE f == [i \in Indices |-> ready_queue[i]]
<1>2. f \in Injection(Indices, Pids)
  BY <1>1 DEF IInv, Cola, Injection, IsInjective
<1> HIDE DEF f
<1>3. Cardinality(Indices) <= Cardinality(Pids) /\ Cardinality(Pids) \in Nat
  BY <1>2, FS_Injection, FS_CardinalityType
<1>4. Cardinality(Indices) = Len(ready_queue)
  <2> DEFINE n == Len(ready_queue)
  <2>1. n \in Int /\ n >= 0
    BY <1>1
  <2> HIDE DEF n
  <2>2. Cardinality(1 .. n) = IF 1 > n THEN 0 ELSE n - 1 + 1
    BY <2>1, FS_Interval
  <2>3. Cardinality(1 .. n) = n
    BY <2>1, <2>2
  <2> QED BY <2>3 DEF Indices, n
<1>5. semProcesoListo \in Nat /\ semProcesoListo <= Len(ready_queue)
  <2>1. semProcesoListo \in Nat /\ EnMano \in {0, 1}
    BY DEF IInv, Tipos, EnMano
  <2> QED BY <1>1, <2>1, OcupadosFinito DEF IInv, Balance
<1> QED BY <1>1, <1>3, <1>4, <1>5

\* Waits and estimates after a burst of b.
LEMMA EsperaCota ==
  ASSUME IInv, NEW b \in Nat, NEW p \in Pids
  PROVE  Transcurrir(b)[p] = NULL \/ Transcurrir(b)[p] <= MaxEspera
<1>1. CASE espera_en_ready[p] = NULL
  BY <1>1 DEF Transcurrir
<1>2. CASE espera_en_ready[p] # NULL
  <2>1. espera_en_ready[p] + b \in Int /\ MaxEspera \in Int
    BY <1>2, ColaListosAssumption DEF IInv, Tipos
  <2> QED BY <1>2, <2>1, MinDeDosCota DEF Transcurrir
<1> QED BY <1>1, <1>2

LEMMA EstimacionCota ==
  ASSUME NEW e \in {BASURA} \cup 1 .. MaxEstimacion, NEW b \in 1 .. MaxRafaga,
         NEW x \in estimacion_next_burst(e, b)
  PROVE  x \in {BASURA} \cup 1 .. MaxEstimacion
<1> SUFFICES ASSUME e # BASURA PROVE x \in 1 .. MaxEstimacion
  BY DEF estimacion_next_burst
<1>1. e \in Int /\ 1 <= e /\ e <= MaxEstimacion /\ b \in Int /\ 1 <= b /\ b <= MaxEstimacion
  BY ColaListosAssumption
<1>2. Min({e, b}) \in {e, b} /\ Max({e, b}) \in {e, b}
  BY <1>1, MinDeDos, MaxDeDos
<1> QED BY <1>1, <1>2, ColaListosAssumption DEF estimacion_next_burst

LEMMA MedidasIniciales == ASSUME IsFiniteSet(Pids), Init PROVE Medidas
<1>1. Cardinality(Pids) \in Nat
  BY FS_CardinalityType
<1> QED BY <1>1, ColaListosAssumption DEF Init, Medidas, Libre

\* Nothing that is measured changes.
LEMMA MedidasQuietas ==
  ASSUME Medidas, UNCHANGED <<espera_en_ready, est_next_burst, hilo>>, vivo' \in BOOLEAN
  PROVE  Medidas'
BY DEF Medidas

\* A thread changes what it has read, or starts the timer of a process.
LEMMA MedidasDeHilo ==
  ASSUME IInv, Medidas, IsFiniteSet(Pids), NEW t \in Hilos, agregar(t)
  PROVE  Medidas'
<1>1. /\ Cardinality(Pids) \in Nat /\ Len(ready_queue) \in 0 .. Cardinality(Pids)
      /\ MaxEspera \in Nat
  BY LargoDeCola, ColaListosAssumption
<1>2. CASE agregar_pcb_en_cola_listos(t)
  <2>1. PICK p \in Pids : hilo' = [hilo EXCEPT ![t] = [Libre EXCEPT !.pc = "temporizar", !.pid = p]]
    BY <1>2 DEF agregar_pcb_en_cola_listos
  <2>2. \A u \in Hilos : hilo'[u].n = IF u = t THEN 0 ELSE hilo[u].n
    BY <2>1 DEF IInv, Tipos, Libre
  <2>3. UNCHANGED <<espera_en_ready, est_next_burst, vivo>>
    BY <1>2 DEF agregar_pcb_en_cola_listos, vTiempos
  <2> QED BY <1>1, <2>2, <2>3 DEF Medidas
<1>3. CASE empezar_espera_ready(t)
  <2>1. \A u \in Hilos : hilo'[u].n = hilo[u].n
    BY <1>3 DEF empezar_espera_ready, IInv, Tipos
  <2>2. \A p \in Pids : espera_en_ready'[p] = 0 \/ espera_en_ready'[p] = espera_en_ready[p]
    BY <1>3 DEF empezar_espera_ready, IInv, Tipos
  <2>3. est_next_burst' = est_next_burst /\ vivo' = vivo
    BY <1>3 DEF empezar_espera_ready
  <2> QED BY <1>1, <2>1, <2>2, <2>3 DEF Medidas
<1>4. ASSUME publicar(t) PROVE Medidas'
  <2>1. \A u \in Hilos : hilo'[u].n = IF u = t THEN 0 ELSE hilo[u].n
    BY <1>4 DEF publicar, IInv, Tipos, Libre
  <2>2. UNCHANGED <<espera_en_ready, est_next_burst, vivo>>
    BY <1>4 DEF publicar, vTiempos
  <2> QED BY <1>1, <2>1, <2>2 DEF Medidas
<1>5. CASE mostrar_cola_ready(t)
  <2>1. CASE ready_queue = <<>>
    BY <1>4, <1>5, <2>1 DEF mostrar_cola_ready
  <2>2. CASE ready_queue # <<>>
    <3>1. /\ hilo' = [hilo EXCEPT ![t].pc = "leer", ![t].n = Len(ready_queue)]
          /\ UNCHANGED <<espera_en_ready, est_next_burst, vivo>>
      BY <1>5, <2>2 DEF mostrar_cola_ready, vTiempos
    <3>2. \A u \in Hilos : hilo'[u].n = IF u = t THEN Len(ready_queue) ELSE hilo[u].n
      BY <3>1 DEF IInv, Tipos
    <3>3. Len(ready_queue) <= Cardinality(Pids)
      BY <1>1
    <3>4. \A u \in Hilos : hilo'[u].n <= Cardinality(Pids)
      BY <3>2, <3>3 DEF Medidas
    <3> QED BY <3>1, <3>4 DEF Medidas
  <2> QED BY <2>1, <2>2
<1>6. CASE leer_ultimo(t)
  <2>1. CASE Caer
    BY <2>1, MedidasQuietas DEF Caer, vTiempos
  <2> QED BY <1>4, <1>6, <2>1 DEF leer_ultimo
<1> QED BY <1>2, <1>3, <1>5, <1>6 DEF agregar

LEMMA MedidasDePlanificador ==
  ASSUME IInv, Medidas, short_term_scheduler
  PROVE  Medidas'
<1>1. vivo \in BOOLEAN /\ MaxEspera \in Nat /\ \A b \in 1 .. MaxRafaga : b \in Nat
  BY ColaListosAssumption DEF Medidas
<1>2. CASE sts_esperar
  BY <1>1, <1>2, MedidasQuietas DEF sts_esperar, vTiempos
<1>3. CASE ordenar_cola_listos
  BY <1>1, <1>3, MedidasQuietas DEF ordenar_cola_listos, Caer, vTiempos
<1>4. CASE sacar_pcb_cola_listos
  <2>1. \A p \in Pids : espera_en_ready'[p] = NULL \/ espera_en_ready'[p] = espera_en_ready[p]
    BY <1>4 DEF sacar_pcb_cola_listos, IInv, Tipos
  <2> QED BY <1>4, <2>1 DEF sacar_pcb_cola_listos, Medidas
<1>5. ASSUME NEW p \in Pids, recibir_pcb_de_CPU(p) PROVE Medidas'
  <2>1. PICK b \in 1 .. MaxRafaga :
          /\ \E e \in estimacion_next_burst(est_next_burst[p], b) :
               est_next_burst' = [est_next_burst EXCEPT ![p] = e]
          /\ \/ espera_en_ready' = Transcurrir(b)
             \/ espera_en_ready' = [Transcurrir(b) EXCEPT ![p] = 0]
    BY <1>5, Zenon DEF recibir_pcb_de_CPU
  <2>2. PICK e \in estimacion_next_burst(est_next_burst[p], b) :
          est_next_burst' = [est_next_burst EXCEPT ![p] = e]
    BY <2>1
  <2>3. \A q \in Pids : est_next_burst'[q] \in {BASURA} \cup 1 .. MaxEstimacion
    <3>1. e \in {BASURA} \cup 1 .. MaxEstimacion
      BY <1>5, EstimacionCota DEF Medidas
    <3> QED BY <2>2, <3>1 DEF Medidas, IInv, Tipos
  <2>4. \A q \in Pids : espera_en_ready'[q] = 0 \/ espera_en_ready'[q] = Transcurrir(b)[q]
    BY <2>1 DEF Transcurrir
  <2>5. \A q \in Pids : espera_en_ready'[q] = NULL \/ espera_en_ready'[q] <= MaxEspera
    BY <1>1, <2>4, EsperaCota
  <2>6. hilo' = hilo /\ vivo' = vivo
    BY <1>5 DEF recibir_pcb_de_CPU
  <2> QED BY <2>3, <2>5, <2>6 DEF Medidas
<1>6. ASSUME NEW p \in Pids, esperar_archivo(p) PROVE Medidas'
  <2>1. PICK e \in SinEscribir(est_next_burst[p]), b \in 1 .. MaxRafaga :
          est_next_burst' = [est_next_burst EXCEPT ![p] = e] /\ espera_en_ready' = Transcurrir(b)
    BY <1>6 DEF esperar_archivo
  <2>2. \A q \in Pids : est_next_burst'[q] \in {BASURA} \cup 1 .. MaxEstimacion
    BY <2>1 DEF Medidas, IInv, Tipos, SinEscribir
  <2>3. \A q \in Pids : espera_en_ready'[q] = NULL \/ espera_en_ready'[q] <= MaxEspera
    BY <1>1, <2>1, EsperaCota
  <2>4. hilo' = hilo /\ vivo' = vivo
    BY <1>6 DEF esperar_archivo
  <2> QED BY <2>2, <2>3, <2>4 DEF Medidas
<1> QED BY <1>2, <1>3, <1>4, <1>5, <1>6 DEF short_term_scheduler

LEMMA MedidasPaso == ASSUME IInv, Medidas, IsFiniteSet(Pids), [Next]_vars PROVE Medidas'
<1>1. CASE UNCHANGED vars
  BY <1>1, MedidasQuietas DEF vars, vTiempos, Medidas
<1>2. CASE Next
  BY <1>2, MedidasDeHilo, MedidasDePlanificador DEF Next
<1> QED BY <1>1, <1>2

\* The semaphore, the sizes read from the queue, the waits and the estimates stay
\* within what the processes, the bound of a wait and the bursts allow: no permit
\* is posted twice, and no estimate that was written leaves the range of the bursts
\* and estimates before it.
THEOREM TiposCorrectos == ASSUME IsFiniteSet(Pids) PROVE Spec => []TypeOK
<1>1. Init => IInv /\ Medidas
  BY Inicio, MedidasIniciales
<1>2. IInv /\ Medidas /\ [Next]_vars => (IInv /\ Medidas)'
  BY Paso, MedidasPaso
<1>3. IInv /\ Medidas => TypeOK
  <2> SUFFICES ASSUME IInv, Medidas PROVE TypeOK
    OBVIOUS
  <2>1. Cardinality(Pids) \in Nat /\ semProcesoListo \in 0 .. Cardinality(Pids)
    BY LargoDeCola
  <2>2. espera_en_ready \in [Pids -> {NULL} \cup 0 .. MaxEspera]
    BY ColaListosAssumption DEF IInv, Tipos, Medidas
  <2>3. est_next_burst \in [Pids -> {BASURA} \cup 1 .. MaxEstimacion]
    BY DEF IInv, Tipos, Medidas
  <2>4. hilo \in [Hilos -> [pc : {"libre", "temporizar", "mostrar", "leer"},
                            pid : Pids \cup {NADIE}, n : 0 .. Cardinality(Pids)]]
    <3>1. \A t \in Hilos : hilo[t] \in [pc : {"libre", "temporizar", "mostrar", "leer"},
                                        pid : Pids \cup {NADIE}, n : 0 .. Cardinality(Pids)]
      BY <2>1 DEF IInv, Tipos, Medidas
    <3> QED BY <3>1 DEF IInv, Tipos
  <2> QED BY <2>1, <2>2, <2>3, <2>4 DEF IInv, Tipos, Medidas, TypeOK
<1> QED BY <1>1, <1>2, <1>3, PTL DEF Spec

-----------------------------------------------------------------------------
(* Aging: whoever waits long has been passed over for everybody else once.  *)

\* The wait from which nobody that came later is taken first, and what all the
\* others may execute meanwhile.
Ventaja == (MaxEstimacion - 1) * MaxRafaga * (Cardinality(Pids) - 1) + 1

\* Those that will not be taken before p: out of the queue, or so much later than p.
Tardios(p) ==
  {q \in Pids \ {p} : /\ lugar[q] # "exec"
                      /\ \/ espera_en_ready[q] = NULL
                         \/ espera_en_ready[q] + Ventaja <= espera_en_ready[p]}

\* Since p has waited that long every burst was of another process, which is late now.
Envejece(p) ==
  espera_en_ready[p] >= Ventaja =>
    espera_en_ready[p] <= Ventaja - 1 + MaxRafaga * Cardinality(Tardios(p))
Envejecen == \A p \in Pids : Envejece(p)

LEMMA Cotas ==
  ASSUME IsFiniteSet(Pids), NEW p \in Pids
  PROVE  /\ Cardinality(Pids) \in Nat \ {0} /\ Ventaja \in Nat \ {0} /\ CotaEspera \in Nat
         /\ CotaEspera = Ventaja - 1 + MaxRafaga * (Cardinality(Pids) - 1)
<1> DEFINE n == Cardinality(Pids) - 1
<1>1. n \in Nat
  BY FS_EmptySet, FS_CardinalityType
<1>2. MaxRafaga \in Nat /\ MaxEstimacion - 1 \in Nat /\ MaxEstimacion \in Nat
  BY ColaListosAssumption
<1>3. \A x, y \in Nat : x * y \in Nat
  OBVIOUS
<1>4. MaxRafaga * n \in Nat
  BY <1>1, <1>2, <1>3
<1>5. Ventaja = (MaxEstimacion - 1) * (MaxRafaga * n) + 1 /\ CotaEspera = MaxEstimacion * (MaxRafaga * n)
  <2>1. \A x, y, z \in Nat : x * y * z = x * (y * z)
    OBVIOUS
  <2> QED BY <1>1, <1>2, <2>1 DEF Ventaja, CotaEspera
<1> HIDE DEF n
<1>6. (MaxEstimacion - 1) * (MaxRafaga * n) \in Nat /\ MaxEstimacion * (MaxRafaga * n) \in Nat
  BY <1>2, <1>3, <1>4
<1>7. MaxEstimacion * (MaxRafaga * n) = (MaxEstimacion - 1) * (MaxRafaga * n) + MaxRafaga * n
  <2>1. \A x, y \in Nat : x * y = (x - 1) * y + y
    OBVIOUS
  <2> QED BY <1>2, <1>4, <2>1
<1>8. Cardinality(Pids) = n + 1
  BY FS_CardinalityType DEF n
<1> QED BY <1>1, <1>4, <1>5, <1>6, <1>7, <1>8

\* Only the other processes can be late.
LEMMA TardiosFinito ==
  ASSUME IsFiniteSet(Pids), NEW p \in Pids
  PROVE  /\ IsFiniteSet(Tardios(p)) /\ Cardinality(Tardios(p)) \in Nat
         /\ Cardinality(Tardios(p)) <= Cardinality(Pids) - 1
<1>1. IsFiniteSet(Pids \ {p}) /\ Cardinality(Pids \ {p}) = Cardinality(Pids) - 1
  BY FS_RemoveElement
<1>2. Tardios(p) \subseteq Pids \ {p}
  BY DEF Tardios
<1> QED BY <1>1, <1>2, FS_Subset, FS_CardinalityType

LEMMA EnvejeceEs ==
  ASSUME IsFiniteSet(Pids), IInv, NEW p \in Pids, Envejece(p)
  PROVE  espera_en_ready[p] <= CotaEspera
<1>1. espera_en_ready[p] \in Int
  BY DEF IInv, Tipos, NULL
<1>2. MaxRafaga \in Nat
  BY ColaListosAssumption
<1> DEFINE n == Cardinality(Tardios(p))
           N == Cardinality(Pids) - 1
<1>3. n \in Nat /\ N \in Nat /\ n <= N
  BY Cotas, TardiosFinito
<1> HIDE DEF n, N
<1>4. MaxRafaga * n \in Nat /\ MaxRafaga * N \in Nat /\ MaxRafaga * n <= MaxRafaga * N
  <2>1. \A r, x, y \in Nat : x <= y => r * x <= r * y /\ r * x \in Nat /\ r * y \in Nat
    OBVIOUS
  <2> QED BY <1>2, <1>3, <2>1
<1>5. Ventaja \in Nat \ {0} /\ CotaEspera = Ventaja - 1 + MaxRafaga * N
  BY Cotas DEF N
<1> QED BY <1>1, <1>4, <1>5 DEF Envejece, n

\* Nothing is late any more that was: the wait of p has not changed.
LEMMA EnvejeceIgual ==
  ASSUME IsFiniteSet(Pids), IInv, NEW p \in Pids, Envejece(p),
         espera_en_ready'[p] = espera_en_ready[p],
         espera_en_ready[p] >= Ventaja => Tardios(p) \subseteq Tardios(p)'
  PROVE  Envejece(p)'
<1> SUFFICES ASSUME espera_en_ready[p] >= Ventaja
             PROVE  espera_en_ready[p] <= Ventaja - 1 + MaxRafaga * Cardinality(Tardios(p)')
  BY DEF Envejece, Ventaja
<1> DEFINE n == Cardinality(Tardios(p))
           m == Cardinality(Tardios(p)')
<1>1. Tardios(p)' \subseteq Pids
  BY DEF Tardios
<1>2. IsFiniteSet(Tardios(p)')
  BY <1>1, FS_Subset
<1>3. n \in Nat /\ m \in Nat /\ n <= m
  BY <1>2, FS_Subset, FS_CardinalityType
<1>4. espera_en_ready[p] <= Ventaja - 1 + MaxRafaga * n
  BY DEF Envejece
<1> HIDE DEF n, m
<1>5. MaxRafaga * n \in Nat /\ MaxRafaga * m \in Nat /\ MaxRafaga * n <= MaxRafaga * m
  <2>1. \A r, x, y \in Nat : x <= y => r * x <= r * y /\ r * x \in Nat /\ r * y \in Nat
    OBVIOUS
  <2> QED BY <1>3, <2>1, ColaListosAssumption
<1>6. espera_en_ready[p] \in Int /\ Ventaja \in Nat
  BY Cotas DEF IInv, Tipos, NULL
<1>7. espera_en_ready[p] <= Ventaja - 1 + MaxRafaga * m
  BY <1>4, <1>5, <1>6
<1> QED BY <1>7 DEF m

\* A burst of r: r is late afterwards and was not before, and the others stay late.
LEMMA EnvejeceRafaga ==
  ASSUME IsFiniteSet(Pids), IInv, NEW p \in Pids, NEW r \in Pids, NEW b \in 1 .. MaxRafaga,
         Envejece(p), MaxEspera > CotaEspera, p # r, espera_en_ready[p] # NULL,
         lugar[r] = "exec", lugar'[r] # "exec", espera_en_ready'[r] \in {NULL, 0},
         \A q \in Pids \ {r} :
           lugar'[q] = lugar[q] /\ espera_en_ready'[q] = Transcurrir(b)[q]
  PROVE  Envejece(p)'
<1> DEFINE w(q) == espera_en_ready[q]
           n == Cardinality(Tardios(p))
           N == Cardinality(Pids) - 1
           T == Tardios(p)
<1>1. /\ w(p) \in Nat /\ b \in Nat /\ b <= MaxRafaga /\ MaxRafaga \in Nat
      /\ MaxEspera \in Nat /\ n \in Nat /\ N \in Nat /\ Ventaja \in Nat \ {0}
  <2>1. w(p) \in Nat
    BY DEF IInv, Tipos
  <2>2. b \in Nat /\ b <= MaxRafaga /\ MaxRafaga \in Nat /\ MaxEspera \in Nat
    BY ColaListosAssumption
  <2>3. Cardinality(Pids) \in Nat \ {0} /\ Ventaja \in Nat \ {0}
    BY Cotas
  <2>4. n \in Nat
    BY TardiosFinito
  <2> HIDE DEF w, n
  <2> QED BY <2>1, <2>2, <2>3, <2>4
<1>2. r \notin T /\ p \notin T /\ IsFiniteSet(T)
  BY TardiosFinito DEF Tardios
<1>3. IsFiniteSet(T \cup {r}) /\ Cardinality(T \cup {r}) = n + 1 /\ n + 1 <= N
  <2>1. IsFiniteSet(T \cup {r}) /\ Cardinality(T \cup {r}) = n + 1
    BY <1>2, FS_AddElement
  <2>2. T \cup {r} \subseteq Pids \ {p}
    BY DEF Tardios
  <2>3. IsFiniteSet(Pids \ {p}) /\ Cardinality(Pids \ {p}) = N
    BY FS_RemoveElement
  <2> QED BY <2>1, <2>2, <2>3, FS_Subset
<1>4. MaxRafaga * (n + 1) = MaxRafaga * n + MaxRafaga /\ MaxRafaga * n \in Nat
  BY <1>1
<1>5. w(p) + b <= Ventaja - 1 + MaxRafaga * (n + 1)
  <2>1. CASE w(p) >= Ventaja
    <3>1. w(p) <= Ventaja - 1 + MaxRafaga * n
      BY <2>1 DEF Envejece
    <3> HIDE DEF n
    <3> QED BY <1>1, <1>4, <3>1
  <2>2. CASE w(p) < Ventaja
    <3> HIDE DEF n
    <3> QED BY <1>1, <1>4, <2>2
  <2> QED BY <1>1, <2>1, <2>2
<1>6. w(p) + b <= CotaEspera
  <2>1. CotaEspera = Ventaja - 1 + MaxRafaga * N
    BY Cotas
  <2>2. MaxRafaga * (n + 1) <= MaxRafaga * N /\ MaxRafaga * N \in Nat /\ MaxRafaga * (n + 1) \in Nat
    <3>1. \A x, y, z \in Nat : x <= y => z * x <= z * y /\ z * y \in Nat /\ z * x \in Nat
      OBVIOUS
    <3> QED BY <1>1, <1>3, <3>1
  <2> HIDE DEF n, N
  <2> QED BY <1>1, <1>5, <2>1, <2>2
<1>7. espera_en_ready'[p] = w(p) + b
  <2>1. CotaEspera \in Nat /\ w(p) + b \in Nat /\ w(p) + b < MaxEspera
    BY <1>1, <1>6, Cotas
  <2>2. Min({MaxEspera, w(p) + b}) \in {MaxEspera, w(p) + b} /\ Min({MaxEspera, w(p) + b}) <= w(p) + b
    <3>1. MaxEspera \in Int /\ w(p) + b \in Int
      BY <1>1
    <3> QED BY <3>1, MinDeDos, MinDeDosCota
  <2>3. Transcurrir(b)[p] = Min({MaxEspera, w(p) + b})
    BY DEF Transcurrir
  <2> QED BY <1>1, <2>1, <2>2, <2>3
<1>8. ASSUME w(p) + b >= Ventaja PROVE T \cup {r} \subseteq Tardios(p)'
  <2>1. Ventaja' = Ventaja
    BY DEF Ventaja
  <2>2. r \in Tardios(p)'
    <3>1. 0 + Ventaja <= w(p) + b
      BY <1>1, <1>8
    <3> QED BY <1>7, <2>1, <3>1 DEF Tardios
  <2>3. ASSUME NEW q \in T PROVE q \in Tardios(p)'
    <3>1. /\ q \in Pids \ {p, r} /\ lugar[q] # "exec"
          /\ w(q) = NULL \/ w(q) + Ventaja <= w(p)
      BY <1>2 DEF Tardios
    <3>2. lugar'[q] # "exec" /\ espera_en_ready'[q] = Transcurrir(b)[q]
      BY <3>1
    <3>3. CASE w(q) = NULL
      BY <2>1, <3>1, <3>2, <3>3 DEF Tardios, Transcurrir
    <3>4. CASE w(q) # NULL
      <4>1. w(q) \in Nat /\ w(q) + Ventaja <= w(p)
        BY <3>1, <3>4 DEF IInv, Tipos
      <4>2. Transcurrir(b)[q] = Min({MaxEspera, w(q) + b})
        BY <3>1, <3>4 DEF Transcurrir
      <4>3. Min({MaxEspera, w(q) + b}) \in Int /\ Min({MaxEspera, w(q) + b}) <= w(q) + b
        <5>1. MaxEspera \in Int /\ w(q) + b \in Int
          BY <1>1, <4>1
        <5>2. Min({MaxEspera, w(q) + b}) \in {MaxEspera, w(q) + b}
          BY <5>1, MinDeDos
        <5> QED BY <5>1, <5>2, MinDeDosCota
      <4>4. espera_en_ready'[q] + Ventaja <= w(p) + b
        BY <1>1, <3>2, <4>1, <4>2, <4>3
      <4> QED BY <1>7, <2>1, <3>1, <3>2, <4>4 DEF Tardios
    <3> QED BY <3>3, <3>4
  <2> QED BY <2>2, <2>3
<1>9. SUFFICES ASSUME w(p) + b >= Ventaja
               PROVE  w(p) + b <= Ventaja - 1 + MaxRafaga * Cardinality(Tardios(p)')
  BY <1>7 DEF Envejece, Ventaja
<1>10. Cardinality(Tardios(p)') \in Nat /\ n + 1 <= Cardinality(Tardios(p)')
  <2>1. Tardios(p)' \subseteq Pids
    BY DEF Tardios
  <2>2. IsFiniteSet(Tardios(p)')
    BY <2>1, FS_Subset
  <2> QED BY <1>3, <1>8, <1>9, <2>2, FS_Subset, FS_CardinalityType
<1>11. MaxRafaga * (n + 1) <= MaxRafaga * Cardinality(Tardios(p)')
  <2>1. \A x, y, z \in Nat : x <= y => z * x <= z * y
    OBVIOUS
  <2> QED BY <1>1, <1>10, <2>1
<1> HIDE DEF n
<1> QED BY <1>1, <1>4, <1>5, <1>10, <1>11

\* A ready process is in the queue.
Presentes == \A p \in Pids : lugar[p] = "ready" => \E i \in Indices : ready_queue[i] = p

LEMMA PresentesIgual ==
  ASSUME IInv, Presentes, ready_queue' = ready_queue,
         \A p \in Pids : lugar'[p] = "ready" => lugar[p] = "ready"
  PROVE  Presentes'
BY DEF Presentes, Indices

LEMMA PresentesAgrega ==
  ASSUME IInv, Presentes, NEW p \in Pids, ready_queue' = Append(ready_queue, p),
         lugar' = [lugar EXCEPT ![p] = "ready"]
  PROVE  Presentes'
<1>1. /\ Len(ready_queue') = Len(ready_queue) + 1
      /\ \A i \in Indices : ready_queue'[i] = ready_queue[i]
      /\ ready_queue'[Len(ready_queue) + 1] = p
      /\ Indices' = Indices \cup {Len(ready_queue) + 1}
  BY DEF IInv, Tipos, Indices
<1>2. \A q \in Pids \ {p} : lugar'[q] = lugar[q]
  BY DEF IInv, Tipos
<1> QED BY <1>1, <1>2 DEF Presentes

LEMMA PresentesOrdena ==
  ASSUME IInv, Presentes, ordenar_cola_listos
  PROVE  Presentes'
<1>1. lugar' = lugar
  BY DEF ordenar_cola_listos, Caer
<1>2. CASE ready_queue' = ready_queue
  BY <1>1, <1>2, PresentesIgual
<1>3. CASE ready_queue' \in Ordenes(ready_queue)
  <2>1. PICK f \in [Indices -> Indices] :
          /\ \A j \in Indices : \E i \in Indices : f[i] = j
          /\ ready_queue' = [i \in Indices |-> ready_queue[f[i]]]
    BY <1>3, Permuta
  <2>2. Indices' = Indices
    <3>1. Len(ready_queue) \in Nat /\ Indices = 1 .. Len(ready_queue)
      BY DEF IInv, Tipos, Indices
    <3>2. ready_queue' \in [1 .. Len(ready_queue) -> Pids]
      BY <2>1, <3>1 DEF IInv, Tipos
    <3>3. Len(ready_queue') = Len(ready_queue)
      BY <3>1, <3>2, EsSucesion
    <3> QED BY <3>3 DEF Indices
  <2>3. ASSUME NEW j \in Indices PROVE \E i \in Indices' : ready_queue'[i] = ready_queue[j]
    <3>1. PICK i \in Indices : f[i] = j
      BY <2>1
    <3> QED BY <2>1, <2>2, <3>1
  <2> QED BY <1>1, <2>3 DEF Presentes
<1> QED BY <1>2, <1>3 DEF ordenar_cola_listos, Caer

LEMMA PresentesSaca ==
  ASSUME IInv, Presentes, sacar_pcb_cola_listos
  PROVE  Presentes'
<1> DEFINE h == Head(ready_queue)
<1>1. ready_queue' = Tail(ready_queue) /\ lugar' = [lugar EXCEPT ![h] = "exec"]
  BY DEF sacar_pcb_cola_listos
<1>2. Len(ready_queue) \in Nat /\ Len(ready_queue) >= 1 /\ h \in Pids /\ h = ready_queue[1]
  BY Primero DEF sacar_pcb_cola_listos
<1>3. ready_queue \in Seq(Pids) /\ lugar'[h] = "exec" /\ \A q \in Pids \ {h} : lugar'[q] = lugar[q]
  BY <1>1, <1>2 DEF IInv, Tipos
<1>4. \A i \in Indices : i # 1 => i - 1 \in Indices' /\ ready_queue'[i - 1] = ready_queue[i]
  BY <1>1, <1>2, <1>3 DEF Indices
<1> QED BY <1>2, <1>3, <1>4 DEF Presentes

LEMMA PresentesPaso == IInv /\ Presentes /\ [Next]_vars => Presentes'
<1> SUFFICES ASSUME IInv, Presentes, [Next]_vars PROVE Presentes'
  OBVIOUS
<1>1. CASE UNCHANGED vars
  BY <1>1, PresentesIgual DEF vars
<1>2. ASSUME NEW t \in Hilos, agregar(t) PROVE Presentes'
  <2>1. CASE agregar_pcb_en_cola_listos(t)
    BY <2>1, PresentesAgrega DEF agregar_pcb_en_cola_listos
  <2>2. CASE ~agregar_pcb_en_cola_listos(t)
    <3>1. ready_queue' = ready_queue /\ lugar' = lugar
      BY <1>2, <2>2 DEF agregar, empezar_espera_ready, mostrar_cola_ready, leer_ultimo, publicar, Caer
    <3> QED BY <3>1, PresentesIgual
  <2> QED BY <2>1, <2>2
<1>3. CASE sts_esperar
  BY <1>3, PresentesIgual DEF sts_esperar
<1>4. ASSUME NEW p \in Pids, recibir_pcb_de_CPU(p) PROVE Presentes'
  <2>1. \/ ready_queue' = ready_queue /\ lugar' = [lugar EXCEPT ![p] = "fuera"]
        \/ ready_queue' = Append(ready_queue, p) /\ lugar' = [lugar EXCEPT ![p] = "ready"]
    BY <1>4 DEF recibir_pcb_de_CPU
  <2>2. CASE ready_queue' = ready_queue /\ lugar' = [lugar EXCEPT ![p] = "fuera"]
    <3>1. \A q \in Pids : lugar'[q] = "ready" => lugar[q] = "ready"
      BY <2>2 DEF IInv, Tipos
    <3> QED BY <2>2, <3>1, PresentesIgual
  <2> QED BY <2>1, <2>2, PresentesAgrega
<1>5. ASSUME NEW p \in Pids, esperar_archivo(p) PROVE Presentes'
  <2>1. ready_queue' = ready_queue /\ \A q \in Pids : lugar'[q] = "ready" => lugar[q] = "ready"
    BY <1>5 DEF esperar_archivo, IInv, Tipos
  <2> QED BY <2>1, PresentesIgual
<1> QED BY <1>1, <1>2, <1>3, <1>4, <1>5, PresentesOrdena, PresentesSaca DEF Next, short_term_scheduler

\* A process that is taken is not late for anybody timed: its ratio would be less.
LEMMA NadieSeAdelanta ==
  ASSUME IsFiniteSet(Pids), IInv, Medidas, Presentes, Envejecen, Estimados(Pids),
         sacar_pcb_cola_listos, NEW p \in Pids, p # Head(ready_queue), espera_en_ready[p] >= Ventaja
  PROVE  Head(ready_queue) \notin Tardios(p)
<1> DEFINE h == Head(ready_queue)
           N == Cardinality(Pids) - 1
           B == MaxRafaga * N
           w(q) == espera_en_ready[q]
           e(q) == est_next_burst[q]
<1> SUFFICES ASSUME h \in Tardios(p) PROVE FALSE
  OBVIOUS
<1>1. sts = "saca" /\ h = ready_queue[1] /\ h \in Pids /\ w(h) \in Nat
  <2>1. sts = "saca"
    BY DEF sacar_pcb_cola_listos
  <2> QED BY <2>1, Primero
<1>2. Ventaja \in Nat \ {0} /\ CotaEspera = Ventaja - 1 + B /\ CotaEspera \in Nat
  BY Cotas
<1>3. w(p) \in Nat
  BY <1>2 DEF IInv, Tipos, NULL
<1>4. w(p) <= Ventaja - 1 + B
  BY <1>2, EnvejeceEs DEF Envejecen
<1>5. w(h) + Ventaja <= w(p)
  BY <1>1 DEF Tardios, NULL
<1>6. PICK i \in Indices : ready_queue[i] = p
  BY <1>3 DEF IInv, Temporizadores, Presentes, NULL
<1>7. w(h) * e(p) >= w(p) * e(h)
  <2>1. espera_en_ready[p] # NULL
    BY <1>3 DEF NULL
  <2>2. espera_en_ready[ready_queue[1]] * est_next_burst[ready_queue[i]]
          >= espera_en_ready[ready_queue[i]] * est_next_burst[ready_queue[1]]
    <3>1. EstimadosEnCola
      BY DEF IInv, Tipos, Indices, EstimadosEnCola, Estimados
    <3> QED BY <1>1, <1>6, <2>1, <3>1 DEF IInv, Cabeza
  <2> QED BY <1>1, <1>6, <2>2, Zenon
<1>8. e(p) \in 1 .. MaxEstimacion /\ e(h) \in 1 .. MaxEstimacion /\ MaxEstimacion \in Nat
  BY <1>1, ColaListosAssumption DEF Medidas, Estimados
<1>9. w(h) * e(p) <= w(h) * MaxEstimacion /\ w(p) * e(h) >= w(p)
  <2>1. \A x, y, z \in Nat : y <= z => x * y <= x * z
    OBVIOUS
  <2>2. \A x \in Nat : x * 1 = x
    OBVIOUS
  <2> HIDE DEF w, e
  <2>3. e(p) \in Nat /\ e(p) <= MaxEstimacion /\ e(h) \in Nat /\ 1 <= e(h)
    BY <1>8
  <2>4. w(h) * e(p) <= w(h) * MaxEstimacion
    BY <1>1, <1>8, <2>1, <2>3
  <2>5. w(p) * 1 <= w(p) * e(h)
    BY <1>3, <2>1, <2>3
  <2>6. w(p) * e(h) \in Nat
    BY <1>3, <2>3
  <2> QED BY <1>3, <2>2, <2>4, <2>5, <2>6
<1>10. B \in Nat /\ Ventaja = (MaxEstimacion - 1) * B + 1 /\ MaxEstimacion - 1 \in Nat
  <2>1. MaxRafaga \in Nat /\ N \in Nat /\ MaxEstimacion - 1 \in Nat
    BY Cotas, ColaListosAssumption
  <2>2. \A x, y, z \in Nat : x * y * z = x * (y * z) /\ y * z \in Nat
    OBVIOUS
  <2> HIDE DEF N
  <2>3. (MaxEstimacion - 1) * MaxRafaga * N = (MaxEstimacion - 1) * (MaxRafaga * N) /\ B \in Nat
    BY <2>1, <2>2
  <2> QED BY <2>1, <2>3 DEF Ventaja, N
<1> HIDE DEF w, e, B, h
<1>11. w(h) <= B
  BY <1>1, <1>2, <1>3, <1>4, <1>5, <1>10
<1>12. w(h) * MaxEstimacion >= w(h) + Ventaja
  <2>1. e(p) \in Nat /\ e(h) \in Nat
    BY <1>8
  <2>2. w(h) * e(p) \in Nat /\ w(p) * e(h) \in Nat /\ w(h) * MaxEstimacion \in Nat
    BY <1>1, <1>3, <1>8, <2>1
  <2> QED BY <1>1, <1>2, <1>3, <1>5, <1>7, <1>9, <2>2
<1>13. w(h) * MaxEstimacion = w(h) * (MaxEstimacion - 1) + w(h)
  BY <1>1, <1>8
<1>14. w(h) * (MaxEstimacion - 1) <= (MaxEstimacion - 1) * B
  <2>1. \A x, y, z \in Nat : x <= y => x * z <= z * y
    OBVIOUS
  <2> QED BY <1>1, <1>10, <1>11, <2>1
<1>15. w(h) * (MaxEstimacion - 1) \in Nat /\ (MaxEstimacion - 1) * B \in Nat
  BY <1>1, <1>10
<1> QED BY <1>1, <1>2, <1>10, <1>12, <1>13, <1>14, <1>15

\* A thread moves no process out of the queue, and starts timers only at 0.
LEMMA EnvejecenHilo ==
  ASSUME IsFiniteSet(Pids), IInv, Envejecen, NEW t \in Hilos, agregar(t)
  PROVE  Envejecen'
<1> SUFFICES ASSUME NEW p \in Pids PROVE Envejece(p)'
  BY DEF Envejecen
<1>1. \A q \in Pids : lugar'[q] = "exec" => lugar[q] = "exec"
  BY DEF agregar, agregar_pcb_en_cola_listos, empezar_espera_ready, mostrar_cola_ready, leer_ultimo,
         publicar, Caer, IInv, Tipos
<1>2. \A q \in Pids : espera_en_ready'[q] = espera_en_ready[q] \/ espera_en_ready'[q] = 0
  BY DEF agregar, agregar_pcb_en_cola_listos, empezar_espera_ready, mostrar_cola_ready, leer_ultimo,
         publicar, Caer, vTiempos, IInv, Tipos
<1>3. Ventaja \in Nat \ {0}
  BY Cotas
<1>4. CASE espera_en_ready'[p] = 0
  BY <1>3, <1>4 DEF Envejece, Ventaja
<1>5. CASE espera_en_ready'[p] = espera_en_ready[p]
  <2>1. ASSUME espera_en_ready[p] >= Ventaja PROVE Tardios(p) \subseteq Tardios(p)'
    <3>1. 0 + Ventaja <= espera_en_ready'[p]
      BY <1>3, <1>5, <2>1 DEF IInv, Tipos, NULL
    <3>2. Ventaja' = Ventaja
      BY DEF Ventaja
    <3> QED BY <1>1, <1>2, <1>5, <3>1, <3>2 DEF Tardios
  <2> QED BY <1>5, <2>1, EnvejeceIgual DEF Envejecen
<1> QED BY <1>2, <1>4, <1>5

LEMMA EnvejecenPlanificador ==
  ASSUME IsFiniteSet(Pids), IInv, Medidas, Presentes, Envejecen, Estimados(Pids),
         MaxEspera > CotaEspera, short_term_scheduler
  PROVE  Envejecen'
<1> SUFFICES ASSUME NEW p \in Pids PROVE Envejece(p)'
  BY DEF Envejecen
<1>1. Ventaja \in Nat \ {0} /\ Ventaja' = Ventaja
  BY Cotas DEF Ventaja
<1>2. ASSUME UNCHANGED <<lugar, espera_en_ready>> PROVE Envejece(p)'
  <2>1. Tardios(p) \subseteq Tardios(p)'
    BY <1>1, <1>2 DEF Tardios
  <2> QED BY <1>2, <2>1, EnvejeceIgual DEF Envejecen
<1>3. CASE sacar_pcb_cola_listos
  <2> DEFINE h == Head(ready_queue)
  <2>1. h \in Pids
    BY <1>3, Primero DEF sacar_pcb_cola_listos
  <2>2. /\ espera_en_ready'[h] = NULL
        /\ \A q \in Pids \ {h} : espera_en_ready'[q] = espera_en_ready[q] /\ lugar'[q] = lugar[q]
    BY <1>3, <2>1 DEF sacar_pcb_cola_listos, IInv, Tipos
  <2>3. CASE p = h
    BY <1>1, <2>2, <2>3 DEF Envejece, NULL
  <2>4. CASE p # h
    <3>1. ASSUME espera_en_ready[p] >= Ventaja PROVE Tardios(p) \subseteq Tardios(p)'
      <4>1. h \notin Tardios(p)
        BY <1>3, <2>4, <3>1, NadieSeAdelanta
      <4> QED BY <1>1, <2>2, <2>4, <4>1 DEF Tardios
    <3> QED BY <2>2, <2>4, <3>1, EnvejeceIgual DEF Envejecen
  <2> QED BY <2>3, <2>4
\* A burst, whatever becomes of the process that executed.
<1>4. ASSUME NEW r \in Pids, NEW b \in 1 .. MaxRafaga, lugar[r] = "exec", lugar'[r] # "exec",
             espera_en_ready'[r] \in {NULL, 0},
             \A q \in Pids \ {r} :
               lugar'[q] = lugar[q] /\ espera_en_ready'[q] = Transcurrir(b)[q]
      PROVE  Envejece(p)'
  <2>1. CASE p = r
    BY <1>1, <1>4, <2>1 DEF Envejece, NULL
  <2>2. CASE p # r /\ espera_en_ready[p] = NULL
    <3>1. espera_en_ready'[p] = NULL
      BY <1>4, <2>2 DEF Transcurrir
    <3> QED BY <1>1, <3>1 DEF Envejece, NULL
  <2>3. CASE p # r /\ espera_en_ready[p] # NULL
    BY <1>4, <2>3, EnvejeceRafaga DEF Envejecen
  <2> QED BY <2>1, <2>2, <2>3
<1>5. ASSUME NEW r \in Pids, recibir_pcb_de_CPU(r) PROVE Envejece(p)'
  <2>1. PICK b \in 1 .. MaxRafaga :
          \/ lugar' = [lugar EXCEPT ![r] = "fuera"] /\ espera_en_ready' = Transcurrir(b)
          \/ lugar' = [lugar EXCEPT ![r] = "ready"] /\ espera_en_ready' = [Transcurrir(b) EXCEPT ![r] = 0]
    BY <1>5, Zenon DEF recibir_pcb_de_CPU
  <2>2. lugar[r] = "exec" /\ espera_en_ready[r] = NULL
    BY <1>5 DEF recibir_pcb_de_CPU, IInv, Temporizadores
  <2>3. Transcurrir(b)[r] = NULL
    BY <2>2 DEF Transcurrir
  <2>4. lugar'[r] # "exec" /\ \A q \in Pids \ {r} : lugar'[q] = lugar[q]
    BY <2>1 DEF IInv, Tipos
  <2>5. /\ espera_en_ready'[r] \in {NULL, 0}
        /\ \A q \in Pids \ {r} : espera_en_ready'[q] = Transcurrir(b)[q]
    BY <2>1, <2>3 DEF Transcurrir
  <2> QED BY <1>4, <2>2, <2>4, <2>5
<1>6. ASSUME NEW r \in Pids, esperar_archivo(r) PROVE Envejece(p)'
  <2>1. PICK b \in 1 .. MaxRafaga : espera_en_ready' = Transcurrir(b)
    BY <1>6 DEF esperar_archivo
  <2>2. lugar[r] = "exec" /\ espera_en_ready[r] = NULL
    BY <1>6 DEF esperar_archivo, IInv, Temporizadores
  <2>3. lugar'[r] # "exec" /\ \A q \in Pids \ {r} : lugar'[q] = lugar[q]
    BY <1>6 DEF esperar_archivo, IInv, Tipos
  <2>4. espera_en_ready'[r] = NULL
    BY <2>1, <2>2 DEF Transcurrir
  <2> QED BY <1>4, <2>1, <2>2, <2>3, <2>4
<1>7. CASE sts_esperar \/ ordenar_cola_listos
  BY <1>2, <1>7 DEF sts_esperar, ordenar_cola_listos, Caer, vTiempos
<1> QED BY <1>3, <1>5, <1>6, <1>7 DEF short_term_scheduler

\* An estimate that nobody wrote is with us for good.
LEMMA BasuraQueda == ASSUME IInv, [Next]_vars, Estimados(Pids)' PROVE Estimados(Pids)
<1>1. ASSUME est_next_burst' = est_next_burst PROVE Estimados(Pids)
  BY <1>1 DEF Estimados
<1>2. ASSUME NEW p \in Pids, recibir_pcb_de_CPU(p) PROVE Estimados(Pids)
  <2>1. PICK b \in 1 .. MaxRafaga :
          \E e \in estimacion_next_burst(est_next_burst[p], b) :
            est_next_burst' = [est_next_burst EXCEPT ![p] = e]
    BY <1>2 DEF recibir_pcb_de_CPU
  <2>2. PICK e \in estimacion_next_burst(est_next_burst[p], b) :
          est_next_burst' = [est_next_burst EXCEPT ![p] = e]
    BY <2>1
  <2>3. e = BASURA \/ est_next_burst[p] # BASURA
    BY DEF estimacion_next_burst
  <2> QED BY <2>2, <2>3 DEF Estimados, IInv, Tipos
<1>3. ASSUME NEW p \in Pids, esperar_archivo(p) PROVE Estimados(Pids)
  <2>1. PICK e \in SinEscribir(est_next_burst[p]) : est_next_burst' = [est_next_burst EXCEPT ![p] = e]
    BY <1>3 DEF esperar_archivo
  <2>2. e = BASURA \/ est_next_burst[p] # BASURA
    BY DEF SinEscribir
  <2> QED BY <2>1, <2>2 DEF Estimados, IInv, Tipos
<1>4. ASSUME NEW t \in Hilos, agregar(t) PROVE Estimados(Pids)
  BY <1>1, <1>4 DEF agregar, agregar_pcb_en_cola_listos, empezar_espera_ready, mostrar_cola_ready,
     leer_ultimo, publicar, Caer, vTiempos
<1>5. CASE sts_esperar \/ ordenar_cola_listos \/ sacar_pcb_cola_listos
  BY <1>1, <1>5 DEF sts_esperar, ordenar_cola_listos, sacar_pcb_cola_listos, Caer, vTiempos
<1>6. CASE UNCHANGED vars
  BY <1>1, <1>6 DEF vars, vTiempos
<1> QED BY <1>2, <1>3, <1>4, <1>5, <1>6 DEF Next, short_term_scheduler

\* Aging works: ordenar_cola_listos puts whoever has waited long enough first,
\* whatever its estimate, so that no process waits in ready_queue longer than
\* MaxEstimacion bursts of MaxRafaga of each of the others, for any number of
\* processes and of threads that push, however often the others come back. It holds
\* as long as every estimate is one that was written, or might have been: after
\* esperar_archivo has read any other double nothing bounds the ratios.
THEOREM EsperaSiempreAcotada == ASSUME IsFiniteSet(Pids) PROVE Spec => []EsperaAcotada
<1> DEFINE Viejos == MaxEspera > CotaEspera /\ Estimados(Pids) => Envejecen
           Todo == IInv /\ Medidas /\ Presentes /\ Viejos
<1>1. Init => Todo
  <2> SUFFICES ASSUME Init PROVE Presentes /\ Envejecen
    BY Inicio, MedidasIniciales
  <2>1. Presentes
    BY DEF Init, Presentes
  <2>2. ASSUME NEW p \in Pids PROVE Envejece(p)
    <3>1. espera_en_ready[p] = NULL /\ Ventaja \in Nat \ {0}
      BY Cotas DEF Init
    <3> QED BY <3>1 DEF Envejece, NULL
  <2> QED BY <2>1, <2>2 DEF Envejecen
<1>2. Todo /\ [Next]_vars => Todo'
  <2> SUFFICES ASSUME Todo, [Next]_vars, MaxEspera > CotaEspera, Estimados(Pids)'
               PROVE  Envejecen'
    <3>1. Todo /\ [Next]_vars => IInv' /\ Presentes'
      BY Paso, PresentesPaso
    <3>2. Todo /\ [Next]_vars => Medidas'
      BY MedidasPaso
    <3> QED BY <3>1, <3>2 DEF CotaEspera
  <2>0. Estimados(Pids) /\ Envejecen
    BY BasuraQueda
  <2>1. CASE UNCHANGED vars
    <3> SUFFICES ASSUME NEW p \in Pids PROVE Envejece(p)'
      BY DEF Envejecen
    <3>1. Tardios(p) \subseteq Tardios(p)' /\ espera_en_ready' = espera_en_ready
      BY <2>1 DEF vars, vTiempos, Tardios, Ventaja
    <3> QED BY <2>0, <3>1, EnvejeceIgual DEF Envejecen
  <2>2. CASE Next
    BY <2>0, <2>2, EnvejecenHilo, EnvejecenPlanificador DEF Next
  <2> QED BY <2>1, <2>2
<1>3. Todo => EsperaAcotada
  <2> SUFFICES ASSUME Todo, Estimados(Pids), NEW p \in Pids
               PROVE  espera_en_ready[p] <= CotaEspera
    BY DEF EsperaAcotada
  <2>1. CASE MaxEspera > CotaEspera
    BY <2>1, EnvejeceEs DEF Envejecen
  <2>2. CASE ~(MaxEspera > CotaEspera)
    <3>1. espera_en_ready[p] = NULL \/ espera_en_ready[p] <= MaxEspera
      BY DEF Medidas
    <3>2. espera_en_ready[p] \in Int /\ MaxEspera \in Nat /\ CotaEspera \in Nat
      BY Cotas, ColaListosAssumption DEF IInv, Tipos, NULL
    <3> QED BY <2>2, <3>1, <3>2 DEF NULL
  <2> QED BY <2>1, <2>2
<1> HIDE DEF Todo
<1> QED BY <1>1, <1>2, <1>3, PTL DEF Spec
=============================================================================
