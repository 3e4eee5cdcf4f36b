----------------------------- MODULE ColaListos ------------------------------
(***************************************************************************)
(* The ready queue under HRRN (planificacion.c). A thread that makes a     *)
(* process ready pushes it under the mutex of the queue, then creates the  *)
(* timer of its wait under another mutex, then walks the queue to log it   *)
(* under none, and only then posts semProcesoListo. The short term         *)
(* scheduler sorts the queue by response ratio, reads every timer for it,  *)
(* and takes the first.                                                    *)
(*                                                                         *)
(* Time counts units of the shortest burst and passes while a process      *)
(* executes. An estimate after a burst lies between the one before it and  *)
(* the burst, whatever hrrn_alfa in 0 .. 1 is. One that nobody wrote is    *)
(* BASURA: zero, a thousandth, negative, NaN. A process out of the queue   *)
(* comes back or not; what it waits for, and admission, are in Kernel.     *)
(***************************************************************************)
EXTENDS Integers, Sequences, SequencesExt, FiniteSets, FiniteSetsExt

CONSTANTS
  Pids,
  Hilos,           \* threads that push: the long term scheduler and those of waits
  MaxRafaga,       \* bursts last 1 .. MaxRafaga
  estimacion_inicial, MaxEstimacion,
  MaxEspera        \* bound: waits are counted up to here

ASSUME ColaListosAssumption ==
  /\ Pids \subseteq Nat /\ IsFiniteSet(Hilos)
  /\ MaxRafaga \in Nat \ {0} /\ MaxEspera \in Nat
  /\ MaxEstimacion \in Nat /\ MaxRafaga <= MaxEstimacion
  /\ estimacion_inicial \in 1 .. MaxEstimacion

NULL == -1
NADIE == -1
BASURA == -1       \* any double
Libre == [pc |-> "libre", pid |-> NADIE, n |-> 0]

VARIABLES
  ready_queue, semProcesoListo,
  espera_en_ready,     \* the timer of each process: its time, NULL if there is none
  est_next_burst,
  lugar,               \* "ready", "exec", or "fuera": new, blocked or finished
  hilo,                \* pc, process and last size read of each pushing thread
  sts,                 \* "espera", "ordena", "saca", "cpu"
  vivo                 \* FALSE once a NULL was followed

vTiempos == <<espera_en_ready, est_next_burst>>
vars == <<ready_queue, semProcesoListo, vTiempos, lugar, hilo, sts, vivo>>

Init ==
  /\ ready_queue = <<>> /\ semProcesoListo = 0
  /\ espera_en_ready = [p \in Pids |-> NULL]
  /\ est_next_burst = [p \in Pids |-> estimacion_inicial]
  /\ lugar = [p \in Pids |-> "fuera"]
  /\ hilo = [t \in Hilos |-> Libre]
  /\ sts = "espera"
  /\ vivo = TRUE

Caer == vivo' = FALSE /\ UNCHANGED <<ready_queue, semProcesoListo, vTiempos, lugar, hilo, sts>>

-----------------------------------------------------------------------------
(* Threads that make a process ready. *)

\* Mutant: the process is announced as soon as it is in the queue.
agregar_y_publicar(t) ==
  /\ hilo[t] = Libre
  /\ \E p \in {q \in Pids : lugar[q] = "fuera"} :
       /\ ready_queue' = Append(ready_queue, p)
       /\ lugar' = [lugar EXCEPT ![p] = "ready"]
       /\ hilo' = [hilo EXCEPT ![t] = [Libre EXCEPT !.pc = "temporizar", !.pid = p]]
  /\ semProcesoListo' = semProcesoListo + 1
  /\ UNCHANGED <<vTiempos, sts, vivo>>
agregar_pcb_en_cola_listos(t) ==
  /\ hilo[t] = Libre
  /\ \E p \in {q \in Pids : lugar[q] = "fuera"} :
       /\ ready_queue' = Append(ready_queue, p)
       /\ lugar' = [lugar EXCEPT ![p] = "ready"]
       /\ hilo' = [hilo EXCEPT ![t] = [Libre EXCEPT !.pc = "temporizar", !.pid = p]]
  /\ UNCHANGED <<semProcesoListo, vTiempos, sts, vivo>>

empezar_espera_ready(t) ==
  /\ hilo[t].pc = "temporizar"
  /\ espera_en_ready' = [espera_en_ready EXCEPT ![hilo[t].pid] = 0]
  /\ hilo' = [hilo EXCEPT ![t].pc = "mostrar"]
  /\ UNCHANGED <<ready_queue, semProcesoListo, est_next_burst, lugar, sts, vivo>>

\* Mutant: no post, so nobody comes for the process that was pushed.
publicar_sin_post(t) ==
  /\ hilo' = [hilo EXCEPT ![t] = Libre]
  /\ UNCHANGED <<ready_queue, semProcesoListo, vTiempos, lugar, sts, vivo>>
publicar(t) ==
  /\ semProcesoListo' = semProcesoListo + 1
  /\ hilo' = [hilo EXCEPT ![t] = Libre]
  /\ UNCHANGED <<ready_queue, vTiempos, lugar, sts, vivo>>

\* The loop compares its index with the size of the queue, and then reads the
\* element: the last one is gone if the scheduler took one in between. Nothing
\* the other threads can see lies between the end of the loop and the post.
mostrar_cola_ready(t) ==
  /\ hilo[t].pc = "mostrar"
  /\ IF ready_queue = <<>> THEN publicar(t)
     ELSE /\ hilo' = [hilo EXCEPT ![t].pc = "leer", ![t].n = Len(ready_queue)]
          /\ UNCHANGED <<ready_queue, semProcesoListo, vTiempos, lugar, sts, vivo>>

leer_ultimo(t) ==
  /\ hilo[t].pc = "leer"
  /\ IF Len(ready_queue) < hilo[t].n THEN Caer ELSE publicar(t)

-----------------------------------------------------------------------------
(* The short term scheduler. *)

sts_esperar ==
  /\ sts = "espera" /\ semProcesoListo > 0
  /\ semProcesoListo' = semProcesoListo - 1
  /\ sts' = "ordena"
  /\ UNCHANGED <<ready_queue, vTiempos, lugar, hilo, vivo>>

\* Mutant: the shortest estimate first, however long the others wait.
mayor_RR_sin_espera(p, q) == est_next_burst[p] <= est_next_burst[q]

\* 1 + wait / estimate of p is larger, or equal and p has waited longer.
mayor_RR(p, q) ==
  LET a == espera_en_ready[p] * est_next_burst[q]
      b == espera_en_ready[q] * est_next_burst[p] IN
  a > b \/ (a = b /\ espera_en_ready[p] >= espera_en_ready[q])

\* No ratio is known with BASURA, and with a NaN no comparison holds, not even
\* between the others: list_sort may leave any order.
Estimados(S) == \A p \in S : est_next_burst[p] # BASURA
Ordenes(cola) ==
  {o \in {[i \in DOMAIN cola |-> cola[f[i]]] : f \in Bijection(DOMAIN cola, DOMAIN cola)} :
     Estimados(ToSet(cola)) => \A i, j \in DOMAIN cola : i < j => mayor_RR(o[i], o[j])}

\* list_sort compares as soon as there are two, and every one of them.
ordenar_cola_listos ==
  /\ sts = "ordena"
  /\ IF Len(ready_queue) > 1 /\ \E p \in ToSet(ready_queue) : espera_en_ready[p] = NULL
     THEN Caer
     ELSE /\ ready_queue' \in IF Len(ready_queue) > 1 THEN Ordenes(ready_queue) ELSE {ready_queue}
          /\ sts' = "saca"
          /\ UNCHANGED <<semProcesoListo, vTiempos, lugar, hilo, vivo>>

\* sacar_pcb_cola_listos and meter_pcb_en_ejecucion: the timer is destroyed.
sacar_pcb_cola_listos ==
  /\ sts = "saca"
  /\ ready_queue' = Tail(ready_queue)
  /\ lugar' = [lugar EXCEPT ![Head(ready_queue)] = "exec"]
  /\ espera_en_ready' = [espera_en_ready EXCEPT ![Head(ready_queue)] = NULL]
  /\ sts' = "cpu"
  /\ UNCHANGED <<semProcesoListo, est_next_burst, hilo, vivo>>

\* The waits b units later.
Transcurrir(b) ==
  [p \in Pids |-> IF espera_en_ready[p] = NULL THEN NULL ELSE Min({MaxEspera, espera_en_ready[p] + b})]

\* hrrn_alfa * estimate + (1 - hrrn_alfa) * burst.
estimacion_next_burst(e, b) == IF e = BASURA THEN {BASURA} ELSE Min({e, b}) .. Max({e, b})

\* A burst of p ends in a wait, in EXIT, or in a YIELD or SIGNAL: then the scheduler
\* itself pushes, starts the timer and posts, and nobody takes in between.
recibir_pcb_de_CPU(p) ==
  /\ sts = "cpu" /\ lugar[p] = "exec"
  /\ sts' = "espera"
  /\ \E b \in 1 .. MaxRafaga :
       /\ \E e \in estimacion_next_burst(est_next_burst[p], b) :
            est_next_burst' = [est_next_burst EXCEPT ![p] = e]
       /\ \/ /\ lugar' = [lugar EXCEPT ![p] = "fuera"]
             /\ espera_en_ready' = Transcurrir(b)
             /\ UNCHANGED <<ready_queue, semProcesoListo>>
          \/ /\ lugar' = [lugar EXCEPT ![p] = "ready"]
             /\ espera_en_ready' = [Transcurrir(b) EXCEPT ![p] = 0]
             /\ ready_queue' = Append(ready_queue, p)
             /\ semProcesoListo' = semProcesoListo + 1
  /\ UNCHANGED <<hilo, vivo>>

\* F_OPEN of a file others have: the PCB that waits is the one the CPU sent, and
\* nobody has copied the estimate into it: it holds what malloc found there, an
\* estimate like the others or BASURA.
SinEscribir(e) == IF e = BASURA THEN {BASURA} ELSE {BASURA} \cup 1 .. MaxEstimacion

esperar_archivo(p) ==
  /\ sts = "cpu" /\ lugar[p] = "exec"
  /\ sts' = "espera"
  /\ lugar' = [lugar EXCEPT ![p] = "fuera"]
  /\ \E e \in SinEscribir(est_next_burst[p]) :
       est_next_burst' = [est_next_burst EXCEPT ![p] = e]
  /\ \E b \in 1 .. MaxRafaga : espera_en_ready' = Transcurrir(b)
  /\ UNCHANGED <<ready_queue, semProcesoListo, hilo, vivo>>

-----------------------------------------------------------------------------
agregar(t) ==
  /\ vivo
  /\ \/ agregar_pcb_en_cola_listos(t)
     \/ empezar_espera_ready(t)
     \/ mostrar_cola_ready(t)
     \/ leer_ultimo(t)

short_term_scheduler ==
  /\ vivo
  /\ \/ sts_esperar
     \/ ordenar_cola_listos
     \/ sacar_pcb_cola_listos
     \/ \E p \in Pids : recibir_pcb_de_CPU(p)
     \/ \E p \in Pids : esperar_archivo(p)

Next == (\E t \in Hilos : agregar(t)) \/ short_term_scheduler

Spec == Init /\ [][Next]_vars

\* The threads are scheduled, and the CPU sends every process back.
FairSpec == Spec /\ WF_vars(short_term_scheduler) /\ \A t \in Hilos : WF_vars(agregar(t))

-----------------------------------------------------------------------------
(* Properties. *)

\* Timers, queue and threads have the values the code gives them.
TypeOK ==
  /\ ready_queue \in Seq(Pids) /\ semProcesoListo \in 0 .. Cardinality(Pids)
  /\ espera_en_ready \in [Pids -> {NULL} \cup 0 .. MaxEspera]
  /\ est_next_burst \in [Pids -> {BASURA} \cup 1 .. MaxEstimacion]
  /\ lugar \in [Pids -> {"ready", "exec", "fuera"}]
  /\ hilo \in [Hilos -> [pc : {"libre", "temporizar", "mostrar", "leer"},
                         pid : Pids \cup {NADIE}, n : 0 .. Cardinality(Pids)]]
  /\ sts \in {"espera", "ordena", "saca", "cpu"}
  /\ vivo \in BOOLEAN

\* The timer created after the push is created for a process that is still in
\* the queue: it is never written into a PCB that executes or has been freed,
\* whatever permits of other pushes let the scheduler take in the meantime.
TemporizadorATiempo ==
  \A t \in Hilos : hilo[t].pc = "temporizar" => hilo[t].pid \in ToSet(ready_queue)

\* Nobody whose wait is being timed had a larger response ratio, 1 + wait /
\* estimate, than the process that executes: also when others were pushed between
\* the sort and the moment it was taken. Nothing is said of a queue in which some
\* PCB has an estimate nobody wrote: its ratio, and the order, may be anything.
DespachoPorRatio ==
  [][sts = "saca" /\ sts' = "cpu" /\ Estimados(ToSet(ready_queue)) =>
       LET h == Head(ready_queue) IN
       \A p \in ToSet(ready_queue) :
         espera_en_ready[h] * est_next_burst[p] >= espera_en_ready[p] * est_next_burst[h]]_vars

\* Aging works: however often the others come back, nobody waits in the queue longer
\* than each of them takes for a burst of MaxRafaga, as many times as the largest
\* estimate is. It holds until some PCB waits for a file with an estimate nobody
\* wrote that is no estimate of a burst (kernel.c:140-147): a PCB with
\* a ratio of infinity passes the others as often as it comes.
CotaEspera == MaxEstimacion * MaxRafaga * (Cardinality(Pids) - 1)
EsperaAcotada == Estimados(Pids) => \A p \in Pids : espera_en_ready[p] <= CotaEspera

\* Starvation freedom under HRRN: a ready process executes, unless the process
\* kernel has died of a NULL or some PCB has an estimate nobody wrote.
ListoEjecuta ==
  \A p \in Pids : lugar[p] = "ready" ~> (lugar[p] = "exec" \/ ~vivo \/ ~Estimados(Pids))
=============================================================================
