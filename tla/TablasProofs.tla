----------------------------- MODULE TablasProofs -----------------------------
(***************************************************************************)
(* What TLAPS proves of Tablas, for every number of processes, size of     *)
(* memory and number of entries of its tables, those that do not fit in    *)
(* the array of a PCB included: the address a file operation works on      *)
(* keeps its meaning until the operation ends, the copies of the tables    *)
(* say what the MMU needs of them inside that array, and memory hands out, *)
(* frees and moves ranges as Asignador promises, so that processes stay    *)
(* apart.                                                                  *)
(***************************************************************************)
EXTENDS Tablas, Sumas

Estados == {"ausente", "new", "ready", "exec", "block", "fin"}

\* The ready queue holds ready processes, each of them once.
Listos ==
  /\ ready_queue \in Seq(Pids)
  /\ \A i \in 1 .. Len(ready_queue) : estado[ready_queue[i]] = "ready"
  /\ \A i, j \in 1 .. Len(ready_queue) : ready_queue[i] = ready_queue[j] => i = j

\* The process whose file is being read or written is blocked: it cannot ask for
\* or give back segments, and it cannot end.
Apartado ==
  /\ hiloFS \in Pids \cup {NADIE}
  /\ hiloFS # NADIE => estado[hiloFS] = "block"

IInv ==
  /\ DOMAIN segs = Pids
  /\ estado \in [Pids -> Estados]
  /\ Listos /\ Apartado

\* What a step says of the segments of the process in hiloFS.
Quieto == hiloFS # NADIE /\ hiloFS' = hiloFS => segs'[hiloFS] = segs[hiloFS]

\* No process is "nobody".
LEMMA NadieNoEsProceso == NADIE \notin Pids
BY TablasAssumption DEF NADIE

LEMMA Inicio == Init => IInv
BY DEF Init, IInv, Listos, Apartado, Estados, NADIE

\* Pushing a process that is not ready and marking it so keeps the queue.
LEMMA EncolarListo ==
  ASSUME Listos, estado \in [Pids -> Estados],
         NEW p \in Pids, estado[p] # "ready", Pasar(p, "ready"), Encolar(p)
  PROVE  Listos' /\ estado' \in [Pids -> Estados]
<1>1. estado' \in [Pids -> Estados]
  BY DEF Pasar, Estados
<1>2. ready_queue' \in Seq(Pids) /\ Len(ready_queue') = Len(ready_queue) + 1
  BY DEF Encolar, Listos
<1>3. \A i \in 1 .. Len(ready_queue) : ready_queue'[i] = ready_queue[i]
  BY DEF Encolar, Listos
<1>4. ready_queue'[Len(ready_queue) + 1] = p
  BY DEF Encolar, Listos
<1>5. \A i \in 1 .. Len(ready_queue) : ready_queue[i] \in Pids /\ ready_queue[i] # p
  BY DEF Listos
<1>6. \A i \in 1 .. Len(ready_queue') : estado'[ready_queue'[i]] = "ready"
  <2> SUFFICES ASSUME NEW i \in 1 .. Len(ready_queue') PROVE estado'[ready_queue'[i]] = "ready"
    OBVIOUS
  <2>1. CASE i \in 1 .. Len(ready_queue)
    BY <2>1, <1>3, <1>5 DEF Pasar, Listos
  <2>2. CASE i = Len(ready_queue) + 1
    BY <2>2, <1>4 DEF Pasar
  <2> QED BY <1>2, <2>1, <2>2 DEF Listos
<1>7. \A i, j \in 1 .. Len(ready_queue') : ready_queue'[i] = ready_queue'[j] => i = j
  <2>1. \A i \in 1 .. Len(ready_queue') :
          i \in 1 .. Len(ready_queue) \/ i = Len(ready_queue) + 1
    BY <1>2 DEF Listos
  <2> QED BY <2>1, <1>3, <1>4, <1>5 DEF Listos
<1> QED BY <1>1, <1>2, <1>6, <1>7 DEF Listos

\* A process that is not in the queue may change to any other state.
LEMMA PasarFuera ==
  ASSUME Listos, estado \in [Pids -> Estados],
         NEW p \in Pids, estado[p] # "ready", NEW e \in Estados, Pasar(p, e),
         ready_queue' = ready_queue
  PROVE  Listos' /\ estado' \in [Pids -> Estados]
BY DEF Pasar, Listos, Estados

\* Taking the first process of the queue.
LEMMA SacarPrimero ==
  ASSUME Listos, estado \in [Pids -> Estados], ready_queue # <<>>,
         Pasar(Head(ready_queue), "exec"), ready_queue' = Tail(ready_queue)
  PROVE  Listos' /\ estado' \in [Pids -> Estados] /\ estado[Head(ready_queue)] = "ready"
         /\ Head(ready_queue) \in Pids
<1>1. Len(ready_queue) \in Nat \ {0} /\ Head(ready_queue) = ready_queue[1]
  BY DEF Listos
<1>2. Head(ready_queue) \in Pids /\ estado[Head(ready_queue)] = "ready"
  BY <1>1 DEF Listos
<1>3. estado' \in [Pids -> Estados]
  BY DEF Pasar, Estados
<1>4. /\ ready_queue' \in Seq(Pids) /\ Len(ready_queue') = Len(ready_queue) - 1
      /\ \A i \in 1 .. Len(ready_queue') : ready_queue'[i] = ready_queue[i + 1]
  BY <1>1 DEF Listos
<1>5. \A i \in 1 .. Len(ready_queue') :
        i + 1 \in 1 .. Len(ready_queue) /\ ready_queue[i + 1] \in Pids
        /\ ready_queue[i + 1] # Head(ready_queue)
  BY <1>1, <1>4 DEF Listos
<1>6. \A i \in 1 .. Len(ready_queue') : estado'[ready_queue'[i]] = "ready"
  BY <1>4, <1>5 DEF Pasar, Listos
<1>7. \A i, j \in 1 .. Len(ready_queue') : ready_queue'[i] = ready_queue'[j] => i = j
  <2> SUFFICES ASSUME NEW i \in 1 .. Len(ready_queue'), NEW j \in 1 .. Len(ready_queue'),
                      ready_queue'[i] = ready_queue'[j]
               PROVE  i = j
    OBVIOUS
  <2>1. ready_queue[i + 1] = ready_queue[j + 1]
    BY <1>4
  <2>2. i + 1 = j + 1
    BY <2>1, <1>5 DEF Listos
  <2> QED BY <2>2, <1>4
<1> QED BY <1>2, <1>3, <1>4, <1>6, <1>7 DEF Listos

\* A segment created for one process leaves the tables of the others.
LEMMA CrearSegmento ==
  ASSUME DOMAIN segs = Pids, NEW p, NEW s, NEW t, SEGMENTO_CREADO(p, s, t)
  PROVE  DOMAIN segs' = Pids /\ \A q \in Pids \ {p} : segs'[q] = segs[q]
<1>1. PICK r : segs' = [segs EXCEPT ![p][s] = r]
  BY DEF SEGMENTO_CREADO
<1> QED BY <1>1

-----------------------------------------------------------------------------
\* Steps of a program that stays within the CPU or leaves it.
LEMMA PasoPrograma ==
  ASSUME IInv, NEW p \in Pids,
         \/ doIO(p) \/ do_f_read_write(p) \/ EXIT(p)
         \/ do_create_segment(p) \/ do_delete_segment(p)
  PROVE  IInv' /\ Quieto
<1>1. estado[p] = "exec"
  BY DEF doIO, do_f_read_write, EXIT, do_create_segment, do_delete_segment, Ejecuta
<1>2. hiloFS # NADIE => hiloFS \in Pids /\ hiloFS # p
  BY <1>1 DEF IInv, Apartado
<1>3. CASE doIO(p)
  <2>1. Listos' /\ estado' \in [Pids -> Estados]
    BY <1>1, <1>3, PasarFuera DEF IInv, doIO, Estados
  <2>2. Apartado'
    BY <1>2, <1>3 DEF IInv, Apartado, doIO, Pasar
  <2> QED BY <1>3, <2>1, <2>2 DEF IInv, doIO, vMemoria, Quieto
<1>4. CASE do_f_read_write(p)
  <2>1. Listos' /\ estado' \in [Pids -> Estados]
    BY <1>1, <1>4, PasarFuera DEF IInv, do_f_read_write, Estados
  <2>2. Apartado'
    BY <1>4 DEF IInv, Apartado, do_f_read_write, Pasar
  <2> QED BY <1>4, <2>1, <2>2 DEF IInv, do_f_read_write, vMemoria, Quieto
<1>5. CASE EXIT(p)
  <2>1. Listos' /\ estado' \in [Pids -> Estados]
    BY <1>1, <1>5, PasarFuera DEF IInv, EXIT, doExit, Estados
  <2>2. Apartado'
    BY <1>2, <1>5 DEF IInv, Apartado, EXIT, doExit, Pasar
  <2> QED BY <1>5, <2>1, <2>2 DEF IInv, EXIT, vMemoria, Quieto
<1>6. CASE do_create_segment(p)
  <2>1. PICK s, t : \/ SEGMENTO_CREADO(p, s, t) /\ UNCHANGED <<vKernel, vCompactar>>
                    \/ UNCHANGED <<segs, vKernel>>
                    \/ doExit(p) /\ UNCHANGED <<segs, ready_queue>>
    BY <1>6 DEF do_create_segment
  <2>2. hiloFS' = hiloFS
    BY <1>6 DEF do_create_segment
  <2>3. CASE SEGMENTO_CREADO(p, s, t) /\ UNCHANGED <<vKernel, vCompactar>>
    <3>1. DOMAIN segs' = Pids /\ \A q \in Pids \ {p} : segs'[q] = segs[q]
      BY <2>3, CrearSegmento DEF IInv
    <3> QED BY <2>2, <2>3, <3>1, <1>2 DEF IInv, Listos, Apartado, vKernel, Quieto
  <2>4. CASE UNCHANGED <<segs, vKernel>>
    BY <2>2, <2>4 DEF IInv, Listos, Apartado, vKernel, Quieto
  <2>5. CASE doExit(p) /\ UNCHANGED <<segs, ready_queue>>
    <3>1. Listos' /\ estado' \in [Pids -> Estados]
      BY <1>1, <2>5, PasarFuera DEF IInv, doExit, Estados
    <3>2. Apartado'
      BY <1>2, <2>2, <2>5 DEF IInv, Apartado, doExit, Pasar
    <3> QED BY <2>5, <3>1, <3>2 DEF IInv, Quieto
  <2> QED BY <2>1, <2>3, <2>4, <2>5
<1>7. CASE do_delete_segment(p)
  <2>1. PICK s : segs' = [segs EXCEPT ![p][s] = A!NADA]
    BY <1>7 DEF do_delete_segment, eliminar_segmento
  <2>2. DOMAIN segs' = Pids /\ \A q \in Pids \ {p} : segs'[q] = segs[q]
    BY <2>1 DEF IInv
  <2> QED BY <1>2, <1>7, <2>2 DEF IInv, Listos, Apartado, do_delete_segment, vKernel, Quieto
<1> QED BY <1>3, <1>4, <1>5, <1>6, <1>7

\* Steps of memory, of the schedulers and of the threads that end a wait.
LEMMA PasoOtros ==
  ASSUME IInv, NEW p \in Pids,
         \/ crear_pcb(p) \/ agregar_pcb_en_cola_listos(p) \/ bloquear_pcb_fs_r_w
         \/ meter_pcb_en_ejecucion \/ fin_proceso(p)
  PROVE  IInv' /\ Quieto
<1>1. CASE crear_pcb(p)
  <2>1. Listos' /\ estado' \in [Pids -> Estados]
    BY <1>1, PasarFuera DEF IInv, crear_pcb, Estados
  <2>2. Apartado' /\ (hiloFS # NADIE => hiloFS # p)
    BY <1>1 DEF IInv, Apartado, crear_pcb, Pasar
  <2>3. DOMAIN segs' = Pids /\ \A q \in Pids \ {p} : segs'[q] = segs[q]
    BY <1>1 DEF IInv, crear_pcb
  <2> QED BY <2>1, <2>2, <2>3 DEF IInv, Apartado, Quieto
<1>2. CASE agregar_pcb_en_cola_listos(p)
  <2>1. Listos' /\ estado' \in [Pids -> Estados]
    BY <1>2, EncolarListo DEF IInv, agregar_pcb_en_cola_listos
  <2>2. Apartado'
    BY <1>2 DEF IInv, Apartado, agregar_pcb_en_cola_listos, Pasar
  <2> QED BY <1>2, <2>1, <2>2 DEF IInv, agregar_pcb_en_cola_listos, vMemoria, Quieto
<1>3. CASE bloquear_pcb_fs_r_w
  <2>1. Listos' /\ estado' \in [Pids -> Estados]
    BY <1>3, EncolarListo DEF IInv, Apartado, bloquear_pcb_fs_r_w
  <2> QED BY <1>3, <2>1 DEF IInv, Apartado, bloquear_pcb_fs_r_w, vMemoria, Quieto
<1>4. CASE meter_pcb_en_ejecucion
  <2>1. /\ Listos' /\ estado' \in [Pids -> Estados]
        /\ Head(ready_queue) \in Pids /\ estado[Head(ready_queue)] = "ready"
    BY <1>4, SacarPrimero DEF IInv, meter_pcb_en_ejecucion
  <2>2. Apartado'
    BY <1>4, <2>1 DEF IInv, Apartado, meter_pcb_en_ejecucion, Pasar
  <2> QED BY <1>4, <2>1, <2>2 DEF IInv, meter_pcb_en_ejecucion, vMemoria, Quieto
<1>5. CASE fin_proceso(p)
  <2>1. DOMAIN segs' = Pids /\ \A q \in Pids \ {p} : segs'[q] = segs[q]
    BY <1>5 DEF IInv, fin_proceso, eliminar_segmento
  <2>2. hiloFS # NADIE => hiloFS \in Pids \ {p}
    BY <1>5 DEF IInv, Apartado, fin_proceso
  <2> QED BY <1>5, <2>1, <2>2 DEF IInv, Listos, Apartado, fin_proceso, vKernel, Quieto
<1> QED BY <1>1, <1>2, <1>3, <1>4, <1>5

\* Steps of a compaction: it moves segments only when nobody is in hiloFS.
LEMMA PasoCompactar == ASSUME IInv, Compactar PROVE IInv' /\ Quieto
<1>1. CASE compactar_memoria
  <2>1. DOMAIN segs' = Pids /\ hiloFS = NADIE
    BY <1>1 DEF compactar_memoria, esperar_semFS, Compactado
  <2> QED BY <1>1, <2>1 DEF IInv, Listos, Apartado, compactar_memoria, vKernel, Quieto
<1>2. CASE enviar_tablas
  BY <1>2 DEF IInv, Listos, Apartado, enviar_tablas, Caer, vMemoria, vKernel, Quieto
<1>3. CASE asignar_tablas
  BY <1>3 DEF IInv, Listos, Apartado, asignar_tablas, vMemoria, vKernel, Quieto
<1>4. CASE PunteroSinIniciar
  BY <1>4 DEF IInv, Listos, Apartado, PunteroSinIniciar, Caer, vMemoria, vKernel, Quieto
<1>5. ASSUME NEW p \in Pids, reintentar(p) PROVE IInv' /\ Quieto
  <2>1. DOMAIN segs' = Pids /\ \A q \in Pids \ {p} : segs'[q] = segs[q]
    BY <1>5, CrearSegmento DEF IInv, reintentar
  <2>2. hiloFS # NADIE => hiloFS \in Pids \ {p}
    BY <1>5 DEF IInv, Apartado, reintentar
  <2> QED BY <1>5, <2>1, <2>2 DEF IInv, Listos, Apartado, reintentar, vKernel, Quieto
<1> QED BY <1>1, <1>2, <1>3, <1>4, <1>5 DEF Compactar

\* Every step keeps the invariant, and with it the segments of hiloFS.
LEMMA PasoQuieto == ASSUME IInv, [Next]_vars PROVE IInv' /\ Quieto
<1>1. CASE UNCHANGED vars
  BY <1>1 DEF vars, vMemoria, vKernel, IInv, Listos, Apartado, Quieto
<1>2. CASE Next
  <2>1. CASE Compactar
    BY <2>1, PasoCompactar
  <2>2. ASSUME NEW p \in Pids,
               \/ doIO(p) \/ do_f_read_write(p) \/ EXIT(p)
               \/ do_create_segment(p) \/ do_delete_segment(p)
        PROVE  IInv' /\ Quieto
    BY <2>2, PasoPrograma
  <2>3. ASSUME NEW p \in Pids,
               crear_pcb(p) \/ agregar_pcb_en_cola_listos(p) \/ fin_proceso(p)
        PROVE  IInv' /\ Quieto
    BY <2>3, PasoOtros
  <2>4. CASE bloquear_pcb_fs_r_w
    <3>1. Pids # {}
      BY <2>4 DEF bloquear_pcb_fs_r_w, IInv, Apartado
    <3> QED BY <2>4, <3>1, PasoOtros
  <2>5. CASE meter_pcb_en_ejecucion
    <3>1. Pids # {}
      BY <2>5, SacarPrimero DEF meter_pcb_en_ejecucion, IInv
    <3> QED BY <2>5, <3>1, PasoOtros
  <2> QED BY <1>2, <2>1, <2>2, <2>3, <2>4, <2>5 DEF Next
<1> QED BY <1>1, <1>2

\* While a file operation is under way no step of any process, nor a compaction,
\* moves, frees or replaces the segments of the process it works for.
THEOREM DireccionVigenteSiempre == Spec => DireccionVigente
<1>1. IInv /\ [Next]_vars => IInv'
  BY PasoQuieto
<1>2. IInv /\ [Next]_vars => [Quieto]_vars
  BY PasoQuieto
<1> QED BY <1>1, <1>2, Inicio, PTL DEF Spec, DireccionVigente, Quieto

-----------------------------------------------------------------------------
(* The sizes of the segments in a list, and where a compaction puts them.  *)

Pares == Pids \X Sids
TamDe(m, e) == A!Tam(m[e[1]][e[2]])
TamEn(m) == [e \in Pares |-> TamDe(m, e)]
Tams(m, l) == [i \in DOMAIN l |-> TamDe(m, l[i])]
OcupadoDe(m, l) == tam_segmento_0 + SumFunctionOnSet(Tams(m, l), DOMAIN l)

LEMMA Constantes ==
  /\ tam_segmento_0 \in Nat \ {0} /\ tam_memoria \in Nat /\ tam_segmento_0 < tam_memoria
  /\ cant_segmentos \in Nat \ {0} /\ 0 \in Sids /\ Sids = 0 .. cant_segmentos - 1
  /\ Tamanios \subseteq Nat \ {0} /\ MaxPedidos \in Nat
  /\ A!NADA \in A!Rangos /\ A!SEGMENTO_0 \in A!Rangos /\ A!NADA # A!SEGMENTO_0
BY TablasAssumption DEF Sids, A!NADA, A!SEGMENTO_0, A!Rangos

LEMMA TamEntero ==
  ASSUME NEW m \in [Pids -> Tabla], NEW e \in Pares
  PROVE  TamDe(m, e) \in Int /\ TamEn(m)[e] = TamDe(m, e)
<1>1. m[e[1]][e[2]] \in A!Rangos
  BY DEF Pares, Tabla
<1> QED BY <1>1, Constantes, SMTT(30) DEF TamDe, TamEn, A!Tam, A!Rangos

\* The order of the list does not matter to what is occupied.
LEMMA OcupadoEsSuma ==
  ASSUME NEW m \in [Pids -> Tabla], NEW l \in Seq(Pares), SinRepetir(l)
  PROVE  /\ OcupadoDe(m, l) = tam_segmento_0 + SumFunctionOnSet(TamEn(m), ToSet(l))
         /\ OcupadoDe(m, l) \in Int
         /\ IsFiniteSet(DOMAIN l) /\ DOMAIN l = 1 .. Len(l) /\ Len(l) \in Nat
         /\ \A i \in DOMAIN l : Tams(m, l)[i] = TamDe(m, l[i]) /\ Tams(m, l)[i] \in Int
         /\ IsFiniteSet(ToSet(l)) /\ ToSet(l) \subseteq Pares
<1>1. /\ IsFiniteSet(DOMAIN l) /\ DOMAIN l = 1 .. Len(l) /\ Len(l) \in Nat
      /\ \A i \in DOMAIN l : l[i] \in Pares
  BY FS_Interval
<1>2. \A i \in DOMAIN l : Tams(m, l)[i] \in Int /\ Tams(m, l)[i] = TamDe(m, l[i])
                          /\ Tams(m, l)[i] = TamEn(m)[l[i]]
  BY <1>1, TamEntero DEF Tams
<1>3. SumFunctionOnSet(Tams(m, l), DOMAIN l) = SumFunctionOnSet(TamEn(m), {l[i] : i \in DOMAIN l})
  <2>1. \A i, j \in DOMAIN l : l[i] = l[j] => i = j
    BY DEF SinRepetir
  <2> DEFINE D == DOMAIN l
             v == Tams(m, l)
             w == TamEn(m)
  <2>2. /\ IsFiniteSet(D) /\ \A i, j \in D : l[i] = l[j] => i = j
        /\ \A i \in D : v[i] \in Int /\ v[i] = w[l[i]]
    BY <1>1, <1>2, <2>1
  <2> HIDE DEF D, v, w
  <2>3. SumFunctionOnSet(v, D) = SumFunctionOnSet(w, {l[i] : i \in D})
    BY <2>2, SumaImagen
  <2> QED BY <2>3 DEF D, v, w
<1>4. ToSet(l) = {l[i] : i \in DOMAIN l} /\ ToSet(l) \subseteq Pares
  BY <1>1 DEF ToSet
<1>5. IsFiniteSet(ToSet(l))
  <2>1. l \in Surjection(DOMAIN l, ToSet(l))
    BY DEF Surjection, ToSet
  <2> QED BY <1>1, <2>1, FS_Surjection
<1>6. SumFunctionOnSet(Tams(m, l), DOMAIN l) \in Int
  BY <1>1, <1>2, SumaEntera
<1> QED BY <1>1, <1>2, <1>3, <1>4, <1>5, <1>6, Constantes DEF OcupadoDe

LEMMA OcupadoEs == Ocupado = OcupadoDe(segs, lista_segmentos_actuales)
BY DEF Ocupado, SumaTam, SumFunction, OcupadoDe, Tams, TamDe

\* With fewer segments in the list, and those as they were, no more is occupied.
LEMMA OcupadoNoCrece ==
  ASSUME NEW m \in [Pids -> Tabla], NEW l \in Seq(Pares), SinRepetir(l),
         NEW n \in [Pids -> Tabla], NEW k \in Seq(Pares), SinRepetir(k),
         ToSet(k) \subseteq ToSet(l),
         \A e \in ToSet(l) : TamDe(m, e) \in Nat,
         \A e \in ToSet(k) : TamDe(n, e) = TamDe(m, e)
  PROVE  OcupadoDe(n, k) <= OcupadoDe(m, l)
<1>1. /\ OcupadoDe(m, l) = tam_segmento_0 + SumFunctionOnSet(TamEn(m), ToSet(l))
      /\ IsFiniteSet(ToSet(l)) /\ ToSet(l) \subseteq Pares
  BY OcupadoEsSuma
<1>2. /\ OcupadoDe(n, k) = tam_segmento_0 + SumFunctionOnSet(TamEn(n), ToSet(k))
      /\ IsFiniteSet(ToSet(k))
  BY OcupadoEsSuma
<1>3. \A e \in ToSet(l) : TamEn(m)[e] \in Nat
  BY <1>1, TamEntero
<1>4. \A e \in ToSet(k) : TamEn(m)[e] \in Int /\ TamEn(n)[e] = TamEn(m)[e]
  BY <1>1, <1>3, TamEntero
<1>5. SumFunctionOnSet(TamEn(n), ToSet(k)) = SumFunctionOnSet(TamEn(m), ToSet(k))
  BY <1>2, <1>4, SumaIgual
<1>6. SumFunctionOnSet(TamEn(m), ToSet(k)) <= SumFunctionOnSet(TamEn(m), ToSet(l))
  BY <1>1, <1>3, SumaMonotona
<1>7. SumFunctionOnSet(TamEn(m), ToSet(k)) \in Nat /\ SumFunctionOnSet(TamEn(m), ToSet(l)) \in Nat
  BY <1>1, <1>2, <1>3, <1>4, SumaNatural
<1> QED BY <1>1, <1>2, <1>5, <1>6, <1>7, Constantes

DestinoDe(m, l, i) == tam_segmento_0 + SumFunctionOnSet(Tams(m, l), 1 .. i - 1)

LEMMA DestinoEs ==
  ASSUME segs \in [Pids -> Tabla], lista_segmentos_actuales \in Seq(Pares),
         SinRepetir(lista_segmentos_actuales), NEW i \in DOMAIN lista_segmentos_actuales
  PROVE  Destino(i) = DestinoDe(segs, lista_segmentos_actuales, i)
<1> DEFINE l == lista_segmentos_actuales
           a == SubSeq(l, 1, i - 1)
           v == Tams(segs, l)
           w == [j \in DOMAIN a |-> A!Tam(segs[a[j][1]][a[j][2]])]
<1>1. i \in 1 .. Len(l) /\ Len(l) \in Nat /\ DOMAIN l = 1 .. Len(l)
  OBVIOUS
<1>2. DOMAIN a = 1 .. i - 1 /\ \A j \in 1 .. i - 1 : a[j] = l[j] /\ j \in DOMAIN l
  BY <1>1
<1>3. IsFiniteSet(1 .. i - 1)
  BY <1>1, FS_Interval
<1>4. ASSUME NEW j \in 1 .. i - 1 PROVE v[j] \in Int /\ w[j] = v[j]
  <2>1. v[j] = TamDe(segs, l[j]) /\ v[j] \in Int
    BY <1>2, OcupadoEsSuma
  <2>2. w[j] = A!Tam(segs[a[j][1]][a[j][2]])
    BY <1>2
  <2> QED BY <1>2, <2>1, <2>2 DEF TamDe
<1>5. Destino(i) = tam_segmento_0 + SumFunctionOnSet(w, 1 .. i - 1)
  <2>1. Destino(i) = tam_segmento_0 + SumFunctionOnSet(w, DOMAIN w)
    BY DEF Destino, SumaTam, SumFunction
  <2>2. DOMAIN w = 1 .. i - 1
    BY <1>2
  <2> HIDE DEF w
  <2> QED BY <2>1, <2>2
<1> HIDE DEF v, w, a
<1>6. SumFunctionOnSet(w, 1 .. i - 1) = SumFunctionOnSet(v, 1 .. i - 1)
  BY <1>3, <1>4, SumaIgual
<1> QED BY <1>5, <1>6 DEF DestinoDe, v

\* Put one behind the other from the end of segment 0 on, segments do not overlap
\* and need no more room than they had.
LEMMA UnoTrasOtro ==
  ASSUME NEW m \in [Pids -> Tabla], NEW l \in Seq(Pares), SinRepetir(l),
         \A e \in ToSet(l) : TamDe(m, e) \in Nat, OcupadoDe(m, l) <= tam_memoria
  PROVE  /\ \A i \in DOMAIN l :
              /\ DestinoDe(m, l, i) \in Nat /\ TamDe(m, l[i]) \in Nat
              /\ tam_segmento_0 <= DestinoDe(m, l, i)
              /\ DestinoDe(m, l, i) + TamDe(m, l[i]) <= tam_memoria
         /\ \A i, j \in DOMAIN l :
              i < j => DestinoDe(m, l, i) + TamDe(m, l[i]) <= DestinoDe(m, l, j)
<1> DEFINE v == Tams(m, l)
           S(n) == SumFunctionOnSet(v, 1 .. n)
<1>1. DOMAIN l = 1 .. Len(l) /\ Len(l) \in Nat
  BY OcupadoEsSuma
<1>2. ASSUME NEW i \in DOMAIN l PROVE v[i] = TamDe(m, l[i]) /\ v[i] \in Nat
  <2>1. l[i] \in ToSet(l)
    BY DEF ToSet
  <2> QED BY <2>1, OcupadoEsSuma
<1>3. OcupadoDe(m, l) = tam_segmento_0 + S(Len(l))
  BY <1>1 DEF OcupadoDe
<1> HIDE DEF v
<1>4. ASSUME NEW n \in 0 .. Len(l)
      PROVE  IsFiniteSet(1 .. n) /\ (\A i \in 1 .. n : v[i] \in Nat) /\ S(n) \in Nat
  <2>1. IsFiniteSet(1 .. n)
    BY <1>1, FS_Interval
  <2>2. \A i \in 1 .. n : v[i] \in Nat
    BY <1>1, <1>2
  <2> QED BY <2>1, <2>2, SumaNatural
<1>5. ASSUME NEW n \in 0 .. Len(l), NEW k \in 0 .. n PROVE S(k) <= S(n)
  <2>1. 1 .. k \in SUBSET (1 .. n)
    BY <1>1
  <2> QED BY <1>4, <2>1, SumaMonotona
<1>6. ASSUME NEW i \in DOMAIN l
      PROVE  /\ i - 1 \in 0 .. Len(l) /\ i \in 0 .. Len(l)
             /\ DestinoDe(m, l, i) = tam_segmento_0 + S(i - 1)
             /\ DestinoDe(m, l, i) + v[i] = tam_segmento_0 + S(i)
  <2>1. i - 1 \in 0 .. Len(l) /\ i \in 0 .. Len(l) /\ i \in 1 .. Len(l)
    BY <1>1
  <2>2. 1 .. i = (1 .. i - 1) \cup {i} /\ i \notin 1 .. i - 1
    BY <2>1
  <2>3. \A x \in (1 .. i - 1) \cup {i} : v[x] \in Int
    BY <1>4, <2>1, <2>2
  <2>4. SumFunctionOnSet(v, (1 .. i - 1) \cup {i}) = v[i] + S(i - 1)
    BY <1>4, <2>1, <2>2, <2>3, SumaAgregar
  <2>5. S(i) = v[i] + S(i - 1)
    BY <2>2, <2>4
  <2>6. S(i - 1) \in Nat /\ S(i) \in Nat /\ v[i] \in Nat
    BY <1>2, <1>4, <2>1
  <2>7. DestinoDe(m, l, i) = tam_segmento_0 + S(i - 1)
    BY DEF DestinoDe, v
  <2> HIDE DEF S
  <2> QED BY <2>1, <2>5, <2>6, <2>7, Constantes
<1>7. ASSUME NEW i \in DOMAIN l
      PROVE  /\ DestinoDe(m, l, i) \in Nat /\ TamDe(m, l[i]) \in Nat
             /\ tam_segmento_0 <= DestinoDe(m, l, i)
             /\ DestinoDe(m, l, i) + TamDe(m, l[i]) <= tam_memoria
  <2>1. S(i) <= S(Len(l)) /\ S(i - 1) \in Nat /\ S(i) \in Nat /\ S(Len(l)) \in Nat
    BY <1>1, <1>4, <1>5, <1>6
  <2>2. TamDe(m, l[i]) = v[i] /\ v[i] \in Nat
    BY <1>2
  <2>3. /\ DestinoDe(m, l, i) = tam_segmento_0 + S(i - 1)
        /\ DestinoDe(m, l, i) + v[i] = tam_segmento_0 + S(i)
    BY <1>6
  <2> HIDE DEF S
  <2> QED BY <1>3, <2>1, <2>2, <2>3, Constantes, SMTT(30)
<1>8. ASSUME NEW i \in DOMAIN l, NEW j \in DOMAIN l, i < j
      PROVE  DestinoDe(m, l, i) + TamDe(m, l[i]) <= DestinoDe(m, l, j)
  <2>1. i \in 0 .. j - 1
    BY <1>1, <1>8
  <2>2. S(i) <= S(j - 1) /\ S(i) \in Nat /\ S(j - 1) \in Nat
    BY <1>4, <1>5, <1>6, <2>1
  <2>3. TamDe(m, l[i]) = v[i] /\ v[i] \in Nat
    BY <1>2
  <2>4. /\ DestinoDe(m, l, i) + v[i] = tam_segmento_0 + S(i)
        /\ DestinoDe(m, l, j) = tam_segmento_0 + S(j - 1)
    BY <1>6
  <2> HIDE DEF S
  <2> QED BY <2>2, <2>3, <2>4, Constantes
<1> QED BY <1>7, <1>8

-----------------------------------------------------------------------------
(* How many entries of a table are in use. *)

CantDe(t) == Cardinality({s \in Sids : t[s] # A!NADA})

LEMMA UsadasFinitas ==
  ASSUME NEW t
  PROVE  /\ IsFiniteSet({s \in Sids : t[s] # A!NADA}) /\ CantDe(t) \in 0 .. cant_segmentos
<1>1. IsFiniteSet(Sids) /\ Cardinality(Sids) = cant_segmentos
  BY Constantes, FS_Interval
<1>2. /\ IsFiniteSet({s \in Sids : t[s] # A!NADA})
      /\ Cardinality({s \in Sids : t[s] # A!NADA}) <= Cardinality(Sids)
  BY <1>1, FS_Subset
<1>3. Cardinality({s \in Sids : t[s] # A!NADA}) \in Nat
  BY <1>2, FS_CardinalityType
<1> QED BY <1>1, <1>2, <1>3 DEF CantDe

LEMMA UsadasMenos ==
  ASSUME NEW t, NEW u, \A s \in Sids : u[s] # A!NADA => t[s] # A!NADA
  PROVE  CantDe(u) <= CantDe(t)
<1>1. {s \in Sids : u[s] # A!NADA} \subseteq {s \in Sids : t[s] # A!NADA}
  OBVIOUS
<1> QED BY <1>1, UsadasFinitas, FS_Subset DEF CantDe

LEMMA UsadasMasUna ==
  ASSUME NEW t, NEW u, NEW s \in Sids, \A e \in Sids \ {s} : u[e] # A!NADA => t[e] # A!NADA
  PROVE  CantDe(u) <= CantDe(t) + 1
<1> DEFINE U == {e \in Sids : u[e] # A!NADA}
           T == {e \in Sids : t[e] # A!NADA}
<1>1. U \subseteq T \cup {s} /\ IsFiniteSet(T)
  BY UsadasFinitas
<1>2. IsFiniteSet(T \cup {s}) /\ Cardinality(T \cup {s}) <= Cardinality(T) + 1
      /\ Cardinality(T) \in Nat /\ Cardinality(T \cup {s}) \in Nat
  <2> HIDE DEF T
  <2> QED BY <1>1, FS_AddElement, FS_CardinalityType, SMTT(30)
<1>3. Cardinality(U) <= Cardinality(T \cup {s}) /\ Cardinality(U) \in Nat
  <2> HIDE DEF T, U
  <2> QED BY <1>1, <1>2, FS_Subset, FS_CardinalityType
<1> HIDE DEF T, U
<1>4. Cardinality(U) <= Cardinality(T) + 1
  BY <1>2, <1>3
<1> QED BY <1>4 DEF CantDe, U, T

-----------------------------------------------------------------------------
(* The invariant. *)

Vivos == {"new", "ready", "exec", "block"}
Privadas == Sids \ {0}

\* Memory's lists name each process and each segment once, and agree with the
\* tables: a process that runs has one, with segment 0, and the list of segments
\* has exactly the other entries in use.
ListasOK ==
  /\ SinRepetir(lista_tablas) /\ SinRepetir(lista_segmentos_actuales)
  /\ \A p \in Pids :
       /\ estado[p] = "ausente" => p \notin ToSet(lista_tablas)
       /\ estado[p] \in Vivos => p \in ToSet(lista_tablas)
       /\ segs[p][0] = IF p \in ToSet(lista_tablas) THEN A!SEGMENTO_0 ELSE A!NADA
  /\ \A p \in Pids, s \in Privadas :
       /\ segs[p][s] # A!NADA <=> <<p, s>> \in ToSet(lista_segmentos_actuales)
       /\ segs[p][s] # A!NADA => p \in ToSet(lista_tablas) /\ segs[p][s].base < segs[p][s].limite
  /\ ToSet(lista_segmentos_actuales) \subseteq Pids \X Privadas

\* One process executes, and a compaction is for a segment that it asked for, in
\* an entry that stays empty until it gets it. What is in memory fits in it.
Fases ==
  /\ \A p, q \in Pids : estado[p] = "exec" /\ estado[q] = "exec" => p = q
  /\ fase # "libre" =>
       /\ pedido.tam \in Tamanios
       /\ \E p \in Pids : estado[p] = "exec" /\ segs[p][pedido.sid] = A!NADA
  /\ fase = "esperar" => Ocupado <= tam_memoria
  /\ fase = "enviar" => porEnviar.faltan >= 1 /\ porEnviar.i >= 1
  /\ fase = "asignar" <=> (tablas # <<>> /\ fase # "enviar")

\* No process counts more segments than were asked for, nor the one under way.
Pendiente == IF fase = "libre" THEN 0 ELSE 1
Cuentas ==
  /\ Pendiente <= pedidos
  /\ \A p \in Pids : cant_segmentos_actuales[p] + Pendiente <= pedidos + 1
                     /\ Cant(p) + Pendiente <= pedidos + 1
  /\ \A i \in DOMAIN tablas : tablas[i].cant <= pedidos

\* A table on its way to the kernel is still what memory has, or its process ended.
Enviadas ==
  \A i \in DOMAIN tablas :
    /\ estado[tablas[i].pid] # "ausente"
    /\ estado[tablas[i].pid] # "fin" =>
         tablas[i].segmentos = Primeras(segs[tablas[i].pid], tablas[i].cant)

\* The copy of a process no compaction disturbed has the ranges of its table or
\* nothing; that of one that lost no entry has its sizes.
Copias ==
  \A p \in Pids : estado[p] # "fin" =>
    /\ defecto[p] \subseteq {"perdido"} =>
         \A s \in Sids : segment_tables[p][s] \in {segs[p][s], A!NADA}
    /\ defecto[p] \subseteq {"movido"} =>
         \A s \in Sids :
           /\ A!Tam(segment_tables[p][s]) = A!Tam(segs[p][s])
           /\ segs[p][s] # A!NADA => s < cant_segmentos_actuales[p]

Inv == TypeOK /\ IInv /\ ListasOK /\ Fases /\ Cuentas /\ Enviadas /\ Copias

\* A step of the allocator, or none of its business.
DeAsignador == [A!Next]_(A!vars)

LEMMA CantEs == \A p : Cant(p) = CantDe(segs[p])
BY DEF Cant, CantDe

LEMMA TiposEnviadas ==
  ASSUME TypeOK, NEW i \in DOMAIN tablas
  PROVE  /\ tablas[i] \in [pid : Pids, cant : 0 .. cant_segmentos, segmentos : Tabla]
         /\ tablas[i].pid \in Pids /\ tablas[i].cant \in 0 .. cant_segmentos
         /\ tablas[i].cant \in Nat /\ tablas[i].segmentos \in Tabla
<1> DEFINE R == [pid : Pids, cant : 0 .. cant_segmentos, segmentos : Tabla]
<1>1. tablas \in Seq(R)
  BY DEF TypeOK
<1> HIDE DEF R
<1>2. tablas[i] \in R
  BY <1>1
<1> QED BY <1>2, Constantes DEF R

LEMMA CantNatural ==
  ASSUME TypeOK, NEW q \in Pids
  PROVE  Cant(q) \in Nat /\ Cant(q) \in 0 .. cant_segmentos /\ cant_segmentos_actuales[q] \in Nat
<1>1. CantDe(segs[q]) \in 0 .. cant_segmentos
  BY UsadasFinitas
<1>2. cant_segmentos_actuales[q] \in 0 .. MaxPedidos + 1
  BY DEF TypeOK
<1> QED BY <1>1, <1>2, CantEs, Constantes

LEMMA TablaEsCopia ==
  /\ Tabla \subseteq Copia /\ A!NADA \in A!Rangos
  /\ PISADA \notin A!Rangos /\ A!Tam(PISADA) = -1
BY Constantes DEF Tabla, Copia, PISADA, A!Rangos, A!NADA, A!Tam

LEMMA TablaPrimeras ==
  ASSUME NEW t \in Copia, NEW n \in Int
  PROVE  /\ Primeras(t, n) \in Copia /\ (t \in Tabla => Primeras(t, n) \in Tabla)
         /\ \A s \in Sids : Primeras(t, n)[s] \in {t[s], A!NADA}
         /\ \A s \in Sids : s < n => Primeras(t, n)[s] = t[s]
BY Constantes DEF Primeras, Tabla, Copia

LEMMA TablaVacia == SinTabla \in Tabla /\ \A s \in Sids : SinTabla[s] = A!NADA
BY Constantes DEF SinTabla, Tabla

LEMMA InicioInv == Init => Inv
<1> SUFFICES ASSUME Init PROVE Inv
  OBVIOUS
<1>1. segs \in [Pids -> Tabla] /\ segment_tables \in [Pids -> Copia]
      /\ \A p \in Pids, s \in Sids : segs[p][s] = A!NADA /\ segment_tables[p][s] = A!NADA
  BY TablaVacia, TablaEsCopia DEF Init
<1>2. lista_segmentos_actuales = <<>> /\ lista_tablas = <<>> /\ ToSet(<<>>) = {} /\ tablas = <<>>
  BY DEF Init, ToSet
<1>3. TypeOK
  BY <1>1, <1>2, Constantes DEF Init, TypeOK, SinPedido, Defectos
<1>4. ListasOK
  BY <1>1, <1>2, Constantes DEF Init, ListasOK, SinRepetir, Vivos, Privadas
<1>5. Fases
  BY <1>2 DEF Init, Fases
<1>6. Cuentas
  <2>1. \A p \in Pids : Cant(p) = 0
    <3> SUFFICES ASSUME NEW p \in Pids PROVE Cant(p) = 0
      OBVIOUS
    <3>1. {s \in Sids : segs[p][s] # A!NADA} = {}
      BY <1>1
    <3> QED BY <3>1, FS_EmptySet DEF Cant
  <2> QED BY <1>2, <2>1 DEF Init, Cuentas, Pendiente
<1>7. Enviadas
  BY <1>2 DEF Enviadas
<1>8. Copias
  BY <1>1 DEF Copias, Init
<1> QED BY <1>3, <1>4, <1>5, <1>6, <1>7, <1>8, Inicio DEF Inv

LEMMA InicioAsignador == Init => A!Init
BY DEF Init, A!Init, SinTabla, ToSet

-----------------------------------------------------------------------------
(* Steps that leave memory and the compaction alone.                       *)

LEMMA MemoriaQuieta == ASSUME UNCHANGED vMemoria PROVE DeAsignador
BY DEF vMemoria, DeAsignador, A!vars, ToSet

\* A process that has a table goes from one queue to another, or ends.
LEMMA CambiaEstado ==
  ASSUME Inv, NEW p \in Pids, NEW e \in Vivos \cup {"fin"}, Pasar(p, e),
         estado[p] \in Vivos, e = "exec" => \A q \in Pids : estado[q] # "exec",
         estado[p] = "exec" => fase = "libre", UNCHANGED <<vMemoria, vCompactar>>
  PROVE  ListasOK' /\ Fases' /\ Enviadas' /\ DeAsignador
<1>1. \A q \in Pids : estado'[q] = IF q = p THEN e ELSE estado[q]
  BY DEF Pasar, Inv, TypeOK
<1>2. e # "ausente" /\ "fin" \notin Vivos /\ "ausente" \notin Vivos /\ "exec" # "fin"
  BY DEF Vivos
<1>3. ListasOK'
  <2>1. \A q \in Pids : /\ estado'[q] = "ausente" => estado[q] = "ausente"
                        /\ estado'[q] \in Vivos => estado[q] \in Vivos
    BY <1>1, <1>2
  <2> QED BY <2>1 DEF Inv, ListasOK, vMemoria
<1>4. Fases'
  <2>1. \A q, r \in Pids : estado'[q] = "exec" /\ estado'[r] = "exec" => q = r
    BY <1>1 DEF Inv, Fases
  <2>2. ASSUME fase # "libre"
        PROVE  \E q \in Pids : estado'[q] = "exec" /\ segs[q][pedido.sid] = A!NADA
    BY <1>1, <2>2 DEF Inv, Fases
  <2>3. Ocupado' = Ocupado
    BY DEF Ocupado, SumaTam, vMemoria
  <2> QED BY <2>1, <2>2, <2>3 DEF Inv, Fases, vMemoria, vCompactar
<1>5. Enviadas'
  <2>1. \A i \in DOMAIN tablas : tablas[i].pid \in Pids
    BY TiposEnviadas DEF Inv
  <2>2. \A q \in Pids : estado'[q] # "fin" => estado[q] # "fin"
    BY <1>1, <1>2
  <2>3. \A q \in Pids : estado[q] # "ausente" => estado'[q] # "ausente"
    BY <1>1, <1>2
  <2> QED BY <2>1, <2>2, <2>3 DEF Inv, Enviadas, vMemoria, vCompactar
<1> QED BY <1>3, <1>4, <1>5, MemoriaQuieta

LEMMA CuentasMenos ==
  ASSUME Inv, Pendiente' = Pendiente, UNCHANGED tablas,
         \A q \in Pids : Cant(q)' \in Nat /\ Cant(q)' <= Cant(q),
         pedidos' \in Nat, pedidos <= pedidos',
         \A q \in Pids : cant_segmentos_actuales'[q] \in Nat
                         /\ cant_segmentos_actuales'[q] <= cant_segmentos_actuales[q]
  PROVE  Cuentas'
<1>1. Pendiente' = Pendiente /\ Pendiente \in Nat /\ pedidos \in Nat
  BY DEF Pendiente, Inv, TypeOK
<1>2. \A q \in Pids : Cant(q) \in Nat /\ cant_segmentos_actuales[q] \in Nat
  BY CantNatural DEF Inv
<1>3. \A i \in DOMAIN tablas : tablas[i].cant \in Int
  BY TiposEnviadas DEF Inv
<1>4. \A q \in Pids : cant_segmentos_actuales'[q] + Pendiente' <= pedidos' + 1
                      /\ Cant(q)' + Pendiente' <= pedidos' + 1
  BY <1>1, <1>2 DEF Inv, Cuentas
<1>5. \A i \in DOMAIN tablas' : tablas'[i].cant <= pedidos'
  BY <1>1, <1>3 DEF Inv, Cuentas
<1>6. Pendiente' <= pedidos'
  BY <1>1 DEF Inv, Cuentas
<1> QED BY <1>4, <1>5, <1>6 DEF Cuentas

LEMMA CuentasQuietas ==
  ASSUME Inv, UNCHANGED <<segs, fase, tablas>>,
         pedidos' \in Nat, pedidos <= pedidos',
         \A q \in Pids : cant_segmentos_actuales'[q] \in Nat
                         /\ cant_segmentos_actuales'[q] <= cant_segmentos_actuales[q]
  PROVE  Cuentas'
<1>1. Pendiente' = Pendiente
  BY DEF Pendiente
<1>2. \A q \in Pids : Cant(q)' = Cant(q)
  BY DEF Cant
<1>3. \A q \in Pids : Cant(q)' \in Nat /\ Cant(q)' <= Cant(q)
  BY <1>2, CantNatural DEF Inv
<1> QED BY <1>1, <1>3, CuentasMenos

\* The same copies of the same tables.
LEMMA CopiasQuietas ==
  ASSUME Inv, UNCHANGED <<segs, vTablas>>, \A q \in Pids : estado'[q] # "fin" => estado[q] # "fin"
  PROVE  Copias'
BY DEF Inv, Copias, vTablas

\* A process that ends has no copy.
LEMMA PasoFinal ==
  ASSUME Inv, NEW p \in Pids, estado[p] = "exec", fase = "libre", doExit(p),
         UNCHANGED <<vMemoria, ready_queue, hiloFS, vCompactar, vivo>>,
         pedidos' \in 0 .. MaxPedidos, pedidos <= pedidos'
  PROVE  TypeOK' /\ ListasOK' /\ Fases' /\ Cuentas' /\ Enviadas' /\ Copias' /\ DeAsignador
<1>1. ListasOK' /\ Fases' /\ Enviadas' /\ DeAsignador
  BY CambiaEstado DEF doExit, Vivos
<1>2. TypeOK'
  <2>1. segment_tables' \in [Pids -> Copia]
    BY TablaVacia, TablaEsCopia DEF doExit, Inv, TypeOK
  <2>2. estado' \in [Pids -> {"ausente", "new", "ready", "exec", "block", "fin"}]
    BY DEF doExit, Pasar, Inv, TypeOK
  <2>3. cant_segmentos_actuales' \in [Pids -> 0 .. MaxPedidos + 1] /\ defecto' \in [Pids -> Defectos]
    BY Constantes DEF doExit, Inv, TypeOK, Defectos
  <2> QED BY <2>1, <2>2, <2>3 DEF Inv, TypeOK, vMemoria, vCompactar
<1>3. Cuentas'
  <2>1. \A q \in Pids : cant_segmentos_actuales'[q] \in Nat
                        /\ cant_segmentos_actuales'[q] <= cant_segmentos_actuales[q]
    BY Constantes DEF doExit, Inv, TypeOK
  <2> QED BY <2>1, Constantes, CuentasQuietas DEF vMemoria, vCompactar
<1>4. Copias'
  <2>1. ASSUME NEW q \in Pids, estado'[q] # "fin"
        PROVE  /\ estado[q] # "fin" /\ defecto'[q] = defecto[q]
               /\ segment_tables'[q] = segment_tables[q]
               /\ cant_segmentos_actuales'[q] = cant_segmentos_actuales[q]
    BY <2>1 DEF doExit, Pasar, Inv, TypeOK
  <2> QED BY <2>1 DEF Inv, Copias, vMemoria
<1> QED BY <1>1, <1>2, <1>3, <1>4

\* What holds after a step, besides IInv (PasoQuieto).
Despues == TypeOK' /\ ListasOK' /\ Fases' /\ Cuentas' /\ Enviadas' /\ Copias' /\ DeAsignador

\* A process that goes from one queue to another with the same copy of its table.
LEMMA CambiaDeCola ==
  ASSUME Inv, IInv', NEW p \in Pids, NEW e \in Vivos, Pasar(p, e),
         estado[p] \in Vivos, e # "exec", estado[p] = "exec" => fase = "libre",
         UNCHANGED <<vMemoria, vTablas, vCompactar, pedidos, vivo>>
  PROVE  Despues
<1>1. ListasOK' /\ Fases' /\ Enviadas' /\ DeAsignador
  BY CambiaEstado
<1>2. TypeOK'
  <2>1. estado' \in [Pids -> {"ausente", "new", "ready", "exec", "block", "fin"}]
    BY DEF Vivos, Pasar, Inv, TypeOK
  <2>2. ready_queue' \in Seq(Pids) /\ hiloFS' \in Pids \cup {NADIE}
    BY DEF IInv, Listos, Apartado
  <2>3. fase' # "libre" => \E q \in Pids : estado'[q] = "exec"
    BY <1>1 DEF Fases
  <2> QED BY <2>1, <2>2, <2>3 DEF Inv, TypeOK, vMemoria, vTablas, vCompactar
<1>3. Cuentas'
  <2>1. \A q \in Pids : cant_segmentos_actuales'[q] \in Nat
                        /\ cant_segmentos_actuales'[q] <= cant_segmentos_actuales[q]
    BY Constantes DEF Inv, TypeOK, vTablas
  <2>2. pedidos' \in Nat /\ pedidos <= pedidos'
    BY Constantes DEF Inv, TypeOK
  <2> QED BY <2>1, <2>2, CuentasQuietas DEF vMemoria, vCompactar
<1>4. Copias'
  <2>1. \A q \in Pids : estado'[q] # "fin" => estado[q] # "fin"
    BY DEF Pasar, Vivos, Inv, TypeOK
  <2> QED BY <2>1, CopiasQuietas DEF vMemoria
<1> QED BY <1>1, <1>2, <1>3, <1>4 DEF Despues

\* The PCB goes to the CPU with the entries that its count reaches.
LEMMA PasoMeter == ASSUME Inv, IInv', meter_pcb_en_ejecucion PROVE Despues
<1> DEFINE p == Head(ready_queue)
           cant == cant_segmentos_actuales[p]
<1>0. p \in Pids /\ estado[p] = "ready"
  BY SacarPrimero DEF Inv, IInv, meter_pcb_en_ejecucion
<1>1. /\ Pasar(p, "exec") /\ \A q \in Pids : estado[q] # "exec"
      /\ segment_tables' = [segment_tables EXCEPT ![p] = Primeras(@, cant)]
      /\ UNCHANGED <<vMemoria, cant_segmentos_actuales, defecto, vCompactar, pedidos, vivo>>
  BY DEF meter_pcb_en_ejecucion, enviar_pcb_cpu, Serializar
<1> HIDE DEF p
<1>2. ListasOK' /\ Fases' /\ Enviadas' /\ DeAsignador
  BY <1>0, <1>1, CambiaEstado DEF Vivos
<1>3. segment_tables[p] \in Copia /\ cant \in Int
  BY <1>0, Constantes DEF Inv, TypeOK
<1>4. /\ Primeras(segment_tables[p], cant) \in Copia
      /\ \A s \in Sids : Primeras(segment_tables[p], cant)[s] \in {segment_tables[p][s], A!NADA}
      /\ \A s \in Sids : s < cant => Primeras(segment_tables[p], cant)[s] = segment_tables[p][s]
  BY <1>3, TablaPrimeras
<1>5. TypeOK'
  <2>1. estado' \in [Pids -> {"ausente", "new", "ready", "exec", "block", "fin"}]
    BY <1>1 DEF Pasar, Inv, TypeOK
  <2>2. ready_queue' \in Seq(Pids) /\ hiloFS' \in Pids \cup {NADIE}
    BY DEF IInv, Listos, Apartado
  <2>3. fase' # "libre" => \E q \in Pids : estado'[q] = "exec"
    BY <1>2 DEF Fases
  <2>4. segment_tables' \in [Pids -> Copia]
    BY <1>1, <1>4 DEF Inv, TypeOK
  <2> QED BY <1>1, <2>1, <2>2, <2>3, <2>4 DEF Inv, TypeOK, vMemoria, vCompactar
<1>6. Cuentas'
  <2>1. \A q \in Pids : cant_segmentos_actuales'[q] \in Nat
                        /\ cant_segmentos_actuales'[q] <= cant_segmentos_actuales[q]
    BY <1>1, Constantes DEF Inv, TypeOK
  <2>2. pedidos' \in Nat /\ pedidos <= pedidos'
    BY <1>1, Constantes DEF Inv, TypeOK
  <2> QED BY <1>1, <2>1, <2>2, CuentasQuietas DEF vMemoria, vCompactar
<1>7. Copias'
  <2> SUFFICES ASSUME NEW q \in Pids, estado'[q] # "fin"
               PROVE  /\ defecto[q] \subseteq {"perdido"} =>
                           \A s \in Sids : segment_tables'[q][s] \in {segs[q][s], A!NADA}
                      /\ defecto[q] \subseteq {"movido"} =>
                           \A s \in Sids :
                             /\ A!Tam(segment_tables'[q][s]) = A!Tam(segs[q][s])
                             /\ segs[q][s] # A!NADA => s < cant_segmentos_actuales[q]
    BY <1>1 DEF Copias, vMemoria
  <2>1. /\ defecto[q] \subseteq {"perdido"} =>
             \A s \in Sids : segment_tables[q][s] \in {segs[q][s], A!NADA}
        /\ defecto[q] \subseteq {"movido"} =>
             \A s \in Sids :
               /\ A!Tam(segment_tables[q][s]) = A!Tam(segs[q][s])
               /\ segs[q][s] # A!NADA => s < cant_segmentos_actuales[q]
    <3>1. estado[q] # "fin"
      BY <1>0, <1>1 DEF Pasar, Inv, TypeOK
    <3> QED BY <3>1 DEF Inv, Copias
  <2>2. CASE q # p
    <3>1. segment_tables'[q] = segment_tables[q]
      BY <1>1, <2>2 DEF Inv, TypeOK
    <3> QED BY <2>1, <3>1
  <2>3. CASE q = p
    <3>1. segment_tables'[p] = Primeras(segment_tables[p], cant)
      BY <1>0, <1>1 DEF Inv, TypeOK
    <3>2. ASSUME defecto[p] \subseteq {"movido"}, NEW s \in Sids
          PROVE  A!Tam(segment_tables'[p][s]) = A!Tam(segs[p][s])
      <4>1. CASE s < cant
        BY <1>4, <2>1, <2>3, <3>1, <3>2, <4>1
      <4>2. CASE ~(s < cant)
        <5>1. segs[p][s] = A!NADA /\ segment_tables'[p][s] = A!NADA
          BY <2>1, <2>3, <3>1, <3>2, <4>2 DEF Primeras
        <5> QED BY <5>1
      <4> QED BY <4>1, <4>2
    <3> QED BY <1>4, <2>1, <2>3, <3>1, <3>2
  <2> QED BY <2>2, <2>3
<1> QED BY <1>2, <1>5, <1>6, <1>7 DEF Despues

\* Steps of the schedulers, of I/O and of the end of a program.
LEMMA PasoColas ==
  ASSUME Inv, IInv', NEW p \in Pids,
         \/ agregar_pcb_en_cola_listos(p) \/ bloquear_pcb_fs_r_w \/ meter_pcb_en_ejecucion
         \/ doIO(p) \/ do_f_read_write(p) \/ EXIT(p)
  PROVE  Despues
<1>1. CASE agregar_pcb_en_cola_listos(p)
  <2>1. estado[p] \in Vivos /\ estado[p] # "exec" /\ "ready" \in Vivos /\ Pasar(p, "ready")
    BY <1>1 DEF agregar_pcb_en_cola_listos, Vivos
  <2>2. UNCHANGED <<vMemoria, vTablas, vCompactar, pedidos, vivo>>
    BY <1>1 DEF agregar_pcb_en_cola_listos
  <2> QED BY <2>1, <2>2, CambiaDeCola
<1>2. CASE bloquear_pcb_fs_r_w
  <2>1. hiloFS \in Pids /\ estado[hiloFS] = "block" /\ "ready" \in Vivos /\ "block" \in Vivos
        /\ Pasar(hiloFS, "ready")
    BY <1>2 DEF bloquear_pcb_fs_r_w, Vivos, Inv, IInv, Apartado
  <2>2. UNCHANGED <<vMemoria, vTablas, vCompactar, pedidos, vivo>>
    BY <1>2 DEF bloquear_pcb_fs_r_w
  <2> QED BY <2>1, <2>2, CambiaDeCola
<1>3. CASE meter_pcb_en_ejecucion
  BY <1>3, PasoMeter
<1>4. CASE doIO(p) \/ do_f_read_write(p)
  <2>1. estado[p] = "exec" /\ fase = "libre" /\ estado[p] \in Vivos /\ "block" \in Vivos
        /\ Pasar(p, "block")
    BY <1>4 DEF doIO, do_f_read_write, Ejecuta, Vivos
  <2>2. UNCHANGED <<vMemoria, vTablas, vCompactar, pedidos, vivo>>
    BY <1>4 DEF doIO, do_f_read_write
  <2> QED BY <2>1, <2>2, CambiaDeCola
<1>5. CASE EXIT(p)
  <2>1. /\ estado[p] = "exec" /\ fase = "libre" /\ doExit(p)
        /\ UNCHANGED <<vMemoria, ready_queue, hiloFS, vCompactar, pedidos, vivo>>
    BY <1>5 DEF EXIT, Ejecuta
  <2>2. pedidos' \in 0 .. MaxPedidos /\ pedidos <= pedidos'
    BY <2>1, Constantes DEF Inv, TypeOK
  <2> QED BY <2>1, <2>2, PasoFinal DEF Despues
<1> QED BY <1>1, <1>2, <1>3, <1>4, <1>5

-----------------------------------------------------------------------------
(* Steps of memory for a process that starts or ends.                      *)

LEMMA SinTablaVacia ==
  ASSUME Inv, NEW p \in Pids, p \notin ToSet(lista_tablas), NEW s \in Sids
  PROVE  segs[p][s] = A!NADA
<1>1. CASE s = 0
  BY <1>1 DEF Inv, ListasOK
<1>2. CASE s # 0
  BY <1>2 DEF Inv, ListasOK, Privadas
<1> QED BY <1>1, <1>2

LEMMA EntradasDeLista ==
  ASSUME Inv, NEW e \in ToSet(lista_segmentos_actuales)
  PROVE  /\ e \in Pares /\ e = <<e[1], e[2]>> /\ e[1] \in Pids /\ e[2] \in Privadas
         /\ TamDe(segs, e) \in Nat /\ segs[e[1]][e[2]].base < segs[e[1]][e[2]].limite
<1>1. e \in Pares /\ e = <<e[1], e[2]>> /\ e[1] \in Pids /\ e[2] \in Privadas
  BY DEF Inv, ListasOK, Pares, Privadas
<1>2. segs[e[1]][e[2]] # A!NADA
  BY <1>1 DEF Inv, ListasOK
<1>3. segs[e[1]][e[2]].base < segs[e[1]][e[2]].limite
  BY <1>1, <1>2 DEF Inv, ListasOK
<1>4. segs[e[1]][e[2]].base \in Int /\ segs[e[1]][e[2]].limite \in Int
  <2>1. segs[e[1]] \in Tabla
    BY <1>1 DEF Inv, TypeOK
  <2>2. segs[e[1]][e[2]] \in A!Rangos
    BY <1>1, <2>1 DEF Tabla, Privadas
  <2> QED BY <2>2, Constantes DEF A!Rangos
<1> QED BY <1>1, <1>3, <1>4 DEF TamDe, A!Tam

LEMMA OcupadoSigue ==
  ASSUME Inv, segs' \in [Pids -> Tabla], lista_segmentos_actuales' \in Seq(Pares),
         SinRepetir(lista_segmentos_actuales)',
         ToSet(lista_segmentos_actuales)' \subseteq ToSet(lista_segmentos_actuales),
         \A e \in ToSet(lista_segmentos_actuales)' : segs'[e[1]][e[2]] = segs[e[1]][e[2]],
         Ocupado <= tam_memoria
  PROVE  Ocupado' <= tam_memoria
<1> DEFINE m == segs
           l == lista_segmentos_actuales
           n == segs'
           k == lista_segmentos_actuales'
<1>1. m \in [Pids -> Tabla] /\ l \in Seq(Pares) /\ SinRepetir(l)
  BY DEF Inv, TypeOK, ListasOK, Pares
<1>2. n \in [Pids -> Tabla] /\ k \in Seq(Pares) /\ SinRepetir(k) /\ ToSet(k) \subseteq ToSet(l)
  BY DEF SinRepetir, ToSet
<1>3. \A e \in ToSet(l) : TamDe(m, e) \in Nat
  BY EntradasDeLista
<1>4. \A e \in ToSet(k) : TamDe(n, e) = TamDe(m, e)
  BY DEF TamDe, ToSet
<1>5. Ocupado = OcupadoDe(m, l)
  BY OcupadoEs
<1>6. Ocupado' = OcupadoDe(n, k)
  BY DEF Ocupado, SumaTam, SumFunction, OcupadoDe, Tams, TamDe
<1> HIDE DEF m, l, n, k
<1>7. OcupadoDe(n, k) <= OcupadoDe(m, l)
  BY <1>1, <1>2, <1>3, <1>4, OcupadoNoCrece
<1>8. OcupadoDe(m, l) \in Int /\ OcupadoDe(n, k) \in Int
  BY <1>1, <1>2, OcupadoEsSuma
<1> QED BY <1>5, <1>6, <1>7, <1>8, Constantes

\* What a process that starts or ends changes is nothing to a compaction.
LEMMA OtroProceso ==
  ASSUME Inv, NEW p \in Pids, estado[p] \in {"ausente", "fin"},
         \A q \in Pids \ {p} : segs'[q] = segs[q] /\ estado'[q] = estado[q],
         estado'[p] \in {"new", "fin"}, estado[p] = "fin" => estado'[p] = "fin",
         segs' \in [Pids -> Tabla], lista_segmentos_actuales' \in Seq(Pares),
         SinRepetir(lista_segmentos_actuales)',
         ToSet(lista_segmentos_actuales)' \subseteq ToSet(lista_segmentos_actuales),
         \A e \in ToSet(lista_segmentos_actuales)' : segs'[e[1]][e[2]] = segs[e[1]][e[2]],
         UNCHANGED vCompactar
  PROVE  Fases' /\ Enviadas'
<1>1. Fases'
  <2>1. \A q, r \in Pids : estado'[q] = "exec" /\ estado'[r] = "exec" => q = r
    BY DEF Inv, Fases
  <2>2. ASSUME fase # "libre"
        PROVE  \E q \in Pids : estado'[q] = "exec" /\ segs'[q][pedido.sid] = A!NADA
    <3>1. PICK q \in Pids : estado[q] = "exec" /\ segs[q][pedido.sid] = A!NADA
      BY <2>2 DEF Inv, Fases
    <3> QED BY <3>1
  <2>3. Ocupado <= tam_memoria => Ocupado' <= tam_memoria
    BY OcupadoSigue
  <2> QED BY <2>1, <2>2, <2>3 DEF Inv, Fases, vCompactar
<1>2. Enviadas'
  <2>1. \A i \in DOMAIN tablas : tablas[i].pid \in Pids
    BY TiposEnviadas DEF Inv
  <2> SUFFICES ASSUME NEW i \in DOMAIN tablas
               PROVE  /\ estado'[tablas[i].pid] # "ausente"
                      /\ estado'[tablas[i].pid] # "fin" =>
                           tablas[i].segmentos = Primeras(segs'[tablas[i].pid], tablas[i].cant)
    BY DEF Enviadas, vCompactar, Primeras
  <2>2. CASE tablas[i].pid = p
    BY <2>2 DEF Inv, Enviadas
  <2>3. CASE tablas[i].pid # p
    BY <2>1, <2>3 DEF Inv, Enviadas
  <2> QED BY <2>2, <2>3
<1> QED BY <1>1, <1>2

LEMMA PasoCrearPcb == ASSUME Inv, IInv', NEW p \in Pids, crear_pcb(p) PROVE Despues
<1>1. /\ estado[p] = "ausente" /\ estado' = [estado EXCEPT ![p] = "new"]
      /\ lista_tablas' = Append(lista_tablas, p)
      /\ segs' = [segs EXCEPT ![p][0] = A!SEGMENTO_0]
      /\ cant_segmentos_actuales' = [cant_segmentos_actuales EXCEPT ![p] = 1]
      /\ segment_tables' = [segment_tables EXCEPT ![p][0] = A!SEGMENTO_0]
      /\ UNCHANGED <<lista_segmentos_actuales, ready_queue, defecto, hiloFS, vCompactar, pedidos, vivo>>
  BY DEF crear_pcb, Pasar
<1>2. segs \in [Pids -> Tabla] /\ segment_tables \in [Pids -> Copia] /\ 0 \in Sids
      /\ A!SEGMENTO_0 \in A!Rangos /\ A!NADA # A!SEGMENTO_0
  BY Constantes DEF Inv, TypeOK
<1>3. p \notin ToSet(lista_tablas) /\ lista_tablas \in Seq(Pids)
  BY <1>1 DEF Inv, ListasOK, TypeOK
<1>4. \A s \in Sids : segs[p][s] = A!NADA
  BY <1>3, SinTablaVacia
<1>5. /\ segs' \in [Pids -> Tabla] /\ segment_tables' \in [Pids -> Copia]
      /\ \A q \in Pids \ {p} : segs'[q] = segs[q] /\ segment_tables'[q] = segment_tables[q]
                               /\ estado'[q] = estado[q]
      /\ \A s \in Privadas : segs'[p][s] = A!NADA /\ segment_tables'[p][s] = segment_tables[p][s]
      /\ segs'[p][0] = A!SEGMENTO_0 /\ segment_tables'[p][0] = A!SEGMENTO_0
      /\ estado'[p] = "new"
  BY <1>1, <1>2, <1>4 DEF Tabla, Copia, Privadas, Inv, TypeOK
<1>6. /\ lista_tablas' \in Seq(Pids) /\ SinRepetir(lista_tablas')
      /\ ToSet(lista_tablas') = ToSet(lista_tablas) \cup {p}
  BY <1>1, <1>3, ListaMasUno DEF Inv, ListasOK
<1>7. \A q \in Pids, s \in Privadas : segs'[q][s] = segs[q][s]
  <2>1. \A s \in Privadas : s \in Sids
    BY DEF Privadas
  <2> QED BY <1>4, <1>5, <2>1
<1>8. ListasOK'
  <2>1. ASSUME NEW q \in Pids
        PROVE  /\ estado'[q] = "ausente" => q \notin ToSet(lista_tablas')
               /\ estado'[q] \in Vivos => q \in ToSet(lista_tablas')
               /\ segs'[q][0] = IF q \in ToSet(lista_tablas') THEN A!SEGMENTO_0 ELSE A!NADA
    <3>1. CASE q = p
      BY <1>5, <1>6, <3>1 
    <3>2. CASE q # p
      BY <1>5, <1>6, <3>2 DEF Inv, ListasOK
    <3> QED BY <3>1, <3>2
  <2>2. SinRepetir(lista_segmentos_actuales') /\ SinRepetir(lista_tablas)'
    BY <1>1, <1>6 DEF Inv, ListasOK, SinRepetir
  <2>3. ToSet(lista_tablas)' = ToSet(lista_tablas')
    BY DEF ToSet
  <2>4. \A q \in Pids, s \in Privadas :
          /\ segs'[q][s] # A!NADA <=> <<q, s>> \in ToSet(lista_segmentos_actuales)
          /\ segs'[q][s] # A!NADA => q \in ToSet(lista_tablas') /\ segs'[q][s].base < segs'[q][s].limite
    <3> SUFFICES ASSUME NEW q \in Pids, NEW s \in Privadas
                 PROVE  /\ segs[q][s] # A!NADA <=> <<q, s>> \in ToSet(lista_segmentos_actuales)
                        /\ segs[q][s] # A!NADA =>
                             q \in ToSet(lista_tablas') /\ segs[q][s].base < segs[q][s].limite
      BY <1>7
    <3> QED BY <1>6 DEF Inv, ListasOK
  <2> QED BY <1>1, <2>1, <2>2, <2>3, <2>4 DEF Inv, ListasOK
<1>9. Fases' /\ Enviadas'
  <2>1. \A e \in ToSet(lista_segmentos_actuales) : segs'[e[1]][e[2]] = segs[e[1]][e[2]]
    BY <1>7, EntradasDeLista
  <2>2. lista_segmentos_actuales' = lista_segmentos_actuales
        /\ lista_segmentos_actuales' \in Seq(Pares) /\ UNCHANGED vCompactar
    BY <1>1 DEF Inv, TypeOK, Pares
  <2> QED BY <1>1, <1>5, <1>8, <2>1, <2>2, OtroProceso DEF ListasOK
<1>10. TypeOK'
  <2>1. estado' \in [Pids -> {"ausente", "new", "ready", "exec", "block", "fin"}]
        /\ cant_segmentos_actuales' \in [Pids -> 0 .. MaxPedidos + 1]
    BY <1>1, Constantes DEF Inv, TypeOK
  <2>2. fase' # "libre" => \E q \in Pids : estado'[q] = "exec"
    BY <1>9 DEF Fases
  <2> QED BY <1>1, <1>5, <1>6, <2>1, <2>2 DEF Inv, TypeOK, vCompactar
<1>11. Cuentas'
  <2>1. Pendiente' = Pendiente /\ Pendiente \in Nat /\ pedidos \in Nat /\ Pendiente <= pedidos
    BY <1>1, Constantes DEF Pendiente, Inv, TypeOK, Cuentas, vCompactar
  <2>2. Cant(p)' <= 1 /\ Cant(p)' \in Int
    <3>1. {s \in Sids : segs'[p][s] # A!NADA} \subseteq {0}
      BY <1>5 DEF Privadas
    <3>2. IsFiniteSet({0}) /\ Cardinality({0}) = 1
      BY FS_Singleton
    <3>3. Cardinality({s \in Sids : segs'[p][s] # A!NADA}) <= 1
          /\ Cardinality({s \in Sids : segs'[p][s] # A!NADA}) \in Int
      <4> DEFINE U == {s \in Sids : segs'[p][s] # A!NADA}
      <4>1. U \subseteq {0}
        BY <3>1
      <4> HIDE DEF U
      <4>2. IsFiniteSet(U) /\ Cardinality(U) <= 1
        <5>1. U \in SUBSET {0}
          BY <4>1
        <5> QED BY <3>2, <5>1, FS_Subset
      <4>3. Cardinality(U) \in Int
        BY <4>2, FS_CardinalityType
      <4> QED BY <4>2, <4>3 DEF U
    <3> QED BY <3>3 DEF Cant
  <2>3. ASSUME NEW q \in Pids, q # p
        PROVE  cant_segmentos_actuales'[q] + Pendiente' <= pedidos' + 1
               /\ Cant(q)' + Pendiente' <= pedidos' + 1
    <3>1. Cant(q)' = Cant(q)
      BY <1>5, <2>3 DEF Cant
    <3> QED BY <1>1, <2>1, <2>3, <3>1 DEF Inv, Cuentas, TypeOK
  <2>4. cant_segmentos_actuales'[p] = 1
    BY <1>1 DEF Inv, TypeOK
  <2>5. \A i \in DOMAIN tablas' : tablas'[i].cant <= pedidos'
    BY <1>1 DEF Inv, Cuentas, vCompactar
  <2> QED BY <1>1, <2>1, <2>2, <2>3, <2>4, <2>5 DEF Cuentas
<1>12. Copias'
  <2> SUFFICES ASSUME NEW q \in Pids, estado'[q] # "fin"
               PROVE  /\ defecto[q] \subseteq {"perdido"} =>
                           \A s \in Sids : segment_tables'[q][s] \in {segs'[q][s], A!NADA}
                      /\ defecto[q] \subseteq {"movido"} =>
                           \A s \in Sids :
                             /\ A!Tam(segment_tables'[q][s]) = A!Tam(segs'[q][s])
                             /\ segs'[q][s] # A!NADA => s < cant_segmentos_actuales'[q]
    BY <1>1 DEF Copias
  <2>1. CASE q # p
    <3>1. /\ segment_tables'[q] = segment_tables[q] /\ segs'[q] = segs[q] /\ estado[q] # "fin"
          /\ cant_segmentos_actuales'[q] = cant_segmentos_actuales[q]
      BY <1>1, <1>5, <2>1 DEF Inv, TypeOK
    <3> QED BY <3>1 DEF Inv, Copias
  <2>2. CASE q = p
    <3>1. ASSUME defecto[p] \subseteq {"perdido"}, NEW s \in Sids
          PROVE  segment_tables'[p][s] \in {segs'[p][s], A!NADA}
      BY <1>1, <1>4, <1>5, <3>1 DEF Inv, Copias, Privadas
    <3>2. ASSUME defecto[p] \subseteq {"movido"}, NEW s \in Sids
          PROVE  /\ A!Tam(segment_tables'[p][s]) = A!Tam(segs'[p][s])
                 /\ segs'[p][s] # A!NADA => s < cant_segmentos_actuales'[p]
      <4>1. CASE s = 0
        <5>1. cant_segmentos_actuales'[p] = 1
          BY <1>1 DEF Inv, TypeOK
        <5> QED BY <1>5, <4>1, <5>1
      <4>2. CASE s # 0
        <5>1. A!Tam(segment_tables[p][s]) = A!Tam(segs[p][s])
          BY <1>1, <3>2 DEF Inv, Copias
        <5> QED BY <1>4, <1>5, <4>2, <5>1 DEF Privadas
      <4> QED BY <4>1, <4>2
    <3> QED BY <2>2, <3>1, <3>2
  <2> QED BY <2>1, <2>2
<1>13. DeAsignador
  <2>1. A!Iniciar(p)
    BY <1>1, <1>3, <1>6 DEF A!Iniciar, ToSet
  <2>2. segs' # segs
    BY <1>2, <1>4, <1>5
  <2> QED BY <2>1, <2>2 DEF DeAsignador, A!Next
<1> QED BY <1>8, <1>9, <1>10, <1>11, <1>12, <1>13 DEF Despues

\* A segment is taken out of its table and of the list.
LEMMA Eliminado ==
  ASSUME Inv, NEW p \in Pids, NEW s \in Ocupadas(p), eliminar_segmento(p, s),
         UNCHANGED <<lista_tablas, estado>>
  PROVE  /\ ListasOK' /\ segs' \in [Pids -> Tabla]
         /\ lista_segmentos_actuales' \in Seq(Pares)
         /\ SinRepetir(lista_segmentos_actuales)'
         /\ ToSet(lista_segmentos_actuales)' \subseteq ToSet(lista_segmentos_actuales)
         /\ \A e \in ToSet(lista_segmentos_actuales)' : segs'[e[1]][e[2]] = segs[e[1]][e[2]]
         /\ \A q \in Pids : Cant(q)' \in Nat /\ Cant(q)' <= Cant(q)
         /\ \A q \in Pids \ {p} : segs'[q] = segs[q]
         /\ segs'[p] = [segs[p] EXCEPT ![s] = A!NADA]
         /\ DeAsignador
<1>1. /\ s \in Privadas /\ s \in Sids /\ s # 0 /\ segs[p][s] # A!NADA
      /\ segs \in [Pids -> Tabla] /\ A!NADA \in A!Rangos
      /\ lista_segmentos_actuales \in Seq(Pares)
  BY Constantes DEF Ocupadas, Privadas, Inv, TypeOK, Pares
<1>2. /\ segs' = [segs EXCEPT ![p][s] = A!NADA]
      /\ lista_segmentos_actuales' = RemoveFirst(lista_segmentos_actuales, <<p, s>>)
  BY DEF eliminar_segmento
<1>3. /\ <<p, s>> \in ToSet(lista_segmentos_actuales) /\ p \in ToSet(lista_tablas)
      /\ SinRepetir(lista_segmentos_actuales)
  BY <1>1 DEF Inv, ListasOK
<1>4. /\ lista_segmentos_actuales' \in Seq(Pares) /\ SinRepetir(lista_segmentos_actuales')
      /\ ToSet(lista_segmentos_actuales') = ToSet(lista_segmentos_actuales) \ {<<p, s>>}
  BY <1>1, <1>2, <1>3, ListaMenosUno
<1>5. /\ segs' \in [Pids -> Tabla] /\ segs'[p] = [segs[p] EXCEPT ![s] = A!NADA]
      /\ \A q \in Pids \ {p} : segs'[q] = segs[q]
      /\ segs'[p][s] = A!NADA /\ \A e \in Sids \ {s} : segs'[p][e] = segs[p][e]
  BY <1>1, <1>2 DEF Tabla
<1>6. ToSet(lista_segmentos_actuales)' = ToSet(lista_segmentos_actuales') /\ ToSet(lista_tablas)' = ToSet(lista_tablas)
      /\ SinRepetir(lista_segmentos_actuales)'
  BY <1>4 DEF ToSet, SinRepetir
<1>7. \A q \in Pids, e \in Sids : <<q, e>> # <<p, s>> => segs'[q][e] = segs[q][e]
  BY <1>5
<1>8. \A e \in ToSet(lista_segmentos_actuales') : segs'[e[1]][e[2]] = segs[e[1]][e[2]]
  <2> SUFFICES ASSUME NEW e \in ToSet(lista_segmentos_actuales')
               PROVE  segs'[e[1]][e[2]] = segs[e[1]][e[2]]
    OBVIOUS
  <2>1. e = <<e[1], e[2]>> /\ e[1] \in Pids /\ e[2] \in Sids /\ e # <<p, s>>
    BY <1>4, EntradasDeLista DEF Privadas
  <2> QED BY <1>7, <2>1
<1>9. ListasOK'
  <2>1. \A q \in Pids : segs'[q][0] = segs[q][0]
    BY <1>1, <1>7, Constantes
  <2>2. ASSUME NEW q \in Pids, NEW e \in Privadas
        PROVE  /\ segs'[q][e] # A!NADA <=> <<q, e>> \in ToSet(lista_segmentos_actuales')
               /\ segs'[q][e] # A!NADA =>
                    q \in ToSet(lista_tablas) /\ segs'[q][e].base < segs'[q][e].limite
    <3>1. CASE q = p /\ e = s
      BY <1>4, <1>5, <3>1
    <3>2. CASE ~(q = p /\ e = s)
      <4>1. segs'[q][e] = segs[q][e]
        BY <1>7, <3>2 DEF Privadas
      <4>2. <<q, e>> \in ToSet(lista_segmentos_actuales') <=> <<q, e>> \in ToSet(lista_segmentos_actuales)
        BY <1>4, <3>2
      <4>3. /\ segs[q][e] # A!NADA <=> <<q, e>> \in ToSet(lista_segmentos_actuales)
            /\ segs[q][e] # A!NADA => q \in ToSet(lista_tablas) /\ segs[q][e].base < segs[q][e].limite
        BY DEF Inv, ListasOK
      <4> QED BY <4>1, <4>2, <4>3
    <3> QED BY <3>1, <3>2
  <2>3. ToSet(lista_segmentos_actuales') \subseteq Pids \X Privadas
    BY <1>4 DEF Inv, ListasOK
  <2>4. SinRepetir(lista_tablas)'
    BY DEF Inv, ListasOK, SinRepetir
  <2>5. \A q \in Pids :
          /\ estado'[q] = "ausente" => q \notin ToSet(lista_tablas)
          /\ estado'[q] \in Vivos => q \in ToSet(lista_tablas)
          /\ segs'[q][0] = IF q \in ToSet(lista_tablas) THEN A!SEGMENTO_0 ELSE A!NADA
    BY <2>1 DEF Inv, ListasOK
  <2> QED BY <1>6, <2>2, <2>3, <2>4, <2>5 DEF ListasOK
<1>10. ASSUME NEW q \in Pids PROVE Cant(q)' \in Nat /\ Cant(q)' <= Cant(q)
  <2>1. \A e \in Sids : segs'[q][e] # A!NADA => segs[q][e] # A!NADA
    BY <1>1, <1>5, <1>7
  <2> DEFINE t == segs[q]
             u == segs'[q]
  <2>2. Cant(q) = CantDe(t) /\ Cant(q)' = CantDe(u)
    BY DEF Cant, CantDe
  <2>3. \A e \in Sids : u[e] # A!NADA => t[e] # A!NADA
    BY <2>1
  <2> HIDE DEF t, u
  <2>4. CantDe(u) <= CantDe(t)
    BY <2>3, UsadasMenos
  <2>5. CantDe(u) \in Nat
    <3>1. CantDe(u) \in 0 .. cant_segmentos
      BY UsadasFinitas
    <3> QED BY <3>1, Constantes
  <2> QED BY <2>2, <2>4, <2>5
<1>11. DeAsignador
  <2>1. A!Eliminar(p, s)
    BY <1>1, <1>2, <1>3, <1>6 DEF A!Eliminar
  <2>2. segs' # segs
    BY <1>1, <1>5
  <2>3. s \in A!Privadas
    BY <1>1 DEF A!Privadas
  <2> QED BY <2>1, <2>2, <2>3 DEF DeAsignador, A!Next
<1> QED BY <1>4, <1>5, <1>6, <1>8, <1>9, <1>10, <1>11

LEMMA PasoFinProceso == ASSUME Inv, IInv', NEW p \in Pids, fin_proceso(p) PROVE Despues
<1>1. /\ estado[p] = "fin" /\ p \in ToSet(lista_tablas)
      /\ UNCHANGED <<estado, ready_queue, vTablas, hiloFS, vCompactar, pedidos, vivo>>
  BY DEF fin_proceso, vKernel
<1>2. /\ Pendiente' = Pendiente /\ tablas' = tablas /\ pedidos' \in Nat /\ pedidos <= pedidos'
      /\ \A q \in Pids : cant_segmentos_actuales'[q] \in Nat
                         /\ cant_segmentos_actuales'[q] <= cant_segmentos_actuales[q]
  BY <1>1, CantNatural, Constantes DEF Pendiente, vCompactar, vTablas, Inv, TypeOK
\* What both branches leave as it was.
<1>3. ASSUME segs' \in [Pids -> Tabla], lista_tablas' \in Seq(Pids),
             lista_segmentos_actuales' \in Seq(Pares),
             SinRepetir(lista_segmentos_actuales)',
             ToSet(lista_segmentos_actuales)' \subseteq ToSet(lista_segmentos_actuales),
             \A e \in ToSet(lista_segmentos_actuales)' : segs'[e[1]][e[2]] = segs[e[1]][e[2]],
             \A q \in Pids : Cant(q)' \in Nat /\ Cant(q)' <= Cant(q),
             \A q \in Pids \ {p} : segs'[q] = segs[q]
      PROVE  TypeOK' /\ Fases' /\ Cuentas' /\ Enviadas' /\ Copias'
  <2>1. Fases' /\ Enviadas'
    BY <1>1, <1>3, OtroProceso
  <2>2. Cuentas'
    BY <1>2, <1>3, CuentasMenos
  <2>3. TypeOK'
    BY <1>1, <1>3 DEF Inv, TypeOK, vTablas, vCompactar, Pares
  <2>4. Copias'
    <3>1. ASSUME NEW q \in Pids, estado[q] # "fin" PROVE segs'[q] = segs[q]
      BY <1>1, <1>3, <3>1
    <3> QED BY <1>1, <3>1 DEF Inv, Copias, vTablas
  <2> QED BY <2>1, <2>2, <2>3, <2>4
<1>4. CASE Ocupadas(p) # {}
  <2> DEFINE s == Min(Ocupadas(p))
  <2>1. eliminar_segmento(p, s) /\ UNCHANGED lista_tablas
    BY <1>4 DEF fin_proceso
  <2>2. s \in Ocupadas(p)
    <3>1. Ocupadas(p) \in SUBSET Int /\ IsFiniteSet(Ocupadas(p))
      <4>1. Ocupadas(p) \subseteq Sids /\ IsFiniteSet(Sids) /\ Sids \subseteq Int
        BY Constantes, FS_Interval DEF Ocupadas
      <4> QED BY <4>1, FS_Subset
    <3>2. \E x \in Ocupadas(p) : \A y \in Ocupadas(p) : x <= y
      BY <1>4, <3>1, HayMinimo
    <3> QED BY <3>2 DEF Min
  <2> HIDE DEF s
  <2>3. ListasOK' /\ DeAsignador
    BY <1>1, <2>1, <2>2, Eliminado
  <2>4. lista_tablas' \in Seq(Pids)
    BY <2>1 DEF Inv, TypeOK
  <2>5. /\ segs' \in [Pids -> Tabla] /\ lista_segmentos_actuales' \in Seq(Pares)
        /\ SinRepetir(lista_segmentos_actuales)'
        /\ ToSet(lista_segmentos_actuales)' \subseteq ToSet(lista_segmentos_actuales)
        /\ \A e \in ToSet(lista_segmentos_actuales)' : segs'[e[1]][e[2]] = segs[e[1]][e[2]]
        /\ \A q \in Pids : Cant(q)' \in Nat /\ Cant(q)' <= Cant(q)
        /\ \A q \in Pids \ {p} : segs'[q] = segs[q]
    BY <1>1, <2>1, <2>2, Eliminado
  <2> QED BY <1>3, <2>3, <2>4, <2>5 DEF Despues
<1>5. CASE Ocupadas(p) = {}
  <2>1. /\ segs' = [segs EXCEPT ![p] = SinTabla]
        /\ lista_tablas' = RemoveFirst(lista_tablas, p)
        /\ UNCHANGED lista_segmentos_actuales
    BY <1>5 DEF fin_proceso
  <2>2. \A s \in Privadas : segs[p][s] = A!NADA
    BY <1>5 DEF Ocupadas, Privadas
  <2>3. /\ segs \in [Pids -> Tabla] /\ lista_tablas \in Seq(Pids) /\ SinRepetir(lista_tablas)
        /\ lista_segmentos_actuales \in Seq(Pares) /\ SinRepetir(lista_segmentos_actuales)
        /\ segs[p][0] = A!SEGMENTO_0
    BY <1>1 DEF Inv, TypeOK, ListasOK, Pares
  <2>4. /\ segs' \in [Pids -> Tabla] /\ \A q \in Pids \ {p} : segs'[q] = segs[q]
        /\ segs'[p] = SinTabla /\ \A s \in Sids : segs'[p][s] = A!NADA
    BY <2>1, <2>3, TablaVacia
  <2>5. /\ lista_tablas' \in Seq(Pids) /\ SinRepetir(lista_tablas')
        /\ ToSet(lista_tablas') = ToSet(lista_tablas) \ {p}
    BY <1>1, <2>1, <2>3, ListaMenosUno
  <2>6. /\ ToSet(lista_tablas)' = ToSet(lista_tablas') /\ SinRepetir(lista_tablas)'
        /\ ToSet(lista_segmentos_actuales)' = ToSet(lista_segmentos_actuales)
        /\ SinRepetir(lista_segmentos_actuales)'
    BY <2>1, <2>3, <2>5 DEF ToSet, SinRepetir
  <2>7. \A q \in Pids, s \in Privadas : segs'[q][s] = segs[q][s]
    <3> SUFFICES ASSUME NEW q \in Pids, NEW s \in Privadas PROVE segs'[q][s] = segs[q][s]
      OBVIOUS
    <3>1. CASE q = p
      BY <2>2, <2>4, <3>1 DEF Privadas
    <3>2. CASE q # p
      BY <2>4, <3>2
    <3> QED BY <3>1, <3>2
  <2>8. ASSUME NEW e \in ToSet(lista_segmentos_actuales)
        PROVE  segs'[e[1]][e[2]] = segs[e[1]][e[2]]
    BY <2>7, EntradasDeLista
  <2>9. ASSUME NEW q \in Pids PROVE Cant(q)' \in Nat /\ Cant(q)' <= Cant(q)
    <3> DEFINE t == segs[q]
               u == segs'[q]
    <3>1. Cant(q) = CantDe(t) /\ Cant(q)' = CantDe(u)
      BY DEF Cant, CantDe
    <3>2. \A e \in Sids : u[e] # A!NADA => t[e] # A!NADA
      BY <2>4
    <3> HIDE DEF t, u
    <3>3. CantDe(u) <= CantDe(t)
      BY <3>2, UsadasMenos
    <3>4. CantDe(u) \in Nat
      <4>1. CantDe(u) \in 0 .. cant_segmentos
        BY UsadasFinitas
      <4> QED BY <4>1, Constantes
    <3> QED BY <3>1, <3>3, <3>4
  <2>10. ListasOK'
    <3>1. ASSUME NEW q \in Pids
          PROVE  /\ estado'[q] = "ausente" => q \notin ToSet(lista_tablas')
                 /\ estado'[q] \in Vivos => q \in ToSet(lista_tablas')
                 /\ segs'[q][0] = IF q \in ToSet(lista_tablas') THEN A!SEGMENTO_0 ELSE A!NADA
      <4>1. CASE q = p
        BY <1>1, <2>4, <2>5, <4>1, Constantes DEF Vivos
      <4>2. CASE q # p
        BY <1>1, <2>4, <2>5, <4>2 DEF Inv, ListasOK
      <4> QED BY <4>1, <4>2
    <3>2. ASSUME NEW q \in Pids, NEW s \in Privadas
          PROVE  /\ segs'[q][s] # A!NADA <=> <<q, s>> \in ToSet(lista_segmentos_actuales)
                 /\ segs'[q][s] # A!NADA =>
                      q \in ToSet(lista_tablas') /\ segs'[q][s].base < segs'[q][s].limite
      <4>1. CASE q = p
        BY <2>2, <2>7, <4>1 DEF Inv, ListasOK
      <4>2. CASE q # p
        <5> SUFFICES /\ segs[q][s] # A!NADA <=> <<q, s>> \in ToSet(lista_segmentos_actuales)
                     /\ segs[q][s] # A!NADA =>
                          q \in ToSet(lista_tablas') /\ segs[q][s].base < segs[q][s].limite
          BY <2>7
        <5> QED BY <2>5, <4>2 DEF Inv, ListasOK
      <4> QED BY <4>1, <4>2
    <3> QED BY <2>1, <2>6, <3>1, <3>2 DEF Inv, ListasOK
  <2>11. DeAsignador
    <3>1. A!Terminar(p)
      BY <1>1, <2>1, <2>5, <2>6 DEF A!Terminar, SinTabla
    <3>2. segs' # segs
      BY <2>3, <2>4, Constantes
    <3> QED BY <3>1, <3>2 DEF DeAsignador, A!Next
  <2>12. lista_segmentos_actuales' \in Seq(Pares)
    BY <2>1, <2>3
  <2> QED BY <1>3, <2>4, <2>5, <2>6, <2>8, <2>9, <2>10, <2>11, <2>12 DEF Despues
<1> QED BY <1>4, <1>5

-----------------------------------------------------------------------------
(* Steps of the program that executes: its segments and the copy it has.   *)

Fiel(t, m) == \A s \in Sids : t[s] \in {m[s], A!NADA}
Completa(t, m, c) ==
  \A s \in Sids : A!Tam(t[s]) = A!Tam(m[s]) /\ (m[s] # A!NADA => s < c)

LEMMA CopiasEs ==
  Copias <=> \A p \in Pids : estado[p] # "fin" =>
               /\ defecto[p] \subseteq {"perdido"} => Fiel(segment_tables[p], segs[p])
               /\ defecto[p] \subseteq {"movido"} =>
                    Completa(segment_tables[p], segs[p], cant_segmentos_actuales[p])
BY DEF Copias, Fiel, Completa

\* The same change to the table and to its copy, which then goes to the CPU.
LEMMA CopiaReescrita ==
  ASSUME NEW t \in Copia, NEW m \in Tabla, NEW s \in Sids, NEW r \in A!Rangos,
         NEW c \in Nat, NEW d \in Nat, c <= d
  PROVE  /\ Primeras([t EXCEPT ![s] = r], d) \in Copia
         /\ Fiel(t, m) => Fiel(Primeras([t EXCEPT ![s] = r], d), [m EXCEPT ![s] = r])
         /\ Completa(t, m, c) /\ (r = A!NADA \/ s < d) =>
              Completa(Primeras([t EXCEPT ![s] = r], d), [m EXCEPT ![s] = r], d)
<1> DEFINE u == [t EXCEPT ![s] = r]
           v == Primeras(u, d)
           n == [m EXCEPT ![s] = r]
<1>1. /\ u \in Copia /\ u[s] = r /\ n[s] = r
      /\ \A e \in Sids \ {s} : u[e] = t[e] /\ n[e] = m[e]
  BY DEF Tabla, Copia
<1> HIDE DEF u, n
<1>2. v \in Copia
  BY <1>1, TablaPrimeras
<1>3. \A e \in Sids : v[e] = IF e < d THEN u[e] ELSE A!NADA
  BY DEF Primeras
<1> HIDE DEF v
<1>4. ASSUME Fiel(t, m) PROVE Fiel(v, n)
  BY <1>1, <1>3, <1>4 DEF Fiel
<1>5. ASSUME Completa(t, m, c), r = A!NADA \/ s < d PROVE Completa(v, n, d)
  <2> SUFFICES ASSUME NEW e \in Sids
               PROVE  A!Tam(v[e]) = A!Tam(n[e]) /\ (n[e] # A!NADA => e < d)
    BY DEF Completa
  <2>1. CASE e = s
    BY <1>1, <1>3, <1>5, <2>1
  <2>2. CASE e # s
    <3>1. A!Tam(t[e]) = A!Tam(m[e]) /\ (m[e] # A!NADA => e < c) /\ u[e] = t[e] /\ n[e] = m[e]
      BY <1>1, <1>5, <2>2 DEF Completa
    <3>2. e \in Int
      BY Constantes
    <3>3. CASE e < d
      BY <1>3, <3>1, <3>3
    <3>4. CASE ~(e < d)
      <4>1. ~(e < c)
        BY <3>2, <3>4
      <4> QED BY <1>3, <3>1, <3>4, <4>1
    <3> QED BY <3>3, <3>4
  <2> QED BY <2>1, <2>2
<1> QED BY <1>2, <1>4, <1>5 DEF v, u, n

\* The kernel writes an entry of the copy as memory wrote that of the table: the
\* copy stays as good as it was, and what falls behind the array marks its victim.
LEMMA Escrita ==
  ASSUME Inv, NEW p \in Pids, NEW s \in Sids, NEW r \in A!Rangos, NEW n \in Nat,
         cant_segmentos_actuales[p] <= n, estado[p] = "exec", estado' = estado,
         segs'[p] = [segs[p] EXCEPT ![s] = r], \A q \in Pids \ {p} : segs'[q] = segs[q],
         escribir_entrada(p, s, r, n)
  PROVE  /\ Copias' /\ vivo' \in BOOLEAN
         /\ segment_tables' \in [Pids -> Copia] /\ defecto' \in [Pids -> Defectos]
         /\ cant_segmentos_actuales' = [cant_segmentos_actuales EXCEPT ![p] = n]
<1> DEFINE t == segment_tables[p]
           m == segs[p]
           c == cant_segmentos_actuales[p]
           v == Primeras([t EXCEPT ![s] = r], n)
           w == [m EXCEPT ![s] = r]
           d == IF s < n \/ r = A!NADA THEN defecto[p] ELSE defecto[p] \cup {"perdido"}
           copias == [segment_tables EXCEPT ![p] = v]
           faltas == [defecto EXCEPT ![p] = d]
<1>1. /\ cant_segmentos_actuales' = [cant_segmentos_actuales EXCEPT ![p] = n]
      /\ \/ segment_tables' = copias /\ defecto' = faltas
         \/ \E q \in EnKernel, x \in Sids :
              /\ segment_tables' = [copias EXCEPT ![q][x] = PISADA]
              /\ defecto' = [faltas EXCEPT ![q] = @ \cup {"pisado"}]
  BY DEF escribir_entrada, Serializar
<1>2. vivo' \in BOOLEAN
  BY DEF escribir_entrada, Inv, TypeOK
<1>3. /\ segment_tables \in [Pids -> Copia] /\ t \in Copia /\ m \in Tabla /\ c \in Nat
      /\ defecto \in [Pids -> Defectos] /\ DOMAIN cant_segmentos_actuales = Pids
  BY CantNatural DEF Inv, TypeOK
<1>4. /\ v \in Copia
      /\ Fiel(t, m) => Fiel(v, w)
      /\ Completa(t, m, c) /\ (r = A!NADA \/ s < n) => Completa(v, w, n)
  <2> HIDE DEF t, m, c
  <2> QED BY <1>3, CopiaReescrita DEF c
<1>5. d \in Defectos /\ (~(s < n \/ r = A!NADA) => "perdido" \in d) /\ defecto[p] \subseteq d
  BY <1>3 DEF Defectos
<1> HIDE DEF v, d
<1>6. /\ copias \in [Pids -> Copia] /\ faltas \in [Pids -> Defectos]
      /\ copias[p] = v /\ faltas[p] = d
      /\ \A q \in Pids \ {p} : copias[q] = segment_tables[q] /\ faltas[q] = defecto[q]
  BY <1>3, <1>4, <1>5
<1> HIDE DEF copias, faltas
<1>7. \A q \in EnKernel : q \in Pids \ {p}
  BY DEF EnKernel
\* Each copy is what it should be, or is marked.
<1>8. /\ segment_tables' \in [Pids -> Copia] /\ defecto' \in [Pids -> Defectos]
      /\ \A q \in Pids : \/ segment_tables'[q] = copias[q] /\ defecto'[q] = faltas[q]
                        \/ "pisado" \in defecto'[q]
  <2>1. CASE segment_tables' = copias /\ defecto' = faltas
    BY <1>6, <2>1
  <2>2. ASSUME NEW q \in EnKernel, NEW x \in Sids,
               segment_tables' = [copias EXCEPT ![q][x] = PISADA],
               defecto' = [faltas EXCEPT ![q] = @ \cup {"pisado"}]
        PROVE  <1>8!:
    <3>1. q \in Pids
      BY <1>7, <2>2
    <3>2. [copias[q] EXCEPT ![x] = PISADA] \in Copia
      BY <1>6, <3>1 DEF Copia
    <3>3. faltas[q] \cup {"pisado"} \in Defectos
      BY <1>6, <3>1 DEF Defectos
    <3> QED BY <1>6, <2>2, <3>1, <3>2, <3>3
  <2> QED BY <1>1, <2>1, <2>2
<1>9. Copias'
  <2> SUFFICES ASSUME NEW q \in Pids, estado'[q] # "fin"
               PROVE  /\ defecto'[q] \subseteq {"perdido"} => Fiel(segment_tables'[q], segs'[q])
                      /\ defecto'[q] \subseteq {"movido"} =>
                           Completa(segment_tables'[q], segs'[q], cant_segmentos_actuales'[q])
    BY DEF Copias, Fiel, Completa
  <2>1. /\ defecto[q] \subseteq {"perdido"} => Fiel(segment_tables[q], segs[q])
        /\ defecto[q] \subseteq {"movido"} =>
             Completa(segment_tables[q], segs[q], cant_segmentos_actuales[q])
    BY CopiasEs DEF Inv
  <2>2. CASE "pisado" \in defecto'[q]
    BY <2>2
  <2>3. CASE q # p /\ segment_tables'[q] = copias[q] /\ defecto'[q] = faltas[q]
    <3>1. /\ segment_tables'[q] = segment_tables[q] /\ defecto'[q] = defecto[q]
          /\ segs'[q] = segs[q] /\ cant_segmentos_actuales'[q] = cant_segmentos_actuales[q]
      BY <1>1, <1>3, <1>6, <2>3
    <3> QED BY <2>1, <3>1
  <2>4. CASE q = p /\ segment_tables'[q] = copias[q] /\ defecto'[q] = faltas[q]
    <3>1. /\ segment_tables'[p] = v /\ defecto'[p] = d /\ segs'[p] = w
          /\ cant_segmentos_actuales'[p] = n
      BY <1>1, <1>3, <1>6, <2>4
    <3> HIDE DEF t, m, c, w
    <3>2. d \subseteq {"perdido"} => Fiel(v, w)
      BY <1>4, <1>5, <2>1, <2>4 DEF t, m
    <3>3. d \subseteq {"movido"} => Completa(v, w, n)
      BY <1>4, <1>5, <2>1, <2>4 DEF t, m, c
    <3> QED BY <2>4, <3>1, <3>2, <3>3
  <2> QED BY <1>8, <2>2, <2>3, <2>4
<1> QED BY <1>1, <1>2, <1>8, <1>9

LEMMA PasoBorrar == ASSUME Inv, IInv', NEW p \in Pids, do_delete_segment(p) PROVE Despues
<1> DEFINE c == cant_segmentos_actuales[p]
<1>1. PICK s \in Ocupadas(p) : eliminar_segmento(p, s) /\ escribir_entrada(p, s, A!NADA, c)
  BY DEF do_delete_segment
<1>2. /\ estado[p] = "exec" /\ fase = "libre"
      /\ UNCHANGED <<lista_tablas, estado, ready_queue, hiloFS, vCompactar, pedidos>>
  BY DEF do_delete_segment, Ejecuta, vKernel
<1>3. /\ ListasOK' /\ DeAsignador
      /\ segs' \in [Pids -> Tabla] /\ lista_segmentos_actuales' \in Seq(Pares)
      /\ \A q \in Pids : Cant(q)' \in Nat /\ Cant(q)' <= Cant(q)
      /\ \A q \in Pids \ {p} : segs'[q] = segs[q]
      /\ segs'[p] = [segs[p] EXCEPT ![s] = A!NADA]
  BY <1>1, <1>2, Eliminado
<1>4. c \in Nat /\ c <= c /\ s \in Sids /\ A!NADA \in A!Rangos
  BY TablaEsCopia, CantNatural DEF Inv, Ocupadas
<1>5. /\ Copias' /\ vivo' \in BOOLEAN
      /\ segment_tables' \in [Pids -> Copia] /\ defecto' \in [Pids -> Defectos]
      /\ cant_segmentos_actuales' = [cant_segmentos_actuales EXCEPT ![p] = c]
  <2> HIDE DEF c
  <2> QED BY <1>1, <1>2, <1>3, <1>4, Escrita DEF c
<1>6. cant_segmentos_actuales' = cant_segmentos_actuales
  BY <1>5 DEF Inv, TypeOK
<1>7. tablas = <<>> /\ tablas' = tablas
  BY <1>2 DEF Inv, Fases, vCompactar
<1>8. Fases'
  <2>1. fase' = "libre" /\ estado' = estado /\ tablas' = <<>>
    BY <1>2, <1>7 DEF vCompactar
  <2> QED BY <2>1 DEF Inv, Fases
<1>9. Enviadas'
  BY <1>7 DEF Enviadas
<1>10. Cuentas'
  <2>1. Pendiente' = Pendiente
    BY <1>2 DEF Pendiente, vCompactar
  <2>2. /\ pedidos' \in Nat /\ pedidos <= pedidos'
        /\ \A q \in Pids : cant_segmentos_actuales'[q] \in Nat
                           /\ cant_segmentos_actuales'[q] <= cant_segmentos_actuales[q]
    BY <1>2, <1>6, CantNatural, Constantes DEF Inv, TypeOK
  <2> QED BY <1>3, <1>7, <2>1, <2>2, CuentasMenos
<1>11. TypeOK'
  BY <1>2, <1>3, <1>5, <1>6 DEF Inv, TypeOK, vCompactar, Pares
<1> QED BY <1>3, <1>5, <1>8, <1>9, <1>10, <1>11 DEF Despues

\* A hole in which t units fit is a range that a segment of the allocator may take.
LEMMA HuecoSirve ==
  ASSUME Inv, NEW t \in Tamanios, NEW r \in Huecos(t)
  PROVE  /\ r \in A!Rangos /\ A!Libre(r) /\ r.base < r.limite /\ r.limite = r.base + t
         /\ Entrada(r.base, t) = r /\ r # A!NADA
<1>1. PICK b \in Limites : r = [base |-> b, limite |-> b + t]
  BY DEF Huecos
<1>2. r.limite <= tam_memoria /\ A!Libre(r)
  BY DEF Huecos
<1>3. b \in Nat
  <2>1. CASE b = tam_segmento_0
    BY <2>1, Constantes
  <2>2. ASSUME NEW e \in ToSet(lista_segmentos_actuales), b = segs[e[1]][e[2]].limite
        PROVE  b \in Nat
    <3>1. e[1] \in Pids /\ e[2] \in Sids
      BY EntradasDeLista DEF Privadas
    <3>2. segs[e[1]][e[2]] \in A!Rangos
      BY <3>1 DEF Inv, TypeOK, Tabla
    <3> QED BY <2>2, <3>2, Constantes DEF A!Rangos
  <2> QED BY <2>1, <2>2 DEF Limites
<1>4. t \in Nat \ {0}
  BY Constantes
<1>5. r.base = b /\ r.limite = b + t
  BY <1>1
<1>6. b \in 0 .. tam_memoria /\ b + t \in 0 .. tam_memoria /\ b < b + t
  BY <1>2, <1>3, <1>4, <1>5, Constantes
<1>7. r \in A!Rangos
  BY <1>1, <1>6 DEF A!Rangos
<1>8. Entrada(r.base, t) = r
  BY <1>1 DEF Entrada
<1>9. r # A!NADA
  BY <1>3, <1>4, <1>5 DEF A!NADA
<1> QED BY <1>2, <1>5, <1>6, <1>7, <1>8, <1>9

\* The creation of a segment, in memory and in the copy.
LEMMA Creado ==
  ASSUME Inv, NEW p \in Pids, NEW s \in Sids, NEW t \in Tamanios,
         estado[p] = "exec", segs[p][s] = A!NADA, SEGMENTO_CREADO(p, s, t),
         UNCHANGED <<lista_tablas, estado>>
  PROVE  /\ ListasOK' /\ Copias' /\ DeAsignador
         /\ segs' \in [Pids -> Tabla] /\ segment_tables' \in [Pids -> Copia]
         /\ lista_segmentos_actuales' \in Seq(Pares) /\ defecto' \in [Pids -> Defectos]
         /\ vivo' \in BOOLEAN
         /\ \A q \in Pids : Cant(q)' \in Nat /\ Cant(q)' <= Cant(q) + 1
         /\ DOMAIN cant_segmentos_actuales' = Pids
         /\ \A q \in Pids : cant_segmentos_actuales'[q] \in Nat
                            /\ cant_segmentos_actuales'[q] <= cant_segmentos_actuales[q] + 1
<1> DEFINE c == cant_segmentos_actuales[p]
           cant == c + 1
<1>1. PICK r \in Huecos(t) :
        /\ segs' = [segs EXCEPT ![p][s] = r]
        /\ lista_segmentos_actuales' = Append(lista_segmentos_actuales, <<p, s>>)
        /\ escribir_entrada(p, s, Entrada(r.base, t), cant)
  BY DEF SEGMENTO_CREADO
<1>2. /\ r \in A!Rangos /\ A!Libre(r) /\ r.base < r.limite /\ Entrada(r.base, t) = r
      /\ r # A!NADA
  BY HuecoSirve
<1>3. /\ segs \in [Pids -> Tabla] /\ c \in Nat /\ DOMAIN cant_segmentos_actuales = Pids
      /\ lista_segmentos_actuales \in Seq(Pares) /\ SinRepetir(lista_segmentos_actuales)
  BY CantNatural DEF Inv, TypeOK, ListasOK, Pares
<1>4. p \in ToSet(lista_tablas) /\ segs[p][0] = A!SEGMENTO_0
  BY DEF Inv, ListasOK, Vivos
<1>5. s # 0 /\ s \in Privadas /\ s \in A!Privadas /\ <<p, s>> \notin ToSet(lista_segmentos_actuales)
      /\ <<p, s>> \in Pares
  <2>1. s # 0
    BY <1>4, Constantes
  <2>2. s \in Privadas /\ s \in A!Privadas
    BY <2>1 DEF Privadas, A!Privadas
  <2> QED BY <2>1, <2>2 DEF Inv, ListasOK, Pares
<1>6. /\ segs' \in [Pids -> Tabla] /\ segs'[p] = [segs[p] EXCEPT ![s] = r] /\ segs'[p][s] = r
      /\ \A q \in Pids \ {p} : segs'[q] = segs[q]
      /\ \A e \in Sids \ {s} : segs'[p][e] = segs[p][e]
  BY <1>1, <1>2, <1>3 DEF Tabla
<1>7. \A q \in Pids, e \in Sids : <<q, e>> # <<p, s>> => segs'[q][e] = segs[q][e]
  BY <1>6
<1>8. /\ lista_segmentos_actuales' \in Seq(Pares) /\ SinRepetir(lista_segmentos_actuales')
      /\ ToSet(lista_segmentos_actuales') = ToSet(lista_segmentos_actuales) \cup {<<p, s>>}
  BY <1>1, <1>3, <1>5, ListaMasUno, ZenonT(40)
<1>9. ToSet(lista_segmentos_actuales)' = ToSet(lista_segmentos_actuales')
      /\ ToSet(lista_tablas)' = ToSet(lista_tablas) /\ SinRepetir(lista_segmentos_actuales)'
  BY <1>8 DEF ToSet, SinRepetir
<1>10. ListasOK'
  <2>1. \A q \in Pids : segs'[q][0] = segs[q][0]
    BY <1>5, <1>7, Constantes
  <2>2. ASSUME NEW q \in Pids, NEW e \in Privadas
        PROVE  /\ segs'[q][e] # A!NADA <=> <<q, e>> \in ToSet(lista_segmentos_actuales')
               /\ segs'[q][e] # A!NADA =>
                    q \in ToSet(lista_tablas) /\ segs'[q][e].base < segs'[q][e].limite
    <3>1. CASE q = p /\ e = s
      BY <1>2, <1>4, <1>6, <1>8, <3>1
    <3>2. CASE ~(q = p /\ e = s)
      <4>1. segs'[q][e] = segs[q][e]
        BY <1>7, <3>2 DEF Privadas
      <4>2. <<q, e>> \in ToSet(lista_segmentos_actuales') <=> <<q, e>> \in ToSet(lista_segmentos_actuales)
        BY <1>8, <3>2
      <4>3. /\ segs[q][e] # A!NADA <=> <<q, e>> \in ToSet(lista_segmentos_actuales)
            /\ segs[q][e] # A!NADA => q \in ToSet(lista_tablas) /\ segs[q][e].base < segs[q][e].limite
        BY DEF Inv, ListasOK
      <4> QED BY <4>1, <4>2, <4>3
    <3> QED BY <3>1, <3>2
  <2>3. ToSet(lista_segmentos_actuales') \subseteq Pids \X Privadas
    BY <1>5, <1>8 DEF Inv, ListasOK
  <2>4. SinRepetir(lista_tablas)'
    BY DEF Inv, ListasOK, SinRepetir
  <2>5. \A q \in Pids :
          /\ estado'[q] = "ausente" => q \notin ToSet(lista_tablas)
          /\ estado'[q] \in Vivos => q \in ToSet(lista_tablas)
          /\ segs'[q][0] = IF q \in ToSet(lista_tablas) THEN A!SEGMENTO_0 ELSE A!NADA
    BY <2>1 DEF Inv, ListasOK
  <2> QED BY <1>9, <2>2, <2>3, <2>4, <2>5 DEF ListasOK
<1>11. /\ Copias' /\ vivo' \in BOOLEAN
       /\ segment_tables' \in [Pids -> Copia] /\ defecto' \in [Pids -> Defectos]
       /\ cant_segmentos_actuales' = [cant_segmentos_actuales EXCEPT ![p] = cant]
  <2>1. cant \in Nat /\ c <= cant /\ escribir_entrada(p, s, r, cant)
    BY <1>1, <1>2, <1>3
  <2> HIDE DEF cant
  <2> QED BY <1>2, <1>6, <2>1, Escrita DEF c
<1>12. /\ cant_segmentos_actuales'[p] = cant /\ DOMAIN cant_segmentos_actuales' = Pids
       /\ \A q \in Pids \ {p} : cant_segmentos_actuales'[q] = cant_segmentos_actuales[q]
       /\ \A q \in Pids : cant_segmentos_actuales'[q] \in Nat
                          /\ cant_segmentos_actuales'[q] <= cant_segmentos_actuales[q] + 1
  <2>1. /\ cant_segmentos_actuales'[p] = cant /\ DOMAIN cant_segmentos_actuales' = Pids
        /\ \A q \in Pids \ {p} : cant_segmentos_actuales'[q] = cant_segmentos_actuales[q]
    BY <1>3, <1>11
  <2>2. \A q \in Pids : cant_segmentos_actuales[q] \in Nat
    BY CantNatural DEF Inv
  <2> QED BY <1>3, <2>1, <2>2
<1>13. ASSUME NEW q \in Pids PROVE Cant(q)' \in Nat /\ Cant(q)' <= Cant(q) + 1
  <2> DEFINE m == segs[q]
             u == segs'[q]
  <2>1. Cant(q) = CantDe(m) /\ Cant(q)' = CantDe(u)
    BY DEF Cant, CantDe
  <2>2. \A e \in Sids \ {s} : u[e] # A!NADA => m[e] # A!NADA
    BY <1>7
  <2> HIDE DEF m, u
  <2>3. CantDe(u) <= CantDe(m) + 1
    BY <2>2, UsadasMasUna
  <2>4. CantDe(u) \in Nat
    <3>1. CantDe(u) \in 0 .. cant_segmentos
      BY UsadasFinitas
    <3> QED BY <3>1, Constantes
  <2> QED BY <2>1, <2>3, <2>4
<1>14. DeAsignador
  <2>1. A!Crear(p, s)
    BY <1>1, <1>2, <1>4, <1>6, <1>9 DEF A!Crear
  <2>2. segs' # segs
    BY <1>2, <1>6
  <2> QED BY <1>5, <2>1, <2>2 DEF DeAsignador, A!Next
<1> QED BY <1>6, <1>8, <1>10, <1>11, <1>12, <1>13, <1>14

\* A count that has room for one more segment asked for, and a count of tables.
LEMMA CuentasMasUna ==
  ASSUME Inv, tablas = <<>>, tablas' = <<>>, pedidos' \in Nat,
         \/ Pendiente' = 0 /\ Pendiente = 0 /\ pedidos' = pedidos + 1
         \/ Pendiente' = 0 /\ Pendiente = 1 /\ pedidos' = pedidos,
         \A q \in Pids : Cant(q)' \in Nat /\ Cant(q)' <= Cant(q) + 1,
         \A q \in Pids : cant_segmentos_actuales'[q] \in Nat
                         /\ cant_segmentos_actuales'[q] <= cant_segmentos_actuales[q] + 1
  PROVE  Cuentas'
<1>1. Pendiente \in Nat /\ pedidos \in Nat
  BY Constantes DEF Pendiente, Inv, TypeOK
<1>2. \A q \in Pids : Cant(q) \in Nat /\ cant_segmentos_actuales[q] \in Nat
  BY CantNatural DEF Inv
<1>3. \A q \in Pids : cant_segmentos_actuales[q] + Pendiente <= pedidos + 1
                      /\ Cant(q) + Pendiente <= pedidos + 1
  BY DEF Inv, Cuentas
<1>4. ASSUME NEW q \in Pids
      PROVE  cant_segmentos_actuales'[q] + Pendiente' <= pedidos' + 1
             /\ Cant(q)' + Pendiente' <= pedidos' + 1
  <2>1. CASE Pendiente' = 0 /\ Pendiente = 0 /\ pedidos' = pedidos + 1
    BY <1>1, <1>2, <1>3, <2>1
  <2>2. CASE Pendiente' = 0 /\ Pendiente = 1 /\ pedidos' = pedidos
    BY <1>1, <1>2, <1>3, <2>2
  <2> QED BY <2>1, <2>2
<1> QED BY <1>1, <1>4 DEF Cuentas

LEMMA CuentaCabe ==
  ASSUME Cuentas', pedidos' \in 0 .. MaxPedidos, DOMAIN cant_segmentos_actuales' = Pids,
         cant_segmentos_actuales' = [q \in DOMAIN cant_segmentos_actuales' |-> cant_segmentos_actuales'[q]],
         \A q \in Pids : cant_segmentos_actuales'[q] \in Nat
  PROVE  cant_segmentos_actuales' \in [Pids -> 0 .. MaxPedidos + 1]
<1>1. ASSUME NEW q \in Pids PROVE cant_segmentos_actuales'[q] \in 0 .. MaxPedidos + 1
  <2>1. cant_segmentos_actuales'[q] + Pendiente' <= pedidos' + 1 /\ Pendiente' \in {0, 1}
    BY DEF Cuentas, Pendiente
  <2> QED BY <2>1, Constantes
<1> QED BY <1>1

\* A segment is asked for: it fits in a hole, in memory, or nowhere.
LEMMA PasoPedir == ASSUME Inv, IInv', NEW p \in Pids, do_create_segment(p) PROVE Despues
<1>1. /\ estado[p] = "exec" /\ fase = "libre" /\ pedidos < MaxPedidos /\ pedidos' = pedidos + 1
      /\ UNCHANGED <<lista_tablas, hiloFS>>
  BY DEF do_create_segment, Ejecuta
<1>2. pedidos \in Nat /\ pedidos' \in 0 .. MaxPedidos /\ pedidos' \in Nat /\ pedidos <= pedidos'
      /\ Pendiente = 0
  BY <1>1, Constantes DEF Inv, TypeOK, Pendiente
<1>3. tablas = <<>>
  BY <1>1 DEF Inv, Fases
<1>4. PICK s \in {e \in Sids : segs[p][e] = A!NADA}, t \in Tamanios :
       \/ SEGMENTO_CREADO(p, s, t) /\ UNCHANGED <<vKernel, vCompactar>>
       \/ /\ Huecos(t) = {} /\ tam_memoria - Ocupado >= t
          /\ fase' = "esperar" /\ pedido' = [sid |-> s, tam |-> t]
          /\ UNCHANGED <<segs, lista_segmentos_actuales, vKernel, vTablas, tablas, porEnviar, vivo>>
       \/ /\ doExit(p)
          /\ UNCHANGED <<segs, lista_segmentos_actuales, ready_queue, vCompactar, vivo>>
  BY TablasAssumption DEF do_create_segment, Sids
<1>5. CASE SEGMENTO_CREADO(p, s, t) /\ UNCHANGED <<vKernel, vCompactar>>
  <2>1. /\ ListasOK' /\ Copias' /\ DeAsignador
        /\ segs' \in [Pids -> Tabla] /\ segment_tables' \in [Pids -> Copia]
        /\ lista_segmentos_actuales' \in Seq(Pares) /\ defecto' \in [Pids -> Defectos]
        /\ vivo' \in BOOLEAN
        /\ \A q \in Pids : Cant(q)' \in Nat /\ Cant(q)' <= Cant(q) + 1
        /\ DOMAIN cant_segmentos_actuales' = Pids
        /\ \A q \in Pids : cant_segmentos_actuales'[q] \in Nat
                           /\ cant_segmentos_actuales'[q] <= cant_segmentos_actuales[q] + 1
    BY <1>1, <1>4, <1>5, Creado DEF vKernel
  <2>2. /\ estado' = estado /\ fase' = "libre" /\ tablas' = <<>> /\ ready_queue' = ready_queue
        /\ pedido' = pedido /\ porEnviar' = porEnviar /\ Pendiente' = 0
    BY <1>1, <1>3, <1>5 DEF vKernel, vCompactar, Pendiente
  <2>3. Fases'
    BY <2>2 DEF Inv, Fases
  <2>4. Enviadas'
    BY <2>2 DEF Enviadas
  <2>5. Cuentas'
    BY <1>1, <1>2, <1>3, <2>1, <2>2, CuentasMasUna
  <2>6. cant_segmentos_actuales' \in [Pids -> 0 .. MaxPedidos + 1]
    <3>1. cant_segmentos_actuales' = [q \in DOMAIN cant_segmentos_actuales' |-> cant_segmentos_actuales'[q]]
      <4>1. cant_segmentos_actuales' =
              [cant_segmentos_actuales EXCEPT ![p] = cant_segmentos_actuales[p] + 1]
        BY <1>5 DEF SEGMENTO_CREADO, escribir_entrada
      <4> QED BY <4>1
    <3> QED BY <1>2, <2>1, <2>5, <3>1, CuentaCabe
  <2>7. TypeOK'
    <3>1. UNCHANGED <<estado, ready_queue, lista_tablas, hiloFS, fase, pedido, tablas, porEnviar>>
      BY <1>1, <1>3, <2>2
    <3> QED BY <1>2, <2>1, <2>6, <3>1 DEF Inv, TypeOK, Pares
  <2> QED BY <2>1, <2>3, <2>4, <2>5, <2>7 DEF Despues
<1>6. CASE /\ Huecos(t) = {} /\ tam_memoria - Ocupado >= t
           /\ fase' = "esperar" /\ pedido' = [sid |-> s, tam |-> t]
           /\ UNCHANGED <<segs, lista_segmentos_actuales, vKernel, vTablas, tablas, porEnviar, vivo>>
  <2>1. UNCHANGED <<vMemoria, estado, ready_queue, vTablas, tablas, porEnviar>> /\ fase' = "esperar"
        /\ pedido'.sid = s /\ pedido'.tam = t
    BY <1>1, <1>6 DEF vMemoria, vKernel
  <2>2. ListasOK'
    BY <2>1 DEF Inv, ListasOK, vMemoria
  <2>3. Ocupado' = Ocupado /\ Ocupado <= tam_memoria
    <3>1. Ocupado \in Int
      <4>1. Ocupado = OcupadoDe(segs, lista_segmentos_actuales)
        BY OcupadoEs
      <4>2. segs \in [Pids -> Tabla] /\ lista_segmentos_actuales \in Seq(Pares)
            /\ SinRepetir(lista_segmentos_actuales)
        BY DEF Inv, TypeOK, ListasOK, Pares
      <4> QED BY <4>1, <4>2, OcupadoEsSuma
    <3>2. Ocupado' = Ocupado
      BY <2>1 DEF Ocupado, SumaTam, vMemoria
    <3> QED BY <1>6, <3>1, <3>2, Constantes
  <2>4. Fases'
    <3>1. \E q \in Pids : estado'[q] = "exec" /\ segs'[q][pedido'.sid] = A!NADA
      BY <1>1, <1>4, <2>1 DEF vMemoria
    <3> QED BY <1>3, <2>1, <2>3, <3>1 DEF Inv, Fases
  <2>5. Enviadas' /\ Copias'
    BY <1>3, <2>1 DEF Inv, Enviadas, Copias, vMemoria, vTablas
  <2>6. Cuentas'
    <3>1. Pendiente' = 1
      BY <2>1 DEF Pendiente
    <3>2. \A q \in Pids : Cant(q)' = Cant(q) /\ Cant(q) \in Nat /\ cant_segmentos_actuales[q] \in Nat
      <4>1. \A q \in Pids : Cant(q)' = Cant(q)
        BY <2>1 DEF Cant, vMemoria
      <4> QED BY <4>1, CantNatural DEF Inv
    <3>3. \A q \in Pids : cant_segmentos_actuales'[q] + Pendiente' <= pedidos' + 1
                          /\ Cant(q)' + Pendiente' <= pedidos' + 1
      BY <1>1, <1>2, <2>1, <3>1, <3>2 DEF Inv, Cuentas, vTablas
    <3>4. tablas' = <<>>
      BY <1>3, <2>1
    <3> QED BY <1>1, <1>2, <3>1, <3>3, <3>4 DEF Cuentas
  <2>7. TypeOK'
    <3>1. \E q \in Pids : estado'[q] = "exec"
      BY <1>1, <2>1
    <3> QED BY <1>1, <1>2, <1>6, <2>1, <3>1 DEF Inv, TypeOK, vMemoria, vTablas
  <2> QED BY <2>1, <2>2, <2>4, <2>5, <2>6, <2>7, MemoriaQuieta DEF Despues
<1>7. CASE /\ doExit(p)
           /\ UNCHANGED <<segs, lista_segmentos_actuales, ready_queue, vCompactar, vivo>>
  BY <1>1, <1>2, <1>7, PasoFinal DEF Despues, vMemoria
<1> QED BY <1>4, <1>5, <1>6, <1>7

\* After a compaction the segment that asked for it is created in the entry that
\* was waiting for it.
LEMMA PasoReintentar == ASSUME Inv, IInv', NEW p \in Pids, reintentar(p) PROVE Despues
<1>1. /\ fase = "reintentar" /\ estado[p] = "exec"
      /\ SEGMENTO_CREADO(p, pedido.sid, pedido.tam)
      /\ fase' = "libre" /\ pedido' = SinPedido /\ porEnviar' = [faltan |-> 0, i |-> 0]
      /\ UNCHANGED <<lista_tablas, estado, ready_queue, hiloFS, tablas, pedidos>>
  BY DEF reintentar, vKernel
<1>2. tablas = <<>> /\ tablas' = <<>> /\ Pendiente = 1 /\ Pendiente' = 0
      /\ pedidos' \in Nat /\ pedidos' \in 0 .. MaxPedidos /\ pedidos' = pedidos
  BY <1>1, Constantes DEF Inv, Fases, Pendiente, TypeOK
<1>3. pedido.sid \in Sids /\ pedido.tam \in Tamanios /\ segs[p][pedido.sid] = A!NADA
  BY <1>1 DEF Inv, Fases, TypeOK
<1>4. /\ ListasOK' /\ Copias' /\ DeAsignador
      /\ segs' \in [Pids -> Tabla] /\ segment_tables' \in [Pids -> Copia]
      /\ lista_segmentos_actuales' \in Seq(Pares) /\ defecto' \in [Pids -> Defectos]
      /\ vivo' \in BOOLEAN
      /\ \A q \in Pids : Cant(q)' \in Nat /\ Cant(q)' <= Cant(q) + 1
      /\ DOMAIN cant_segmentos_actuales' = Pids
      /\ \A q \in Pids : cant_segmentos_actuales'[q] \in Nat
                         /\ cant_segmentos_actuales'[q] <= cant_segmentos_actuales[q] + 1
  BY <1>1, <1>3, Creado
<1>5. Fases'
  BY <1>1, <1>2 DEF Inv, Fases
<1>6. Enviadas'
  BY <1>2 DEF Enviadas
<1>7. Cuentas'
  BY <1>2, <1>4, CuentasMasUna
<1>8. cant_segmentos_actuales' \in [Pids -> 0 .. MaxPedidos + 1]
  <2>1. cant_segmentos_actuales' = [q \in DOMAIN cant_segmentos_actuales' |-> cant_segmentos_actuales'[q]]
    <3>1. cant_segmentos_actuales' =
            [cant_segmentos_actuales EXCEPT ![p] = cant_segmentos_actuales[p] + 1]
      BY <1>1 DEF SEGMENTO_CREADO, escribir_entrada
    <3> QED BY <3>1
  <2> QED BY <1>2, <1>4, <1>7, <2>1, CuentaCabe
<1>9. TypeOK'
  BY <1>1, <1>2, <1>4, <1>8, Constantes DEF Inv, TypeOK, Pares, SinPedido
<1> QED BY <1>4, <1>5, <1>6, <1>7, <1>9 DEF Despues

-----------------------------------------------------------------------------
(* Steps of a compaction.                                                  *)

\* Where a compaction puts the segment at place i of the list.
LEMMA Lugar ==
  ASSUME Inv, NEW p \in Pids, NEW s \in Sids
  PROVE  IF <<p, s>> \in ToSet(lista_segmentos_actuales)
         THEN \E i \in DOMAIN lista_segmentos_actuales :
                /\ lista_segmentos_actuales[i] = <<p, s>>
                /\ Compactado[p][s] = [base |-> Destino(i), limite |-> Destino(i) + A!Tam(segs[p][s])]
         ELSE Compactado[p][s] = segs[p][s]
<1> DEFINE l == lista_segmentos_actuales
           k == CHOOSE i \in DOMAIN l : l[i] = <<p, s>>
<1>1. Compactado[p][s] = IF <<p, s>> \in ToSet(l)
                         THEN [base |-> Destino(k), limite |-> Destino(k) + A!Tam(segs[p][s])]
                         ELSE segs[p][s]
  BY DEF Compactado
<1>2. ASSUME <<p, s>> \in ToSet(l) PROVE k \in DOMAIN l /\ l[k] = <<p, s>>
  <2>1. \E i \in DOMAIN l : l[i] = <<p, s>>
    BY <1>2 DEF ToSet
  <2> QED BY <2>1
<1> HIDE DEF k
<1> QED BY <1>1, <1>2

LEMMA CompactadoSirve ==
  ASSUME Inv, Ocupado <= tam_memoria
  PROVE  /\ Compactado \in [Pids -> Tabla]
         /\ \A p \in Pids, s \in Sids :
              /\ Compactado[p][s] = A!NADA <=> segs[p][s] = A!NADA
              /\ A!Tam(Compactado[p][s]) = A!Tam(segs[p][s])
              /\ segs[p][s] = A!NADA => Compactado[p][s] = segs[p][s]
         /\ \A p \in Pids : Compactado[p][0] = segs[p][0]
         /\ \A p \in Pids, s \in Privadas :
              segs[p][s] # A!NADA => Compactado[p][s].base < Compactado[p][s].limite
         /\ A!Separadas(Compactado)
<1> DEFINE m == segs
           l == lista_segmentos_actuales
           D(i) == DestinoDe(m, l, i)
           T(i) == TamDe(m, l[i])
           n == Compactado
<1>1. m \in [Pids -> Tabla] /\ l \in Seq(Pares) /\ SinRepetir(l)
  BY DEF Inv, TypeOK, ListasOK, Pares
<1>2. \A e \in ToSet(l) : TamDe(m, e) \in Nat
  BY EntradasDeLista
<1>3. OcupadoDe(m, l) <= tam_memoria
  BY OcupadoEs
<1>4. /\ \A i \in DOMAIN l : /\ D(i) \in Nat /\ T(i) \in Nat /\ tam_segmento_0 <= D(i)
                             /\ D(i) + T(i) <= tam_memoria
      /\ \A i, j \in DOMAIN l : i < j => D(i) + T(i) <= D(j)
  <2> HIDE DEF m, l
  <2> QED BY <1>1, <1>2, <1>3, UnoTrasOtro
<1>5. DOMAIN l \subseteq Int
  BY <1>1
<1>6. ASSUME NEW i \in DOMAIN l PROVE Destino(i) = D(i) /\ T(i) > 0
  <2>1. Destino(i) = D(i)
    BY <1>1, DestinoEs
  <2>2. l[i] \in ToSet(l)
    BY DEF ToSet
  <2>3. m[l[i][1]][l[i][2]].base < m[l[i][1]][l[i][2]].limite
    BY <2>2, EntradasDeLista
  <2>4. m[l[i][1]][l[i][2]] \in A!Rangos
    <3>1. l[i][1] \in Pids /\ l[i][2] \in Sids
      BY <2>2, EntradasDeLista DEF Privadas
    <3> QED BY <1>1, <3>1 DEF Tabla
  <2>5. m[l[i][1]][l[i][2]].base \in Int /\ m[l[i][1]][l[i][2]].limite \in Int
    BY <2>4, Constantes DEF A!Rangos
  <2> QED BY <2>1, <2>3, <2>5 DEF TamDe, A!Tam
<1> HIDE DEF D
<1>7. ASSUME NEW p \in Pids, NEW s \in Sids
      PROVE  IF <<p, s>> \in ToSet(l)
             THEN \E i \in DOMAIN l :
                    /\ l[i] = <<p, s>> /\ T(i) = A!Tam(m[p][s])
                    /\ n[p][s] = [base |-> D(i), limite |-> D(i) + T(i)]
             ELSE n[p][s] = m[p][s]
  <2>1. CASE <<p, s>> \in ToSet(l)
    <3>1. PICK i \in DOMAIN l :
            /\ l[i] = <<p, s>>
            /\ n[p][s] = [base |-> Destino(i), limite |-> Destino(i) + A!Tam(m[p][s])]
      BY <2>1, Lugar
    <3>2. T(i) = A!Tam(m[p][s])
      BY <3>1 DEF TamDe
    <3> QED BY <1>6, <2>1, <3>1, <3>2
  <2>2. CASE <<p, s>> \notin ToSet(l)
    BY <2>2, Lugar
  <2> QED BY <2>1, <2>2
<1> HIDE DEF T, n
\* An entry in the list has a new range, after segment 0; any other has the one it had.
<1>8. ASSUME NEW p \in Pids, NEW s \in Sids
      PROVE  /\ <<p, s>> \in ToSet(l) => m[p][s] # A!NADA /\ s # 0
             /\ s # 0 /\ m[p][s] # A!NADA => <<p, s>> \in ToSet(l)
             /\ m[p][s] \in A!Rangos
  BY <1>1 DEF Inv, ListasOK, Privadas, Tabla
<1>9. ASSUME NEW p \in Pids, NEW s \in Sids
      PROVE  /\ n[p][s] \in A!Rangos
             /\ n[p][s] = A!NADA <=> m[p][s] = A!NADA
             /\ A!Tam(n[p][s]) = A!Tam(m[p][s])
             /\ <<p, s>> \in ToSet(l) => n[p][s].base < n[p][s].limite
                                         /\ tam_segmento_0 <= n[p][s].base
  <2>1. CASE <<p, s>> \in ToSet(l)
    <3>1. PICK i \in DOMAIN l : /\ l[i] = <<p, s>> /\ T(i) = A!Tam(m[p][s])
                                /\ n[p][s] = [base |-> D(i), limite |-> D(i) + T(i)]
      BY <1>7, <2>1
    <3>2. D(i) \in Nat /\ T(i) \in Nat /\ T(i) > 0 /\ tam_segmento_0 <= D(i) /\ D(i) + T(i) <= tam_memoria
      BY <1>4, <1>6
    <3>3. n[p][s].base = D(i) /\ n[p][s].limite = D(i) + T(i)
      BY <3>1
    <3>4. D(i) \in 0 .. tam_memoria /\ D(i) + T(i) \in 0 .. tam_memoria /\ D(i) # 0
          /\ (D(i) + T(i)) - D(i) = T(i) /\ D(i) < D(i) + T(i)
      BY <3>2, Constantes
    <3>5. n[p][s] \in A!Rangos
      BY <3>1, <3>4 DEF A!Rangos
    <3>6. n[p][s] # A!NADA
      BY <3>3, <3>4 DEF A!NADA
    <3>7. A!Tam(n[p][s]) = A!Tam(m[p][s])
      BY <3>1, <3>3, <3>4 DEF A!Tam
    <3> QED BY <1>8, <2>1, <3>2, <3>3, <3>4, <3>5, <3>6, <3>7
  <2>2. CASE <<p, s>> \notin ToSet(l)
    <3>1. n[p][s] = m[p][s]
      BY <1>7, <2>2
    <3> QED BY <1>8, <2>2, <3>1
  <2> QED BY <2>1, <2>2
<1>10. n \in [Pids -> Tabla]
  <2>1. n = [p \in Pids |-> [s \in Sids |-> n[p][s]]]
    BY DEF n, Compactado
  <2> QED BY <1>9, <2>1 DEF Tabla
<1>11. \A p \in Pids : n[p][0] = m[p][0]
  BY <1>7, <1>8, Constantes
<1>12. ASSUME NEW p \in Pids, NEW s \in Sids, m[p][s] = A!NADA PROVE n[p][s] = m[p][s]
  BY <1>9, <1>12
<1>13. A!Separadas(n)
  <2>1. ASSUME NEW p \in Pids, NEW s \in A!Privadas PROVE A!Separados(n[p][s], A!SEGMENTO_0)
    <3>1. s \in Sids /\ s # 0
      BY DEF A!Privadas
    <3>2. CASE <<p, s>> \in ToSet(l)
      BY <1>9, <3>1, <3>2 DEF A!Separados, A!SEGMENTO_0
    <3>3. CASE <<p, s>> \notin ToSet(l)
      <4>1. n[p][s] = A!NADA
        BY <1>7, <1>8, <3>1, <3>3
      <4> QED BY <4>1 DEF A!Separados, A!NADA
    <3> QED BY <3>2, <3>3
  <2>2. ASSUME NEW p \in Pids, NEW s \in A!Privadas, NEW q \in Pids, NEW t \in A!Privadas,
               <<p, s>> # <<q, t>>
        PROVE  A!Separados(n[p][s], n[q][t])
    <3>1. s \in Sids /\ s # 0 /\ t \in Sids /\ t # 0
      BY DEF A!Privadas
    <3>2. CASE <<p, s>> \in ToSet(l) /\ <<q, t>> \in ToSet(l)
      <4>1. PICK i \in DOMAIN l : /\ l[i] = <<p, s>>
                                  /\ n[p][s] = [base |-> D(i), limite |-> D(i) + T(i)]
        BY <1>7, <3>1, <3>2
      <4>2. PICK j \in DOMAIN l : /\ l[j] = <<q, t>>
                                  /\ n[q][t] = [base |-> D(j), limite |-> D(j) + T(j)]
        BY <1>7, <3>1, <3>2
      <4>3. i < j \/ j < i
        <5>1. i # j
          BY <2>2, <4>1, <4>2
        <5>2. i \in Int /\ j \in Int
          BY <1>5
        <5> QED BY <5>1, <5>2
      <4>4. D(i) + T(i) <= D(j) \/ D(j) + T(j) <= D(i)
        BY <1>4, <4>3
      <4> QED BY <4>1, <4>2, <4>4 DEF A!Separados
    <3>3. CASE <<p, s>> \notin ToSet(l)
      <4>1. n[p][s] = A!NADA
        BY <1>7, <1>8, <3>1, <3>3
      <4> QED BY <4>1 DEF A!Separados, A!NADA
    <3>4. CASE <<q, t>> \notin ToSet(l)
      <4>1. n[q][t] = A!NADA
        BY <1>7, <1>8, <3>1, <3>4
      <4> QED BY <4>1 DEF A!Separados, A!NADA
    <3> QED BY <3>2, <3>3, <3>4
  <2> QED BY <2>1, <2>2 DEF A!Separadas
<1>14. ASSUME NEW p \in Pids, NEW s \in Privadas, m[p][s] # A!NADA
       PROVE  n[p][s].base < n[p][s].limite
  BY <1>8, <1>9, <1>14 DEF Privadas
<1> QED BY <1>9, <1>10, <1>11, <1>12, <1>13, <1>14 DEF n

LEMMA PasoMover == ASSUME Inv, IInv', compactar_memoria PROVE Despues
<1>1. /\ fase = "esperar" /\ segs' = Compactado /\ fase' = "enviar"
      /\ defecto' = [p \in Pids |-> IF segs'[p] = segs[p] \/ estado[p] = "fin" THEN defecto[p]
                                    ELSE defecto[p] \cup {"movido"}]
      /\ porEnviar' = [faltan |-> Len(lista_tablas), i |-> 1]
      /\ UNCHANGED <<lista_segmentos_actuales, lista_tablas, estado, ready_queue, segment_tables,
                     cant_segmentos_actuales, hiloFS, pedido, tablas, pedidos, vivo>>
  BY DEF compactar_memoria, esperar_semFS, vKernel
<1>2. tablas = <<>> /\ tablas' = <<>> /\ Pendiente' = Pendiente /\ Ocupado <= tam_memoria
  BY <1>1 DEF Inv, Fases, Pendiente
<1>3. /\ segs' \in [Pids -> Tabla]
      /\ \A p \in Pids, s \in Sids :
           /\ segs'[p][s] = A!NADA <=> segs[p][s] = A!NADA
           /\ A!Tam(segs'[p][s]) = A!Tam(segs[p][s])
           /\ segs[p][s] = A!NADA => segs'[p][s] = segs[p][s]
      /\ \A p \in Pids : segs'[p][0] = segs[p][0]
      /\ \A p \in Pids, s \in Privadas :
           segs[p][s] # A!NADA => segs'[p][s].base < segs'[p][s].limite
      /\ A!Separadas(segs')
  BY <1>1, <1>2, CompactadoSirve
<1>4. ListasOK'
  <2>1. ASSUME NEW q \in Pids, NEW e \in Privadas
        PROVE  /\ segs'[q][e] # A!NADA <=> <<q, e>> \in ToSet(lista_segmentos_actuales)
               /\ segs'[q][e] # A!NADA =>
                    q \in ToSet(lista_tablas) /\ segs'[q][e].base < segs'[q][e].limite
    BY <1>3 DEF Inv, ListasOK, Privadas
  <2> QED BY <1>1, <1>3, <2>1 DEF Inv, ListasOK
<1>5. PICK x \in Pids : estado[x] = "exec" /\ segs[x][pedido.sid] = A!NADA
  BY <1>1 DEF Inv, Fases
<1>6. Len(lista_tablas) \in Nat /\ Len(lista_tablas) >= 1
  <2>1. x \in ToSet(lista_tablas)
    BY <1>5 DEF Inv, ListasOK, Vivos
  <2>2. \E i \in DOMAIN lista_tablas : lista_tablas[i] = x
    BY <2>1 DEF ToSet
  <2>3. lista_tablas \in Seq(Pids)
    BY DEF Inv, TypeOK
  <2> QED BY <2>2, <2>3
<1>7. Fases'
  <2>1. pedido.sid \in Sids
    BY DEF Inv, TypeOK
  <2>2. \E q \in Pids : estado'[q] = "exec" /\ segs'[q][pedido'.sid] = A!NADA
    BY <1>1, <1>3, <1>5, <2>1
  <2>3. porEnviar'.faltan >= 1 /\ porEnviar'.i >= 1
    BY <1>1, <1>6
  <2> QED BY <1>1, <1>2, <2>2, <2>3 DEF Inv, Fases
<1>8. Enviadas'
  BY <1>2 DEF Enviadas
<1>9. Cuentas'
  <2>1. ASSUME NEW q \in Pids PROVE Cant(q)' = Cant(q) /\ Cant(q) \in Nat
    <3>1. {s \in Sids : segs'[q][s] # A!NADA} = {s \in Sids : segs[q][s] # A!NADA}
      BY <1>3
    <3>2. Cant(q)' = Cant(q)
      BY <3>1 DEF Cant
    <3> QED BY <3>2, CantNatural DEF Inv
  <2>2. \A q \in Pids : Cant(q)' \in Nat /\ Cant(q)' <= Cant(q)
    BY <2>1
  <2>3. /\ pedidos' \in Nat /\ pedidos <= pedidos'
        /\ \A q \in Pids : cant_segmentos_actuales'[q] \in Nat
                           /\ cant_segmentos_actuales'[q] <= cant_segmentos_actuales[q]
    BY <1>1, CantNatural, Constantes DEF Inv, TypeOK
  <2>4. UNCHANGED tablas
    BY <1>1
  <2> QED BY <1>2, <2>2, <2>3, <2>4, CuentasMenos
<1>10. TypeOK'
  <2>1. defecto' \in [Pids -> Defectos]
    BY <1>1 DEF Inv, TypeOK, Defectos
  <2>2. porEnviar'.faltan \in Nat /\ porEnviar'.i \in Nat
    BY <1>1, <1>6
  <2>3. \E q \in Pids : estado'[q] = "exec"
    BY <1>1, <1>5
  <2> QED BY <1>1, <1>3, <2>1, <2>2, <2>3 DEF Inv, TypeOK
<1>11. Copias'
  <2> SUFFICES ASSUME NEW q \in Pids, estado'[q] # "fin"
               PROVE  /\ defecto'[q] \subseteq {"perdido"} => Fiel(segment_tables'[q], segs'[q])
                      /\ defecto'[q] \subseteq {"movido"} =>
                           Completa(segment_tables'[q], segs'[q], cant_segmentos_actuales'[q])
    BY DEF Copias, Fiel, Completa
  <2>1. /\ defecto[q] \subseteq {"perdido"} => Fiel(segment_tables[q], segs[q])
        /\ defecto[q] \subseteq {"movido"} =>
             Completa(segment_tables[q], segs[q], cant_segmentos_actuales[q])
    BY <1>1, CopiasEs DEF Inv
  <2>2. CASE segs'[q] = segs[q]
    <3>1. defecto'[q] = defecto[q]
      BY <1>1, <2>2
    <3> QED BY <1>1, <2>1, <2>2, <3>1
  <2>3. CASE segs'[q] # segs[q]
    <3>1. defecto'[q] = defecto[q] \cup {"movido"}
      BY <1>1, <2>3
    <3>2. ~(defecto'[q] \subseteq {"perdido"})
      BY <3>1
    <3>3. ASSUME defecto'[q] \subseteq {"movido"}
          PROVE  Completa(segment_tables'[q], segs'[q], cant_segmentos_actuales'[q])
      <4>1. defecto[q] \subseteq {"movido"}
        BY <3>1, <3>3
      <4>2. Completa(segment_tables[q], segs[q], cant_segmentos_actuales[q])
        BY <2>1, <4>1
      <4> QED BY <1>1, <1>3, <4>2 DEF Completa
    <3> QED BY <3>2, <3>3
  <2> QED BY <2>2, <2>3
<1>12. DeAsignador
  <2>1. ToSet(lista_tablas)' = ToSet(lista_tablas)
    BY <1>1 DEF ToSet
  <2>2. CASE segs' = segs
    BY <2>1, <2>2 DEF DeAsignador, A!vars
  <2>3. CASE segs' # segs
    <3>1. A!Compactar
      BY <1>3, <2>1 DEF A!Compactar, Tabla
    <3> QED BY <2>3, <3>1 DEF DeAsignador, A!Next
  <2> QED BY <2>2, <2>3
<1> QED BY <1>4, <1>7, <1>8, <1>9, <1>10, <1>11, <1>12 DEF Despues

\* Nothing but vivo: the program has fallen.
LEMMA PasoCaer == ASSUME Inv, Caer PROVE Despues
<1>1. /\ vivo' \in BOOLEAN
      /\ UNCHANGED <<vMemoria, vKernel, vTablas, hiloFS, vCompactar, pedidos>>
  BY DEF Caer
<1>2. TypeOK'
  BY <1>1 DEF Inv, TypeOK, vMemoria, vKernel, vTablas, vCompactar
<1>3. ListasOK' /\ Copias' /\ Enviadas'
  BY <1>1 DEF Inv, ListasOK, Copias, Enviadas, vMemoria, vKernel, vTablas, vCompactar
<1>4. Fases'
  BY <1>1 DEF Inv, Fases, vMemoria, vKernel, vTablas, vCompactar, Ocupado, SumaTam
<1>5. Cuentas'
  BY <1>1 DEF Inv, Cuentas, Pendiente, Cant, vMemoria, vKernel, vTablas, vCompactar
<1> QED BY <1>1, <1>2, <1>3, <1>4, <1>5, MemoriaQuieta DEF Despues

LEMMA PasoEnviar == ASSUME Inv, IInv', enviar_tablas PROVE Despues
<1> DEFINE q == lista_tablas[porEnviar.i]
           t == enviar_tabla_a_kernel(q)
<1>1. CASE porEnviar.i > Len(lista_tablas)
  BY <1>1, PasoCaer DEF enviar_tablas
<1>2. CASE ~(porEnviar.i > Len(lista_tablas))
  <2>1. /\ fase = "enviar" /\ tablas' = Append(tablas, t)
        /\ porEnviar' = [faltan |-> porEnviar.faltan - 1, i |-> porEnviar.i + 1]
        /\ fase' = IF porEnviar.faltan = 1 THEN "asignar" ELSE "enviar"
        /\ UNCHANGED <<vMemoria, estado, ready_queue, vTablas, hiloFS, pedido, pedidos, vivo>>
    BY <1>2 DEF enviar_tablas, vKernel
  <2>2. porEnviar.faltan \in Nat /\ porEnviar.i \in Nat /\ porEnviar.faltan >= 1 /\ porEnviar.i >= 1
    BY <2>1 DEF Inv, TypeOK, Fases
  <2>3. q \in Pids /\ estado[q] # "ausente"
    <3>1. lista_tablas \in Seq(Pids)
      BY DEF Inv, TypeOK
    <3>2. porEnviar.i \in 1 .. Len(lista_tablas) /\ porEnviar.i \in DOMAIN lista_tablas
      BY <1>2, <2>2, <3>1
    <3>3. q \in Pids /\ q \in ToSet(lista_tablas)
      BY <3>1, <3>2 DEF ToSet
    <3> QED BY <3>3 DEF Inv, ListasOK
  <2> HIDE DEF q
  <2>4. /\ t.pid = q /\ t.cant = Cant(q) /\ t.segmentos = Primeras(segs[q], Cant(q))
        /\ t \in [pid : Pids, cant : 0 .. cant_segmentos, segmentos : Tabla]
    <3>1. segs[q] \in Tabla /\ Cant(q) \in 0 .. cant_segmentos /\ Cant(q) \in Nat
      BY <2>3, CantNatural DEF Inv, TypeOK
    <3>2. Primeras(segs[q], Cant(q)) \in Tabla
      BY <3>1, TablaEsCopia, TablaPrimeras
    <3> QED BY <2>3, <3>1, <3>2 DEF enviar_tabla_a_kernel
  <2> DEFINE R == [pid : Pids, cant : 0 .. cant_segmentos, segmentos : Tabla]
  <2> HIDE DEF t, R
  <2>5. /\ tablas \in Seq(R) /\ tablas' \in Seq(R) /\ Len(tablas') = Len(tablas) + 1 /\ Len(tablas) \in Nat
        /\ \A i \in DOMAIN tablas' : (i \in DOMAIN tablas /\ tablas'[i] = tablas[i]) \/ tablas'[i] = t
    <3>1. tablas \in Seq(R) /\ t \in R
      BY <2>4 DEF Inv, TypeOK, R
    <3>2. /\ tablas' \in Seq(R) /\ Len(tablas') = Len(tablas) + 1 /\ Len(tablas) \in Nat
          /\ DOMAIN tablas' = 1 .. Len(tablas) + 1 /\ DOMAIN tablas = 1 .. Len(tablas)
          /\ \A i \in 1 .. Len(tablas) : tablas'[i] = tablas[i]
          /\ tablas'[Len(tablas) + 1] = t
      BY <2>1, <3>1
    <3>3. \A i \in 1 .. Len(tablas) + 1 : i \in 1 .. Len(tablas) \/ i = Len(tablas) + 1
      BY <3>2
    <3> QED BY <3>1, <3>2, <3>3
  <2>6. tablas' # <<>>
    BY <2>5
  <2>7. ListasOK' /\ Copias' /\ DeAsignador
    BY <2>1, MemoriaQuieta DEF Inv, ListasOK, Copias, vMemoria, vTablas
  <2>8. porEnviar'.faltan = porEnviar.faltan - 1 /\ porEnviar'.i = porEnviar.i + 1
    BY <2>1
  <2>9. Fases'
    <3>1. Ocupado' = Ocupado
      BY <2>1 DEF Ocupado, SumaTam, vMemoria
    <3>2. fase' \in {"enviar", "asignar"} /\ (fase' = "enviar" => porEnviar.faltan # 1)
      BY <2>1
    <3>3. fase' = "enviar" => porEnviar'.faltan >= 1 /\ porEnviar'.i >= 1
      BY <2>2, <2>8, <3>2
    <3> QED BY <2>1, <2>6, <3>2, <3>3 DEF Inv, Fases, vMemoria
  <2>10. Pendiente' = Pendiente /\ Pendiente = 1
    BY <2>1 DEF Pendiente
  <2>11. Cuentas'
    <3>1. \A x \in Pids : Cant(x)' = Cant(x)
      BY <2>1 DEF Cant, vMemoria
    <3>2. t.cant <= pedidos
      <4>1. Cant(q) + 1 <= pedidos + 1 /\ Cant(q) \in Nat /\ pedidos \in Nat
        BY <2>3, <2>10, CantNatural, Constantes DEF Inv, Cuentas, TypeOK
      <4> QED BY <2>4, <4>1
    <3>3. \A i \in DOMAIN tablas' : tablas'[i].cant <= pedidos'
      BY <2>1, <2>5, <3>2 DEF Inv, Cuentas
    <3> QED BY <2>1, <2>10, <3>1, <3>3 DEF Inv, Cuentas, vTablas
  <2>12. Enviadas'
    <3> SUFFICES ASSUME NEW i \in DOMAIN tablas'
                 PROVE  /\ estado[tablas'[i].pid] # "ausente"
                        /\ estado[tablas'[i].pid] # "fin" =>
                             tablas'[i].segmentos = Primeras(segs[tablas'[i].pid], tablas'[i].cant)
      BY <2>1 DEF Enviadas, Primeras, vMemoria
    <3>1. CASE i \in DOMAIN tablas /\ tablas'[i] = tablas[i]
      BY <3>1 DEF Inv, Enviadas
    <3>2. CASE tablas'[i] = t
      BY <2>3, <2>4, <3>2
    <3> QED BY <2>5, <3>1, <3>2
  <2>13. TypeOK'
    <3>1. porEnviar'.faltan \in Nat /\ porEnviar'.i \in Nat
      BY <2>2, <2>8
    <3>2. fase' \in {"libre", "esperar", "enviar", "asignar", "reintentar"}
      BY <2>1
    <3>3. \E x \in Pids : estado'[x] = "exec"
      BY <2>1 DEF Inv, TypeOK
    <3> QED BY <2>1, <2>5, <3>1, <3>2, <3>3 DEF Inv, TypeOK, vMemoria, vTablas, R
  <2> QED BY <2>7, <2>9, <2>11, <2>12, <2>13 DEF Despues
<1> QED BY <1>1, <1>2

\* A table goes to a PCB: that of its process, the last of the queue, or none.
LEMMA PasoAsignar == ASSUME Inv, IInv', asignar_tablas PROVE Despues
<1> DEFINE t == Head(tablas)
           R == [pid : Pids, cant : 0 .. cant_segmentos, segmentos : Tabla]
<1>1. /\ fase = "asignar" /\ buscar_pid(t) /\ tablas' = Tail(tablas)
      /\ fase' = IF Len(tablas) = 1 THEN "reintentar" ELSE "asignar"
      /\ UNCHANGED <<vMemoria, estado, ready_queue, hiloFS, pedido, porEnviar, pedidos, vivo>>
  BY DEF asignar_tablas, vKernel
<1>2. tablas # <<>>
  BY <1>1 DEF Inv, Fases
<1>3. tablas \in Seq(R)
  BY DEF Inv, TypeOK
<1> HIDE DEF R
<1>4. /\ 1 \in DOMAIN tablas /\ t = tablas[1] /\ tablas' \in Seq(R) /\ Len(tablas') = Len(tablas) - 1
      /\ Len(tablas) \in Nat \ {0}
      /\ \A i \in DOMAIN tablas' : i + 1 \in DOMAIN tablas /\ tablas'[i] = tablas[i + 1]
  BY <1>1, <1>2, <1>3
<1>5. t.pid \in Pids /\ t.cant \in 0 .. cant_segmentos /\ t.cant \in Nat /\ t.segmentos \in Tabla
  BY <1>4, TiposEnviadas DEF Inv
<1>6. /\ t.cant <= pedidos
      /\ estado[t.pid] # "fin" => t.segmentos = Primeras(segs[t.pid], t.cant)
  BY <1>4 DEF Inv, Cuentas, Enviadas
<1> HIDE DEF t
<1>7. ListasOK' /\ DeAsignador
  BY <1>1, MemoriaQuieta DEF Inv, ListasOK, vMemoria
<1>8. Fases'
  <2>1. fase' = "asignar" <=> tablas' # <<>>
    <3>1. tablas' = <<>> <=> Len(tablas') = 0
      BY <1>4
    <3> QED BY <1>1, <1>4, <3>1
  <2>2. fase' \in {"reintentar", "asignar"}
    BY <1>1
  <2>3. \E q \in Pids : estado[q] = "exec" /\ segs[q][pedido.sid] = A!NADA
    BY <1>1 DEF Inv, Fases
  <2> QED BY <1>1, <2>1, <2>2, <2>3 DEF Inv, Fases, vMemoria
<1>9. Enviadas'
  <2> SUFFICES ASSUME NEW i \in DOMAIN tablas'
               PROVE  /\ estado[tablas'[i].pid] # "ausente"
                      /\ estado[tablas'[i].pid] # "fin" =>
                           tablas'[i].segmentos = Primeras(segs[tablas'[i].pid], tablas'[i].cant)
    BY <1>1 DEF Enviadas, Primeras, vMemoria
  <2> QED BY <1>4 DEF Inv, Enviadas
\* What the PCB gets, if any gets it.
<1>10. \/ UNCHANGED vTablas
       \/ \E q \in Pids, d \in Defectos :
            /\ Asignar(q, t, d) /\ estado[q] # "fin"
            /\ "ajeno" \in d \/ (q = t.pid /\ d = PerdidoEn(t))
  <2>1. ready_queue \in Seq(Pids) /\ \A i \in 1 .. Len(ready_queue) : estado[ready_queue[i]] = "ready"
    BY DEF Inv, IInv, Listos
  <2>2. CASE t.pid \in ToSet(ready_queue) /\ Asignar(t.pid, t, PerdidoEn(t))
    <3>1. estado[t.pid] # "fin"
      BY <2>1, <2>2 DEF ToSet
    <3>2. PerdidoEn(t) \in Defectos
      BY DEF PerdidoEn, Defectos
    <3> QED BY <1>5, <2>2, <3>1, <3>2
  <2>3. CASE ready_queue # <<>> /\ Asignar(Last(ready_queue), t, {"ajeno"})
    <3>1. Last(ready_queue) = ready_queue[Len(ready_queue)] /\ Len(ready_queue) \in 1 .. Len(ready_queue)
      BY <2>1, <2>3 DEF Last
    <3>2. Last(ready_queue) \in Pids /\ estado[Last(ready_queue)] # "fin"
      BY <2>1, <3>1
    <3>3. {"ajeno"} \in Defectos /\ "ajeno" \in {"ajeno"}
      BY DEF Defectos
    <3> QED BY <2>3, <3>2, <3>3
  <2> QED BY <1>1, <2>2, <2>3 DEF buscar_pid
<1>11. Pendiente' = Pendiente /\ Pendiente = 1 /\ \A q \in Pids : Cant(q)' = Cant(q)
  BY <1>1 DEF Pendiente, Cant, vMemoria
<1>12. \A i \in DOMAIN tablas' : tablas'[i].cant <= pedidos'
  BY <1>1, <1>4 DEF Inv, Cuentas
<1>13. pedidos' = pedidos /\ pedidos \in Nat /\ pedidos \in 0 .. MaxPedidos /\ Pendiente <= pedidos
       /\ \A q \in Pids : cant_segmentos_actuales[q] + 1 <= pedidos + 1 /\ Cant(q) + 1 <= pedidos + 1
  BY <1>1, <1>11, Constantes DEF Inv, TypeOK, Cuentas
<1>14. fase' \in {"libre", "esperar", "enviar", "asignar", "reintentar"}
       /\ \E x \in Pids : estado'[x] = "exec"
  BY <1>1 DEF Inv, TypeOK
<1>15. CASE UNCHANGED vTablas
  <2>1. Copias'
    BY <1>1, <1>15 DEF Inv, Copias, vMemoria, vTablas
  <2>2. Cuentas'
    BY <1>11, <1>12, <1>13, <1>15 DEF Inv, Cuentas, vTablas
  <2>3. TypeOK'
    BY <1>1, <1>4, <1>14, <1>15 DEF Inv, TypeOK, vMemoria, vTablas, R
  <2> QED BY <1>7, <1>8, <1>9, <2>1, <2>2, <2>3 DEF Despues
<1>16. ASSUME NEW q \in Pids, NEW d \in Defectos, Asignar(q, t, d), estado[q] # "fin",
              "ajeno" \in d \/ (q = t.pid /\ d = PerdidoEn(t))
       PROVE  Despues
  <2>1. /\ segment_tables' = [segment_tables EXCEPT ![q] = t.segmentos]
        /\ cant_segmentos_actuales' = [cant_segmentos_actuales EXCEPT ![q] = t.cant]
        /\ defecto' = [defecto EXCEPT ![q] = d]
    BY <1>16 DEF Asignar
  <2>2. /\ segment_tables' \in [Pids -> Copia] /\ defecto' \in [Pids -> Defectos]
        /\ cant_segmentos_actuales' \in [Pids -> 0 .. MaxPedidos + 1]
    <3>1. t.cant \in 0 .. MaxPedidos + 1
      BY <1>5, <1>6, <1>13, Constantes
    <3> QED BY <1>5, <2>1, <3>1, TablaEsCopia DEF Inv, TypeOK
  <2>3. /\ segment_tables'[q] = t.segmentos /\ cant_segmentos_actuales'[q] = t.cant /\ defecto'[q] = d
        /\ \A x \in Pids \ {q} : /\ segment_tables'[x] = segment_tables[x] /\ defecto'[x] = defecto[x]
                                 /\ cant_segmentos_actuales'[x] = cant_segmentos_actuales[x]
    BY <2>1 DEF Inv, TypeOK
  <2>4. TypeOK'
    BY <1>1, <1>4, <1>14, <2>2 DEF Inv, TypeOK, vMemoria, R
  <2>5. Cuentas'
    <3>1. \A x \in Pids : cant_segmentos_actuales'[x] + 1 <= pedidos + 1
      BY <1>5, <1>6, <1>13, <2>3
    <3> QED BY <1>11, <1>12, <1>13, <3>1 DEF Cuentas
  <2>6. Copias'
    <3> SUFFICES ASSUME NEW x \in Pids, estado'[x] # "fin"
                 PROVE  /\ defecto'[x] \subseteq {"perdido"} => Fiel(segment_tables'[x], segs'[x])
                        /\ defecto'[x] \subseteq {"movido"} =>
                             Completa(segment_tables'[x], segs'[x], cant_segmentos_actuales'[x])
      BY DEF Copias, Fiel, Completa
    <3>1. segs' = segs /\ estado' = estado
      BY <1>1 DEF vMemoria
    <3>2. CASE x # q
      BY <2>3, <3>1, <3>2, CopiasEs DEF Inv
    <3>3. CASE x = q /\ "ajeno" \in d
      BY <2>3, <3>3
    <3>4. CASE x = q /\ q = t.pid /\ d = PerdidoEn(t)
      <4>1. t.segmentos = Primeras(segs[q], t.cant) /\ segs[q] \in Tabla
        BY <1>6, <1>16, <3>4 DEF Inv, TypeOK
      <4>2. Fiel(t.segmentos, segs[q])
        BY <1>5, <4>1, TablaEsCopia, TablaPrimeras DEF Fiel
      <4>3. ASSUME d \subseteq {"movido"} PROVE Completa(t.segmentos, segs[q], t.cant)
        <5>1. \A s \in Sids : segs[q][s] # A!NADA => s < t.cant
          BY <3>4, <4>3 DEF PerdidoEn
        <5>2. ASSUME NEW s \in Sids PROVE t.segmentos[s] = segs[q][s]
          BY <4>1, <5>1 DEF Primeras
        <5> QED BY <5>1, <5>2 DEF Completa
      <4> QED BY <2>3, <3>1, <3>4, <4>2, <4>3
    <3> QED BY <1>16, <3>2, <3>3, <3>4
  <2> QED BY <1>7, <1>8, <1>9, <2>4, <2>5, <2>6 DEF Despues
<1> QED BY <1>10, <1>15, <1>16

-----------------------------------------------------------------------------
\* Every step keeps the invariant and is one of the allocator's, or none.
LEMMA PasoInv == ASSUME Inv, [Next]_vars PROVE Inv' /\ DeAsignador
<1>1. IInv'
  BY PasoQuieto DEF Inv
<1>2. CASE UNCHANGED vars
  <2>1. UNCHANGED <<vMemoria, vKernel, vTablas, hiloFS, vCompactar, pedidos, vivo>>
    BY <1>2 DEF vars
  <2>2. TypeOK'
    BY <2>1 DEF Inv, TypeOK, vMemoria, vKernel, vTablas, vCompactar
  <2>3. ListasOK' /\ Copias' /\ Enviadas'
    BY <2>1 DEF Inv, ListasOK, Copias, Enviadas, vMemoria, vKernel, vTablas, vCompactar
  <2>4. Fases'
    BY <2>1 DEF Inv, Fases, vMemoria, vKernel, vTablas, vCompactar, Ocupado, SumaTam
  <2>5. Cuentas'
    BY <2>1 DEF Inv, Cuentas, Pendiente, Cant, vMemoria, vKernel, vTablas, vCompactar
  <2> QED BY <1>1, <2>1, <2>2, <2>3, <2>4, <2>5, MemoriaQuieta DEF Inv
<1>3. CASE Next
  <2>1. Despues
    <3>1. CASE bloquear_pcb_fs_r_w \/ meter_pcb_en_ejecucion
      <4>1. Pids # {}
        BY <3>1, SacarPrimero DEF bloquear_pcb_fs_r_w, meter_pcb_en_ejecucion, Inv, IInv, Apartado
      <4> QED BY <1>1, <3>1, <4>1, PasoColas
    <3>2. ASSUME NEW p \in Pids,
                 agregar_pcb_en_cola_listos(p) \/ doIO(p) \/ do_f_read_write(p) \/ EXIT(p)
          PROVE  Despues
      BY <1>1, <3>2, PasoColas
    <3>3. ASSUME NEW p \in Pids, crear_pcb(p) \/ fin_proceso(p) PROVE Despues
      BY <1>1, <3>3, PasoCrearPcb, PasoFinProceso
    <3>4. ASSUME NEW p \in Pids, do_create_segment(p) \/ do_delete_segment(p) PROVE Despues
      BY <1>1, <3>4, PasoPedir, PasoBorrar
    <3>5. CASE Compactar
      <4>1. CASE PunteroSinIniciar
        BY <4>1, PasoCaer DEF PunteroSinIniciar
      <4>2. ASSUME NEW p \in Pids, reintentar(p) PROVE Despues
        BY <1>1, <4>2, PasoReintentar
      <4> QED BY <1>1, <3>5, <4>1, <4>2, PasoMover, PasoEnviar, PasoAsignar DEF Compactar
    <3> QED BY <1>3, <3>1, <3>2, <3>3, <3>4, <3>5 DEF Next
  <2> QED BY <1>1, <2>1 DEF Despues, Inv
<1> QED BY <1>2, <1>3

-----------------------------------------------------------------------------
(* How far the array of a PCB reaches.                                      *)

\* The count of a copy that is of its own process is never below memory's, nor is
\* the one that a table in flight brings.
Lugares ==
  /\ \A p \in Pids :
       estado[p] # "fin" /\ "ajeno" \notin defecto[p] => Cant(p) <= cant_segmentos_actuales[p]
  /\ \A i \in DOMAIN tablas, q \in Pids :
       tablas[i].pid = q /\ estado[q] # "fin" => Cant(q) <= tablas[i].cant

LEMMA InicioLugares == Init => Lugares
<1> SUFFICES ASSUME Init PROVE Lugares
  OBVIOUS
<1>1. ASSUME NEW p \in Pids PROVE Cant(p) = 0
  <2>1. {s \in Sids : segs[p][s] # A!NADA} = {}
    BY DEF Init, SinTabla
  <2> QED BY <2>1, FS_EmptySet DEF Cant
<1> QED BY <1>1 DEF Init, Lugares

\* No segment more, no count less, and the same tables in flight.
LEMMA LugaresQuietos ==
  ASSUME Inv, Lugares, UNCHANGED tablas,
         \A q \in Pids :
           estado'[q] # "fin" =>
             /\ estado[q] # "fin" /\ Cant(q)' \in Nat /\ Cant(q)' <= Cant(q)
             /\ "ajeno" \notin defecto'[q] => "ajeno" \notin defecto[q]
             /\ cant_segmentos_actuales'[q] = cant_segmentos_actuales[q]
  PROVE  Lugares'
<1>1. \A q \in Pids : Cant(q) \in Nat /\ cant_segmentos_actuales[q] \in Nat
  BY CantNatural DEF Inv
<1>2. \A i \in DOMAIN tablas : tablas[i].pid \in Pids /\ tablas[i].cant \in Nat
  BY TiposEnviadas DEF Inv
<1>3. ASSUME NEW q \in Pids, estado'[q] # "fin", "ajeno" \notin defecto'[q]
      PROVE  Cant(q)' <= cant_segmentos_actuales'[q]
  <2>1. Cant(q) <= cant_segmentos_actuales[q] /\ Cant(q)' <= Cant(q) /\ Cant(q)' \in Nat
        /\ cant_segmentos_actuales'[q] = cant_segmentos_actuales[q]
    BY <1>3 DEF Lugares
  <2>2. Cant(q) \in Nat /\ cant_segmentos_actuales[q] \in Nat
    BY <1>1
  <2> QED BY <2>1, <2>2
<1>4. ASSUME NEW i \in DOMAIN tablas, NEW q \in Pids, tablas[i].pid = q, estado'[q] # "fin"
      PROVE  Cant(q)' <= tablas[i].cant
  <2>1. Cant(q) <= tablas[i].cant /\ Cant(q)' <= Cant(q) /\ Cant(q)' \in Nat
    BY <1>4 DEF Lugares
  <2>2. Cant(q) \in Nat /\ tablas[i].cant \in Nat
    BY <1>1, <1>2
  <2> QED BY <2>1, <2>2
<1> QED BY <1>3, <1>4 DEF Lugares

\* A write in the copy takes no mark away.
LEMMA EscritaAjena ==
  ASSUME Inv, NEW p \in Pids, NEW s, NEW e, NEW n, escribir_entrada(p, s, e, n)
  PROVE  \A q \in Pids : /\ defecto[q] \subseteq defecto'[q]
                         /\ q # p => cant_segmentos_actuales'[q] = cant_segmentos_actuales[q]
<1> DEFINE faltas == [defecto EXCEPT ![p] = IF s < n \/ e = A!NADA THEN @ ELSE @ \cup {"perdido"}]
<1>1. /\ cant_segmentos_actuales' = [cant_segmentos_actuales EXCEPT ![p] = n]
      /\ \/ defecto' = faltas
         \/ \E q \in EnKernel : defecto' = [faltas EXCEPT ![q] = @ \cup {"pisado"}]
  BY DEF escribir_entrada
<1>2. DOMAIN faltas = Pids /\ DOMAIN cant_segmentos_actuales = Pids /\ DOMAIN defecto = Pids
  BY DEF Inv, TypeOK
<1>3. \A q \in Pids : defecto[q] \subseteq faltas[q]
  BY <1>2
<1> HIDE DEF faltas
<1>4. \A q \in Pids : defecto[q] \subseteq defecto'[q]
  <2>1. CASE defecto' = faltas
    BY <1>3, <2>1
  <2>2. ASSUME NEW x \in EnKernel, defecto' = [faltas EXCEPT ![x] = @ \cup {"pisado"}]
        PROVE  \A q \in Pids : defecto[q] \subseteq defecto'[q]
    <3>1. ASSUME NEW q \in Pids PROVE faltas[q] \subseteq defecto'[q]
      BY <1>2, <2>2
    <3> QED BY <1>3, <3>1
  <2> QED BY <1>1, <2>1, <2>2
<1> QED BY <1>1, <1>2, <1>4

LEMMA LugaresCreado ==
  ASSUME Inv, Lugares, NEW p \in Pids, NEW s \in Sids, NEW t \in Tamanios,
         estado[p] = "exec", segs[p][s] = A!NADA, SEGMENTO_CREADO(p, s, t),
         UNCHANGED <<lista_tablas, estado>>, tablas' = <<>>
  PROVE  Lugares'
<1>1. PICK r : /\ segs' = [segs EXCEPT ![p][s] = r]
               /\ escribir_entrada(p, s, Entrada(r.base, t), cant_segmentos_actuales[p] + 1)
  BY DEF SEGMENTO_CREADO
<1>2. \A q \in Pids : /\ defecto[q] \subseteq defecto'[q]
                      /\ q # p => cant_segmentos_actuales'[q] = cant_segmentos_actuales[q]
  BY <1>1, EscritaAjena
<1>3. cant_segmentos_actuales'[p] = cant_segmentos_actuales[p] + 1
  BY <1>1 DEF escribir_entrada, Inv, TypeOK
<1>4. \A q \in Pids : Cant(q)' \in Nat /\ Cant(q)' <= Cant(q) + 1
  BY Creado
<1>5. ASSUME NEW q \in Pids, estado[q] # "fin", "ajeno" \notin defecto'[q]
      PROVE  Cant(q)' <= cant_segmentos_actuales'[q]
  <2>1. Cant(q) <= cant_segmentos_actuales[q]
    BY <1>2, <1>5 DEF Lugares
  <2>2. Cant(q) \in Nat /\ cant_segmentos_actuales[q] \in Nat
    BY CantNatural DEF Inv
  <2>3. CASE q = p
    BY <1>3, <1>4, <2>1, <2>2, <2>3
  <2>4. CASE q # p
    <3>1. segs'[q] = segs[q]
      BY <1>1, <2>4 DEF Inv, TypeOK
    <3>2. Cant(q)' = Cant(q)
      BY <3>1 DEF Cant
    <3> QED BY <1>2, <2>1, <2>4, <3>2
  <2> QED BY <2>3, <2>4
<1> QED BY <1>5 DEF Lugares

LEMMA LugaresCompactar == ASSUME Inv, Inv', Lugares, Compactar PROVE Lugares'
<1>1. CASE compactar_memoria
  <2>1. /\ fase = "esperar" /\ segs' = Compactado
        /\ UNCHANGED <<estado, cant_segmentos_actuales, tablas>>
        /\ defecto' = [p \in Pids |-> IF segs'[p] = segs[p] \/ estado[p] = "fin" THEN defecto[p]
                                      ELSE defecto[p] \cup {"movido"}]
    BY <1>1 DEF compactar_memoria, esperar_semFS, vKernel
  <2>2. \A p \in Pids, s \in Sids : segs'[p][s] = A!NADA <=> segs[p][s] = A!NADA
    BY <2>1, CompactadoSirve DEF Inv, Fases
  <2>3. ASSUME NEW q \in Pids PROVE Cant(q)' = Cant(q) /\ defecto[q] \subseteq defecto'[q]
    <3>1. {s \in Sids : segs'[q][s] # A!NADA} = {s \in Sids : segs[q][s] # A!NADA}
      BY <2>2
    <3> QED BY <2>1, <3>1 DEF Cant
  <2>4. \A q \in Pids : Cant(q)' \in Nat /\ Cant(q)' <= Cant(q)
    BY <2>3, CantNatural DEF Inv
  <2> QED BY <2>1, <2>3, <2>4, LugaresQuietos
<1>2. CASE enviar_tablas \/ PunteroSinIniciar
  <2>1. UNCHANGED <<segs, estado, defecto, cant_segmentos_actuales>>
    BY <1>2 DEF enviar_tablas, PunteroSinIniciar, Caer, vMemoria, vKernel, vTablas
  <2>2. \A q \in Pids : Cant(q)' = Cant(q)
    BY <2>1 DEF Cant
  <2>3. CASE tablas' = tablas
    <3>1. \A q \in Pids : Cant(q)' \in Nat /\ Cant(q)' <= Cant(q)
      BY <2>2, CantNatural DEF Inv
    <3> QED BY <2>1, <2>3, <3>1, LugaresQuietos
  <2>4. CASE tablas' # tablas
    <3> DEFINE x == lista_tablas[porEnviar.i]
               t == enviar_tabla_a_kernel(x)
    <3>1. /\ tablas' = Append(tablas, t) /\ ~(porEnviar.i > Len(lista_tablas)) /\ fase = "enviar"
      BY <1>2, <2>4 DEF enviar_tablas, PunteroSinIniciar, Caer, vCompactar
    <3>2. t.pid = x /\ t.cant = Cant(x)
      BY DEF enviar_tabla_a_kernel
    <3>3. x \in Pids
      <4>1. porEnviar.i \in Nat /\ porEnviar.i >= 1 /\ lista_tablas \in Seq(Pids)
        BY <3>1 DEF Inv, Fases, TypeOK
      <4> QED BY <3>1, <4>1
    <3>4. Cant(x) \in Nat
      BY <3>3, CantNatural DEF Inv
    <3> HIDE DEF x, t
    <3>5. \A i \in DOMAIN tablas' : (i \in DOMAIN tablas /\ tablas'[i] = tablas[i]) \/ tablas'[i] = t
      <4>1. tablas \in Seq([pid : Pids, cant : 0 .. cant_segmentos, segmentos : Tabla])
        BY DEF Inv, TypeOK
      <4> HIDE DEF TypeOK
      <4>2. DOMAIN tablas' = 1 .. Len(tablas) + 1 /\ DOMAIN tablas = 1 .. Len(tablas)
            /\ Len(tablas) \in Nat
        BY <3>1, <4>1
      <4>3. \A i \in DOMAIN tablas' : tablas'[i] = IF i <= Len(tablas) THEN tablas[i] ELSE t
        BY <3>1, <4>1, <4>2
      <4> QED BY <4>2, <4>3
    <3>6. ASSUME NEW i \in DOMAIN tablas', NEW q \in Pids, tablas'[i].pid = q, estado[q] # "fin"
          PROVE  Cant(q) <= tablas'[i].cant
      <4>1. CASE i \in DOMAIN tablas /\ tablas'[i] = tablas[i]
        BY <3>6, <4>1 DEF Lugares
      <4>2. CASE tablas'[i] = t
        BY <3>2, <3>4, <3>6, <4>2
      <4> QED BY <3>5, <4>1, <4>2
    <3> QED BY <2>1, <2>2, <3>6 DEF Lugares
  <2> QED BY <2>3, <2>4
<1>3. CASE asignar_tablas
  <2> DEFINE t == Head(tablas)
  <2>1. /\ fase = "asignar" /\ buscar_pid(t) /\ tablas' = Tail(tablas)
        /\ UNCHANGED <<segs, estado>>
    BY <1>3 DEF asignar_tablas, vMemoria, vKernel
  <2>2. /\ tablas # <<>> /\ tablas \in Seq([pid : Pids, cant : 0 .. cant_segmentos, segmentos : Tabla])
    BY <2>1 DEF Inv, Fases, TypeOK
  <2>3. /\ 1 \in DOMAIN tablas /\ t = tablas[1]
        /\ \A i \in DOMAIN tablas' : i + 1 \in DOMAIN tablas /\ tablas'[i] = tablas[i + 1]
    BY <2>1, <2>2
  <2>4. t.pid \in Pids /\ (estado[t.pid] # "fin" => Cant(t.pid) <= t.cant)
    BY <2>3, TiposEnviadas DEF Inv, Lugares
  <2> HIDE DEF t
  <2>5. \A i \in DOMAIN tablas', q \in Pids :
          tablas'[i].pid = q /\ estado[q] # "fin" => Cant(q) <= tablas'[i].cant
    BY <2>3 DEF Lugares
  <2>6. \A x \in Pids : Cant(x)' = Cant(x)
    BY <2>1 DEF Cant
  <2>7. ASSUME NEW q \in Pids, estado[q] # "fin", "ajeno" \notin defecto'[q]
        PROVE  Cant(q) <= cant_segmentos_actuales'[q]
    <3>1. CASE UNCHANGED vTablas
      BY <2>7, <3>1 DEF Lugares, vTablas
    <3>2. ASSUME NEW x, NEW d, Asignar(x, t, d), x = t.pid \/ "ajeno" \in d
          PROVE  Cant(q) <= cant_segmentos_actuales'[q]
      <4>1. CASE q = x
        <5>1. cant_segmentos_actuales'[q] = t.cant /\ defecto'[q] = d
          BY <3>2, <4>1 DEF Asignar, Inv, TypeOK
        <5> QED BY <2>4, <2>7, <3>2, <4>1, <5>1
      <4>2. CASE q # x
        BY <2>7, <3>2, <4>2 DEF Asignar, Inv, TypeOK, Lugares
      <4> QED BY <4>1, <4>2
    <3> QED BY <2>1, <3>1, <3>2 DEF buscar_pid
  <2> QED BY <2>1, <2>5, <2>6, <2>7 DEF Lugares
<1>4. ASSUME NEW p \in Pids, reintentar(p) PROVE Lugares'
  <2>1. /\ fase = "reintentar" /\ estado[p] = "exec"
        /\ SEGMENTO_CREADO(p, pedido.sid, pedido.tam)
        /\ UNCHANGED <<lista_tablas, estado, tablas>>
    BY <1>4 DEF reintentar, vKernel
  <2>2. tablas' = <<>>
    BY <2>1 DEF Inv, Fases
  <2>3. pedido.sid \in Sids /\ pedido.tam \in Tamanios /\ segs[p][pedido.sid] = A!NADA
    BY <2>1 DEF Inv, Fases, TypeOK
  <2> QED BY <2>1, <2>2, <2>3, LugaresCreado
<1> QED BY <1>1, <1>2, <1>3, <1>4 DEF Compactar

LEMMA PasoLugares == ASSUME Inv, Inv', Lugares, [Next]_vars PROVE Lugares'
<1>1. \A q \in Pids : Cant(q) \in Nat
  BY CantNatural DEF Inv
\* Steps that touch no table and no count.
<1>2. ASSUME UNCHANGED <<segs, cant_segmentos_actuales, defecto, tablas>>,
             \A q \in Pids : estado'[q] # "fin" => estado[q] # "fin"
      PROVE  Lugares'
  <2>1. \A q \in Pids : Cant(q)' = Cant(q)
    BY <1>2 DEF Cant
  <2> QED BY <1>1, <1>2, <2>1, LugaresQuietos
\* A process that ends.
<1>3. ASSUME NEW p \in Pids, doExit(p), UNCHANGED <<segs, tablas>> PROVE Lugares'
  <2>1. \A q \in Pids : Cant(q)' = Cant(q)
    BY <1>3 DEF Cant
  <2>2. ASSUME NEW q \in Pids, estado'[q] # "fin"
        PROVE  /\ estado[q] # "fin" /\ defecto'[q] = defecto[q]
               /\ cant_segmentos_actuales'[q] = cant_segmentos_actuales[q]
    BY <1>3, <2>2 DEF doExit, Pasar, Inv, TypeOK
  <2> QED BY <1>1, <1>3, <2>1, <2>2, LugaresQuietos
<1>4. CASE UNCHANGED vars
  BY <1>2, <1>4 DEF vars, vMemoria, vKernel, vTablas, vCompactar
<1>5. ASSUME NEW p \in Pids, crear_pcb(p) PROVE Lugares'
  <2>1. /\ estado[p] = "ausente" /\ UNCHANGED <<tablas, defecto>>
        /\ \A q \in Pids \ {p} : /\ segs'[q] = segs[q] /\ estado'[q] = estado[q]
                               /\ cant_segmentos_actuales'[q] = cant_segmentos_actuales[q]
        /\ cant_segmentos_actuales'[p] = 1
        /\ \A s \in Sids \ {0} : segs'[p][s] = segs[p][s]
    BY <1>5 DEF crear_pcb, Pasar, vCompactar, Inv, TypeOK, Tabla
  <2>2. \A s \in Sids : segs[p][s] = A!NADA
    BY <2>1, SinTablaVacia DEF Inv, ListasOK
  <2>3. Cant(p)' <= 1
    <3> DEFINE t == segs[p]
               u == segs'[p]
    <3>1. {s \in Sids : t[s] # A!NADA} = {}
      BY <2>2
    <3>2. CantDe(t) = 0
      BY <3>1, FS_EmptySet DEF CantDe
    <3>3. \A s \in Sids \ {0} : u[s] # A!NADA => t[s] # A!NADA
      BY <2>1
    <3> HIDE DEF t, u
    <3>4. CantDe(u) <= 1
      BY <3>2, <3>3, UsadasMasUna, Constantes
    <3> QED BY <3>4 DEF u, Cant, CantDe
  <2>4. \A q \in Pids \ {p} : Cant(q)' = Cant(q)
    BY <2>1 DEF Cant
  <2>5. \A i \in DOMAIN tablas : tablas[i].pid # p
    BY <2>1 DEF Inv, Enviadas
  <2> QED BY <2>1, <2>3, <2>4, <2>5 DEF Lugares
<1>6. ASSUME NEW p \in Pids, fin_proceso(p) PROVE Lugares'
  <2>1. /\ UNCHANGED <<estado, defecto, cant_segmentos_actuales, tablas>> /\ estado[p] = "fin"
        /\ \A q \in Pids \ {p} : segs'[q] = segs[q]
    BY <1>6 DEF fin_proceso, eliminar_segmento, vKernel, vTablas, vCompactar, Inv, TypeOK
  <2>2. \A q \in Pids \ {p} : Cant(q)' = Cant(q)
    BY <2>1 DEF Cant
  <2> QED BY <1>1, <2>1, <2>2, LugaresQuietos
<1>7. ASSUME NEW p \in Pids, do_delete_segment(p) PROVE Lugares'
  <2>1. PICK s \in Ocupadas(p) :
          eliminar_segmento(p, s) /\ escribir_entrada(p, s, A!NADA, cant_segmentos_actuales[p])
    BY <1>7 DEF do_delete_segment
  <2>2. UNCHANGED <<lista_tablas, estado, tablas>>
    BY <1>7 DEF do_delete_segment, vKernel, vCompactar
  <2>3. \A q \in Pids : Cant(q)' \in Nat /\ Cant(q)' <= Cant(q)
    <3>1. p \in Pids /\ s \in Ocupadas(p) /\ eliminar_segmento(p, s)
      BY <1>7, <2>1
    <3> QED BY <2>2, <3>1, Eliminado
  <2>4. \A q \in Pids : defecto[q] \subseteq defecto'[q]
    BY <2>1, EscritaAjena
  <2>5. cant_segmentos_actuales' = cant_segmentos_actuales
    BY <2>1 DEF escribir_entrada, Inv, TypeOK
  <2> QED BY <2>2, <2>3, <2>4, <2>5, LugaresQuietos
<1>8. ASSUME NEW p \in Pids, do_create_segment(p) PROVE Lugares'
  <2>1. /\ estado[p] = "exec" /\ fase = "libre" /\ UNCHANGED lista_tablas
    BY <1>8 DEF do_create_segment, Ejecuta
  <2>2. PICK s \in {e \in Sids : segs[p][e] = A!NADA}, t \in Tamanios :
         \/ SEGMENTO_CREADO(p, s, t) /\ UNCHANGED <<vKernel, vCompactar>>
         \/ UNCHANGED <<segs, vKernel, vTablas, tablas>>
         \/ doExit(p) /\ UNCHANGED <<segs, vCompactar>>
    BY <1>8, TablasAssumption DEF do_create_segment, Sids
  <2>3. CASE SEGMENTO_CREADO(p, s, t) /\ UNCHANGED <<vKernel, vCompactar>>
    <3>1. tablas' = <<>> /\ UNCHANGED estado
      BY <2>1, <2>3 DEF vKernel, vCompactar, Inv, Fases
    <3> QED BY <2>1, <2>3, <3>1, LugaresCreado
  <2>4. CASE UNCHANGED <<segs, vKernel, vTablas, tablas>>
    BY <1>2, <2>4 DEF vKernel, vTablas
  <2>5. CASE doExit(p) /\ UNCHANGED <<segs, vCompactar>>
    BY <1>3, <2>5 DEF vCompactar
  <2> QED BY <2>2, <2>3, <2>4, <2>5
<1>9. ASSUME NEW p \in Pids, agregar_pcb_en_cola_listos(p) \/ doIO(p) \/ do_f_read_write(p)
      PROVE  Lugares'
  <2>1. UNCHANGED <<segs, cant_segmentos_actuales, defecto, tablas>>
    BY <1>9 DEF agregar_pcb_en_cola_listos, doIO, do_f_read_write, vMemoria, vTablas, vCompactar
  <2>2. \A q \in Pids : estado'[q] # "fin" => estado[q] # "fin"
    BY <1>9 DEF agregar_pcb_en_cola_listos, doIO, do_f_read_write, Ejecuta, Pasar, Inv, TypeOK
  <2> QED BY <1>2, <2>1, <2>2
<1>10. ASSUME NEW p \in Pids, EXIT(p) PROVE Lugares'
  BY <1>3, <1>10 DEF EXIT, vMemoria, vCompactar
<1>11. CASE bloquear_pcb_fs_r_w \/ meter_pcb_en_ejecucion
  <2>1. UNCHANGED <<segs, cant_segmentos_actuales, defecto, tablas>>
    BY <1>11 DEF bloquear_pcb_fs_r_w, meter_pcb_en_ejecucion, vMemoria, vTablas, vCompactar
  <2>2. \A q \in Pids : estado'[q] # "fin" => estado[q] # "fin"
    <3>1. CASE bloquear_pcb_fs_r_w
      BY <3>1 DEF bloquear_pcb_fs_r_w, Pasar, Inv, IInv, Apartado
    <3>2. CASE meter_pcb_en_ejecucion
      <4>1. Pasar(Head(ready_queue), "exec") /\ estado[Head(ready_queue)] = "ready"
        BY <3>2, SacarPrimero DEF meter_pcb_en_ejecucion, Inv, IInv
      <4> QED BY <4>1 DEF Pasar, Inv, TypeOK
    <3> QED BY <1>11, <3>1, <3>2
  <2> QED BY <1>2, <2>1, <2>2
<1> QED BY <1>4, <1>5, <1>6, <1>7, <1>8, <1>9, <1>10, <1>11, LugaresCompactar DEF Next

\* Tables, lists, queues and the tables in flight keep their types, and a
\* compaction is always for a process that executes.
THEOREM TypeCorrect == Spec => []TypeOK
<1>1. Inv => TypeOK
  BY DEF Inv
<1>2. Inv /\ [Next]_vars => Inv'
  BY PasoInv
<1> QED BY <1>1, <1>2, InicioInv, PTL DEF Spec

\* No entry of memory's tables ends before it begins.
LEMMA TamanioReal == ASSUME Inv, NEW p \in Pids, NEW s \in Sids PROVE A!Tam(segs[p][s]) # -1
<1>1. segs[p][s] \in A!Rangos
  BY DEF Inv, TypeOK, Tabla
<1>2. segs[p][s].base \in Int /\ segs[p][s].limite \in Int
  BY <1>1, Constantes DEF A!Rangos
<1>3. CASE s = 0
  BY <1>3, Constantes DEF Inv, ListasOK, A!Tam, A!NADA, A!SEGMENTO_0
<1>4. CASE s # 0 /\ segs[p][s] = A!NADA
  BY <1>4 DEF A!Tam, A!NADA
<1>5. CASE s # 0 /\ segs[p][s] # A!NADA
  <2>1. segs[p][s].base < segs[p][s].limite
    BY <1>5 DEF Inv, ListasOK, Privadas
  <2> QED BY <1>2, <2>1 DEF A!Tam
<1> QED BY <1>3, <1>4, <1>5

\* What cpu.c reads at a number inside the array of a PCB whose copy is sound.
LEMMA LeidaDentro ==
  ASSUME Inv, NEW p \in Pids, NEW s \in 0 .. Entradas(p) - 1, NEW e \in Leidas(p, s),
         \A x \in Sids : segment_tables[p][x] # PISADA
  PROVE  IF s \in Sids THEN e = segment_tables[p][s] ELSE e = A!NADA
<1>1. ~(s >= Entradas(p))
  <2>1. Entradas(p) \in Int
    BY CantNatural DEF Entradas, Inv
  <2> QED BY <2>1
<1> QED BY <1>1 DEF Leidas

\* An access that the MMU lets through falls in the segment the program named, in
\* memory's own table, for every number inside the array of the PCB and every
\* history in which no compaction moved the segments of the process behind its back
\* or gave its PCB the table of another, and no write meant for another PCB fell on
\* its table. Tables may have any number of entries, of which a PCB has room for as
\* many as its count gives.
THEOREM TraduccionFielSiempre == Spec => []TraduccionFiel
<1>1. ASSUME Inv PROVE TraduccionFiel
  <2> SUFFICES ASSUME NEW p \in Pids, EnCPU(p), defecto[p] \subseteq {"perdido"},
                      NEW s \in 0 .. Entradas(p) - 1, NEW e \in Leidas(p, s),
                      NEW d \in Desplazamientos, NEW n \in Registros, ~SEG_FAULT(e, d, n)
               PROVE  /\ s \in Sids
                      /\ segs[p][s].base <= mmu(e, d)
                      /\ mmu(e, d) + n <= segs[p][s].limite
    BY DEF TraduccionFiel
  <2>1. \A x \in Sids : /\ segment_tables[p][x] \in {segs[p][x], A!NADA}
                       /\ segs[p][x] \in A!Rangos
    BY <1>1 DEF Inv, Copias, EnCPU, TypeOK, Tabla
  <2>2. \A x \in Sids : segment_tables[p][x] # PISADA
    BY <2>1, TablaEsCopia
  <2>3. IF s \in Sids THEN e = segment_tables[p][s] ELSE e = A!NADA
    BY <1>1, <2>2, LeidaDentro DEF EnCPU
  <2>4. d \in Nat /\ n \in Nat \ {0} /\ A!NADA.base = 0 /\ A!NADA.limite = 0
    BY Constantes DEF Desplazamientos, Registros, A!NADA
  <2>5. ~(d + n > e.limite - e.base)
    BY DEF SEG_FAULT, tam_max
  <2>6. e # A!NADA
    BY <2>4, <2>5
  <2>7. s \in Sids /\ e = segs[p][s]
    BY <2>1, <2>3, <2>6
  <2>8. e.base \in Int /\ e.limite \in Int
    BY <2>1, <2>7, Constantes DEF A!Rangos
  <2> QED BY <2>4, <2>5, <2>7, <2>8 DEF mmu
<1>2. Inv /\ [Next]_vars => Inv'
  BY PasoInv
<1> QED BY <1>1, <1>2, InicioInv, PTL DEF Spec

\* Inside the array SEG_FAULT kills a process only for an access outside its
\* segment, and for every such access, also to a segment it does not have and after
\* a compaction left its PCB with the old bases.
THEOREM LimitesFielesSiempre == Spec => []LimitesFieles
<1>1. ASSUME Inv PROVE LimitesFieles
  <2> SUFFICES ASSUME NEW p \in Pids, EnCPU(p), defecto[p] \subseteq {"movido"},
                      NEW s \in 0 .. Entradas(p) - 1, NEW e \in Leidas(p, s),
                      NEW d \in Desplazamientos, NEW n \in Registros
               PROVE  SEG_FAULT(e, d, n) <=> d + n > TamReal(p, s)
    BY DEF LimitesFieles
  <2>1. \A x \in Sids : A!Tam(segment_tables[p][x]) = A!Tam(segs[p][x])
    BY <1>1 DEF Inv, Copias, EnCPU
  <2>2. \A x \in Sids : segment_tables[p][x] # PISADA
    BY <1>1, <2>1, TamanioReal, TablaEsCopia
  <2>3. IF s \in Sids THEN e = segment_tables[p][s] ELSE e = A!NADA
    BY <1>1, <2>2, LeidaDentro DEF EnCPU
  <2>4. A!Tam(e) = TamReal(p, s)
    BY <2>1, <2>3 DEF TamReal, A!Tam, A!NADA
  <2> QED BY <2>4 DEF SEG_FAULT, tam_max, A!Tam
<1>2. Inv /\ [Next]_vars => Inv'
  BY PasoInv
<1> QED BY <1>1, <1>2, InicioInv, PTL DEF Spec

\* The array of the PCB in the CPU has room for four times the segments that memory
\* has of its process, whatever was created, deleted and compacted, as long as its
\* copy is its own: a program whose numbers stay below that never leaves it.
THEOREM LugarSuficienteSiempre == Spec => []LugarSuficiente
<1>1. ASSUME Inv, Lugares PROVE LugarSuficiente
  <2> SUFFICES ASSUME NEW p \in Pids, EnCPU(p), defecto[p] \cap {"ajeno", "pisado"} = {}
               PROVE  Entradas(p) >= 4 * Cant(p)
    BY DEF LugarSuficiente
  <2>1. Cant(p) <= cant_segmentos_actuales[p]
    BY <1>1 DEF Lugares, EnCPU
  <2>2. Cant(p) \in Nat /\ cant_segmentos_actuales[p] \in Nat
    BY <1>1, CantNatural DEF Inv
  <2> QED BY <2>1, <2>2 DEF Entradas
<1>2. Inv /\ Lugares /\ [Next]_vars => Inv' /\ Lugares'
  BY PasoInv, PasoLugares
<1> QED BY <1>1, <1>2, InicioInv, InicioLugares, PTL DEF Spec

\* The ranges are handed out, given back and moved as the allocator promises,
\* whatever the order in which processes ask, end and are sent their tables.
THEOREM ImplementaAsignadorSiempre == Spec => ImplementaAsignador
<1>1. Inv /\ [Next]_vars => Inv' /\ [A!Next]_(A!vars)
  BY PasoInv DEF DeAsignador
<1> QED BY <1>1, InicioInv, InicioAsignador, PTL DEF Spec, ImplementaAsignador, A!Spec

\* Isolation, through what the allocator promises: no two entries of the tables of
\* memory share an address, nor one and segment 0, after any sequence of creations,
\* deletions, ends of processes and compactions.
AP == INSTANCE AsignadorProofs WITH conTabla <- ToSet(lista_tablas)

THEOREM AislamientoSiempre == Spec => []A!Disjuntos
<1>1. AP!Parametros
  BY Constantes DEF AP!Parametros
<1>2. AP!Init <=> A!Init
  BY DEF AP!Init, A!Init, AP!NADA, A!NADA
<1>3. [AP!Next]_(AP!vars) <=> [A!Next]_(A!vars)
  BY DEF AP!Next, A!Next, AP!vars, A!vars, AP!Iniciar, A!Iniciar, AP!Terminar, A!Terminar,
     AP!Crear, A!Crear, AP!Eliminar, A!Eliminar, AP!Compactar, A!Compactar, AP!NADA, A!NADA,
     AP!SEGMENTO_0, A!SEGMENTO_0, AP!Rangos, A!Rangos, AP!Libre, A!Libre, AP!Tam, A!Tam,
     AP!Separados, A!Separados, AP!Separadas, A!Separadas, AP!Privadas, A!Privadas
<1>4. AP!Disjuntos <=> A!Disjuntos
  BY DEF AP!Disjuntos, A!Disjuntos, AP!Separadas, A!Separadas, AP!Privadas, A!Privadas,
     AP!Separados, A!Separados, AP!SEGMENTO_0, A!SEGMENTO_0
<1>5. AP!Spec => [](AP!TypeOK /\ AP!Disjuntos)
  BY <1>1, AP!Aislamiento
<1>6. Spec => A!Spec
  BY ImplementaAsignadorSiempre DEF ImplementaAsignador
<1> QED BY <1>2, <1>3, <1>4, <1>5, <1>6, PTL DEF AP!Spec, A!Spec
=============================================================================
