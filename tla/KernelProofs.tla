----------------------------- MODULE KernelProofs -----------------------------
(***************************************************************************)
(* What TLAPS proves of Kernel, for every number of processes, degree,     *)
(* program, resource and file: types, semaphores and queues; that a PCB is *)
(* in exactly one place, whatever the programs do; that the degree is      *)
(* kept; and that, seen from outside, the kernel is the life cycle of      *)
(* CicloDeVida.                                                            *)
(***************************************************************************)
EXTENDS Kernel, Sumas

USE DEF vConsola, vLts, vListos, vSts, vBloqueo, vFS, vRecursos, vArchivos, vFin,
        TypeOK, TipoConsola, TipoPlanificacion, TipoHilos, TipoRecursos, TipoArchivos,
        Cola

\* What the program counters of the scheduler and of the file system thread
\* say of the PCB each of them holds.
Control ==
  /\ sts \in {"encola", "semFS_rw"} => enMano # <<>>
  /\ sts \in {"cpu", "semFS_comp", "compactando"} => pcb_a_ejecutar \in Pids
  /\ hiloFS = "operando" => pcbFS \in Pids

\* A process that has come back from the CPU is at an instruction of its
\* program, and an operation on files names a file.
LEMMA InstruccionBienFormada ==
  ASSUME TypeOK, NEW p \in Pids, NEW ops, recibir_pcb_de_CPU(p, ops)
  PROVE  /\ pc' \in [Pids -> Nat \ {0}]
         /\ programa[p][pc[p]].op \in OpsDeArchivo => Arg(p) \in Archivos
<1>1. pc' \in [Pids -> Nat \ {0}]
  BY DEF recibir_pcb_de_CPU
<1>2. programa[p] \in Programas
  BY SMTT(30) DEF recibir_pcb_de_CPU
<1>3. pc[p] \in DOMAIN programa[p]
  BY <1>2, KernelAssumption DEF recibir_pcb_de_CPU
<1> QED
  BY <1>1, <1>2, <1>3, KernelAssumption DEF Arg

LEMMA TiposIniciales == Init => TypeOK /\ Control
BY KernelAssumption, SMTT(60)
   DEF Init, Control, Pids, NULL, SinRecursos, SinArchivos, SinEntrada

\* The console threads and the long term scheduler keep the types.
LEMMA TiposAdmision ==
  ASSUME TypeOK, Control,
         crear_pcb \/ (\E p \in Pids : Consola(p)) \/ long_term_scheduler
  PROVE  TypeOK' /\ Control'
<1>1. CASE crear_pcb
  <2>1. proximo_pid' \in 0 .. MaxProcesos
    BY <1>1, KernelAssumption DEF crear_pcb
  <2>2. /\ consola' \in [Pids -> {"sin_conectar", "creado", "encolado", "fin"}]
        /\ programa' \in [Pids -> Programas \cup {<<>>}]
    BY <1>1 DEF crear_pcb
  <2> QED BY <1>1, <2>1, <2>2 DEF crear_pcb, Control
<1>2. CASE \E p \in Pids : Consola(p)
  <2> SUFFICES ASSUME NEW p \in Pids, Consola(p) PROVE TypeOK' /\ Control'
    BY <1>2
  <2>1. CASE agregar_pcb_cola_nuevos(p)
    BY <2>1 DEF agregar_pcb_cola_nuevos, Control
  <2>2. CASE publicar_nuevo(p)
    BY <2>2 DEF publicar_nuevo, Control
  <2> QED BY <2>1, <2>2 DEF Consola
<1>3. CASE long_term_scheduler
  <2>1. CASE lts_esperar_nuevo
    BY <2>1 DEF lts_esperar_nuevo, Control
  <2>2. CASE lts_esperar_grado
    BY <2>2 DEF lts_esperar_grado, Control
  <2>3. CASE lts_admitir
    <3>1. CASE new_queue = <<>>
      <4>1. Caer
        BY <2>3, <3>1 DEF lts_admitir
      <4> QED BY <4>1, ZenonT(40) DEF Caer, Control
    <3>2. CASE new_queue # <<>>
      <4>1. Head(new_queue) \in Pids /\ Tail(new_queue) \in Cola
        BY <3>2
      <4>2. /\ new_queue' = Tail(new_queue) /\ lts' = "publica"
            /\ ready_queue' = Append(ready_queue, Head(new_queue))
            /\ estado' = [estado EXCEPT ![Head(new_queue)] = "READY"]
            /\ UNCHANGED <<proximo_pid, consola, programa, semProcesoNuevo,
                           semMultiprogramacion, semProcesoListo, vSts, pc, vBloqueo,
                           vFS, vRecursos, vArchivos, exit_list, vivo>>
        BY <2>3, <3>2 DEF lts_admitir
      <4> QED BY <4>1, <4>2 DEF Control
    <3> QED BY <3>1, <3>2
  <2>4. CASE lts_publicar
    BY <2>4 DEF lts_publicar, Control
  <2> QED BY <1>3, <2>1, <2>2, <2>3, <2>4 DEF long_term_scheduler
<1> QED BY <1>1, <1>2, <1>3

\* The detached threads keep the types.
LEMMA TiposHilos ==
  ASSUME TypeOK, Control,
         (\E p \in Pids : bloquear_pcb(p)) \/ publicar_despertado \/ bloquear_pcb_fs_r_w
  PROVE  TypeOK' /\ Control'
<1>1. CASE \E p \in Pids : bloquear_pcb(p)
  BY <1>1 DEF bloquear_pcb, Control
<1>2. CASE publicar_despertado
  BY <1>2 DEF publicar_despertado, Control
<1>3. CASE fs_agregar
  BY <1>3 DEF fs_agregar, Control
<1>4. CASE fs_publicar
  BY <1>4 DEF fs_publicar, Control
<1>5. CASE fs_liberar
  BY <1>5 DEF fs_liberar, Control
<1> QED BY <1>1, <1>2, <1>3, <1>4, <1>5 DEF bloquear_pcb_fs_r_w

-----------------------------------------------------------------------------
(* The handlers of the short term scheduler. From here on the parts of the *)
(* type invariant are expanded where a step needs them.                    *)

HIDE DEF TypeOK, TipoConsola, TipoPlanificacion, TipoHilos, TipoRecursos, TipoArchivos

\* A handler that ends in Desalojar leaves someone to be queued.
LEMMA FinDesalojar ==
  ASSUME TypeOK, Control, pc' \in [Pids -> Nat \ {0}],
         NEW ps \in Cola, ps # <<>>, Desalojar(ps), UNCHANGED <<hiloFS, pcbFS>>
  PROVE  TipoPlanificacion' /\ Control'
BY DEF Desalojar, Control, TypeOK, TipoPlanificacion

\* The usual case: the process that was executing, and nobody else.
LEMMA FinDesalojarUno ==
  ASSUME TypeOK, Control, pc' \in [Pids -> Nat \ {0}],
         NEW p \in Pids, Desalojar(<<p>>), UNCHANGED <<hiloFS, pcbFS>>
  PROVE  TipoPlanificacion' /\ Control'
<1>1. <<p>> \in Cola /\ <<p>> # <<>>
  BY DEF Cola
<1> QED BY <1>1, FinDesalojar

\* A handler that ends in Bloquear leaves nobody in the hands of the scheduler.
LEMMA FinBloquear ==
  ASSUME TypeOK, Control, pc' \in [Pids -> Nat \ {0}],
         NEW p \in Pids, Bloquear(p), hiloFS' = "operando" => pcbFS' \in Pids
  PROVE  TipoPlanificacion' /\ Control'
BY DEF Bloquear, Control, TypeOK, TipoPlanificacion

\* A handler that ends in Seguir leaves the process on the CPU.
LEMMA FinSeguir ==
  ASSUME TypeOK, Control, pc' \in [Pids -> Nat \ {0}],
         Seguir, UNCHANGED <<hiloFS, pcbFS>>
  PROVE  TipoPlanificacion' /\ Control'
BY DEF Seguir, Control, TypeOK, TipoPlanificacion

\* The instances a process gives back are a natural number.
LEMMA TenidasNat ==
  ASSUME TypeOK, NEW p \in Pids, NEW r \in Recursos
  PROVE  Tenidas(p, r) \in Nat
BY DEF Tenidas, TypeOK, TipoRecursos, SinEntrada

\* doExit keeps the types of everything it touches.
LEMMA FinDoExit ==
  ASSUME TypeOK, Control, pc' \in [Pids -> Nat \ {0}],
         NEW p \in Pids, doExit(p), UNCHANGED <<hiloFS, pcbFS>>
  PROVE  TipoPlanificacion' /\ TipoRecursos' /\ TipoArchivos' /\ Control'
<1>1. TipoPlanificacion' /\ Control'
  BY DEF doExit, Control, TypeOK, TipoPlanificacion
<1>2. TipoRecursos'
  <2>1. recursos_disponibles' \in [Recursos -> Nat]
    <3>1. \A r \in Recursos : recursos_disponibles[r] + Tenidas(p, r) \in Nat
      BY TenidasNat DEF TypeOK, TipoRecursos
    <3> QED BY <3>1 DEF doExit
  <2>2. recursos_asignados' \in [Pids -> [Recursos -> Nat \cup {SinEntrada}]]
    BY DEF doExit, TypeOK, TipoRecursos, SinRecursos
  <2> QED BY <2>1, <2>2 DEF doExit, TypeOK, TipoRecursos
<1>3. TipoArchivos'
  BY DEF doExit, TypeOK, TipoArchivos, SinArchivos
<1> QED BY <1>1, <1>2, <1>3

\* One instance more in the entry of a process keeps the type of the entries.
LEMMA TipoSumarInstancia ==
  ASSUME NEW a \in [Pids -> [Recursos -> Nat \cup {SinEntrada}]],
         NEW p \in Pids, NEW r \in Recursos
  PROVE  SumarInstancia(a, p, r) \in [Pids -> [Recursos -> Nat \cup {SinEntrada}]]
BY DEF SumarInstancia, SinEntrada

\* WAIT keeps the types.
LEMMA TiposWait ==
  ASSUME TypeOK, Control, NEW p \in Pids, doWait(p)
  PROVE  TypeOK' /\ Control'
<1> DEFINE r == Arg(p)
<1>1. pc' \in [Pids -> Nat \ {0}]
  BY InstruccionBienFormada DEF doWait
<1>2. CASE recursos_disponibles[r] > 0
  <2>1. TipoPlanificacion' /\ Control'
    <3>1. Desalojar(<<p>>) /\ UNCHANGED <<hiloFS, pcbFS>>
      BY <1>2 DEF doWait
    <3> QED BY <1>1, <3>1, FinDesalojarUno
  <2>2. TipoRecursos'
    BY <1>2, TipoSumarInstancia, SMTT(30) DEF doWait, TypeOK, TipoRecursos
  <2> QED BY <2>1, <2>2 DEF doWait, TypeOK, TipoConsola, TipoHilos, TipoArchivos
<1>3. CASE ~(recursos_disponibles[r] > 0)
  <2>1. TipoPlanificacion' /\ Control'
    BY <1>1, <1>3, FinBloquear DEF doWait, Control
  <2>2. TipoRecursos'
    <3>1. /\ colasRecursos' = [colasRecursos EXCEPT ![r] = Append(@, p)]
          /\ UNCHANGED <<recursos_disponibles, recursos_asignados>>
      BY <1>3 DEF doWait
    <3>2. \A q \in Cola : Append(q, p) \in Cola
      BY DEF Cola
    <3> HIDE DEF r
    <3> QED BY <3>1, <3>2 DEF TypeOK, TipoRecursos
  <2> QED BY <2>1, <2>2 DEF doWait, TypeOK, TipoConsola, TipoHilos, TipoArchivos
<1> QED BY <1>2, <1>3

\* SIGNAL keeps the types.
LEMMA TiposSignal ==
  ASSUME TypeOK, Control, NEW p \in Pids, doSignal(p)
  PROVE  TypeOK' /\ Control'
<1> DEFINE r == Arg(p)
           extra == B(recursos_asignados[p][r] = SinEntrada)
           propia == [recursos_asignados EXCEPT ![p][r] = IF @ > 0 THEN @ - 1 ELSE @]
<1>1. pc' \in [Pids -> Nat \ {0}] /\ r \in Recursos /\ extra \in Nat
  BY InstruccionBienFormada DEF doSignal, B
<1>2. propia \in [Pids -> [Recursos -> Nat \cup {SinEntrada}]]
  BY <1>1 DEF TypeOK, TipoRecursos, SinEntrada
<1>3. CASE colasRecursos[r] # <<>>
  <2> DEFINE w == Head(colasRecursos[r])
  <2>1. w \in Pids /\ Tail(colasRecursos[r]) \in Cola
    BY <1>1, <1>3 DEF TypeOK, TipoRecursos, Cola
  <2>2. Desalojar(<<w, p>>) /\ UNCHANGED <<hiloFS, pcbFS>>
    BY <1>3 DEF doSignal
  <2>3. TipoPlanificacion' /\ Control'
    <3>1. <<w, p>> \in Cola /\ <<w, p>> # <<>>
      BY <2>1 DEF Cola
    <3> HIDE DEF w
    <3> QED BY <1>1, <2>2, <3>1, FinDesalojar
  <2>4. TipoRecursos'
    <3>1. recursos_asignados' = SumarInstancia(propia, w, r)
      BY <1>3 DEF doSignal
    <3>2. recursos_disponibles' = [recursos_disponibles EXCEPT ![r] = @ + extra]
          /\ colasRecursos' = [colasRecursos EXCEPT ![r] = Tail(@)]
      BY <1>3 DEF doSignal
    <3> HIDE DEF w, propia, extra, r
    <3>3. recursos_asignados' \in [Pids -> [Recursos -> Nat \cup {SinEntrada}]]
      BY <1>1, <1>2, <2>1, <3>1, TipoSumarInstancia
    <3> QED BY <1>1, <2>1, <3>2, <3>3 DEF TypeOK, TipoRecursos
  <2> QED BY <2>3, <2>4 DEF doSignal, TypeOK, TipoConsola, TipoHilos, TipoArchivos
<1>4. CASE colasRecursos[r] = <<>>
  <2>1. TipoPlanificacion' /\ Control'
    <3>1. Desalojar(<<p>>) /\ UNCHANGED <<hiloFS, pcbFS>>
      BY <1>4 DEF doSignal
    <3> QED BY <1>1, <3>1, FinDesalojarUno
  <2>2. TipoRecursos'
    <3>1. recursos_asignados' = propia /\ UNCHANGED colasRecursos
          /\ recursos_disponibles' = [recursos_disponibles EXCEPT ![r] = @ + extra + 1]
      BY <1>4 DEF doSignal
    <3> HIDE DEF propia, extra, r
    <3> QED BY <1>1, <1>2, <3>1 DEF TypeOK, TipoRecursos
  <2> QED BY <2>1, <2>2 DEF doSignal, TypeOK, TipoConsola, TipoHilos, TipoArchivos
<1> QED BY <1>3, <1>4

\* F_OPEN keeps the types.
LEMMA TiposFOpen ==
  ASSUME TypeOK, Control, NEW p \in Pids, do_f_open(p)
  PROVE  TypeOK' /\ Control'
<1> DEFINE f == Arg(p)
<1>1. pc' \in [Pids -> Nat \ {0}] /\ f \in Archivos
  BY InstruccionBienFormada DEF do_f_open, recibir_pcb_de_CPU, OpsDeArchivo
<1>2. open_files' \in [Pids -> [Archivos -> Nat]]
  <2>1. open_files' = [open_files EXCEPT ![p][f] = @ + 1]
    BY DEF do_f_open
  <2> HIDE DEF f
  <2> QED BY <1>1, <2>1 DEF TypeOK, TipoArchivos
<1>3. CASE f \in tabla_archivos_globales
  <2>1. /\ colasArchivos' = [colasArchivos EXCEPT ![f] = Append(@, p)]
        /\ UNCHANGED tabla_archivos_globales /\ Bloquear(p)
    BY <1>3 DEF do_f_open
  <2>2. TipoArchivos'
    <3>1. \A q \in Cola : Append(q, p) \in Cola
      BY DEF Cola
    <3> HIDE DEF f
    <3> QED BY <1>2, <2>1, <3>1 DEF TypeOK, TipoArchivos
  <2>3. TipoPlanificacion' /\ Control'
    BY <1>1, <2>1, FinBloquear DEF do_f_open, Control
  <2> QED BY <2>2, <2>3 DEF do_f_open, TypeOK, TipoConsola, TipoHilos, TipoRecursos
<1>4. CASE f \notin tabla_archivos_globales
  <2>1. /\ tabla_archivos_globales' = tabla_archivos_globales \cup {f}
        /\ UNCHANGED colasArchivos /\ Seguir
    BY <1>4 DEF do_f_open
  <2>2. TipoArchivos'
    BY <1>1, <1>2, <2>1 DEF TypeOK, TipoArchivos
  <2>3. TipoPlanificacion' /\ Control'
    BY <1>1, <2>1, FinSeguir DEF do_f_open
  <2> QED BY <2>2, <2>3 DEF do_f_open, TypeOK, TipoConsola, TipoHilos, TipoRecursos
<1> QED BY <1>3, <1>4

\* F_CLOSE keeps the types, even of a file the process does not have open.
LEMMA TiposFClose ==
  ASSUME TypeOK, Control, NEW p \in Pids, do_f_close(p)
  PROVE  TypeOK' /\ Control'
<1> DEFINE f == Arg(p)
<1>1. pc' \in [Pids -> Nat \ {0}] /\ f \in Archivos
  BY InstruccionBienFormada DEF do_f_close, recibir_pcb_de_CPU, OpsDeArchivo
<1>2. open_files' \in [Pids -> [Archivos -> Nat]] /\ vivo' \in BOOLEAN
  <2>1. CASE f \notin tabla_archivos_globales
    BY <2>1 DEF do_f_close, TypeOK, TipoArchivos
  <2>2. CASE f \in tabla_archivos_globales /\ open_files[p][f] > 0
    <3>1. open_files' = [open_files EXCEPT ![p][f] = @ - 1] /\ UNCHANGED vivo
      BY <2>2 DEF do_f_close
    <3> HIDE DEF f
    <3> QED BY <1>1, <2>2, <3>1 DEF TypeOK, TipoArchivos, TipoHilos
  <2>3. CASE f \in tabla_archivos_globales /\ ~(open_files[p][f] > 0)
    <3>1. PICK g \in Archivos :
            open_files' = [open_files EXCEPT ![p][g] = IF @ > 0 THEN @ - 1 ELSE @]
      BY <2>3 DEF do_f_close
    <3>2. vivo' \in BOOLEAN
      BY <2>3 DEF do_f_close
    <3> QED BY <3>1, <3>2 DEF TypeOK, TipoArchivos
  <2> QED BY <2>1, <2>2, <2>3
<1>3. CASE colasArchivos[f] = <<>>
  <2>1. /\ tabla_archivos_globales' = tabla_archivos_globales \ {f}
        /\ UNCHANGED <<colasArchivos, hiloFS, pcbFS>> /\ Desalojar(<<p>>)
    BY <1>3 DEF do_f_close
  <2>2. TipoArchivos'
    BY <1>2, <2>1 DEF TypeOK, TipoArchivos
  <2>3. TipoPlanificacion' /\ Control'
    BY <1>1, <2>1, FinDesalojarUno
  <2> QED BY <1>2, <2>2, <2>3 DEF do_f_close, TypeOK, TipoConsola, TipoHilos, TipoRecursos
<1>4. CASE colasArchivos[f] # <<>>
  <2> DEFINE w == Head(colasArchivos[f])
  <2>1. /\ colasArchivos' = [colasArchivos EXCEPT ![f] = Tail(@)]
        /\ UNCHANGED <<tabla_archivos_globales, hiloFS, pcbFS>>
        /\ Desalojar(<<w, p>>)
    BY <1>4 DEF do_f_close
  <2>2. w \in Pids /\ Tail(colasArchivos[f]) \in Cola
    BY <1>1, <1>4 DEF TypeOK, TipoArchivos, Cola
  <2>3. TipoArchivos'
    BY <1>1, <1>2, <2>1, <2>2 DEF TypeOK, TipoArchivos
  <2>4. TipoPlanificacion' /\ Control'
    <3>1. <<w, p>> \in Cola /\ <<w, p>> # <<>>
      BY <2>2 DEF Cola
    <3> HIDE DEF w
    <3> QED BY <1>1, <2>1, <3>1, FinDesalojar
  <2> QED BY <1>2, <2>3, <2>4 DEF do_f_close, TypeOK, TipoConsola, TipoHilos, TipoRecursos
<1> QED BY <1>3, <1>4

\* F_READ and F_WRITE keep the types: the scheduler keeps the PCB in its hands
\* while it waits for semFS.
LEMMA TiposFReadWrite ==
  ASSUME TypeOK, Control, NEW p \in Pids, do_f_read_write(p)
  PROVE  TypeOK' /\ Control'
<1>1. pc' \in [Pids -> Nat \ {0}]
  BY InstruccionBienFormada DEF do_f_read_write
<1>2. <<p>> \in Cola /\ <<p>> # <<>>
  BY DEF Cola
<1>3. TipoPlanificacion' /\ Control'
  BY <1>1, <1>2 DEF do_f_read_write, Control, TypeOK, TipoPlanificacion
<1> QED BY <1>3 DEF do_f_read_write, TypeOK, TipoConsola, TipoHilos, TipoRecursos,
                    TipoArchivos

\* CREATE_SEGMENT keeps the types, whatever memory answers.
LEMMA TiposCreateSegment ==
  ASSUME TypeOK, Control, NEW p \in Pids, do_create_segment(p)
  PROVE  TypeOK' /\ Control'
<1>1. pc' \in [Pids -> Nat \ {0}] /\ UNCHANGED <<hiloFS, pcbFS>>
  BY InstruccionBienFormada DEF do_create_segment
<1>2. \/ Seguir /\ UNCHANGED <<vRecursos, vArchivos>>
      \/ doExit(p)
      \/ /\ sts' = "semFS_comp"
         /\ UNCHANGED <<pcb_a_ejecutar, enMano, vListos, vLts, vFin, vRecursos, vArchivos>>
  <2>1. PICK resp \in Respuestas :
          CASE resp = "SEGMENTO_CREADO" -> Seguir /\ UNCHANGED <<vRecursos, vArchivos>>
            [] resp = "OUT_OF_MEMORY"   -> doExit(p)
            [] resp = "COMPACTAR"       ->
                 /\ sts' = "semFS_comp"
                 /\ UNCHANGED <<pcb_a_ejecutar, enMano, vListos, vLts, vFin, vRecursos,
                                vArchivos>>
    BY DEF do_create_segment
  <2>2. resp \in {"SEGMENTO_CREADO", "OUT_OF_MEMORY", "COMPACTAR"}
    BY KernelAssumption
  <2> QED BY <2>1, <2>2
<1>3. TipoPlanificacion' /\ Control' /\ TipoRecursos' /\ TipoArchivos'
  <2>1. CASE Seguir /\ UNCHANGED <<vRecursos, vArchivos>>
    BY <1>1, <2>1, FinSeguir DEF TypeOK, TipoRecursos, TipoArchivos
  <2>2. CASE doExit(p)
    BY <1>1, <2>2, FinDoExit
  <2>3. CASE /\ sts' = "semFS_comp"
             /\ UNCHANGED <<pcb_a_ejecutar, enMano, vListos, vLts, vFin, vRecursos,
                            vArchivos>>
    BY <1>1, <2>3 DEF do_create_segment, recibir_pcb_de_CPU, Control, TypeOK,
                      TipoPlanificacion, TipoRecursos, TipoArchivos
  <2> QED BY <1>2, <2>1, <2>2, <2>3
<1> QED BY <1>3 DEF do_create_segment, TypeOK, TipoConsola, TipoHilos

\* The end of a compaction keeps the types, whatever memory answers to the retry.
LEMMA TiposFinCompactacion ==
  ASSUME TypeOK, Control, fin_compactacion
  PROVE  TypeOK' /\ Control'
<1>1. /\ pc' \in [Pids -> Nat \ {0}] /\ UNCHANGED <<hiloFS, pcbFS>>
      /\ vivo' \in BOOLEAN /\ pcb_a_ejecutar \in Pids
  BY DEF fin_compactacion, Control, TypeOK, TipoPlanificacion
<1>2. CASE doExit(pcb_a_ejecutar)
  <2>1. TipoPlanificacion' /\ TipoRecursos' /\ TipoArchivos' /\ Control'
    BY <1>1, <1>2, FinDoExit
  <2> QED BY <1>1, <2>1 DEF fin_compactacion, TypeOK, TipoConsola, TipoHilos
<1>3. CASE /\ sts' = "cpu"
           /\ UNCHANGED <<pcb_a_ejecutar, enMano, vListos, vLts, vFin, vRecursos,
                          vArchivos>>
  BY <1>1, <1>3 DEF fin_compactacion, Control, TypeOK, TipoConsola, TipoHilos,
                    TipoPlanificacion, TipoRecursos, TipoArchivos
<1> QED BY <1>2, <1>3 DEF fin_compactacion

\* The rest of the short term scheduler keeps the types.
LEMMA TiposDespacho ==
  ASSUME TypeOK, Control,
         sts_esperar \/ sts_despachar \/ sts_agregar \/ pedir_fs \/ pedir_compactacion
  PROVE  TypeOK' /\ Control'
<1> USE DEF TypeOK, TipoConsola, TipoPlanificacion, TipoHilos, TipoRecursos, TipoArchivos
<1>1. CASE sts_esperar
  BY <1>1 DEF sts_esperar, Control
<1>2. CASE sts_despachar
  <2>1. CASE ready_queue = <<>>
    <3>1. Caer
      BY <1>2, <2>1 DEF sts_despachar
    <3> QED BY <3>1, ZenonT(40) DEF Caer, Control
  <2>2. CASE ready_queue # <<>>
    <3> DEFINE p == Head(ready_queue)
    <3>1. p \in Pids /\ Tail(ready_queue) \in Cola
      BY <2>2 DEF Cola
    <3>2. /\ ready_queue' = Tail(ready_queue) /\ pcb_a_ejecutar' = p /\ sts' = "cpu"
          /\ estado' = [estado EXCEPT ![p] = "EXEC"]
          /\ UNCHANGED <<vConsola, vLts, semProcesoListo, enMano, pc, vBloqueo, vFS,
                         vRecursos, vArchivos, exit_list, vivo>>
      BY <1>2, <2>2 DEF sts_despachar
    <3> HIDE DEF p
    <3> QED BY <3>1, <3>2 DEF Control
  <2> QED BY <2>1, <2>2
<1>3. CASE sts_agregar
  <2>1. Head(enMano) \in Pids /\ Tail(enMano) \in Cola
    BY <1>3 DEF sts_agregar, Control, Cola
  <2>2. Append(ready_queue, Head(enMano)) \in Cola
    BY <2>1 DEF Cola
  <2>3. /\ ready_queue' = Append(ready_queue, Head(enMano))
        /\ semProcesoListo' = semProcesoListo + 1
        /\ estado' = [estado EXCEPT ![Head(enMano)] = "READY"]
        /\ enMano' = Tail(enMano)
        /\ sts' = (IF Tail(enMano) = <<>> THEN "espera" ELSE "encola")
        /\ UNCHANGED <<vConsola, vLts, pcb_a_ejecutar, pc, vBloqueo, vFS, vRecursos,
                       vArchivos, exit_list, vivo>>
    BY <1>3 DEF sts_agregar
  <2>4. sts' \in {"espera", "encola"} /\ Control'
    BY <2>3 DEF Control
  <2>5. ready_queue' \in Cola /\ enMano' \in Cola
    BY <2>1, <2>2, <2>3
  <2>6. estado' \in [Pids -> {"SIN_CREAR", "NEW", "READY", "EXEC", "BLOCK", "EXIT"}]
    BY <2>1, <2>3
  <2> QED BY <2>3, <2>4, <2>5, <2>6, SMTT(30)
<1>4. CASE pedir_fs
  <2>1. Head(enMano) \in Pids
    BY <1>4 DEF pedir_fs, Control, Cola
  <2>2. /\ Bloquear(Head(enMano)) /\ semFS' = semFS - 1 /\ semFS > 0
        /\ hiloFS' = "operando" /\ pcbFS' = Head(enMano)
        /\ UNCHANGED <<vConsola, pc, vBloqueo, vRecursos, vArchivos, vivo>>
    BY <1>4 DEF pedir_fs
  <2>3. TipoPlanificacion' /\ Control'
    <3>1. pc' \in [Pids -> Nat \ {0}] /\ (hiloFS' = "operando" => pcbFS' \in Pids)
      BY <2>1, <2>2
    <3> HIDE DEF TypeOK, TipoPlanificacion
    <3> QED BY <2>1, <2>2, <3>1, FinBloquear
  <2>4. TipoHilos'
    BY <2>1, <2>2
  <2>5. TipoConsola' /\ TipoRecursos' /\ TipoArchivos'
    BY <2>2
  <2> QED BY <2>3, <2>4, <2>5
<1>5. CASE pedir_compactacion
  BY <1>5 DEF pedir_compactacion, Control
<1> QED BY <1>1, <1>2, <1>3, <1>4, <1>5

\* A step of the short term scheduler keeps the types.
LEMMA TiposSts ==
  ASSUME TypeOK, Control, short_term_scheduler
  PROVE  TypeOK' /\ Control'
<1>1. CASE \E p \in Pids : analizarMotivo(p)
  <2> SUFFICES ASSUME NEW p \in Pids, analizarMotivo(p) PROVE TypeOK' /\ Control'
    BY <1>1
  <2>1. CASE finalizar_proceso(p)
    <3>1. pc' \in [Pids -> Nat \ {0}] /\ doExit(p) /\ UNCHANGED <<hiloFS, pcbFS>>
      BY <2>1, InstruccionBienFormada DEF finalizar_proceso
    <3>2. TipoPlanificacion' /\ TipoRecursos' /\ TipoArchivos' /\ Control'
      BY <3>1, FinDoExit
    <3> QED BY <2>1, <3>2 DEF finalizar_proceso, TypeOK, TipoConsola, TipoHilos
  <2>2. CASE doYield(p)
    <3>1. TipoPlanificacion' /\ Control'
      BY <2>2, InstruccionBienFormada, FinDesalojarUno DEF doYield
    <3> QED BY <2>2, <3>1 DEF doYield, TypeOK, TipoConsola, TipoHilos, TipoRecursos,
                              TipoArchivos
  <2>3. CASE doIO(p) \/ do_f_truncate(p)
    <3>1. BloquearEnHilo(p) /\ pc' \in [Pids -> Nat \ {0}]
      BY <2>3, InstruccionBienFormada DEF doIO, do_f_truncate
    <3>2. TipoPlanificacion' /\ Control'
      BY <3>1, FinBloquear DEF BloquearEnHilo, Control
    <3> QED BY <3>1, <3>2 DEF BloquearEnHilo, TypeOK, TipoConsola, TipoHilos,
                              TipoRecursos, TipoArchivos
  <2>4. CASE do_f_seek(p) \/ do_delete_segment(p)
    <3>1. /\ Seguir /\ pc' \in [Pids -> Nat \ {0}]
          /\ UNCHANGED <<vConsola, vBloqueo, vFS, vRecursos, vArchivos, vivo>>
      BY <2>4, InstruccionBienFormada DEF do_f_seek, do_delete_segment
    <3>2. TipoPlanificacion' /\ Control'
      BY <3>1, FinSeguir
    <3> QED BY <3>1, <3>2 DEF TypeOK, TipoConsola, TipoHilos, TipoRecursos, TipoArchivos
  <2> QED BY <2>1, <2>2, <2>3, <2>4, TiposWait, TiposSignal, TiposFOpen, TiposFClose,
             TiposFReadWrite, TiposCreateSegment DEF analizarMotivo
<1> QED BY <1>1, TiposDespacho, TiposFinCompactacion DEF short_term_scheduler

LEMMA TiposPaso == TypeOK /\ Control /\ [Next]_vars => TypeOK' /\ Control'
<1> SUFFICES ASSUME TypeOK, Control, [Next]_vars PROVE TypeOK' /\ Control'
  OBVIOUS
<1>1. CASE UNCHANGED vars
  BY <1>1 DEF vars, Control, TypeOK, TipoConsola, TipoPlanificacion, TipoHilos,
              TipoRecursos, TipoArchivos
<1>2. CASE Next
  BY <1>2, TiposAdmision, TiposSts, TiposHilos DEF Next
<1> QED BY <1>1, <1>2

\* Every variable keeps its type, and a PCB is where the program counters of
\* the scheduler and of the file system thread say it is.
THEOREM TiposCorrectos == Spec => [](TypeOK /\ Control)
BY TiposIniciales, TiposPaso, PTL DEF Spec

-----------------------------------------------------------------------------
(* semFS and semProcesoListo. No handler of analizarMotivo touches them,   *)
(* the queues they count or the threads that post them.                    *)

LEMMA EfectoMotivo ==
  ASSUME NEW p \in Pids, analizarMotivo(p)
  PROVE  /\ sts = "cpu" /\ sts' \in {"cpu", "encola", "espera", "semFS_rw", "semFS_comp"}
         /\ UNCHANGED <<vConsola, vListos, lts, publicando, vFS>>
<1> USE DEF recibir_pcb_de_CPU, Desalojar, Bloquear, Seguir
<1>1. CASE finalizar_proceso(p) \/ doYield(p)
  BY <1>1 DEF finalizar_proceso, doYield, doExit
<1>2. CASE doIO(p) \/ do_f_truncate(p)
  BY <1>2 DEF doIO, do_f_truncate, BloquearEnHilo
<1>3. CASE doWait(p)
  BY <1>3 DEF doWait
<1>4. CASE doSignal(p)
  BY <1>4 DEF doSignal
<1>5. CASE do_f_open(p)
  BY <1>5 DEF do_f_open
<1>6. CASE do_f_close(p)
  BY <1>6 DEF do_f_close
<1>7. CASE do_f_seek(p) \/ do_delete_segment(p)
  BY <1>7 DEF do_f_seek, do_delete_segment
<1>8. CASE do_f_read_write(p)
  BY <1>8 DEF do_f_read_write
<1>9. CASE do_create_segment(p)
  <2>1. sts = "cpu" /\ UNCHANGED <<vConsola, publicando, vFS>>
    BY <1>9 DEF do_create_segment
  <2>2. PICK resp \in {"SEGMENTO_CREADO", "OUT_OF_MEMORY", "COMPACTAR"} :
          CASE resp = "SEGMENTO_CREADO" -> Seguir
            [] resp = "OUT_OF_MEMORY"   -> doExit(p)
            [] resp = "COMPACTAR"       -> sts' = "semFS_comp" /\ UNCHANGED <<vListos, vLts>>
    BY <1>9, KernelAssumption DEF do_create_segment
  <2> QED BY <2>1, <2>2 DEF doExit
<1> QED BY <1>1, <1>2, <1>3, <1>4, <1>5, <1>6, <1>7, <1>8, <1>9 DEF analizarMotivo

LEMMA SemFSPaso == TypeOK /\ SemFSExclusiva /\ [Next]_vars => SemFSExclusiva'
<1> SUFFICES ASSUME TypeOK, SemFSExclusiva, [Next]_vars PROVE SemFSExclusiva'
  OBVIOUS
<1> USE DEF SemFSExclusiva, B
<1>1. semFS \in Nat
  BY DEF TypeOK, TipoHilos
<1>2. CASE UNCHANGED vars
  BY <1>2 DEF vars
<1>3. CASE crear_pcb \/ (\E p \in Pids : Consola(p))
  BY <1>3 DEF crear_pcb, Consola, agregar_pcb_cola_nuevos, publicar_nuevo
<1>4. CASE long_term_scheduler
  BY <1>4 DEF long_term_scheduler, lts_esperar_nuevo, lts_esperar_grado, lts_admitir,
              lts_publicar, Caer
<1>5. CASE \E p \in Pids : analizarMotivo(p)
  BY <1>5, EfectoMotivo
<1>6. CASE sts_esperar \/ sts_despachar \/ sts_agregar
  BY <1>6 DEF sts_esperar, sts_despachar, sts_agregar, Caer
<1>7. CASE pedir_fs
  BY <1>7, <1>1 DEF pedir_fs, Bloquear
<1>8. CASE pedir_compactacion
  BY <1>8, <1>1 DEF pedir_compactacion
<1>9. CASE fin_compactacion
  BY <1>9, <1>1 DEF fin_compactacion, doExit
<1>10. CASE (\E p \in Pids : bloquear_pcb(p)) \/ publicar_despertado \/ bloquear_pcb_fs_r_w
  BY <1>10, <1>1 DEF bloquear_pcb, publicar_despertado, bloquear_pcb_fs_r_w, fs_agregar,
              fs_publicar, fs_liberar
<1> QED BY <1>2, <1>3, <1>4, <1>5, <1>6, <1>7, <1>8, <1>9, <1>10
        DEF Next, short_term_scheduler

\* A file operation and a compaction never overlap, and semFS never loses or
\* gains a post.
THEOREM SemFSCorrecto == Spec => []SemFSExclusiva
<1>1. Init => SemFSExclusiva
  BY DEF Init, SemFSExclusiva, B
<1> QED BY <1>1, TiposCorrectos, SemFSPaso, PTL DEF Spec

\* SemFSExclusiva is what makes this inductive: a file operation starts only
\* when the thread of the previous one is past its sem_post.
LEMMA ListosPaso ==
  TypeOK /\ Control /\ SemFSExclusiva /\ ListosContados /\ [Next]_vars => ListosContados'
<1> SUFFICES ASSUME TypeOK, Control, SemFSExclusiva, ListosContados, [Next]_vars
             PROVE  ListosContados'
  OBVIOUS
<1> USE DEF ListosContados, B
<1>1. /\ \A p \in Pids : Len(Append(ready_queue, p)) = Len(ready_queue) + 1
      /\ ready_queue # <<>> => Len(Tail(ready_queue)) = Len(ready_queue) - 1
      /\ Len(ready_queue) \in Nat
  BY DEF TypeOK, TipoPlanificacion, Cola
<1>2. semProcesoListo \in Nat /\ publicando \in Nat /\ semFS \in Nat
  BY DEF TypeOK, TipoPlanificacion, TipoHilos
<1>3. CASE UNCHANGED vars
  BY <1>3 DEF vars
<1>4. CASE crear_pcb \/ (\E p \in Pids : Consola(p))
  BY <1>4 DEF crear_pcb, Consola, agregar_pcb_cola_nuevos, publicar_nuevo
<1>5. CASE long_term_scheduler
  <2>1. CASE lts_esperar_nuevo \/ lts_esperar_grado \/ lts_publicar
    BY <2>1, <1>2, SMTT(30) DEF lts_esperar_nuevo, lts_esperar_grado, lts_publicar
  <2>2. CASE lts_admitir
    <3>1. CASE new_queue = <<>>
      BY <2>2, <3>1 DEF lts_admitir, Caer
    <3>2. CASE new_queue # <<>>
      <4>1. Head(new_queue) \in Pids
        BY <3>2 DEF TypeOK, TipoConsola, Cola
      <4>2. /\ ready_queue' = Append(ready_queue, Head(new_queue))
            /\ lts = "saca" /\ lts' = "publica"
            /\ UNCHANGED <<semProcesoListo, vSts, vBloqueo, vFS>>
        BY <2>2, <3>2 DEF lts_admitir
      <4> QED BY <1>1, <1>2, <4>1, <4>2
    <3> QED BY <3>1, <3>2
  <2> QED BY <1>5, <2>1, <2>2 DEF long_term_scheduler
<1>6. CASE \E p \in Pids : analizarMotivo(p)
  BY <1>6, EfectoMotivo
<1>7. CASE sts_esperar
  BY <1>7, <1>2 DEF sts_esperar
<1>8. CASE sts_despachar
  <2>1. CASE ready_queue = <<>>
    BY <1>8, <2>1 DEF sts_despachar, Caer
  <2>2. CASE ready_queue # <<>>
    <3>1. /\ ready_queue' = Tail(ready_queue) /\ sts = "saca" /\ sts' = "cpu"
          /\ UNCHANGED <<vLts, semProcesoListo, vBloqueo, vFS>>
      BY <1>8, <2>2 DEF sts_despachar
    <3> QED BY <1>1, <1>2, <2>2, <3>1
  <2> QED BY <2>1, <2>2
<1>9. CASE sts_agregar
  <2>1. Head(enMano) \in Pids
    BY <1>9 DEF sts_agregar, Control, TypeOK, TipoPlanificacion, Cola
  <2>2. /\ ready_queue' = Append(ready_queue, Head(enMano))
        /\ semProcesoListo' = semProcesoListo + 1
        /\ sts = "encola" /\ sts' # "saca"
        /\ UNCHANGED <<vLts, vBloqueo, vFS>>
    BY <1>9 DEF sts_agregar
  <2> QED BY <1>1, <1>2, <2>1, <2>2
<1>10. CASE pedir_fs
  <2>1. hiloFS = "libre"
    BY <1>10, <1>2 DEF pedir_fs, SemFSExclusiva
  <2> QED BY <1>10, <2>1 DEF pedir_fs, Bloquear
<1>11. CASE pedir_compactacion \/ fin_compactacion
  BY <1>11 DEF pedir_compactacion, fin_compactacion, doExit
<1>12. CASE \E p \in Pids : bloquear_pcb(p)
  BY <1>12, <1>1, <1>2 DEF bloquear_pcb
<1>13. CASE publicar_despertado
  BY <1>13, <1>2 DEF publicar_despertado
<1>14. CASE fs_agregar
  <2>1. pcbFS \in Pids
    BY <1>14 DEF fs_agregar, Control
  <2> QED BY <1>14, <1>1, <1>2, <2>1 DEF fs_agregar
<1>15. CASE fs_publicar \/ fs_liberar
  BY <1>15, <1>2, SMTT(30) DEF fs_publicar, fs_liberar
<1> QED BY <1>3, <1>4, <1>5, <1>6, <1>7, <1>8, <1>9, <1>10, <1>11, <1>12, <1>13, <1>14,
           <1>15 DEF Next, short_term_scheduler, bloquear_pcb_fs_r_w

\* Every permit of semProcesoListo stands for a process in ready_queue, however
\* the threads that push and post interleave.
THEOREM ListosCorrectos == Spec => []ListosContados
<1>1. Init => ListosContados
  BY DEF Init, ListosContados, B, Pids
<1> QED BY <1>1, TiposCorrectos, SemFSCorrecto, ListosPaso, PTL DEF Spec

\* sacar_pcb_cola_listos never finds the queue empty: the list_remove of an
\* empty list, whose NULL the scheduler would dereference, cannot happen.
THEOREM NuncaSacaDeVacia == Spec => [](sts = "saca" => ready_queue # <<>>)
<1>1. TypeOK /\ ListosContados => (sts = "saca" => ready_queue # <<>>)
  BY DEF TypeOK, TipoPlanificacion, TipoHilos, ListosContados, B, Cola
<1> QED BY <1>1, TiposCorrectos, ListosCorrectos, PTL

-----------------------------------------------------------------------------
(* semProcesoNuevo, between the consoles and the long term scheduler.      *)

Encolando == {p \in Pids : consola[p] = "encolado"}

\* crear_pcb numbers a process nobody has numbered before.
SinNumerar == \A p \in Pids : p >= proximo_pid => consola[p] = "sin_conectar"

LEMMA EncolandoFinito == IsFiniteSet(Encolando) /\ Cardinality(Encolando) \in Nat
<1>1. IsFiniteSet(Pids)
  BY FS_Interval, KernelAssumption DEF Pids
<1>2. IsFiniteSet(Encolando)
  BY <1>1, FS_Subset DEF Encolando
<1> QED BY <1>2, FS_CardinalityType

LEMMA NuevosPaso ==
  TypeOK /\ SinNumerar /\ NuevosContados /\ [Next]_vars => SinNumerar' /\ NuevosContados'
<1> SUFFICES ASSUME TypeOK, SinNumerar, NuevosContados, [Next]_vars
             PROVE  SinNumerar' /\ NuevosContados'
  OBVIOUS
<1> USE DEF B
<1>1. /\ semProcesoNuevo \in Nat /\ Len(new_queue) \in Nat
      /\ \A p \in Pids : Len(Append(new_queue, p)) = Len(new_queue) + 1
      /\ new_queue # <<>> => Len(Tail(new_queue)) = Len(new_queue) - 1
  BY DEF TypeOK, TipoConsola, Cola
<1>2. NuevosContados <=>
        Len(new_queue) = semProcesoNuevo + Cardinality(Encolando) + B(lts \in {"multi", "saca"})
  BY DEF NuevosContados, Encolando
<1>3. NuevosContados' <=>
        Len(new_queue') = semProcesoNuevo' + Cardinality(Encolando')
                          + B(lts' \in {"multi", "saca"})
  BY DEF NuevosContados, Encolando
<1>4. CASE UNCHANGED <<vConsola, lts>>
  BY <1>4 DEF SinNumerar, NuevosContados
<1>5. CASE crear_pcb
  <2>1. /\ consola' = [consola EXCEPT ![proximo_pid] = "creado"]
        /\ proximo_pid' = proximo_pid + 1 /\ proximo_pid \in Pids
        /\ UNCHANGED <<new_queue, semProcesoNuevo, lts>>
    BY <1>5, KernelAssumption DEF crear_pcb, TypeOK, TipoConsola, Pids
  <2>2. Encolando' = Encolando
    BY <2>1 DEF Encolando, SinNumerar, TypeOK, TipoConsola, Pids
  <2>3. SinNumerar'
    BY <2>1 DEF SinNumerar, TypeOK, TipoConsola, Pids
  <2> QED BY <1>2, <1>3, <2>1, <2>2, <2>3
<1>6. ASSUME NEW p \in Pids, agregar_pcb_cola_nuevos(p)
      PROVE  SinNumerar' /\ NuevosContados'
  <2>1. /\ consola[p] = "creado" /\ consola' = [consola EXCEPT ![p] = "encolado"]
        /\ new_queue' = Append(new_queue, p)
        /\ UNCHANGED <<proximo_pid, semProcesoNuevo, lts>>
    BY <1>6 DEF agregar_pcb_cola_nuevos
  <2>2. Encolando' = Encolando \cup {p} /\ p \notin Encolando
    BY <2>1 DEF Encolando, TypeOK, TipoConsola
  <2>3. Cardinality(Encolando') = Cardinality(Encolando) + 1
    BY <2>2, EncolandoFinito, FS_AddElement
  <2>4. SinNumerar'
    BY <2>1 DEF SinNumerar, TypeOK, TipoConsola
  <2> QED BY <1>1, <1>2, <1>3, <2>1, <2>3, <2>4, EncolandoFinito
<1>7. ASSUME NEW p \in Pids, publicar_nuevo(p)
      PROVE  SinNumerar' /\ NuevosContados'
  <2>1. /\ consola[p] = "encolado" /\ consola' = [consola EXCEPT ![p] = "fin"]
        /\ semProcesoNuevo' = semProcesoNuevo + 1
        /\ UNCHANGED <<proximo_pid, new_queue, lts>>
    BY <1>7 DEF publicar_nuevo
  <2>2. Encolando' = Encolando \ {p} /\ p \in Encolando
    BY <2>1 DEF Encolando, TypeOK, TipoConsola
  <2>3. Cardinality(Encolando') = Cardinality(Encolando) - 1
    BY <2>2, EncolandoFinito, FS_RemoveElement
  <2>4. SinNumerar'
    BY <2>1 DEF SinNumerar, TypeOK, TipoConsola
  <2> QED BY <1>1, <1>2, <1>3, <2>1, <2>3, <2>4, EncolandoFinito
<1>8. CASE long_term_scheduler
  <2> SUFFICES ASSUME UNCHANGED <<proximo_pid, consola>> => SinNumerar' /\ Encolando' = Encolando
               PROVE  SinNumerar' /\ NuevosContados'
    BY DEF SinNumerar, Encolando
  <2>1. CASE lts_esperar_nuevo
    BY <2>1, <1>1, <1>2, <1>3, EncolandoFinito DEF lts_esperar_nuevo
  <2>2. CASE lts_esperar_grado
    BY <2>2, <1>2, <1>3 DEF lts_esperar_grado
  <2>3. CASE lts_admitir
    <3>1. CASE new_queue = <<>>
      BY <2>3, <3>1, <1>2, <1>3 DEF lts_admitir, Caer
    <3>2. CASE new_queue # <<>>
      <4>1. /\ new_queue' = Tail(new_queue) /\ lts = "saca" /\ lts' = "publica"
            /\ UNCHANGED <<proximo_pid, consola, semProcesoNuevo>>
        BY <2>3, <3>2 DEF lts_admitir
      <4> QED BY <1>1, <1>2, <1>3, <3>2, <4>1, EncolandoFinito
    <3> QED BY <3>1, <3>2
  <2>4. CASE lts_publicar
    BY <2>4, <1>2, <1>3 DEF lts_publicar
  <2> QED BY <1>8, <2>1, <2>2, <2>3, <2>4 DEF long_term_scheduler
<1>9. CASE short_term_scheduler
  <2>1. UNCHANGED <<vConsola, lts>>
    BY <1>9, EfectoMotivo
       DEF short_term_scheduler, sts_esperar, sts_despachar, sts_agregar, pedir_fs, Bloquear,
           pedir_compactacion, fin_compactacion, doExit, Caer
  <2> QED BY <1>4, <2>1
<1>10. CASE (\E p \in Pids : bloquear_pcb(p)) \/ publicar_despertado \/ bloquear_pcb_fs_r_w
  <2>1. UNCHANGED <<vConsola, lts>>
    BY <1>10 DEF bloquear_pcb, publicar_despertado, bloquear_pcb_fs_r_w, fs_agregar,
                fs_publicar, fs_liberar
  <2> QED BY <1>4, <2>1
<1>11. CASE UNCHANGED vars
  <2>1. UNCHANGED <<vConsola, lts>>
    BY <1>11 DEF vars
  <2> QED BY <1>4, <2>1
<1> QED BY <1>5, <1>6, <1>7, <1>8, <1>9, <1>10, <1>11 DEF Next, Consola

\* Every permit of semProcesoNuevo stands for a process in new_queue, although
\* the consoles push and post in two steps and the long term scheduler holds a
\* permit while it waits for a place.
THEOREM NuevosCorrectos == Spec => [](SinNumerar /\ NuevosContados)
<1>1. Init => SinNumerar /\ NuevosContados
  <2> SUFFICES ASSUME Init PROVE SinNumerar /\ NuevosContados
    OBVIOUS
  <2>1. Encolando = {}
    BY DEF Init, Encolando
  <2>2. Cardinality(Encolando) = 0
    BY <2>1, FS_EmptySet
  <2>3. Len(new_queue) = 0 /\ semProcesoNuevo = 0 /\ B(lts \in {"multi", "saca"}) = 0
    BY DEF Init, B
  <2>4. NuevosContados
    <3>1. NuevosContados <=>
            Len(new_queue) = semProcesoNuevo + Cardinality(Encolando)
                             + B(lts \in {"multi", "saca"})
      BY DEF NuevosContados, Encolando
    <3> HIDE DEF B
    <3> QED BY <2>2, <2>3, <3>1
  <2>5. SinNumerar
    BY DEF Init, SinNumerar
  <2> QED BY <2>4, <2>5
<1> QED BY <1>1, TiposCorrectos, NuevosPaso, PTL DEF Spec

\* sacar_pcb_de_cola_nuevo never finds the queue empty.
THEOREM NuncaAdmiteDeVacia == Spec => [](lts = "saca" => new_queue # <<>>)
<1>1. TypeOK /\ NuevosContados => (lts = "saca" => new_queue # <<>>)
  <2> SUFFICES ASSUME TypeOK, NuevosContados, lts = "saca" PROVE Len(new_queue) > 0
    BY SMT
  <2>1. Len(new_queue) = semProcesoNuevo + Cardinality(Encolando) + 1
    BY DEF NuevosContados, Encolando, B
  <2>2. semProcesoNuevo \in Nat
    BY DEF TypeOK, TipoConsola
  <2> QED BY <2>1, <2>2, EncolandoFinito
<1> QED BY <1>1, TiposCorrectos, NuevosCorrectos, PTL

HIDE DEF vConsola, vLts, vListos, vSts, vBloqueo, vFS, vRecursos, vArchivos, vFin, Cola

-----------------------------------------------------------------------------
(* The places of a PCB. *)

\* What the scheduler and the thread of bloquear_pcb_fs_r_w do not hold.
Manos ==
  /\ sts \notin {"encola", "semFS_rw"} => enMano = <<>>
  /\ sts \notin {"cpu", "semFS_comp", "compactando"} => pcb_a_ejecutar = NULL
  /\ sts = "semFS_rw" => Len(enMano) = 1
  /\ hiloFS # "operando" => pcbFS = NULL

EnColas(colas, S, p) == SumFunction([x \in S |-> Apariciones(colas[x], p)])

\* The places of a blocked process.
Parado(p) ==
  B(p \in bloqueados) + B(pcbFS = p) + EnColas(colasRecursos, Recursos, p)
  + EnColas(colasArchivos, Archivos, p)

\* The four states that are one place each.
Anotado(p) ==
  /\ estado[p] = "SIN_CREAR" <=> consola[p] \in {"sin_conectar", "creado"}
  /\ Apariciones(new_queue, p) = B(estado[p] = "NEW")
  /\ Apariciones(ready_queue, p) = B(estado[p] = "READY")
  /\ estado[p] = "EXIT" <=> p \in exit_list

\* A process that is executing or blocked is on the CPU, in the hands of the
\* scheduler or parked, and in one of these only.
Retenido(p) ==
  /\ Apariciones(enMano, p) + B(pcb_a_ejecutar = p) + Parado(p)
       = B(estado[p] \in {"EXEC", "BLOCK"})
  /\ estado[p] = "EXEC"  => pcb_a_ejecutar = p \/ Apariciones(enMano, p) > 0
  /\ pcb_a_ejecutar = p => estado[p] = "EXEC"
  /\ sts = "semFS_rw" /\ Apariciones(enMano, p) > 0 => estado[p] = "EXEC"

Sitio(p) == Anotado(p) /\ Retenido(p)
Sitios == \A p \in Pids : Sitio(p)

-----------------------------------------------------------------------------
(* How often a process is in a queue. *)

LEMMA PosicionesFinitas ==
  ASSUME NEW q \in Seq(Pids), NEW p
  PROVE  IsFiniteSet({i \in DOMAIN q : q[i] = p})
<1>1. IsFiniteSet(1 .. Len(q)) /\ DOMAIN q = 1 .. Len(q)
  BY FS_Interval
<1> QED BY <1>1, FS_Subset

LEMMA AparicionesNat ==
  ASSUME NEW q \in Seq(Pids), NEW p
  PROVE  Apariciones(q, p) \in Nat /\ (Apariciones(q, p) > 0 <=> p \in Range(q))
<1> DEFINE P == {i \in DOMAIN q : q[i] = p}
<1>1. IsFiniteSet(P)
  BY PosicionesFinitas
<1>2. Cardinality(P) \in Nat /\ (Cardinality(P) = 0 <=> P = {})
  BY <1>1, FS_CardinalityType, FS_EmptySet
<1>3. P # {} <=> p \in Range(q)
  BY DEF Range
<1> HIDE DEF P
<1>4. Cardinality(P) > 0 <=> p \in Range(q)
  BY <1>2, <1>3
<1> QED BY <1>2, <1>4 DEF P, Apariciones

LEMMA AparicionesVacia == ASSUME NEW p PROVE Apariciones(<<>>, p) = 0
<1>1. {i \in DOMAIN <<>> : <<>>[i] = p} = {}
  OBVIOUS
<1> QED BY <1>1, FS_EmptySet DEF Apariciones

LEMMA AparicionesAppend ==
  ASSUME NEW q \in Seq(Pids), NEW x \in Pids, NEW p
  PROVE  Apariciones(Append(q, x), p) = Apariciones(q, p) + B(x = p)
<1> DEFINE n == Len(q) + 1
           P == {i \in DOMAIN q : q[i] = p}
           R == {i \in DOMAIN Append(q, x) : Append(q, x)[i] = p}
<1>1. IsFiniteSet(P) /\ Cardinality(P) \in Nat
  BY PosicionesFinitas, FS_CardinalityType
<1>2. n \notin P /\ R = IF x = p THEN P \cup {n} ELSE P
  OBVIOUS
<1>3. Cardinality(R) = Cardinality(P) + B(x = p)
  <2> HIDE DEF n, P, R
  <2>1. CASE x = p
    BY <1>1, <1>2, <2>1, FS_AddElement DEF B
  <2>2. CASE x # p
    BY <1>1, <1>2, <2>2 DEF B
  <2> QED BY <2>1, <2>2
<1> QED BY <1>3 DEF Apariciones

LEMMA AparicionesTail ==
  ASSUME NEW q \in Seq(Pids), q # <<>>, NEW p
  PROVE  Apariciones(q, p) = Apariciones(Tail(q), p) + B(Head(q) = p)
<1> DEFINE P == {i \in DOMAIN Tail(q) : Tail(q)[i] = p}
           R == {i \in DOMAIN q : q[i] = p}
           f == [i \in P |-> i + 1]
<1>1. Tail(q) \in Seq(Pids)
  OBVIOUS
<1>2. IsFiniteSet(P) /\ Cardinality(P) \in Nat
  BY <1>1, PosicionesFinitas, FS_CardinalityType
<1>3. f \in Bijection(P, R \ {1})
  <2>1. f \in [P -> R \ {1}]
    OBVIOUS
  <2>2. \A a, b \in P : f[a] = f[b] => a = b
    OBVIOUS
  <2>3. \A t \in R \ {1} : \E i \in P : f[i] = t
    <3> SUFFICES ASSUME NEW t \in R \ {1} PROVE \E i \in P : f[i] = t
      OBVIOUS
    <3>1. t - 1 \in P /\ f[t - 1] = t
      OBVIOUS
    <3> QED BY <3>1
  <2> QED BY <2>1, <2>2, <2>3 DEF Bijection, Injection, Surjection, IsInjective
<1>4. Cardinality(R \ {1}) = Cardinality(P) /\ IsFiniteSet(R)
  <2>1. IsFiniteSet(R)
    BY PosicionesFinitas
  <2> HIDE DEF P, R, f
  <2>2. ExistsBijection(P, R \ {1})
    BY <1>3 DEF ExistsBijection
  <2> QED BY <1>2, <2>1, <2>2, FS_Bijection
<1>5. 1 \in R <=> Head(q) = p
  OBVIOUS
<1>6. Cardinality(R) = Cardinality(P) + B(Head(q) = p)
  <2> HIDE DEF P, R
  <2>1. CASE 1 \in R
    <3>1. IsFiniteSet(R \ {1}) /\ 1 \notin R \ {1} /\ R = (R \ {1}) \cup {1}
      BY <1>4, <2>1, FS_Subset
    <3>2. Cardinality((R \ {1}) \cup {1}) = Cardinality(R \ {1}) + 1
      BY <3>1, FS_AddElement
    <3> QED BY <1>4, <1>5, <2>1, <3>1, <3>2 DEF B
  <2>2. CASE 1 \notin R
    <3>1. R \ {1} = R
      BY <2>2
    <3>2. Cardinality(R) = Cardinality(P)
      BY <1>4, <3>1
    <3>3. B(Head(q) = p) = 0
      BY <1>5, <2>2 DEF B
    <3> QED BY <1>2, <3>2, <3>3
  <2> QED BY <2>1, <2>2
<1> QED BY <1>6 DEF Apariciones

LEMMA AparicionesUno ==
  ASSUME NEW a \in Pids, NEW p
  PROVE  Apariciones(<<a>>, p) = B(a = p)
<1> DEFINE nadie == <<>>
<1>1. <<a>> = Append(nadie, a) /\ nadie \in Seq(Pids)
  OBVIOUS
<1>2. Apariciones(nadie, p) = 0
  BY AparicionesVacia
<1> HIDE DEF nadie
<1>3. Apariciones(Append(nadie, a), p) = Apariciones(nadie, p) + B(a = p)
  BY <1>1, AparicionesAppend
<1> DEFINE b == B(a = p)
<1>4. b \in Nat
  BY DEF B
<1> HIDE DEF b
<1>5. Apariciones(Append(nadie, a), p) = b
  BY <1>2, <1>3, <1>4 DEF b
<1> QED BY <1>1, <1>5 DEF b

LEMMA AparicionesDos ==
  ASSUME NEW a \in Pids, NEW b \in Pids, NEW p
  PROVE  Apariciones(<<a, b>>, p) = B(a = p) + B(b = p)
<1> DEFINE uno == <<a>>
<1>1. <<a, b>> = Append(uno, b) /\ uno \in Seq(Pids)
  OBVIOUS
<1>2. Apariciones(uno, p) = B(a = p)
  BY AparicionesUno
<1> HIDE DEF uno
<1>3. Apariciones(Append(uno, b), p) = Apariciones(uno, p) + B(b = p)
  BY <1>1, AparicionesAppend
<1> QED BY <1>1, <1>2, <1>3

\* The same over the queues of all the resources, or of all the files.
Colas(S) == [S -> Seq(Pids)]

LEMMA EnColasNat ==
  ASSUME NEW S, IsFiniteSet(S), NEW colas, colas \in Colas(S), NEW p
  PROVE  EnColas(colas, S, p) \in Nat
<1> DEFINE v == [x \in S |-> Apariciones(colas[x], p)]
<1>1. v \in [S -> Nat]
  BY AparicionesNat DEF Colas
<1> HIDE DEF v
<1>2. SumFunction(v) \in Nat
  BY <1>1, SumaFuncion
<1> QED BY <1>2 DEF v, EnColas

\* Two families of queues that differ in the queue of x at most.
SoloEn(x, S, colas, otras) == \A y \in S : y = x \/ otras[y] = colas[y]
Encola(x, a, colas, otras) == otras = [colas EXCEPT ![x] = Append(@, a)]
Saca(x, colas, otras) == otras = [colas EXCEPT ![x] = Tail(@)]

LEMMA EnColasCambiar ==
  ASSUME NEW S, IsFiniteSet(S), NEW x \in S, NEW p, NEW d \in Int,
         NEW colas, colas \in Colas(S), NEW otras, otras \in Colas(S),
         SoloEn(x, S, colas, otras),
         Apariciones(otras[x], p) = Apariciones(colas[x], p) + d
  PROVE  EnColas(otras, S, p) = EnColas(colas, S, p) + d
<1> DEFINE v == [y \in S |-> Apariciones(colas[y], p)]
           w == [y \in S |-> Apariciones(otras[y], p)]
           sv == SumFunction(v)
           sw == SumFunction(w)
           vx == v[x]
           wx == w[x]
<1>1. v \in [S -> Int] /\ w \in [S -> Int]
  BY AparicionesNat DEF Colas
<1>2. \A y \in S \ {x} : w[y] = v[y]
  BY DEF SoloEn
<1>3. w[x] = v[x] + d
  OBVIOUS
<1> HIDE DEF v, w
<1>4. SumFunction(w) = SumFunction(v) + (w[x] - v[x])
  BY <1>1, <1>2, SumaCambiar
<1>5. SumFunction(v) \in Int /\ SumFunction(w) \in Int
  BY <1>1, SumaEntera DEF SumFunction
<1>6. sv \in Int /\ vx \in Int /\ wx \in Int /\ wx = vx + d /\ sw = sv + (wx - vx)
  BY <1>1, <1>3, <1>4, <1>5
<1> HIDE DEF sv, sw, vx, wx
<1>7. sw = sv + d
  BY <1>6
<1> QED BY <1>7 DEF v, w, sv, sw, EnColas

LEMMA EnColasEncolar ==
  ASSUME NEW S, IsFiniteSet(S), NEW x \in S, NEW a \in Pids, NEW p,
         NEW colas, colas \in Colas(S), NEW otras, Encola(x, a, colas, otras)
  PROVE  EnColas(otras, S, p) = EnColas(colas, S, p) + B(a = p)
<1> DEFINE q == colas[x]
           d == B(a = p)
<1>1. q \in Seq(Pids) /\ d \in Int
  BY DEF B, Colas
<1>2. otras[x] = Append(q, a)
  BY DEF Encola, Colas
<1>3. otras \in Colas(S) /\ SoloEn(x, S, colas, otras)
  BY DEF Colas, Encola, SoloEn
<1> HIDE DEF q
<1>4. Apariciones(otras[x], p) = Apariciones(q, p) + d
  BY <1>1, <1>2, AparicionesAppend
<1> HIDE DEF d
<1>5. EnColas(otras, S, p) = EnColas(colas, S, p) + d
  BY <1>1, <1>3, <1>4, EnColasCambiar DEF q
<1> QED BY <1>5 DEF d

LEMMA EnColasSacar ==
  ASSUME NEW S, IsFiniteSet(S), NEW x \in S, NEW p,
         NEW colas, colas \in Colas(S), colas[x] # <<>>, NEW otras, Saca(x, colas, otras)
  PROVE  /\ EnColas(otras, S, p) \in Nat
         /\ EnColas(colas, S, p) = EnColas(otras, S, p) + B(Head(colas[x]) = p)
<1> DEFINE q == colas[x]
           d == B(Head(q) = p)
<1>1. q \in Seq(Pids) /\ q # <<>> /\ d \in Int
  BY DEF B, Colas
<1>2. otras[x] = Tail(q)
  BY DEF Saca, Colas
<1>3. otras \in Colas(S) /\ SoloEn(x, S, otras, colas)
  BY <1>1 DEF Colas, Saca, SoloEn
<1> HIDE DEF q
<1>4. Apariciones(q, p) = Apariciones(otras[x], p) + d
  BY <1>1, <1>2, AparicionesTail
<1> HIDE DEF d
<1>5. EnColas(colas, S, p) = EnColas(otras, S, p) + d
  BY <1>1, <1>3, <1>4, EnColasCambiar DEF q
<1> QED BY <1>3, <1>5, EnColasNat DEF d, q

-----------------------------------------------------------------------------
(* Parking and waking up. *)

\* The queues of the resources and of the files, as families.
LEMMA Familias ==
  ASSUME TypeOK
  PROVE  /\ IsFiniteSet(Recursos) /\ colasRecursos \in Colas(Recursos)
         /\ IsFiniteSet(Archivos) /\ colasArchivos \in Colas(Archivos)
BY KernelAssumption DEF TypeOK, TipoRecursos, TipoArchivos, Cola, Colas

LEMMA ParadoNat ==
  ASSUME TypeOK, NEW q \in Pids
  PROVE  /\ B(q \in bloqueados) \in Nat /\ B(pcbFS = q) \in Nat
         /\ EnColas(colasRecursos, Recursos, q) \in Nat
         /\ EnColas(colasArchivos, Archivos, q) \in Nat
         /\ Parado(q) \in Nat
<1> DEFINE b == B(q \in bloqueados)
           f == B(pcbFS = q)
           r == EnColas(colasRecursos, Recursos, q)
           a == EnColas(colasArchivos, Archivos, q)
<1>1. b \in Nat /\ f \in Nat
  BY DEF B
<1>2. r \in Nat /\ a \in Nat
  BY Familias, EnColasNat
<1> HIDE DEF b, f, r, a
<1>3. b + f + r + a \in Nat
  BY <1>1, <1>2
<1> QED BY <1>1, <1>2, <1>3 DEF b, f, r, a, Parado

LEMMA ParadoNatPrima == TypeOK' => \A x \in Pids : Parado(x)' \in Nat
<1> DEFINE Naturales == \A x \in Pids : Parado(x) \in Nat
<1>1. TypeOK => Naturales
  BY ParadoNat
<1> HIDE DEF Naturales
<1>2. TypeOK' => Naturales'
  BY <1>1, PTL
<1> QED BY <1>2 DEF Naturales

\* Only one of the four places of a blocked process changes in a step.
LEMMA ParadoCambia ==
  ASSUME TypeOK, TypeOK', NEW q \in Pids, NEW d \in Int,
         \/ /\ UNCHANGED <<pcbFS, colasRecursos, colasArchivos>>
            /\ B(q \in bloqueados') = B(q \in bloqueados) + d
         \/ /\ UNCHANGED <<bloqueados, colasRecursos, colasArchivos>>
            /\ B(pcbFS' = q) = B(pcbFS = q) + d
         \/ /\ UNCHANGED <<bloqueados, pcbFS, colasArchivos>>
            /\ EnColas(colasRecursos', Recursos, q) = EnColas(colasRecursos, Recursos, q) + d
         \/ /\ UNCHANGED <<bloqueados, pcbFS, colasRecursos>>
            /\ EnColas(colasArchivos', Archivos, q) = EnColas(colasArchivos, Archivos, q) + d
  PROVE  Parado(q)' = Parado(q) + d
<1> DEFINE b == B(q \in bloqueados)
           f == B(pcbFS = q)
           r == EnColas(colasRecursos, Recursos, q)
           a == EnColas(colasArchivos, Archivos, q)
           b1 == B(q \in bloqueados')
           f1 == B(pcbFS' = q)
           r1 == EnColas(colasRecursos', Recursos, q)
           a1 == EnColas(colasArchivos', Archivos, q)
<1>1. Parado(q) = b + f + r + a /\ Parado(q)' = b1 + f1 + r1 + a1
  BY DEF Parado
<1>2. b \in Int /\ f \in Int /\ r \in Int /\ a \in Int
  BY ParadoNat
<1>3. \/ b1 = b + d /\ f1 = f /\ r1 = r /\ a1 = a
      \/ b1 = b /\ f1 = f + d /\ r1 = r /\ a1 = a
      \/ b1 = b /\ f1 = f /\ r1 = r + d /\ a1 = a
      \/ b1 = b /\ f1 = f /\ r1 = r /\ a1 = a + d
  OBVIOUS
<1> HIDE DEF b, f, r, a, b1, f1, r1, a1
<1> QED BY <1>1, <1>2, <1>3

-----------------------------------------------------------------------------
(* How a handler of the short term scheduler ends. *)

\* A process nothing happens to stays where it was.
LEMMA Quieto ==
  ASSUME NEW q \in Pids, Sitio(q),
         estado'[q] = estado[q],
         consola' = consola, new_queue' = new_queue, ready_queue' = ready_queue,
         q \in exit_list' <=> q \in exit_list
  PROVE  Anotado(q)'
BY DEF Sitio, Anotado

\* With one process on the CPU and nobody in the scheduler's hands.
LEMMA EnCPU ==
  ASSUME TypeOK, Manos, Sitios, NEW p \in Pids, NEW q \in Pids,
         sts \in {"cpu", "semFS_comp", "compactando"}, pcb_a_ejecutar = p
  PROVE  /\ enMano = <<>> /\ Apariciones(enMano, q) = 0
         /\ estado[p] = "EXEC" /\ Parado(p) = 0
         /\ q # p => Parado(q) = B(estado[q] = "BLOCK") /\ estado[q] # "EXEC"
<1>1. enMano = <<>> /\ Apariciones(enMano, q) = 0 /\ Apariciones(enMano, p) = 0
  BY AparicionesVacia DEF Manos
<1>2. Retenido(p) /\ Retenido(q) /\ Parado(p) \in Nat /\ Parado(q) \in Nat
  BY ParadoNat DEF Sitios, Sitio
<1>3. estado[p] = "EXEC"
  BY <1>2 DEF Retenido
<1>4. Parado(p) = 0
  BY <1>1, <1>2, <1>3 DEF Retenido, B
<1>5. ASSUME q # p PROVE Parado(q) = B(estado[q] = "BLOCK") /\ estado[q] # "EXEC"
  <2>1. estado[q] # "EXEC"
    BY <1>1, <1>2, <1>5 DEF Retenido
  <2> QED BY <1>1, <1>2, <1>5, <2>1 DEF Retenido, B
<1> QED BY <1>1, <1>3, <1>4, <1>5

LEMMA SitioDesalojar ==
  ASSUME TypeOK, TypeOK', Manos, Sitios, NEW p \in Pids, NEW q \in Pids,
         sts = "cpu", pcb_a_ejecutar = p, Desalojar(<<p>>),
         UNCHANGED <<consola, new_queue>>, Parado(q)' = Parado(q)
  PROVE  Sitio(q)'
<1> USE DEF Desalojar, vListos, vFin
<1>1. Anotado(q)'
  BY Quieto DEF Sitios
<1>2. Apariciones(enMano', q) = B(p = q) /\ pcb_a_ejecutar' # q /\ sts' # "semFS_rw"
  BY AparicionesUno DEF NULL, Pids
<1>3. /\ estado[p] = "EXEC" /\ Parado(p) = 0 /\ estado' = estado
      /\ q # p => Parado(q) = B(estado[q] = "BLOCK") /\ estado[q] # "EXEC"
  BY EnCPU
<1>4. Retenido(q)'
  <2>1. CASE q = p
    <3>1. Apariciones(enMano', q) = 1 /\ Parado(q)' = 0 /\ estado'[q] = "EXEC"
      BY <1>2, <1>3, <2>1 DEF B
    <3> QED BY <1>2, <3>1 DEF Retenido, B
  <2>2. CASE q # p
    <3>1. /\ Apariciones(enMano', q) = 0 /\ Parado(q)' = B(estado'[q] = "BLOCK")
          /\ estado'[q] # "EXEC"
      BY <1>2, <1>3, <2>2 DEF B
    <3> QED BY <1>2, <3>1 DEF Retenido, B
  <2> QED BY <2>1, <2>2
<1> QED BY <1>1, <1>4 DEF Sitio

LEMMA SitioDesalojarDos ==
  ASSUME TypeOK, TypeOK', Manos, Sitios, NEW p \in Pids, NEW w \in Pids, NEW q \in Pids,
         sts = "cpu", pcb_a_ejecutar = p, Desalojar(<<w, p>>),
         UNCHANGED <<consola, new_queue>>,
         \A x \in Pids : Parado(x) = Parado(x)' + B(w = x)
  PROVE  Sitio(q)'
<1> USE DEF Desalojar, vListos, vFin
<1>1. Anotado(q)'
  BY Quieto DEF Sitios
<1>2. /\ Apariciones(enMano', q) = B(w = q) + B(p = q)
      /\ pcb_a_ejecutar' # q /\ sts' # "semFS_rw"
  BY AparicionesDos DEF NULL, Pids
<1>3. /\ estado[p] = "EXEC" /\ Parado(p) = 0 /\ estado' = estado
      /\ q # p => Parado(q) = B(estado[q] = "BLOCK") /\ estado[q] # "EXEC"
  BY EnCPU
<1>4. Parado(q)' \in Nat /\ Parado(p)' \in Nat /\ Parado(q) = Parado(q)' + B(w = q)
      /\ Parado(p) = Parado(p)' + B(w = p)
  <2>1. \A x \in Pids : Parado(x)' \in Nat
    BY ParadoNatPrima
  <2> QED BY <2>1
<1>5. w # p
  BY <1>3, <1>4 DEF B
<1>6. Retenido(q)'
  <2>1. CASE q = p
    <3>1. Apariciones(enMano', q) = 1 /\ Parado(q)' = 0 /\ estado'[q] = "EXEC"
      BY <1>2, <1>3, <1>4, <1>5, <2>1 DEF B
    <3> QED BY <1>2, <3>1 DEF Retenido, B
  <2>2. CASE q = w
    <3>1. Parado(q) = 1 /\ Parado(q)' = 0 /\ estado'[q] = "BLOCK"
      BY <1>3, <1>4, <1>5, <2>2 DEF B
    <3>2. Apariciones(enMano', q) = 1
      BY <1>2, <1>5, <2>2 DEF B
    <3> QED BY <1>2, <3>1, <3>2 DEF Retenido, B
  <2>3. CASE q # p /\ q # w
    <3>1. /\ Apariciones(enMano', q) = 0 /\ Parado(q)' = B(estado'[q] = "BLOCK")
          /\ estado'[q] # "EXEC"
      BY <1>2, <1>3, <1>4, <2>3 DEF B
    <3> QED BY <1>2, <3>1 DEF Retenido, B
  <2> QED BY <2>1, <2>2, <2>3
<1> QED BY <1>1, <1>6 DEF Sitio

LEMMA SitioBloquear ==
  ASSUME TypeOK, TypeOK', Manos, Sitios, NEW p \in Pids, NEW q \in Pids,
         sts = "cpu", pcb_a_ejecutar = p, Bloquear(p),
         UNCHANGED <<consola, new_queue>>, Parado(q)' = Parado(q) + B(p = q)
  PROVE  Sitio(q)'
<1> USE DEF Bloquear, vListos
<1>1. Apariciones(enMano', q) = 0 /\ pcb_a_ejecutar' # q /\ sts' # "semFS_rw"
  BY AparicionesVacia DEF NULL, Pids
<1>2. /\ estado[p] = "EXEC" /\ Parado(p) = 0
      /\ q # p => Parado(q) = B(estado[q] = "BLOCK") /\ estado[q] # "EXEC"
  BY EnCPU
<1>3. estado'[q] = IF q = p THEN "BLOCK" ELSE estado[q]
  BY DEF TypeOK, TipoPlanificacion
<1>4. Parado(q)' = B(estado'[q] = "BLOCK") /\ estado'[q] # "EXEC"
  BY <1>2, <1>3 DEF B
<1>5. Retenido(q)'
  BY <1>1, <1>4 DEF Retenido, B
<1>6. Anotado(q)'
  BY <1>2, <1>3 DEF Sitios, Sitio, Anotado
<1> QED BY <1>5, <1>6 DEF Sitio

LEMMA SitioSeguir ==
  ASSUME TypeOK, Manos, Sitios, NEW p \in Pids, NEW q \in Pids,
         sts = "cpu", pcb_a_ejecutar = p, sts' \in {"cpu", "semFS_comp"},
         UNCHANGED <<pcb_a_ejecutar, enMano, ready_queue, estado, exit_list>>,
         UNCHANGED <<consola, new_queue>>, Parado(q)' = Parado(q)
  PROVE  Sitio(q)'
BY Quieto DEF Sitios, Sitio, Retenido

LEMMA SitioDoExit ==
  ASSUME TypeOK, TypeOK', Manos, Sitios, NEW p \in Pids, NEW q \in Pids,
         sts \in {"cpu", "compactando"}, pcb_a_ejecutar = p, doExit(p),
         UNCHANGED <<consola, new_queue>>, Parado(q)' = Parado(q)
  PROVE  Sitio(q)'
<1> USE DEF doExit, vListos
<1>1. Apariciones(enMano', q) = 0 /\ pcb_a_ejecutar' # q /\ sts' # "semFS_rw"
  BY AparicionesVacia DEF NULL, Pids
<1>2. /\ estado[p] = "EXEC" /\ Parado(p) = 0
      /\ q # p => Parado(q) = B(estado[q] = "BLOCK") /\ estado[q] # "EXEC"
  BY EnCPU
<1>3. /\ estado'[q] = IF q = p THEN "EXIT" ELSE estado[q]
      /\ q \in exit_list' <=> q = p \/ q \in exit_list
  BY DEF TypeOK, TipoPlanificacion
<1>4. Parado(q)' = B(estado'[q] = "BLOCK") /\ estado'[q] # "EXEC"
  BY <1>2, <1>3 DEF B
<1>5. Retenido(q)'
  BY <1>1, <1>4 DEF Retenido, B
<1>6. Anotado(q)'
  BY <1>2, <1>3 DEF Sitios, Sitio, Anotado
<1> QED BY <1>5, <1>6 DEF Sitio

\* F_READ and F_WRITE: the PCB passes from the CPU to the scheduler's hands.
LEMMA SitioEsperarFS ==
  ASSUME TypeOK, Manos, Sitios, NEW p \in Pids, NEW q \in Pids, do_f_read_write(p)
  PROVE  Sitio(q)'
<1> USE DEF do_f_read_write, recibir_pcb_de_CPU, vConsola, vListos, vFin, vBloqueo, vFS,
            vRecursos, vArchivos
<1>1. Anotado(q)'
  BY Quieto DEF Sitios
<1>2. Parado(q)' = Parado(q)
  BY DEF Parado
<1>3. Apariciones(enMano', q) = B(p = q) /\ pcb_a_ejecutar' # q
  BY AparicionesUno DEF NULL, Pids
<1>4. /\ estado[p] = "EXEC" /\ Parado(p) = 0 /\ estado' = estado
      /\ q # p => Parado(q) = B(estado[q] = "BLOCK") /\ estado[q] # "EXEC"
  BY EnCPU
<1>5. Retenido(q)'
  <2>1. CASE q = p
    <3>1. Apariciones(enMano', q) = 1 /\ Parado(q)' = 0 /\ estado'[q] = "EXEC"
      BY <1>2, <1>3, <1>4, <2>1 DEF B
    <3> QED BY <1>3, <3>1 DEF Retenido, B
  <2>2. CASE q # p
    <3>1. /\ Apariciones(enMano', q) = 0 /\ Parado(q)' = B(estado'[q] = "BLOCK")
          /\ estado'[q] # "EXEC"
      BY <1>2, <1>3, <1>4, <2>2 DEF B
    <3> QED BY <1>3, <3>1 DEF Retenido, B
  <2> QED BY <2>1, <2>2
<1> QED BY <1>1, <1>5 DEF Sitio

-----------------------------------------------------------------------------
(* The handlers of analizarMotivo, one by one. *)

\* A process is taken out of the queue of a resource: it is the one that was
\* first, and everybody else stays parked.
LEMMA ParadoSacaRecurso ==
  ASSUME TypeOK, TypeOK', NEW x \in Pids, NEW r \in Recursos, colasRecursos[r] # <<>>,
         Saca(r, colasRecursos, colasRecursos'),
         UNCHANGED <<bloqueados, pcbFS, colasArchivos>>
  PROVE  Parado(x) = Parado(x)' + B(Head(colasRecursos[r]) = x)
<1> DEFINE d == B(Head(colasRecursos[r]) = x)
           r0 == EnColas(colasRecursos, Recursos, x)
           r1 == EnColas(colasRecursos', Recursos, x)
<1>1. d \in Int /\ 0 - d \in Int
  BY DEF B
<1>2. r0 = r1 + d /\ r0 \in Int /\ r1 \in Int
  BY Familias, EnColasSacar, EnColasNat
<1> HIDE DEF d, r0, r1
<1>3. r1 = r0 + (0 - d)
  BY <1>1, <1>2
<1>4. Parado(x)' = Parado(x) + (0 - d)
  BY <1>1, <1>3, ParadoCambia DEF r0, r1
<1>5. Parado(x) \in Int /\ Parado(x)' \in Int
  BY ParadoNat, ParadoNatPrima
<1>6. Parado(x) = Parado(x)' + d
  BY <1>1, <1>4, <1>5
<1> QED BY <1>6 DEF d

\* The same for the queue of a file.
LEMMA ParadoSacaArchivo ==
  ASSUME TypeOK, TypeOK', NEW x \in Pids, NEW f \in Archivos, colasArchivos[f] # <<>>,
         Saca(f, colasArchivos, colasArchivos'),
         UNCHANGED <<bloqueados, pcbFS, colasRecursos>>
  PROVE  Parado(x) = Parado(x)' + B(Head(colasArchivos[f]) = x)
<1> DEFINE d == B(Head(colasArchivos[f]) = x)
           a0 == EnColas(colasArchivos, Archivos, x)
           a1 == EnColas(colasArchivos', Archivos, x)
<1>1. d \in Int /\ 0 - d \in Int
  BY DEF B
<1>2. a0 = a1 + d /\ a0 \in Int /\ a1 \in Int
  BY Familias, EnColasSacar, EnColasNat
<1> HIDE DEF d, a0, a1
<1>3. a1 = a0 + (0 - d)
  BY <1>1, <1>2
<1>4. Parado(x)' = Parado(x) + (0 - d)
  BY <1>1, <1>3, ParadoCambia DEF a0, a1
<1>5. Parado(x) \in Int /\ Parado(x)' \in Int
  BY ParadoNat, ParadoNatPrima
<1>6. Parado(x) = Parado(x)' + d
  BY <1>1, <1>4, <1>5
<1> QED BY <1>6 DEF d

LEMMA SitioWait ==
  ASSUME TypeOK, TypeOK', Manos, Sitios, NEW p \in Pids, NEW q \in Pids, doWait(p)
  PROVE  Sitio(q)'
<1> DEFINE r == Arg(p)
<1>1. sts = "cpu" /\ pcb_a_ejecutar = p /\ r \in Recursos
      /\ UNCHANGED <<consola, new_queue, bloqueados, pcbFS, colasArchivos>>
  BY DEF doWait, recibir_pcb_de_CPU, vConsola, vBloqueo, vFS, vArchivos
<1>2. CASE recursos_disponibles[r] > 0
  <2>1. Desalojar(<<p>>) /\ UNCHANGED colasRecursos
    BY <1>2 DEF doWait
  <2>2. Parado(q)' = Parado(q)
    BY <1>1, <2>1 DEF Parado
  <2> QED BY <1>1, <2>1, <2>2, SitioDesalojar
<1>3. CASE ~(recursos_disponibles[r] > 0)
  <2>1. Encola(r, p, colasRecursos, colasRecursos') /\ Bloquear(p)
    BY <1>3 DEF doWait, Encola
  <2> DEFINE d == B(p = q)
  <2>2. d \in Int
    BY DEF B
  <2> HIDE DEF r
  <2>3. EnColas(colasRecursos', Recursos, q) = EnColas(colasRecursos, Recursos, q) + d
    BY <1>1, <2>1, Familias, EnColasEncolar
  <2> HIDE DEF d
  <2>4. Parado(q)' = Parado(q) + d
    BY <1>1, <2>2, <2>3, ParadoCambia
  <2> QED BY <1>1, <2>1, <2>4, SitioBloquear DEF d
<1> QED BY <1>2, <1>3

LEMMA SitioSignal ==
  ASSUME TypeOK, TypeOK', Manos, Sitios, NEW p \in Pids, NEW q \in Pids, doSignal(p)
  PROVE  Sitio(q)'
<1> DEFINE r == Arg(p)
<1>1. sts = "cpu" /\ pcb_a_ejecutar = p /\ r \in Recursos
      /\ UNCHANGED <<consola, new_queue, bloqueados, pcbFS, colasArchivos>>
  BY DEF doSignal, recibir_pcb_de_CPU, vConsola, vBloqueo, vFS, vArchivos
<1>2. CASE colasRecursos[r] = <<>>
  <2>1. Desalojar(<<p>>) /\ UNCHANGED colasRecursos
    BY <1>2 DEF doSignal
  <2>2. Parado(q)' = Parado(q)
    BY <1>1, <2>1 DEF Parado
  <2> QED BY <1>1, <2>1, <2>2, SitioDesalojar
<1>3. CASE colasRecursos[r] # <<>>
  <2> DEFINE w == Head(colasRecursos[r])
  <2>1. Saca(r, colasRecursos, colasRecursos') /\ Desalojar(<<w, p>>)
    BY <1>3 DEF doSignal, Saca
  <2>2. w \in Pids
    BY <1>1, <1>3, Familias DEF Colas
  <2> HIDE DEF r
  <2>3. \A x \in Pids : Parado(x) = Parado(x)' + B(w = x)
    BY <1>1, <1>3, <2>1, ParadoSacaRecurso
  <2> HIDE DEF w
  <2> QED BY <1>1, <2>1, <2>2, <2>3, SitioDesalojarDos
<1> QED BY <1>2, <1>3

LEMMA SitioFOpen ==
  ASSUME TypeOK, TypeOK', Manos, Sitios, NEW p \in Pids, NEW q \in Pids, do_f_open(p)
  PROVE  Sitio(q)'
<1> DEFINE f == Arg(p)
<1>1. sts = "cpu" /\ pcb_a_ejecutar = p /\ f \in Archivos
      /\ UNCHANGED <<consola, new_queue, bloqueados, pcbFS, colasRecursos>>
  BY InstruccionBienFormada
     DEF do_f_open, recibir_pcb_de_CPU, vConsola, vBloqueo, vFS, vRecursos, OpsDeArchivo
<1>2. CASE f \notin tabla_archivos_globales
  <2>1. Seguir /\ UNCHANGED colasArchivos
    BY <1>2 DEF do_f_open
  <2>2. Parado(q)' = Parado(q)
    BY <1>1, <2>1 DEF Parado
  <2> QED BY <1>1, <2>1, <2>2, SitioSeguir DEF Seguir, vSts, vListos, vFin
<1>3. CASE f \in tabla_archivos_globales
  <2>1. Encola(f, p, colasArchivos, colasArchivos') /\ Bloquear(p)
    BY <1>3 DEF do_f_open, Encola
  <2> DEFINE d == B(p = q)
  <2>2. d \in Int
    BY DEF B
  <2> HIDE DEF f
  <2>3. EnColas(colasArchivos', Archivos, q) = EnColas(colasArchivos, Archivos, q) + d
    BY <1>1, <2>1, Familias, EnColasEncolar
  <2> HIDE DEF d
  <2>4. Parado(q)' = Parado(q) + d
    BY <1>1, <2>2, <2>3, ParadoCambia
  <2> QED BY <1>1, <2>1, <2>4, SitioBloquear DEF d
<1> QED BY <1>2, <1>3

LEMMA SitioFClose ==
  ASSUME TypeOK, TypeOK', Manos, Sitios, NEW p \in Pids, NEW q \in Pids, do_f_close(p)
  PROVE  Sitio(q)'
<1> DEFINE f == Arg(p)
<1>1. sts = "cpu" /\ pcb_a_ejecutar = p /\ f \in Archivos
      /\ UNCHANGED <<consola, new_queue, bloqueados, pcbFS, colasRecursos>>
  BY InstruccionBienFormada
     DEF do_f_close, recibir_pcb_de_CPU, vConsola, vBloqueo, vFS, vRecursos, OpsDeArchivo
<1>2. CASE colasArchivos[f] = <<>>
  <2>1. Desalojar(<<p>>) /\ UNCHANGED colasArchivos
    BY <1>2 DEF do_f_close
  <2>2. Parado(q)' = Parado(q)
    BY <1>1, <2>1 DEF Parado
  <2> QED BY <1>1, <2>1, <2>2, SitioDesalojar
<1>3. CASE colasArchivos[f] # <<>>
  <2> DEFINE w == Head(colasArchivos[f])
  <2>1. Saca(f, colasArchivos, colasArchivos') /\ Desalojar(<<w, p>>)
    BY <1>3 DEF do_f_close, Saca
  <2>2. w \in Pids
    BY <1>1, <1>3, Familias DEF Colas
  <2> HIDE DEF f
  <2>3. \A x \in Pids : Parado(x) = Parado(x)' + B(w = x)
    BY <1>1, <1>3, <2>1, ParadoSacaArchivo
  <2> HIDE DEF w
  <2> QED BY <1>1, <2>1, <2>2, <2>3, SitioDesalojarDos
<1> QED BY <1>2, <1>3

\* I/O and F_TRUNCATE: a detached thread is left to wake the process up.
LEMMA SitioBloquearEnHilo ==
  ASSUME TypeOK, TypeOK', Manos, Sitios, NEW p \in Pids, NEW q \in Pids, NEW ops,
         recibir_pcb_de_CPU(p, ops), BloquearEnHilo(p)
  PROVE  Sitio(q)'
<1>1. /\ sts = "cpu" /\ pcb_a_ejecutar = p /\ Bloquear(p) /\ bloqueados' = bloqueados \cup {p}
      /\ UNCHANGED <<consola, new_queue, pcbFS, colasRecursos, colasArchivos>>
  BY DEF recibir_pcb_de_CPU, BloquearEnHilo, vConsola, vFS, vRecursos, vArchivos
<1> DEFINE d == B(p = q)
<1>2. d \in Int
  BY DEF B
<1>3. p \notin bloqueados
  <2>1. Parado(p) = 0
    BY <1>1, EnCPU
  <2> SUFFICES ASSUME p \in bloqueados PROVE FALSE
    OBVIOUS
  <2> DEFINE b == B(p \in bloqueados)
             g == B(pcbFS = p)
             r == EnColas(colasRecursos, Recursos, p)
             a == EnColas(colasArchivos, Archivos, p)
  <2>2. b = 1 /\ g \in Nat /\ r \in Nat /\ a \in Nat /\ b + g + r + a = 0
    BY <2>1, ParadoNat DEF Parado, B
  <2> HIDE DEF b, g, r, a
  <2> QED BY <2>2
<1>4. B(q \in bloqueados') = B(q \in bloqueados) + d
  BY <1>1, <1>3 DEF B
<1> HIDE DEF d
<1>5. Parado(q)' = Parado(q) + d
  BY <1>1, <1>2, <1>4, ParadoCambia
<1> QED BY <1>1, <1>5, SitioBloquear DEF d

LEMMA SitioCreateSegment ==
  ASSUME TypeOK, TypeOK', Manos, Sitios, NEW p \in Pids, NEW q \in Pids, do_create_segment(p)
  PROVE  Sitio(q)'
<1>1. sts = "cpu" /\ pcb_a_ejecutar = p /\ UNCHANGED <<consola, new_queue, bloqueados, pcbFS>>
  BY DEF do_create_segment, recibir_pcb_de_CPU, vConsola, vBloqueo, vFS
<1>2. PICK resp \in Respuestas :
        CASE resp = "SEGMENTO_CREADO" -> Seguir /\ UNCHANGED <<vRecursos, vArchivos>>
          [] resp = "OUT_OF_MEMORY"   -> doExit(p)
          [] resp = "COMPACTAR"       ->
               /\ sts' = "semFS_comp"
               /\ UNCHANGED <<pcb_a_ejecutar, enMano, vListos, vLts, vFin, vRecursos, vArchivos>>
  BY DEF do_create_segment
<1>3. CASE resp = "SEGMENTO_CREADO"
  <2>1. Seguir /\ UNCHANGED <<colasRecursos, colasArchivos>>
    BY <1>2, <1>3 DEF vRecursos, vArchivos
  <2>2. Parado(q)' = Parado(q)
    BY <1>1, <2>1 DEF Parado
  <2> QED BY <1>1, <2>1, <2>2, SitioSeguir DEF Seguir, vSts, vListos, vFin
<1>4. CASE resp = "OUT_OF_MEMORY"
  <2>1. doExit(p)
    BY <1>2, <1>4
  <2>2. Parado(q)' = Parado(q)
    BY <1>1, <2>1 DEF Parado, doExit
  <2> QED BY <1>1, <2>1, <2>2, SitioDoExit
<1>5. CASE resp = "COMPACTAR"
  <2>1. /\ sts' = "semFS_comp"
        /\ UNCHANGED <<pcb_a_ejecutar, enMano, ready_queue, estado, exit_list,
                       colasRecursos, colasArchivos>>
    BY <1>2, <1>5 DEF vListos, vFin, vRecursos, vArchivos
  <2>2. Parado(q)' = Parado(q)
    BY <1>1, <2>1 DEF Parado
  <2> QED BY <1>1, <2>1, <2>2, SitioSeguir
<1> QED BY <1>2, <1>3, <1>4, <1>5, KernelAssumption

LEMMA SitioMotivo ==
  ASSUME TypeOK, TypeOK', Manos, Sitios, NEW p \in Pids, NEW q \in Pids, analizarMotivo(p)
  PROVE  Sitio(q)'
<1>1. CASE finalizar_proceso(p)
  <2>1. sts = "cpu" /\ pcb_a_ejecutar = p /\ doExit(p)
        /\ UNCHANGED <<consola, new_queue, bloqueados, pcbFS>>
    BY <1>1 DEF finalizar_proceso, recibir_pcb_de_CPU, vConsola, vBloqueo, vFS
  <2>2. Parado(q)' = Parado(q)
    BY <2>1 DEF Parado, doExit
  <2> QED BY <2>1, <2>2, SitioDoExit
<1>2. CASE doYield(p)
  <2>1. sts = "cpu" /\ pcb_a_ejecutar = p /\ Desalojar(<<p>>)
        /\ UNCHANGED <<consola, new_queue, bloqueados, pcbFS, colasRecursos, colasArchivos>>
    BY <1>2 DEF doYield, recibir_pcb_de_CPU, vConsola, vBloqueo, vFS, vRecursos, vArchivos
  <2>2. Parado(q)' = Parado(q)
    BY <2>1 DEF Parado
  <2> QED BY <2>1, <2>2, SitioDesalojar
<1>3. CASE doIO(p) \/ do_f_truncate(p)
  BY <1>3, SitioBloquearEnHilo DEF doIO, do_f_truncate
<1>4. CASE do_f_seek(p) \/ do_delete_segment(p)
  <2>1. sts = "cpu" /\ pcb_a_ejecutar = p /\ Seguir
        /\ UNCHANGED <<consola, new_queue, bloqueados, pcbFS, colasRecursos, colasArchivos>>
    BY <1>4 DEF do_f_seek, do_delete_segment, recibir_pcb_de_CPU, vConsola, vBloqueo, vFS,
                vRecursos, vArchivos
  <2>2. Parado(q)' = Parado(q)
    BY <2>1 DEF Parado
  <2> QED BY <2>1, <2>2, SitioSeguir DEF Seguir, vSts, vListos, vFin
<1> QED BY <1>1, <1>2, <1>3, <1>4, SitioWait, SitioSignal, SitioFOpen, SitioFClose,
           SitioEsperarFS, SitioCreateSegment DEF analizarMotivo

-----------------------------------------------------------------------------
(* The other steps of the short term scheduler. *)

LEMMA SitioDespachar ==
  ASSUME TypeOK, Manos, Sitios, NEW q \in Pids, sts_despachar
  PROVE  Sitio(q)'
<1>1. CASE ready_queue = <<>>
  BY <1>1, Quieto DEF sts_despachar, Caer, Sitios, Sitio, Retenido, Parado, vConsola, vListos,
     vSts, vBloqueo, vFS, vRecursos, vArchivos, vFin
<1>2. CASE ready_queue # <<>>
  <2> DEFINE p == Head(ready_queue)
  <2>1. /\ sts = "saca" /\ sts' = "cpu" /\ pcb_a_ejecutar' = p
        /\ ready_queue' = Tail(ready_queue) /\ estado' = [estado EXCEPT ![p] = "EXEC"]
        /\ UNCHANGED <<consola, new_queue, enMano, bloqueados, pcbFS, colasRecursos,
                       colasArchivos, exit_list>>
    BY <1>2 DEF sts_despachar, vConsola, vBloqueo, vFS, vRecursos, vArchivos
  <2>2. p \in Pids /\ ready_queue \in Seq(Pids) /\ Tail(ready_queue) \in Seq(Pids)
    BY <1>2 DEF TypeOK, TipoPlanificacion, Cola
  <2>3. Parado(q)' = Parado(q)
    BY <2>1 DEF Parado
  <2>4. enMano = <<>> /\ pcb_a_ejecutar = NULL
    BY <2>1 DEF Manos
  <2>5. Apariciones(enMano, q) = 0
    BY <2>4, AparicionesVacia
  <2> DEFINE antes == Apariciones(ready_queue, q)
             despues == Apariciones(ready_queue', q)
  <2>6. antes = despues + B(p = q) /\ antes \in Nat /\ despues \in Nat
    BY <1>2, <2>1, <2>2, AparicionesTail, AparicionesNat
  <2>7. antes = B(estado[q] = "READY") /\ Parado(q) \in Nat
        /\ Parado(q) = B(estado[q] \in {"EXEC", "BLOCK"}) /\ estado[q] # "EXEC"
    <3>1. antes = B(estado[q] = "READY") /\ Retenido(q) /\ Parado(q) \in Nat
      BY ParadoNat DEF Sitios, Sitio, Anotado
    <3>2. pcb_a_ejecutar # q
      BY <2>4 DEF NULL, Pids
    <3> QED BY <2>5, <3>1, <3>2 DEF Retenido, B
  <2>8. estado'[q] = IF q = p THEN "EXEC" ELSE estado[q]
    BY <2>1, <2>2 DEF TypeOK, TipoPlanificacion
  <2> HIDE DEF p, antes, despues
  <2>9. p = q => estado[q] = "READY" /\ despues = 0
    BY <2>6, <2>7 DEF B
  <2>10. p # q => despues = antes
    BY <2>6 DEF B
  <2>11. Anotado(q)'
    <3>1. despues = B(estado'[q] = "READY")
      BY <2>7, <2>8, <2>9, <2>10 DEF B
    <3>2. Anotado(q)
      BY DEF Sitios, Sitio
    <3> QED BY <2>1, <2>8, <2>9, <3>1, <3>2 DEF Anotado, B, despues
  <2>12. Retenido(q)'
    <3>1. Apariciones(enMano', q) = 0
      BY <2>1, <2>5
    <3>2. CASE p = q
      BY <2>1, <2>3, <2>7, <2>8, <2>9, <3>1, <3>2 DEF Retenido, B
    <3>3. CASE p # q
      BY <2>1, <2>3, <2>7, <2>8, <3>1, <3>3 DEF Retenido, B
    <3> QED BY <3>2, <3>3
  <2> QED BY <2>11, <2>12 DEF Sitio
<1> QED BY <1>1, <1>2

\* A step that moves no process.
LEMMA SitioQuieto ==
  ASSUME Sitios, NEW q \in Pids,
         UNCHANGED <<consola, new_queue, ready_queue, enMano, pcb_a_ejecutar, bloqueados,
                     pcbFS, colasRecursos, colasArchivos, estado, exit_list>>,
         sts' = "semFS_rw" => sts = "semFS_rw"
  PROVE  Sitio(q)'
<1>1. Anotado(q)'
  BY Quieto DEF Sitios
<1>2. Parado(q)' = Parado(q)
  BY DEF Parado
<1> QED BY <1>1, <1>2 DEF Sitios, Sitio, Retenido

LEMMA SitioAgregar ==
  ASSUME TypeOK, Control, Manos, Sitios, NEW q \in Pids, sts_agregar
  PROVE  Sitio(q)'
<1> DEFINE p == Head(enMano)
<1>1. /\ sts = "encola" /\ sts' \in {"espera", "encola"} /\ enMano' = Tail(enMano)
      /\ ready_queue' = Append(ready_queue, p) /\ estado' = [estado EXCEPT ![p] = "READY"]
      /\ UNCHANGED <<consola, new_queue, pcb_a_ejecutar, bloqueados, pcbFS, colasRecursos,
                     colasArchivos, exit_list>>
  BY DEF sts_agregar, vConsola, vBloqueo, vFS, vRecursos, vArchivos
<1>2. p \in Pids /\ enMano \in Seq(Pids) /\ enMano # <<>> /\ ready_queue \in Seq(Pids)
      /\ Tail(enMano) \in Seq(Pids)
  BY <1>1 DEF Control, TypeOK, TipoPlanificacion, Cola
<1>3. Parado(q)' = Parado(q) /\ pcb_a_ejecutar # q
  BY <1>1 DEF Parado, Manos, NULL, Pids
<1> DEFINE antes == Apariciones(enMano, q)
           despues == Apariciones(enMano', q)
           l0 == Apariciones(ready_queue, q)
           l1 == Apariciones(ready_queue', q)
           s == Parado(q)
<1>4. antes = despues + B(p = q) /\ l1 = l0 + B(p = q)
  BY <1>1, <1>2, AparicionesTail, AparicionesAppend
<1>5. antes \in Nat /\ despues \in Nat /\ l0 \in Nat /\ s \in Nat
  BY <1>1, <1>2, AparicionesNat, ParadoNat
<1>6. /\ l0 = B(estado[q] = "READY")
      /\ antes + s = B(estado[q] \in {"EXEC", "BLOCK"})
      /\ estado[q] = "EXEC" => antes > 0
  <2>1. Anotado(q) /\ Retenido(q)
    BY DEF Sitios, Sitio
  <2>2. antes + B(pcb_a_ejecutar = q) + s = B(estado[q] \in {"EXEC", "BLOCK"})
    BY <2>1 DEF Retenido
  <2>3. B(pcb_a_ejecutar = q) = 0
    BY <1>3 DEF B
  <2>4. estado[q] = "EXEC" => antes > 0
    BY <1>3, <2>1 DEF Retenido
  <2>5. l0 = B(estado[q] = "READY")
    BY <2>1 DEF Anotado
  <2> HIDE DEF antes, s, l0
  <2> QED BY <1>5, <2>2, <2>3, <2>4, <2>5
<1>7. estado'[q] = IF q = p THEN "READY" ELSE estado[q]
  BY <1>1, <1>2 DEF TypeOK, TipoPlanificacion
<1> HIDE DEF p, antes, despues, l0, l1, s
<1>8. CASE p = q
  <2>1. estado[q] \in {"EXEC", "BLOCK"} /\ despues = 0 /\ s = 0 /\ l0 = 0 /\ l1 = 1
    BY <1>4, <1>5, <1>6, <1>8 DEF B
  <2>2. Anotado(q)'
    <3>1. Anotado(q)
      BY DEF Sitios, Sitio
    <3> QED BY <1>1, <1>7, <1>8, <2>1, <3>1 DEF Anotado, B, l1
  <2>3. Retenido(q)'
    BY <1>1, <1>3, <1>7, <1>8, <2>1 DEF Retenido, B, despues, s
  <2> QED BY <2>2, <2>3 DEF Sitio
<1>9. CASE p # q
  <2>1. despues = antes /\ l1 = l0
    BY <1>4, <1>5, <1>9 DEF B
  <2>2. Anotado(q)'
    <3>1. Anotado(q)
      BY DEF Sitios, Sitio
    <3> QED BY <1>1, <1>7, <1>9, <2>1, <3>1 DEF Anotado, l0, l1
  <2>3. Retenido(q)'
    <3>1. Retenido(q)
      BY DEF Sitios, Sitio
    <3> QED BY <1>1, <1>3, <1>7, <1>9, <2>1, <3>1 DEF Retenido, antes, despues
  <2> QED BY <2>2, <2>3 DEF Sitio
<1> QED BY <1>8, <1>9

\* The file system is free, so its thread holds nobody.
LEMMA SitioPedirFS ==
  ASSUME TypeOK, TypeOK', SemFSExclusiva, Manos, Sitios, NEW q \in Pids, pedir_fs
  PROVE  Sitio(q)'
<1> DEFINE p == Head(enMano)
<1>1. /\ sts = "semFS_rw" /\ sts' = "espera" /\ enMano' = <<>> /\ pcb_a_ejecutar' = NULL
      /\ pcbFS' = p /\ estado' = [estado EXCEPT ![p] = "BLOCK"] /\ semFS > 0
      /\ UNCHANGED <<consola, new_queue, ready_queue, bloqueados, colasRecursos,
                     colasArchivos, exit_list>>
  BY DEF pedir_fs, Bloquear, vConsola, vBloqueo, vListos, vRecursos, vArchivos
<1>2. enMano = <<p>> /\ p \in Pids
  BY <1>1 DEF Manos, TypeOK, TipoPlanificacion, Cola
<1>3. pcbFS = NULL
  <2>1. hiloFS = "libre"
    BY <1>1 DEF SemFSExclusiva, B, TypeOK, TipoHilos
  <2> QED BY <2>1 DEF Manos
<1>4. pcb_a_ejecutar # q /\ pcb_a_ejecutar' # q /\ pcbFS # q
  BY <1>1, <1>3 DEF Manos, NULL, Pids
<1> DEFINE d == B(p = q)
           s == Parado(q)
           t == Parado(q)'
<1>5. d \in Nat /\ s \in Nat /\ t \in Nat
  BY ParadoNat, ParadoNatPrima DEF B
<1>6. t = s + d
  <2>1. B(pcbFS' = q) = B(pcbFS = q) + d
    BY <1>1, <1>4 DEF B
  <2> HIDE DEF d
  <2> QED BY <1>1, <1>5, <2>1, ParadoCambia
<1> HIDE DEF p
<1>7. Apariciones(enMano, q) = d /\ Apariciones(enMano', q) = 0
  BY <1>1, <1>2, AparicionesUno, AparicionesVacia
<1>8. estado[q] = "EXEC" <=> p = q
  <2>1. Retenido(q)
    BY DEF Sitios, Sitio
  <2>2. p = q => d > 0
    BY DEF B
  <2>3. p # q => d = 0
    BY DEF B
  <2> QED BY <1>1, <1>4, <1>7, <2>1, <2>2, <2>3 DEF Retenido
<1>9. d + s = B(estado[q] \in {"EXEC", "BLOCK"})
  <2>1. Retenido(q) /\ B(pcb_a_ejecutar = q) = 0
    BY <1>4 DEF Sitios, Sitio, B
  <2>2. d + 0 + s = B(estado[q] \in {"EXEC", "BLOCK"})
    BY <1>7, <2>1 DEF Retenido
  <2> HIDE DEF d, s
  <2> QED BY <1>5, <2>2
<1>10. estado'[q] = IF q = p THEN "BLOCK" ELSE estado[q]
  BY <1>1, <1>2 DEF TypeOK, TipoPlanificacion
<1>11. t = B(estado'[q] \in {"EXEC", "BLOCK"}) /\ estado'[q] # "EXEC"
  <2>1. d + s = t
    <3> HIDE DEF d, s, t
    <3> QED BY <1>5, <1>6
  <2> HIDE DEF d, s, t
  <2> QED BY <1>8, <1>9, <1>10, <2>1 DEF B
<1>12. Retenido(q)'
  <2>1. t \in Nat /\ B(pcb_a_ejecutar' = q) = 0
    BY <1>4, <1>5 DEF B
  <2> HIDE DEF d, s
  <2>2. Apariciones(enMano', q) + B(pcb_a_ejecutar' = q) + t = t
    <3> HIDE DEF t
    <3> QED BY <1>7, <2>1
  <2> QED BY <1>1, <1>4, <1>11, <2>2 DEF Retenido
<1>13. Anotado(q)'
  <2>1. Anotado(q)
    BY DEF Sitios, Sitio
  <2> QED BY <1>1, <1>8, <1>10, <2>1 DEF Anotado
<1> QED BY <1>12, <1>13 DEF Sitio

LEMMA SitioSts ==
  ASSUME TypeOK, TypeOK', Control, SemFSExclusiva, Manos, Sitios, NEW q \in Pids,
         short_term_scheduler
  PROVE  Sitio(q)'
<1> USE DEF vConsola, vLts, vListos, vSts, vBloqueo, vFS, vRecursos, vArchivos, vFin
<1>1. CASE sts_esperar
  BY <1>1, SitioQuieto DEF sts_esperar
<1>2. CASE pedir_compactacion
  BY <1>2, SitioQuieto DEF pedir_compactacion
<1>3. CASE fin_compactacion
  <2>1. PICK resp \in RespuestasTrasCompactar :
          IF resp = "OUT_OF_MEMORY" THEN doExit(pcb_a_ejecutar)
          ELSE /\ sts' = "cpu"
               /\ UNCHANGED <<pcb_a_ejecutar, enMano, vListos, vLts, vFin, vRecursos, vArchivos>>
    BY <1>3 DEF fin_compactacion
  <2>2. /\ sts = "compactando" /\ pcb_a_ejecutar \in Pids
        /\ UNCHANGED <<consola, new_queue, bloqueados, pcbFS>>
    BY <1>3 DEF fin_compactacion, Control
  <2>3. CASE resp = "OUT_OF_MEMORY"
    <3>1. doExit(pcb_a_ejecutar)
      BY <2>1, <2>3
    <3>2. Parado(q)' = Parado(q)
      BY <2>2, <3>1 DEF Parado, doExit
    <3> QED BY <2>2, <3>1, <3>2, SitioDoExit
  <2>4. CASE resp # "OUT_OF_MEMORY"
    BY <2>1, <2>2, <2>4, SitioQuieto
  <2> QED BY <2>3, <2>4
<1> QED BY <1>1, <1>2, <1>3, SitioMotivo, SitioDespachar, SitioAgregar, SitioPedirFS
        DEF short_term_scheduler

-----------------------------------------------------------------------------
(* The consoles, the long term scheduler and the detached threads. *)

\* What the scheduler holds does not change, and a process it does not hold
\* may only move between the states it does not hold either.
LEMMA RetenidoQuieto ==
  ASSUME NEW q \in Pids, Retenido(q),
         UNCHANGED <<sts, enMano, pcb_a_ejecutar, bloqueados, pcbFS, colasRecursos,
                     colasArchivos>>,
         estado'[q] = estado[q] \/ {estado[q], estado'[q]} \subseteq {"SIN_CREAR", "NEW", "READY"}
  PROVE  Retenido(q)'
<1>1. Parado(q)' = Parado(q)
  BY DEF Parado
<1>2. /\ B(estado'[q] \in {"EXEC", "BLOCK"}) = B(estado[q] \in {"EXEC", "BLOCK"})
      /\ estado'[q] = "EXEC" <=> estado[q] = "EXEC"
  BY DEF B
<1> QED BY <1>1, <1>2 DEF Retenido

LEMMA SitioConsola ==
  ASSUME TypeOK, SinNumerar, Sitios, NEW q \in Pids,
         crear_pcb \/ \E p \in Pids : Consola(p)
  PROVE  Sitio(q)'
<1> USE DEF vConsola, vLts, vListos, vSts, vBloqueo, vFS, vRecursos, vArchivos, vFin
<1>0. Anotado(q) /\ Retenido(q)
  BY DEF Sitios, Sitio
<1>1. CASE crear_pcb
  <2>1. /\ proximo_pid \in Pids /\ consola' = [consola EXCEPT ![proximo_pid] = "creado"]
        /\ UNCHANGED <<new_queue, ready_queue, estado, exit_list>>
    BY <1>1, KernelAssumption DEF crear_pcb, TypeOK, TipoConsola, Pids
  <2>2. consola[proximo_pid] = "sin_conectar"
    BY <2>1 DEF SinNumerar, Pids
  <2>3. consola'[q] \in {"sin_conectar", "creado"} <=> consola[q] \in {"sin_conectar", "creado"}
    BY <2>1, <2>2 DEF TypeOK, TipoConsola
  <2>4. Anotado(q)'
    BY <1>0, <2>1, <2>3 DEF Anotado
  <2>5. Retenido(q)'
    BY <1>0, <1>1, RetenidoQuieto DEF crear_pcb
  <2> QED BY <2>4, <2>5 DEF Sitio
<1>2. ASSUME NEW p \in Pids, agregar_pcb_cola_nuevos(p) PROVE Sitio(q)'
  <2>1. /\ consola[p] = "creado" /\ consola' = [consola EXCEPT ![p] = "encolado"]
        /\ new_queue' = Append(new_queue, p) /\ estado' = [estado EXCEPT ![p] = "NEW"]
        /\ UNCHANGED <<ready_queue, exit_list>>
    BY <1>2 DEF agregar_pcb_cola_nuevos
  <2>2. estado[p] = "SIN_CREAR"
    BY <2>1 DEF Sitios, Sitio, Anotado
  <2>3. /\ estado'[q] = IF q = p THEN "NEW" ELSE estado[q]
        /\ consola'[q] = IF q = p THEN "encolado" ELSE consola[q]
    BY <2>1 DEF TypeOK, TipoConsola, TipoPlanificacion
  <2> DEFINE antes == Apariciones(new_queue, q)
  <2>4. antes \in Nat /\ Apariciones(new_queue', q) = antes + B(p = q)
    BY <2>1, AparicionesAppend, AparicionesNat DEF TypeOK, TipoConsola, Cola
  <2>5. antes = B(estado[q] = "NEW")
    BY <1>0 DEF Anotado
  <2> HIDE DEF antes
  <2>6. Apariciones(new_queue', q) = B(estado'[q] = "NEW")
    BY <2>2, <2>3, <2>4, <2>5 DEF B
  <2>7. Anotado(q)'
    BY <1>0, <2>1, <2>2, <2>3, <2>6 DEF Anotado
  <2>8. Retenido(q)'
    <3>1. estado'[q] = estado[q]
          \/ {estado[q], estado'[q]} \subseteq {"SIN_CREAR", "NEW", "READY"}
      BY <2>2, <2>3
    <3> QED BY <1>0, <1>2, <3>1, RetenidoQuieto DEF agregar_pcb_cola_nuevos
  <2> QED BY <2>7, <2>8 DEF Sitio
<1>3. ASSUME NEW p \in Pids, publicar_nuevo(p) PROVE Sitio(q)'
  <2>1. /\ consola[p] = "encolado" /\ consola' = [consola EXCEPT ![p] = "fin"]
        /\ UNCHANGED <<new_queue, ready_queue, estado, exit_list>>
    BY <1>3 DEF publicar_nuevo
  <2>2. consola'[q] \in {"sin_conectar", "creado"} <=> consola[q] \in {"sin_conectar", "creado"}
    BY <2>1 DEF TypeOK, TipoConsola
  <2>3. Anotado(q)'
    BY <1>0, <2>1, <2>2 DEF Anotado
  <2>4. Retenido(q)'
    BY <1>0, <1>3, RetenidoQuieto DEF publicar_nuevo
  <2> QED BY <2>3, <2>4 DEF Sitio
<1> QED BY <1>1, <1>2, <1>3 DEF Consola

\* A process passes from the head of new_queue to the end of ready_queue.
LEMMA SitioAdmitir ==
  ASSUME TypeOK, Sitios, NEW q \in Pids, lts_admitir, new_queue # <<>>
  PROVE  Sitio(q)'
<1> USE DEF vConsola, vLts, vListos, vSts, vBloqueo, vFS, vRecursos, vArchivos, vFin
<1> DEFINE p == Head(new_queue)
<1>0. Anotado(q) /\ Retenido(q)
  BY DEF Sitios, Sitio
<1>1. /\ new_queue' = Tail(new_queue) /\ ready_queue' = Append(ready_queue, p)
      /\ estado' = [estado EXCEPT ![p] = "READY"] /\ UNCHANGED <<consola, exit_list>>
  BY DEF lts_admitir
<1>2. p \in Pids /\ new_queue \in Seq(Pids) /\ Tail(new_queue) \in Seq(Pids)
      /\ ready_queue \in Seq(Pids)
  BY DEF TypeOK, TipoConsola, TipoPlanificacion, Cola
<1>3. estado'[q] = IF q = p THEN "READY" ELSE estado[q]
  BY <1>1, <1>2 DEF TypeOK, TipoPlanificacion
<1> DEFINE n0 == Apariciones(new_queue, q)
           n1 == Apariciones(new_queue', q)
           l0 == Apariciones(ready_queue, q)
           l1 == Apariciones(ready_queue', q)
<1>4. /\ n0 = n1 + B(p = q) /\ l1 = l0 + B(p = q)
      /\ n0 \in Nat /\ n1 \in Nat /\ l0 \in Nat
  <2> HIDE DEF p
  <2>1. l1 = l0 + B(p = q)
    BY <1>1, <1>2, AparicionesAppend
  <2>2. n0 = n1 + B(p = q)
    BY <1>1, <1>2, AparicionesTail DEF p
  <2>3. n0 \in Nat /\ n1 \in Nat /\ l0 \in Nat
    BY <1>1, <1>2, AparicionesNat
  <2> QED BY <2>1, <2>2, <2>3
<1>5. n0 = B(estado[q] = "NEW") /\ l0 = B(estado[q] = "READY")
  BY <1>0 DEF Anotado
<1> HIDE DEF p, n0, n1, l0, l1
<1>6. p = q => estado[q] = "NEW"
  BY <1>4, <1>5 DEF B
<1>7. n1 = B(estado'[q] = "NEW") /\ l1 = B(estado'[q] = "READY")
  <2>1. CASE p = q
    BY <1>3, <1>4, <1>5, <1>6, <2>1 DEF B
  <2>2. CASE p # q
    BY <1>3, <1>4, <1>5, <2>2 DEF B
  <2> QED BY <2>1, <2>2
<1>8. Anotado(q)'
  BY <1>0, <1>1, <1>3, <1>6, <1>7 DEF Anotado, n1, l1
<1>9. Retenido(q)'
  <2>1. estado'[q] = estado[q]
        \/ {estado[q], estado'[q]} \subseteq {"SIN_CREAR", "NEW", "READY"}
    BY <1>3, <1>6
  <2>2. UNCHANGED <<sts, enMano, pcb_a_ejecutar, bloqueados, pcbFS, colasRecursos, colasArchivos>>
    BY DEF lts_admitir
  <2> QED BY <1>0, <2>1, <2>2, RetenidoQuieto
<1> QED BY <1>8, <1>9 DEF Sitio

LEMMA SitioLts ==
  ASSUME TypeOK, Sitios, NEW q \in Pids, long_term_scheduler
  PROVE  Sitio(q)'
<1> USE DEF vConsola, vLts, vListos, vSts, vBloqueo, vFS, vRecursos, vArchivos, vFin
<1>1. CASE lts_esperar_nuevo \/ lts_esperar_grado \/ lts_publicar
  BY <1>1, SitioQuieto DEF lts_esperar_nuevo, lts_esperar_grado, lts_publicar
<1>2. CASE lts_admitir /\ new_queue = <<>>
  BY <1>2, SitioQuieto DEF lts_admitir, Caer
<1> QED BY <1>1, <1>2, SitioAdmitir DEF long_term_scheduler

\* A parked process goes to the end of ready_queue.
LEMMA SitioDespertar ==
  ASSUME TypeOK, TypeOK', Sitios, NEW p \in Pids, NEW q \in Pids,
         Parado(q) = Parado(q)' + B(p = q), ready_queue' = Append(ready_queue, p),
         estado' = [estado EXCEPT ![p] = "READY"],
         UNCHANGED <<consola, new_queue, sts, enMano, pcb_a_ejecutar, exit_list>>
  PROVE  Sitio(q)'
<1>0. Anotado(q) /\ Retenido(q)
  BY DEF Sitios, Sitio
<1>1. estado'[q] = IF q = p THEN "READY" ELSE estado[q]
  BY DEF TypeOK, TipoPlanificacion
<1> DEFINE s0 == Parado(q)
           s1 == Parado(q)'
           m == Apariciones(enMano, q)
           l0 == Apariciones(ready_queue, q)
           l1 == Apariciones(ready_queue', q)
           c == B(pcb_a_ejecutar = q)
<1>2. /\ s0 = s1 + B(p = q) /\ l1 = l0 + B(p = q)
      /\ s0 \in Nat /\ s1 \in Nat /\ m \in Nat /\ l0 \in Nat /\ c \in Nat
  <2>1. ready_queue \in Seq(Pids) /\ enMano \in Seq(Pids)
    BY DEF TypeOK, TipoPlanificacion, Cola
  <2>2. s0 \in Nat /\ s1 \in Nat
    BY ParadoNat, ParadoNatPrima
  <2>3. c \in Nat
    BY DEF B
  <2> QED BY <2>1, <2>2, <2>3, AparicionesAppend, AparicionesNat
<1>3. /\ m + c + s0 = B(estado[q] \in {"EXEC", "BLOCK"}) /\ l0 = B(estado[q] = "READY")
      /\ estado[q] = "EXEC" => pcb_a_ejecutar = q \/ m > 0
      /\ pcb_a_ejecutar = q => c = 1
  BY <1>0 DEF Anotado, Retenido, B
<1> HIDE DEF s0, s1, m, l0, l1, c
<1>4. p = q => estado[q] = "BLOCK" /\ m = 0 /\ c = 0 /\ s1 = 0 /\ l0 = 0 /\ l1 = 1
  BY <1>2, <1>3 DEF B
<1>5. p # q => s1 = s0 /\ l1 = l0
  BY <1>2 DEF B
<1>6. Anotado(q)'
  <2>1. l1 = B(estado'[q] = "READY")
    BY <1>1, <1>3, <1>4, <1>5 DEF B
  <2> QED BY <1>0, <1>1, <1>4, <2>1 DEF Anotado, l1
<1>7. Retenido(q)'
  <2>1. CASE p = q
    <3>1. estado'[q] = "READY" /\ m = 0 /\ c = 0 /\ s1 = 0 /\ pcb_a_ejecutar # q
      BY <1>1, <1>3, <1>4, <2>1
    <3> QED BY <3>1 DEF Retenido, m, c, s1, B
  <2>2. CASE p # q
    <3>1. s1 = s0 /\ estado'[q] = estado[q]
      BY <1>1, <1>5, <2>2
    <3> QED BY <1>0, <3>1 DEF Retenido, s1, s0
  <2> QED BY <2>1, <2>2
<1> QED BY <1>6, <1>7 DEF Sitio

LEMMA SitioHilos ==
  ASSUME TypeOK, TypeOK', Control, Sitios, NEW q \in Pids,
         (\E p \in Pids : bloquear_pcb(p)) \/ publicar_despertado \/ bloquear_pcb_fs_r_w
  PROVE  Sitio(q)'
<1> USE DEF vConsola, vLts, vListos, vSts, vBloqueo, vFS, vRecursos, vArchivos, vFin
<1>1. CASE publicar_despertado \/ fs_publicar \/ fs_liberar
  BY <1>1, SitioQuieto DEF publicar_despertado, fs_publicar, fs_liberar
<1> DEFINE s0 == Parado(q)
           s1 == Parado(q)'
<1>2. s0 \in Nat /\ s1 \in Nat
  BY ParadoNat, ParadoNatPrima
<1>3. ASSUME NEW p \in Pids, bloquear_pcb(p) PROVE Sitio(q)'
  <2> DEFINE d == B(p = q)
  <2>1. d \in Int /\ 0 - d \in Int
    BY DEF B
  <2>2. B(q \in bloqueados') = B(q \in bloqueados) + (0 - d)
    BY <1>3 DEF bloquear_pcb, B
  <2> HIDE DEF d
  <2>3. s1 = s0 + (0 - d)
    BY <1>3, <2>1, <2>2, ParadoCambia DEF bloquear_pcb
  <2> HIDE DEF s0, s1
  <2>4. s0 = s1 + d
    BY <1>2, <2>1, <2>3
  <2> QED BY <1>3, <2>4, SitioDespertar DEF bloquear_pcb, s0, s1, d
<1>4. CASE fs_agregar
  <2> DEFINE p == pcbFS
             d == B(p = q)
  <2>0. p \in Pids
    BY <1>4 DEF Control, fs_agregar
  <2>1. d \in Int /\ 0 - d \in Int
    BY DEF B
  <2>2. B(pcbFS' = q) = B(pcbFS = q) + (0 - d)
    BY <1>4, <2>0 DEF fs_agregar, B, NULL, Pids
  <2> HIDE DEF d
  <2>3. s1 = s0 + (0 - d)
    BY <1>4, <2>1, <2>2, ParadoCambia DEF fs_agregar
  <2> HIDE DEF s0, s1
  <2>4. s0 = s1 + d
    BY <1>2, <2>1, <2>3
  <2> QED BY <1>4, <2>0, <2>4, SitioDespertar DEF fs_agregar, s0, s1, d
<1> QED BY <1>1, <1>3, <1>4 DEF bloquear_pcb_fs_r_w

-----------------------------------------------------------------------------
(* Both parts together. *)

LEMMA ManosPaso ==
  TypeOK /\ Control /\ SemFSExclusiva /\ Manos /\ [Next]_vars => Manos'
<1> SUFFICES ASSUME TypeOK, Control, SemFSExclusiva, Manos, [Next]_vars PROVE Manos'
  OBVIOUS
<1> USE DEF Manos, vConsola, vLts, vListos, vSts, vBloqueo, vFS, vRecursos, vArchivos, vFin
<1>1. CASE UNCHANGED <<vSts, hiloFS, pcbFS>>
  BY <1>1
<1>2. ASSUME NEW p \in Pids, analizarMotivo(p) PROVE Manos'
  <2>1. UNCHANGED <<hiloFS, pcbFS>>
    BY <1>2, EfectoMotivo
  <2>2. enMano = <<>>
    BY <1>2, EfectoMotivo
  <2>3. CASE \E ps : Desalojar(ps)
    BY <2>1, <2>3 DEF Desalojar
  <2>4. CASE Bloquear(p) \/ doExit(p)
    BY <2>1, <2>4 DEF Bloquear, doExit
  <2>5. CASE UNCHANGED <<pcb_a_ejecutar, enMano>> /\ sts' \in {"cpu", "semFS_comp"}
    BY <2>1, <2>2, <2>5
  <2>6. CASE do_f_read_write(p)
    BY <2>1, <2>6 DEF do_f_read_write
  <2>7. sts = "cpu"
    BY <1>2, EfectoMotivo
  <2>8. CASE finalizar_proceso(p) \/ doYield(p) \/ doIO(p) \/ do_f_truncate(p)
    BY <2>3, <2>4, <2>8 DEF finalizar_proceso, doYield, doIO, do_f_truncate, BloquearEnHilo
  <2>9. CASE doWait(p)
    BY <2>3, <2>4, <2>9 DEF doWait
  <2>10. CASE doSignal(p)
    BY <2>3, <2>10 DEF doSignal
  <2>11. CASE do_f_close(p)
    BY <2>3, <2>11 DEF do_f_close
  <2>12. CASE do_f_open(p) \/ do_f_seek(p) \/ do_delete_segment(p)
    BY <2>4, <2>5, <2>7, <2>12 DEF do_f_open, do_f_seek, do_delete_segment, Seguir
  <2>13. CASE do_create_segment(p)
    BY <2>4, <2>5, <2>7, <2>13, KernelAssumption DEF do_create_segment, Seguir
  <2> QED BY <1>2, <2>6, <2>8, <2>9, <2>10, <2>11, <2>12, <2>13 DEF analizarMotivo
<1>3. CASE sts_esperar \/ sts_despachar \/ sts_agregar \/ pedir_compactacion
  BY <1>3 DEF sts_esperar, sts_despachar, sts_agregar, pedir_compactacion, Caer
<1>4. CASE pedir_fs
  BY <1>4 DEF pedir_fs, Bloquear
<1>5. CASE fin_compactacion
  BY <1>5 DEF fin_compactacion, doExit
<1>6. CASE crear_pcb \/ (\E p \in Pids : Consola(p)) \/ long_term_scheduler
  <2>1. UNCHANGED <<vSts, hiloFS, pcbFS>>
    BY <1>6 DEF crear_pcb, Consola, agregar_pcb_cola_nuevos, publicar_nuevo,
       long_term_scheduler, lts_esperar_nuevo, lts_esperar_grado, lts_admitir, lts_publicar, Caer
  <2> QED BY <1>1, <2>1
<1>7. CASE (\E p \in Pids : bloquear_pcb(p)) \/ publicar_despertado
  <2>1. UNCHANGED <<vSts, hiloFS, pcbFS>>
    BY <1>7 DEF bloquear_pcb, publicar_despertado
  <2> QED BY <1>1, <2>1
<1>8. CASE bloquear_pcb_fs_r_w
  BY <1>8 DEF bloquear_pcb_fs_r_w, fs_agregar, fs_publicar, fs_liberar
<1>9. CASE UNCHANGED vars
  <2>1. UNCHANGED <<vSts, hiloFS, pcbFS>>
    BY <1>9 DEF vars
  <2> QED BY <1>1, <2>1
<1> QED BY <1>2, <1>3, <1>4, <1>5, <1>6, <1>7, <1>8, <1>9 DEF Next, short_term_scheduler

LEMMA SitiosPaso ==
  TypeOK /\ TypeOK' /\ Control /\ SinNumerar /\ SemFSExclusiva /\ Manos /\ Sitios
    /\ [Next]_vars => Sitios'
<1> SUFFICES ASSUME TypeOK, TypeOK', Control, SinNumerar, SemFSExclusiva, Manos, Sitios,
                    [Next]_vars, NEW q \in Pids
             PROVE  Sitio(q)'
  BY DEF Sitios
<1>1. CASE UNCHANGED vars
  BY <1>1, SitioQuieto DEF vars, vConsola, vListos, vSts, vBloqueo, vFS, vRecursos,
     vArchivos, vFin
<1> QED BY <1>1, SitioConsola, SitioLts, SitioSts, SitioHilos DEF Next

LEMMA SitiosIniciales == Init => Manos /\ Sitios
<1> SUFFICES ASSUME Init PROVE Manos /\ Sitios
  OBVIOUS
<1>1. Manos
  BY DEF Init, Manos
<1>2. ASSUME NEW q \in Pids PROVE Sitio(q)
  <2>1. /\ Apariciones(new_queue, q) = 0 /\ Apariciones(ready_queue, q) = 0
        /\ Apariciones(enMano, q) = 0
    BY AparicionesVacia DEF Init
  <2>2. EnColas(colasRecursos, Recursos, q) = 0
    <3> DEFINE v == [r \in Recursos |-> Apariciones(colasRecursos[r], q)]
    <3>1. v \in [Recursos -> Nat] /\ \A r \in Recursos : v[r] = 0
      BY AparicionesVacia DEF Init
    <3> HIDE DEF v
    <3>2. SumFunction(v) = 0
      BY <3>1, KernelAssumption, SumaFuncion
    <3> QED BY <3>2 DEF v, EnColas
  <2>3. EnColas(colasArchivos, Archivos, q) = 0
    <3> DEFINE v == [f \in Archivos |-> Apariciones(colasArchivos[f], q)]
    <3>1. v \in [Archivos -> Nat] /\ \A f \in Archivos : v[f] = 0
      BY AparicionesVacia DEF Init
    <3> HIDE DEF v
    <3>2. SumFunction(v) = 0
      BY <3>1, KernelAssumption, SumaFuncion
    <3> QED BY <3>2 DEF v, EnColas
  <2>4. Parado(q) = 0 /\ pcb_a_ejecutar # q
    BY <2>2, <2>3 DEF Parado, B, Init, NULL, Pids
  <2>5. Anotado(q)
    BY <2>1 DEF Anotado, Init, B
  <2>6. Retenido(q)
    BY <2>1, <2>4 DEF Retenido, Init, B
  <2> QED BY <2>5, <2>6 DEF Sitio
<1> QED BY <1>1, <1>2 DEF Sitios

\* The inductive invariant: every process is where the state it was logged in
\* says, and the scheduler and the file system thread hold nobody they should
\* have passed on.
THEOREM SitiosCorrectos == Spec => [](Manos /\ Sitios)
BY SitiosIniciales, ManosPaso, SitiosPaso, TiposCorrectos, SemFSCorrecto, NuevosCorrectos,
   PTL DEF Spec

LEMMA SitiosDanLugar == TypeOK /\ Sitios => UnicoLugar
<1> SUFFICES ASSUME TypeOK, Sitios, NEW p \in Pids
             PROVE  /\ Lugares(p) = 1
                    /\ estado[p] = "NEW" <=> p \in Range(new_queue)
                    /\ estado[p] = "READY" <=> p \in Range(ready_queue)
                    /\ estado[p] = "EXEC" => p = pcb_a_ejecutar \/ p \in Range(enMano)
                    /\ estado[p] = "EXIT" <=> p \in exit_list
  BY DEF UnicoLugar
<1> DEFINE nuevos == Apariciones(new_queue, p)
           listos == Apariciones(ready_queue, p)
           mano   == Apariciones(enMano, p)
           cpu    == B(pcb_a_ejecutar = p)
           hilo   == B(p \in bloqueados)
           fs     == B(pcbFS = p)
           fin    == B(p \in exit_list)
           sin    == B(consola[p] \in {"sin_conectar", "creado"})
           recurso == EnColas(colasRecursos, Recursos, p)
           archivo == EnColas(colasArchivos, Archivos, p)
<1>1. Anotado(p) /\ Retenido(p)
  BY DEF Sitios, Sitio
<1>2. Lugares(p) = nuevos + listos + mano + cpu + hilo + fs + fin + sin + recurso + archivo
  BY DEF Lugares, EnColas
<1>3. /\ new_queue \in Seq(Pids) /\ ready_queue \in Seq(Pids) /\ enMano \in Seq(Pids)
      /\ estado[p] \in {"SIN_CREAR", "NEW", "READY", "EXEC", "BLOCK", "EXIT"}
  BY DEF TypeOK, TipoConsola, TipoPlanificacion, Cola
<1>4. /\ nuevos \in Nat /\ listos \in Nat /\ mano \in Nat
      /\ nuevos > 0 <=> p \in Range(new_queue)
      /\ listos > 0 <=> p \in Range(ready_queue)
      /\ mano > 0 <=> p \in Range(enMano)
  BY <1>3, AparicionesNat
<1>5. hilo \in Nat /\ fs \in Nat /\ recurso \in Nat /\ archivo \in Nat /\ cpu \in Nat
  BY ParadoNat DEF B
<1>6. /\ sin = B(estado[p] = "SIN_CREAR") /\ fin = B(estado[p] = "EXIT")
      /\ nuevos = B(estado[p] = "NEW") /\ listos = B(estado[p] = "READY")
      /\ mano + cpu + (hilo + fs + recurso + archivo) = B(estado[p] \in {"EXEC", "BLOCK"})
      /\ estado[p] = "EXEC" => pcb_a_ejecutar = p \/ mano > 0
      /\ estado[p] = "EXIT" <=> p \in exit_list
  <2>1. sin = B(estado[p] = "SIN_CREAR") /\ fin = B(estado[p] = "EXIT")
    BY <1>1 DEF Anotado, B
  <2> QED BY <1>1, <2>1 DEF Anotado, Retenido, Parado
<1> HIDE DEF nuevos, listos, mano, cpu, hilo, fs, fin, sin, recurso, archivo
<1>7. nuevos + listos + mano + cpu + hilo + fs + fin + sin + recurso + archivo = 1
  BY <1>3, <1>4, <1>5, <1>6 DEF B
<1> QED BY <1>2, <1>4, <1>6, <1>7 DEF B

\* A PCB is in exactly one queue, list or pair of hands of the kernel, and it
\* is the one of its state, whatever the programs, the consoles and the five
\* kinds of threads do.
THEOREM LugaresCorrectos == Spec => []UnicoLugar
BY SitiosDanLugar, SitiosCorrectos, TiposCorrectos, PTL

-----------------------------------------------------------------------------
(* The life cycle: what a step does to the states, and to the places of    *)
(* the multiprogramming degree.                                            *)

Pasa(p, de, a) == estado[p] = de /\ estado' = [estado EXCEPT ![p] = a]

\* No process has the CPU.
CPULibre == \A q \in Pids : estado[q] # "EXEC"

PasoDelCiclo ==
  \/ /\ estado' = estado
     /\ semMultiprogramacion' + B(lts' = "saca") = semMultiprogramacion + B(lts = "saca")
  \/ \E p \in Pids :
       /\ \/ Pasa(p, "READY", "EXEC") /\ CPULibre
          \/ Pasa(p, "EXEC", "READY") \/ Pasa(p, "EXEC", "BLOCK")
          \/ Pasa(p, "BLOCK", "READY") \/ Pasa(p, "SIN_CREAR", "NEW")
       /\ UNCHANGED <<lts, semMultiprogramacion>>
  \/ \E p \in Pids :
       /\ Pasa(p, "NEW", "READY")
       /\ lts = "saca" /\ lts' = "publica" /\ UNCHANGED semMultiprogramacion
  \/ \E p \in Pids :
       /\ Pasa(p, "EXEC", "EXIT")
       /\ semMultiprogramacion' = semMultiprogramacion + 1 /\ UNCHANGED lts

\* A process nobody has on the CPU or in hand, and that is parked, is blocked.
LEMMA ParadoBloqueado ==
  ASSUME TypeOK, Sitios, NEW p \in Pids, Parado(p) > 0
  PROVE  estado[p] = "BLOCK"
<1> DEFINE m == Apariciones(enMano, p)
           c == B(pcb_a_ejecutar = p)
           s == Parado(p)
<1>1. m \in Nat /\ c \in Nat /\ s \in Nat
  BY AparicionesNat, ParadoNat DEF TypeOK, TipoPlanificacion, Cola, B
<1>2. /\ m + c + s = B(estado[p] \in {"EXEC", "BLOCK"})
      /\ estado[p] = "EXEC" => pcb_a_ejecutar = p \/ m > 0
      /\ pcb_a_ejecutar = p => c = 1
  BY DEF Sitios, Sitio, Retenido, B
<1> HIDE DEF m, c
<1> QED BY <1>1, <1>2 DEF B

\* Who the file system thread or a thread of bloquear_pcb has is parked.
LEMMA EnHiloParado ==
  ASSUME TypeOK, NEW p \in Pids, p \in bloqueados \/ pcbFS = p
  PROVE  Parado(p) > 0
<1> DEFINE b == B(p \in bloqueados)
           f == B(pcbFS = p)
           r == EnColas(colasRecursos, Recursos, p)
           a == EnColas(colasArchivos, Archivos, p)
<1>1. b \in Nat /\ f \in Nat /\ r \in Nat /\ a \in Nat /\ (b = 1 \/ f = 1)
  BY ParadoNat DEF B
<1> HIDE DEF b, f, r, a
<1>2. b + f + r + a > 0
  BY <1>1
<1> QED BY <1>2 DEF b, f, r, a, Parado

\* The first of a queue is in it.
LEMMA PrimeroAparece ==
  ASSUME NEW q \in Seq(Pids), q # <<>>
  PROVE  Head(q) \in Pids /\ Apariciones(q, Head(q)) > 0
<1>1. Head(q) \in Pids /\ Head(q) \in Range(q)
  BY DEF Range
<1> QED BY <1>1, AparicionesNat

LEMMA CicloMotivo ==
  ASSUME TypeOK, Manos, Sitios, NEW p \in Pids, analizarMotivo(p)
  PROVE  PasoDelCiclo
<1>1. sts = "cpu" /\ pcb_a_ejecutar = p /\ UNCHANGED lts
  BY EfectoMotivo
     DEF analizarMotivo, finalizar_proceso, doYield, doIO, doWait, doSignal, do_f_open,
         do_f_close, do_f_seek, do_f_read_write, do_f_truncate, do_create_segment,
         do_delete_segment, recibir_pcb_de_CPU
<1>2. estado[p] = "EXEC"
  BY <1>1, EnCPU
<1>3. CASE Bloquear(p)
  BY <1>1, <1>2, <1>3 DEF Bloquear, PasoDelCiclo, Pasa, vLts
<1>4. CASE doExit(p)
  BY <1>1, <1>2, <1>4 DEF doExit, PasoDelCiclo, Pasa
<1>5. CASE UNCHANGED <<estado, semMultiprogramacion>>
  BY <1>1, <1>5 DEF PasoDelCiclo
<1> USE DEF Desalojar, Seguir, vLts, vFin
<1>6. CASE finalizar_proceso(p) \/ doYield(p) \/ doIO(p) \/ do_f_truncate(p)
  BY <1>3, <1>4, <1>5, <1>6
     DEF finalizar_proceso, doYield, doIO, do_f_truncate, BloquearEnHilo
<1>7. CASE doWait(p) \/ doSignal(p)
  BY <1>3, <1>5, <1>7 DEF doWait, doSignal
<1>8. CASE do_f_open(p) \/ do_f_close(p)
  BY <1>3, <1>5, <1>8 DEF do_f_open, do_f_close
<1>9. CASE do_f_seek(p) \/ do_delete_segment(p) \/ do_f_read_write(p)
  BY <1>5, <1>9 DEF do_f_seek, do_delete_segment, do_f_read_write
<1>10. CASE do_create_segment(p)
  BY <1>4, <1>5, <1>10, KernelAssumption DEF do_create_segment
<1> QED BY <1>6, <1>7, <1>8, <1>9, <1>10 DEF analizarMotivo

LEMMA CicloSts ==
  ASSUME TypeOK, Control, SemFSExclusiva, Manos, Sitios, short_term_scheduler
  PROVE  PasoDelCiclo
<1> USE DEF vLts, vFin
<1>1. CASE sts_esperar \/ pedir_compactacion
  BY <1>1 DEF sts_esperar, pedir_compactacion, PasoDelCiclo
<1>2. CASE sts_despachar
  <2>1. CASE ready_queue = <<>>
    BY <1>2, <2>1 DEF sts_despachar, Caer, PasoDelCiclo
  <2>2. CASE ready_queue # <<>>
    <3> DEFINE p == Head(ready_queue)
    <3>1. p \in Pids /\ Apariciones(ready_queue, p) > 0
      BY <2>2, PrimeroAparece DEF TypeOK, TipoPlanificacion, Cola
    <3>2. estado[p] = "READY"
      BY <3>1 DEF Sitios, Sitio, Anotado, B
    <3>3. CPULibre
      <4> SUFFICES ASSUME NEW q \in Pids PROVE estado[q] # "EXEC"
        BY DEF CPULibre
      <4>1. enMano = <<>> /\ pcb_a_ejecutar = NULL
        BY <1>2 DEF sts_despachar, Manos
      <4>2. Apariciones(enMano, q) = 0 /\ pcb_a_ejecutar # q
        BY <4>1, AparicionesVacia DEF NULL, Pids
      <4> QED BY <4>2 DEF Sitios, Sitio, Retenido
    <3>4. estado' = [estado EXCEPT ![p] = "EXEC"] /\ UNCHANGED vLts
      BY <1>2, <2>2 DEF sts_despachar
    <3> QED BY <3>1, <3>2, <3>3, <3>4 DEF PasoDelCiclo, Pasa
  <2> QED BY <2>1, <2>2
<1>3. CASE sts_agregar \/ pedir_fs
  <2> DEFINE p == Head(enMano)
  <2>1. enMano # <<>> /\ sts \in {"encola", "semFS_rw"}
    BY <1>3 DEF Control, sts_agregar, pedir_fs
  <2>2. p \in Pids /\ Apariciones(enMano, p) > 0
    BY <2>1, PrimeroAparece DEF TypeOK, TipoPlanificacion, Cola
  <2> DEFINE m == Apariciones(enMano, p)
             c == B(pcb_a_ejecutar = p)
             s == Parado(p)
  <2>3. estado[p] \in {"EXEC", "BLOCK"} /\ (sts = "semFS_rw" => estado[p] = "EXEC")
    <3>1. m \in Nat /\ c \in Nat /\ s \in Nat /\ m > 0
      BY <2>2, AparicionesNat, ParadoNat DEF TypeOK, TipoPlanificacion, Cola, B
    <3>2. m + c + s = B(estado[p] \in {"EXEC", "BLOCK"})
      BY <2>2 DEF Sitios, Sitio, Retenido
    <3>3. sts = "semFS_rw" => estado[p] = "EXEC"
      BY <2>2 DEF Sitios, Sitio, Retenido
    <3> HIDE DEF m, c, s, p
    <3> QED BY <3>1, <3>2, <3>3 DEF B
  <2>4. \/ estado' = [estado EXCEPT ![p] = "READY"]
        \/ sts = "semFS_rw" /\ estado' = [estado EXCEPT ![p] = "BLOCK"]
    BY <1>3 DEF sts_agregar, pedir_fs, Bloquear
  <2>5. UNCHANGED vLts
    BY <1>3 DEF sts_agregar, pedir_fs, Bloquear
  <2> HIDE DEF p
  <2> QED BY <2>2, <2>3, <2>4, <2>5 DEF PasoDelCiclo, Pasa
<1>4. CASE fin_compactacion
  <2> DEFINE p == pcb_a_ejecutar
  <2>1. p \in Pids /\ sts = "compactando"
    BY <1>4 DEF fin_compactacion, Control
  <2>2. estado[p] = "EXEC"
    BY <2>1, EnCPU
  <2>3. doExit(p) \/ UNCHANGED <<vLts, vFin>>
    BY <1>4 DEF fin_compactacion
  <2> QED BY <2>1, <2>2, <2>3 DEF doExit, PasoDelCiclo, Pasa
<1> QED BY <1>1, <1>2, <1>3, <1>4, CicloMotivo DEF short_term_scheduler

\* Every step moves at most one process, along an edge of the life cycle, and
\* takes or gives back a place of the degree just when it should.
LEMMA CicloPaso ==
  TypeOK /\ Control /\ SemFSExclusiva /\ Manos /\ Sitios /\ [Next]_vars => PasoDelCiclo
<1> SUFFICES ASSUME TypeOK, Control, SemFSExclusiva, Manos, Sitios, [Next]_vars
             PROVE  PasoDelCiclo
  OBVIOUS
<1> USE DEF vLts, vFin
<1>1. CASE UNCHANGED vars
  BY <1>1 DEF vars, PasoDelCiclo
<1>2. CASE crear_pcb \/ \E p \in Pids : publicar_nuevo(p)
  BY <1>2 DEF crear_pcb, publicar_nuevo, PasoDelCiclo
<1>3. ASSUME NEW p \in Pids, agregar_pcb_cola_nuevos(p) PROVE PasoDelCiclo
  <2>1. estado[p] = "SIN_CREAR"
    BY <1>3 DEF agregar_pcb_cola_nuevos, Sitios, Sitio, Anotado
  <2> QED BY <1>3, <2>1 DEF agregar_pcb_cola_nuevos, PasoDelCiclo, Pasa
<1>4. CASE lts_esperar_nuevo \/ lts_esperar_grado \/ lts_publicar
  <2>1. semMultiprogramacion \in Nat
    BY DEF TypeOK, TipoPlanificacion
  <2> QED BY <1>4, <2>1 DEF lts_esperar_nuevo, lts_esperar_grado, lts_publicar, PasoDelCiclo, B
<1>5. CASE lts_admitir
  <2>1. CASE new_queue = <<>>
    BY <1>5, <2>1 DEF lts_admitir, Caer, PasoDelCiclo
  <2>2. CASE new_queue # <<>>
    <3> DEFINE p == Head(new_queue)
    <3>1. p \in Pids /\ Apariciones(new_queue, p) > 0
      BY <2>2, PrimeroAparece DEF TypeOK, TipoConsola, Cola
    <3>2. estado[p] = "NEW"
      BY <3>1 DEF Sitios, Sitio, Anotado, B
    <3>3. /\ estado' = [estado EXCEPT ![p] = "READY"] /\ lts = "saca" /\ lts' = "publica"
          /\ UNCHANGED semMultiprogramacion
      BY <1>5, <2>2 DEF lts_admitir
    <3> QED BY <3>1, <3>2, <3>3 DEF PasoDelCiclo, Pasa
  <2> QED BY <2>1, <2>2
<1>6. ASSUME NEW p \in Pids, bloquear_pcb(p) PROVE PasoDelCiclo
  <2>1. estado[p] = "BLOCK"
    BY <1>6, EnHiloParado, ParadoBloqueado DEF bloquear_pcb
  <2> QED BY <1>6, <2>1 DEF bloquear_pcb, PasoDelCiclo, Pasa
<1>7. CASE publicar_despertado \/ fs_publicar \/ fs_liberar
  BY <1>7 DEF publicar_despertado, fs_publicar, fs_liberar, PasoDelCiclo
<1>8. CASE fs_agregar
  <2>1. pcbFS \in Pids
    BY <1>8 DEF fs_agregar, Control
  <2>2. estado[pcbFS] = "BLOCK"
    BY <2>1, EnHiloParado, ParadoBloqueado
  <2> QED BY <1>8, <2>1, <2>2 DEF fs_agregar, PasoDelCiclo, Pasa
<1> QED BY <1>1, <1>2, <1>3, <1>4, <1>5, <1>6, <1>7, <1>8, CicloSts
        DEF Next, Consola, long_term_scheduler, bloquear_pcb_fs_r_w

-----------------------------------------------------------------------------
(* The multiprogramming degree. *)

Ocupa(e) == e \in {"READY", "EXEC", "BLOCK"}

LEMMA AdmitidosFinito == IsFiniteSet(Admitidos) /\ Cardinality(Admitidos) \in Nat
<1>1. IsFiniteSet(Pids)
  BY FS_Interval, KernelAssumption DEF Pids
<1>2. IsFiniteSet(Admitidos)
  BY <1>1, FS_Subset DEF Admitidos
<1> QED BY <1>2, FS_CardinalityType

\* A process enters the set of the admitted, leaves it, or neither.
LEMMA AdmitidosPasa ==
  ASSUME TypeOK, NEW p \in Pids, NEW de, NEW a, Pasa(p, de, a)
  PROVE  Cardinality(Admitidos') + B(Ocupa(de)) = Cardinality(Admitidos) + B(Ocupa(a))
<1> DEFINE A == Admitidos
           A1 == Admitidos'
<1>1. /\ p \in A <=> Ocupa(de)
      /\ A1 = IF Ocupa(a) THEN A \cup {p} ELSE A \ {p}
  BY DEF Admitidos, Pasa, Ocupa, TypeOK, TipoPlanificacion
<1>2. IsFiniteSet(A) /\ Cardinality(A) \in Nat
  BY AdmitidosFinito
<1> HIDE DEF A, A1
<1>3. Cardinality(A1) + B(Ocupa(de)) = Cardinality(A) + B(Ocupa(a))
  <2>1. CASE Ocupa(de) <=> Ocupa(a)
    <3>1. A1 = A
      BY <1>1, <2>1
    <3> QED BY <2>1, <3>1 DEF B
  <2>2. CASE ~Ocupa(de) /\ Ocupa(a)
    <3>1. Cardinality(A1) = Cardinality(A) + 1
      BY <1>1, <1>2, <2>2, FS_AddElement
    <3> QED BY <1>2, <2>2, <3>1 DEF B
  <2>3. CASE Ocupa(de) /\ ~Ocupa(a)
    <3>1. Cardinality(A1) = Cardinality(A) - 1
      BY <1>1, <1>2, <2>3, FS_RemoveElement
    <3> QED BY <1>2, <2>3, <3>1 DEF B
  <2> QED BY <2>1, <2>2, <2>3
<1> QED BY <1>3 DEF A, A1

LEMMA GradoPaso ==
  TypeOK /\ TypeOK' /\ PasoDelCiclo /\ GradoRespetado => GradoRespetado'
<1> SUFFICES ASSUME TypeOK, TypeOK', PasoDelCiclo, GradoRespetado PROVE GradoRespetado'
  OBVIOUS
<1> DEFINE n == Cardinality(Admitidos)
           n1 == Cardinality(Admitidos')
           s == semMultiprogramacion
           s1 == semMultiprogramacion'
           l == B(lts = "saca")
           l1 == B(lts' = "saca")
<1>1. s + n + l = GradoMaxMultiprog
  BY DEF GradoRespetado
<1>2. n \in Nat /\ n1 \in Nat /\ s \in Nat /\ s1 \in Nat /\ l \in Nat /\ l1 \in Nat
  <2>1. n \in Nat
    BY AdmitidosFinito
  <2>2. n1 \in Nat
    <3>1. IsFiniteSet(Pids) /\ Admitidos' \subseteq Pids
      BY FS_Interval, KernelAssumption DEF Pids, Admitidos
    <3> QED BY <3>1, FS_Subset, FS_CardinalityType
  <2> QED BY <2>1, <2>2 DEF TypeOK, TipoPlanificacion, B
<1>3. s1 + n1 + l1 = s + n + l
  <2>1. ASSUME NEW p \in Pids, NEW de, NEW a, Pasa(p, de, a)
        PROVE  n1 + B(Ocupa(de)) = n + B(Ocupa(a))
    BY <2>1, AdmitidosPasa
  <2>2. CASE estado' = estado /\ s1 + l1 = s + l
    <3>1. n1 = n
      BY <2>2 DEF Admitidos
    <3> HIDE DEF n, n1, s, s1, l, l1
    <3> QED BY <1>2, <2>2, <3>1
  <2>3. ASSUME NEW p \in Pids, lts' = lts, s1 = s,
               \/ Pasa(p, "READY", "EXEC") \/ Pasa(p, "EXEC", "READY")
               \/ Pasa(p, "EXEC", "BLOCK") \/ Pasa(p, "BLOCK", "READY")
               \/ Pasa(p, "SIN_CREAR", "NEW")
        PROVE  s1 + n1 + l1 = s + n + l
    <3>1. n1 + 1 = n + 1 \/ n1 + 0 = n + 0
      <4> HIDE DEF n, n1
      <4> QED BY <2>1, <2>3 DEF Ocupa, B
    <3> HIDE DEF n, n1
    <3> QED BY <1>2, <2>3, <3>1
  <2>4. ASSUME NEW p \in Pids, Pasa(p, "NEW", "READY"), lts = "saca", lts' = "publica", s1 = s
        PROVE  s1 + n1 + l1 = s + n + l
    <3>1. n1 + 0 = n + 1 /\ l = 1 /\ l1 = 0
      <4> HIDE DEF n, n1
      <4> QED BY <2>1, <2>4 DEF Ocupa, B
    <3> HIDE DEF n, n1, l, l1
    <3> QED BY <1>2, <2>4, <3>1
  <2>5. ASSUME NEW p \in Pids, Pasa(p, "EXEC", "EXIT"), s1 = s + 1, lts' = lts
        PROVE  s1 + n1 + l1 = s + n + l
    <3>1. n1 + 1 = n + 0 /\ l1 = l
      <4> HIDE DEF n, n1
      <4> QED BY <2>1, <2>5 DEF Ocupa, B
    <3> HIDE DEF n, n1, l, l1
    <3> QED BY <1>2, <2>5, <3>1
  <2> QED BY <2>2, <2>3, <2>4, <2>5 DEF PasoDelCiclo
<1> HIDE DEF n, n1, s, s1, l, l1
<1>4. s1 + n1 + l1 = GradoMaxMultiprog
  BY <1>1, <1>3
<1> QED BY <1>4 DEF s1, n1, l1, GradoRespetado

\* The degree: free places, the one the long term scheduler has in hand and
\* the admitted processes are always GradoMaxMultiprog. That a step never finds
\* the PCB somewhere its state does not say (Sitios) is what makes it inductive:
\* a process woken up twice would be admitted once and counted twice.
THEOREM GradoCorrecto == Spec => []GradoRespetado
<1>1. Init => GradoRespetado
  <2> SUFFICES ASSUME Init PROVE GradoRespetado
    OBVIOUS
  <2>1. Admitidos = {}
    BY DEF Init, Admitidos
  <2>2. Cardinality(Admitidos) = 0
    BY <2>1, FS_EmptySet
  <2>3. semMultiprogramacion = GradoMaxMultiprog /\ B(lts = "saca") = 0
    BY DEF Init, B
  <2> QED BY <2>2, <2>3, KernelAssumption DEF GradoRespetado
<1> QED BY <1>1, CicloPaso, GradoPaso, SitiosCorrectos, TiposCorrectos, SemFSCorrecto,
           PTL DEF Spec

-----------------------------------------------------------------------------
(* The kernel implements the life cycle of CicloDeVida. *)

\* CicloDeVida and the kernel count with the same Cardinality.
LEMMA MismaCardinalidad == \A S : Ciclo!Cardinality(S) = Cardinality(S)
BY DEF Ciclo!Cardinality, Cardinality

LEMMA CicloRefina ==
  TypeOK /\ GradoRespetado /\ PasoDelCiclo => [Ciclo!Next]_estado
<1> SUFFICES ASSUME TypeOK, GradoRespetado, PasoDelCiclo PROVE Ciclo!Next \/ estado' = estado
  OBVIOUS
<1> USE DEF Ciclo!Next, Ciclo!Pasar, Pasa
<1>1. CASE estado' = estado
  BY <1>1
<1>2. ASSUME NEW p \in Pids, Pasa(p, "READY", "EXEC"), CPULibre PROVE Ciclo!Next
  <2>1. Ciclo!En("EXEC") = {}
    BY <1>2 DEF CPULibre, Ciclo!En
  <2> QED BY <1>2, <2>1 DEF Ciclo!Despachar
<1>3. ASSUME NEW p \in Pids,
             \/ Pasa(p, "EXEC", "READY") \/ Pasa(p, "EXEC", "BLOCK") \/ Pasa(p, "BLOCK", "READY")
             \/ Pasa(p, "SIN_CREAR", "NEW") \/ Pasa(p, "EXEC", "EXIT")
      PROVE  Ciclo!Next
  BY <1>3 DEF Ciclo!Desalojar, Ciclo!Bloquear, Ciclo!Despertar, Ciclo!Crear, Ciclo!Terminar
<1>4. ASSUME NEW p \in Pids, Pasa(p, "NEW", "READY"), lts = "saca" PROVE Ciclo!Next
  <2>1. Ciclo!En("READY") \cup Ciclo!En("EXEC") \cup Ciclo!En("BLOCK") = Admitidos
    BY DEF Ciclo!En, Admitidos
  <2> DEFINE n == Cardinality(Admitidos)
  <2>2. n \in Nat /\ semMultiprogramacion \in Nat /\ GradoMaxMultiprog \in Nat
        /\ semMultiprogramacion + n + 1 = GradoMaxMultiprog
    BY <1>4, AdmitidosFinito, KernelAssumption DEF TypeOK, TipoPlanificacion, GradoRespetado, B
  <2> HIDE DEF n
  <2>3. n < GradoMaxMultiprog
    BY <2>2
  <2>4. Ciclo!Cardinality(Ciclo!En("READY") \cup Ciclo!En("EXEC") \cup Ciclo!En("BLOCK"))
          < GradoMaxMultiprog
    BY <2>1, <2>3, MismaCardinalidad DEF n
  <2>5. Ciclo!Admitir(p)
    BY <1>4, <2>4 DEF Ciclo!Admitir
  <2> QED BY <2>5
<1> QED BY <1>1, <1>2, <1>3, <1>4 DEF PasoDelCiclo

\* Whatever its threads, queues and semaphores do, the kernel takes its
\* processes through the five-state life cycle: one executes at a time, at most
\* GradoMaxMultiprog are admitted, and nobody skips a state. (That a free CPU
\* takes a ready process, the fairness of Ciclo!Spec, is left to the runs.)
THEOREM ImplementaElCiclo == Spec => Ciclo!Init /\ [][Ciclo!Next]_estado
<1>1. Init => Ciclo!Init
  BY DEF Init, Ciclo!Init
<1> QED BY <1>1, CicloPaso, CicloRefina, GradoCorrecto, SitiosCorrectos, TiposCorrectos,
           SemFSCorrecto, PTL DEF Spec
=============================================================================
