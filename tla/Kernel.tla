------------------------------- MODULE Kernel -------------------------------
(***************************************************************************)
(* The kernel process (src/kernel/src): its two schedulers, the console    *)
(* threads that create processes, the detached threads that wake blocked   *)
(* processes up, the resources of WAIT/SIGNAL, the global table of open    *)
(* files, and semFS, which keeps file operations and compaction apart.     *)
(*                                                                         *)
(* A thread is a program counter; one step of a thread is the code between *)
(* two points where another thread can tell the difference (a semaphore    *)
(* operation or a mutex-protected queue operation). Recursos, colasRecursos*)
(* tabla_archivos_globales, colasArchivos, exit_list and pcb_a_ejecutar    *)
(* are touched by the short term scheduler alone, so what a handler does   *)
(* to them is one step.                                                    *)
(*                                                                         *)
(* A process is its pid. The CPU is external: it runs the instructions of  *)
(* the process it was given and hands the PCB back at the first one that   *)
(* needs the kernel, so a program is the sequence of those instructions.   *)
(***************************************************************************)
EXTENDS Integers, Sequences, FiniteSets, Functions

CONSTANTS
  MaxProcesos,              \* bound: consoles that connect, one process each
  GradoMaxMultiprog,        \* GRADO_MAX_MULTIPROGRAMACION of kernel.config
  Programas,                \* the instruction lists a console may send
  Recursos, Instancias,     \* RECURSOS and INSTANCIAS_RECURSOS of kernel.config
  Archivos,                 \* the file names that appear in the programs
  Respuestas,               \* what memory may answer to CREAR_SEGMENTO
  RespuestasTrasCompactar   \* ... and to the retry that follows a compaction

Pids == 0 .. MaxProcesos - 1
NULL == -1
SinEntrada == -1            \* no t_recurso for that name in recursos_asignados
OpsDeArchivo == {"F_OPEN", "F_CLOSE", "F_SEEK", "F_READ", "F_WRITE", "F_TRUNCATE"}

ASSUME KernelAssumption ==
  /\ MaxProcesos \in Nat
  /\ GradoMaxMultiprog \in Nat
  /\ IsFiniteSet(Recursos) /\ IsFiniteSet(Archivos)
  /\ Instancias \in [Recursos -> Nat]
  /\ Respuestas \subseteq {"SEGMENTO_CREADO", "OUT_OF_MEMORY", "COMPACTAR"}
  /\ RespuestasTrasCompactar \subseteq {"SEGMENTO_CREADO", "OUT_OF_MEMORY"}
  /\ Programas \subseteq Seq([op : STRING, arg : STRING])
  /\ \A prog \in Programas : \A i \in DOMAIN prog :
       prog[i].op \in OpsDeArchivo => prog[i].arg \in Archivos

VARIABLES
  proximo_pid, consola, programa, new_queue, semProcesoNuevo,  \* handle_consola
  lts, semMultiprogramacion,                                   \* long_term_scheduler
  ready_queue, semProcesoListo,
  sts, pcb_a_ejecutar, enMano, pc,                             \* short_term_scheduler
  bloqueados, publicando,              \* threads bloquear_pcb and bloquear_pcb_fs
  semFS, hiloFS, pcbFS,                \* thread bloquear_pcb_fs_r_w
  recursos_disponibles, colasRecursos, recursos_asignados,
  tabla_archivos_globales, colasArchivos, open_files,
  exit_list,
  estado,        \* the state the kernel last logged for the process
  vivo           \* FALSE once the kernel has dereferenced a bad pointer

vConsola  == <<proximo_pid, consola, programa, new_queue, semProcesoNuevo>>
vLts      == <<lts, semMultiprogramacion>>
vListos   == <<ready_queue, semProcesoListo>>
vSts      == <<sts, pcb_a_ejecutar, enMano>>
vBloqueo  == <<bloqueados, publicando>>
vFS       == <<semFS, hiloFS, pcbFS>>
vRecursos == <<recursos_disponibles, colasRecursos, recursos_asignados>>
vArchivos == <<tabla_archivos_globales, colasArchivos, open_files>>
vFin      == <<exit_list, estado>>
vars == <<vConsola, vLts, vListos, vSts, pc, vBloqueo, vFS, vRecursos, vArchivos,
          vFin, vivo>>

B(cond) == IF cond THEN 1 ELSE 0

SinRecursos == [r \in Recursos |-> SinEntrada]
SinArchivos == [f \in Archivos |-> 0]

Init ==
  /\ proximo_pid = 0
  /\ consola = [p \in Pids |-> "sin_conectar"]
  /\ programa = [p \in Pids |-> <<>>]
  /\ new_queue = <<>> /\ semProcesoNuevo = 0
  /\ lts = "nuevo" /\ semMultiprogramacion = GradoMaxMultiprog
  /\ ready_queue = <<>> /\ semProcesoListo = 0
  /\ sts = "espera" /\ pcb_a_ejecutar = NULL /\ enMano = <<>>
  /\ pc = [p \in Pids |-> 1]
  /\ bloqueados = {} /\ publicando = 0
  /\ semFS = 1 /\ hiloFS = "libre" /\ pcbFS = NULL
  /\ recursos_disponibles = Instancias
  /\ colasRecursos = [r \in Recursos |-> <<>>]
  /\ recursos_asignados = [p \in Pids |-> SinRecursos]
  /\ tabla_archivos_globales = {}
  /\ colasArchivos = [f \in Archivos |-> <<>>]
  /\ open_files = [p \in Pids |-> SinArchivos]
  /\ exit_list = {} /\ estado = [p \in Pids |-> "SIN_CREAR"]
  /\ vivo = TRUE

\* A NULL or wild pointer is dereferenced: the kernel is gone.
Caer == vivo' = FALSE
        /\ UNCHANGED <<vConsola, vLts, vListos, vSts, pc, vBloqueo, vFS, vRecursos,
                       vArchivos, vFin>>

-----------------------------------------------------------------------------
(* Console threads (handle_consola). *)

\* A console connects and crear_pcb numbers its process; memory sets the
\* segment table up before it answers.
crear_pcb ==
  /\ proximo_pid < MaxProcesos
  /\ \E prog \in Programas : programa' = [programa EXCEPT ![proximo_pid] = prog]
  /\ consola' = [consola EXCEPT ![proximo_pid] = "creado"]
  /\ proximo_pid' = proximo_pid + 1
  /\ UNCHANGED <<new_queue, semProcesoNuevo, vLts, vListos, vSts, pc, vBloqueo, vFS,
                 vRecursos, vArchivos, vFin, vivo>>

\* Mutant: posts semProcesoNuevo under the mutex, and again after it.
agregar_pcb_cola_nuevos_dos_posts(p) ==
  /\ consola[p] = "creado"
  /\ new_queue' = Append(new_queue, p)
  /\ estado' = [estado EXCEPT ![p] = "NEW"]
  /\ semProcesoNuevo' = semProcesoNuevo + 1
  /\ consola' = [consola EXCEPT ![p] = "encolado"]
  /\ UNCHANGED <<proximo_pid, programa, vLts, vListos, vSts, pc, vBloqueo, vFS,
                 vRecursos, vArchivos, exit_list, vivo>>

agregar_pcb_cola_nuevos(p) ==
  /\ consola[p] = "creado"
  /\ new_queue' = Append(new_queue, p)
  /\ estado' = [estado EXCEPT ![p] = "NEW"]
  /\ consola' = [consola EXCEPT ![p] = "encolado"]
  /\ UNCHANGED <<proximo_pid, programa, semProcesoNuevo, vLts, vListos, vSts, pc,
                 vBloqueo, vFS, vRecursos, vArchivos, exit_list, vivo>>

publicar_nuevo(p) ==
  /\ consola[p] = "encolado"
  /\ semProcesoNuevo' = semProcesoNuevo + 1
  /\ consola' = [consola EXCEPT ![p] = "fin"]
  /\ UNCHANGED <<proximo_pid, programa, new_queue, vLts, vListos, vSts, pc, vBloqueo,
                 vFS, vRecursos, vArchivos, vFin, vivo>>

Consola(p) == agregar_pcb_cola_nuevos(p) \/ publicar_nuevo(p)

-----------------------------------------------------------------------------
(* Long term scheduler: NEW -> READY up to the multiprogramming degree. *)

lts_esperar_nuevo ==
  /\ lts = "nuevo" /\ semProcesoNuevo > 0
  /\ semProcesoNuevo' = semProcesoNuevo - 1
  /\ lts' = "multi"
  /\ UNCHANGED <<proximo_pid, consola, programa, new_queue, semMultiprogramacion,
                 vListos, vSts, pc, vBloqueo, vFS, vRecursos, vArchivos, vFin, vivo>>

\* Mutant: does not wait for a place.
lts_no_esperar_grado ==
  /\ lts = "multi"
  /\ semMultiprogramacion' = semMultiprogramacion - 1
  /\ lts' = "saca"
  /\ UNCHANGED <<vConsola, vListos, vSts, pc, vBloqueo, vFS, vRecursos, vArchivos,
                 vFin, vivo>>

lts_esperar_grado ==
  /\ lts = "multi" /\ semMultiprogramacion > 0
  /\ semMultiprogramacion' = semMultiprogramacion - 1
  /\ lts' = "saca"
  /\ UNCHANGED <<vConsola, vListos, vSts, pc, vBloqueo, vFS, vRecursos, vArchivos,
                 vFin, vivo>>

\* sacar_pcb_de_cola_nuevo and the push of agregar_pcb_en_cola_listos.
lts_admitir ==
  /\ lts = "saca"
  /\ IF new_queue = <<>> THEN Caer
     ELSE LET p == Head(new_queue) IN
          /\ new_queue' = Tail(new_queue)
          /\ ready_queue' = Append(ready_queue, p)
          /\ estado' = [estado EXCEPT ![p] = "READY"]
          /\ lts' = "publica"
          /\ UNCHANGED <<proximo_pid, consola, programa, semProcesoNuevo,
                         semMultiprogramacion, semProcesoListo, vSts, pc, vBloqueo,
                         vFS, vRecursos, vArchivos, exit_list, vivo>>

lts_publicar ==
  /\ lts = "publica"
  /\ semProcesoListo' = semProcesoListo + 1
  /\ lts' = "nuevo"
  /\ UNCHANGED <<vConsola, semMultiprogramacion, ready_queue, vSts, pc, vBloqueo, vFS,
                 vRecursos, vArchivos, vFin, vivo>>

long_term_scheduler ==
  lts_esperar_nuevo \/ lts_esperar_grado \/ lts_admitir \/ lts_publicar

-----------------------------------------------------------------------------
(* Short term scheduler: dispatch. *)

sts_esperar ==
  /\ sts = "espera" /\ semProcesoListo > 0
  /\ semProcesoListo' = semProcesoListo - 1
  /\ sts' = "saca"
  /\ UNCHANGED <<vConsola, vLts, ready_queue, pcb_a_ejecutar, enMano, pc, vBloqueo,
                 vFS, vRecursos, vArchivos, vFin, vivo>>

\* sacar_pcb_cola_listos, meter_pcb_en_ejecucion, enviar_pcb.
sts_despachar ==
  /\ sts = "saca"
  /\ IF ready_queue = <<>> THEN Caer
     ELSE LET p == Head(ready_queue) IN
          /\ ready_queue' = Tail(ready_queue)
          /\ pcb_a_ejecutar' = p
          /\ estado' = [estado EXCEPT ![p] = "EXEC"]
          /\ sts' = "cpu"
          /\ UNCHANGED <<vConsola, vLts, semProcesoListo, enMano, pc, vBloqueo, vFS,
                         vRecursos, vArchivos, exit_list, vivo>>

\* agregar_pcb_en_cola_listos by the scheduler itself, for the PCBs its
\* handler left in enMano. It is the only consumer of semProcesoListo, so
\* nobody can tell its push from its sem_post.
sts_agregar ==
  /\ sts = "encola"
  /\ ready_queue' = Append(ready_queue, Head(enMano))
  /\ semProcesoListo' = semProcesoListo + 1
  /\ estado' = [estado EXCEPT ![Head(enMano)] = "READY"]
  /\ enMano' = Tail(enMano)
  /\ sts' = IF Tail(enMano) = <<>> THEN "espera" ELSE "encola"
  /\ UNCHANGED <<vConsola, vLts, pcb_a_ejecutar, pc, vBloqueo, vFS, vRecursos,
                 vArchivos, exit_list, vivo>>

(* What a handler of recibir_pcb_de_CPU ends in. *)

\* The CPU has run p up to an instruction of ops and sent the PCB back.
recibir_pcb_de_CPU(p, ops) ==
  /\ sts = "cpu" /\ pcb_a_ejecutar = p
  /\ pc[p] <= Len(programa[p])
  /\ programa[p][pc[p]].op \in ops
  /\ pc' = [pc EXCEPT ![p] = @ + 1]

Arg(p) == programa[p][pc[p]].arg

\* sacar_pcb_de_ejecucion, then ps go to the ready queue one after another.
Desalojar(ps) ==
  /\ pcb_a_ejecutar' = NULL /\ enMano' = ps /\ sts' = "encola"
  /\ UNCHANGED <<vListos, vLts, vFin>>

\* sacar_pcb_de_ejecucion, and p is left to whoever will wake it up.
Bloquear(p) ==
  /\ pcb_a_ejecutar' = NULL /\ enMano' = <<>> /\ sts' = "espera"
  /\ estado' = [estado EXCEPT ![p] = "BLOCK"]
  /\ UNCHANGED <<vListos, vLts, exit_list>>

\* enviar_pcb_cpu: the process goes on executing.
Seguir == UNCHANGED <<vSts, vListos, vLts, vFin>>

Tenidas(p, r) == IF recursos_asignados[p][r] = SinEntrada THEN 0
                 ELSE recursos_asignados[p][r]

\* Mutant: the place in the multiprogramming degree is not given back.
doExitSinGrado(p) ==
  /\ recursos_disponibles' =
       [r \in Recursos |-> recursos_disponibles[r] + Tenidas(p, r)]
  /\ recursos_asignados' = [recursos_asignados EXCEPT ![p] = SinRecursos]
  /\ open_files' = [open_files EXCEPT ![p] = SinArchivos]
  /\ exit_list' = exit_list \cup {p}
  /\ estado' = [estado EXCEPT ![p] = "EXIT"]
  /\ UNCHANGED semMultiprogramacion
  /\ pcb_a_ejecutar' = NULL /\ enMano' = <<>> /\ sts' = "espera"
  /\ UNCHANGED <<lts, vListos, colasRecursos, tabla_archivos_globales, colasArchivos>>

\* liberarRecursosAsignados adds the instances back and wakes nobody up; the
\* files of the process stay in the global table; memory and console are
\* told and not waited for; the PCB is freed.
doExit(p) ==
  /\ recursos_disponibles' =
       [r \in Recursos |-> recursos_disponibles[r] + Tenidas(p, r)]
  /\ recursos_asignados' = [recursos_asignados EXCEPT ![p] = SinRecursos]
  /\ open_files' = [open_files EXCEPT ![p] = SinArchivos]
  /\ exit_list' = exit_list \cup {p}
  /\ estado' = [estado EXCEPT ![p] = "EXIT"]
  /\ semMultiprogramacion' = semMultiprogramacion + 1
  /\ pcb_a_ejecutar' = NULL /\ enMano' = <<>> /\ sts' = "espera"
  /\ UNCHANGED <<lts, vListos, colasRecursos, tabla_archivos_globales, colasArchivos>>

-----------------------------------------------------------------------------
(* Short term scheduler: one action per motive of analizarMotivo. *)

\* EXIT, SEG_FAULT, and WAIT or SIGNAL of a resource that does not exist.
finalizar_proceso(p) ==
  /\ \/ recibir_pcb_de_CPU(p, {"EXIT", "SEG_FAULT"})
     \/ recibir_pcb_de_CPU(p, {"WAIT", "SIGNAL"}) /\ Arg(p) \notin Recursos
  /\ doExit(p)
  /\ UNCHANGED <<vConsola, vBloqueo, vFS, vivo>>

doYield(p) ==
  /\ recibir_pcb_de_CPU(p, {"YIELD"})
  /\ Desalojar(<<p>>)
  /\ UNCHANGED <<vConsola, vBloqueo, vFS, vRecursos, vArchivos, vivo>>

\* The process is left to a detached thread that will wake it up.
BloquearEnHilo(p) ==
  /\ Bloquear(p)
  /\ bloqueados' = bloqueados \cup {p}
  /\ UNCHANGED <<vConsola, publicando, vFS, vRecursos, vArchivos, vivo>>

doIO(p) == recibir_pcb_de_CPU(p, {"I/O"}) /\ BloquearEnHilo(p)

\* Unlike reads and writes, the request does not wait for semFS.
do_f_truncate(p) == recibir_pcb_de_CPU(p, {"F_TRUNCATE"}) /\ BloquearEnHilo(p)

SumarInstancia(asignados, p, r) ==
  [asignados EXCEPT ![p][r] = IF @ = SinEntrada THEN 1 ELSE @ + 1]

\* Mutant: the process that waits is also made ready.
doWaitSinBloquear(p) ==
  /\ recibir_pcb_de_CPU(p, {"WAIT"})
  /\ Arg(p) \in Recursos
  /\ LET r == Arg(p) IN
     IF recursos_disponibles[r] > 0
     THEN /\ recursos_disponibles' = [recursos_disponibles EXCEPT ![r] = @ - 1]
          /\ recursos_asignados' = SumarInstancia(recursos_asignados, p, r)
          /\ UNCHANGED colasRecursos
          /\ Desalojar(<<p>>)
     ELSE /\ colasRecursos' = [colasRecursos EXCEPT ![r] = Append(@, p)]
          /\ UNCHANGED <<recursos_disponibles, recursos_asignados>>
          /\ Desalojar(<<p>>)
  /\ UNCHANGED <<vConsola, vBloqueo, vFS, vArchivos, vivo>>

doWait(p) ==
  /\ recibir_pcb_de_CPU(p, {"WAIT"})
  /\ Arg(p) \in Recursos
  /\ LET r == Arg(p) IN
     IF recursos_disponibles[r] > 0
     THEN /\ recursos_disponibles' = [recursos_disponibles EXCEPT ![r] = @ - 1]
          /\ recursos_asignados' = SumarInstancia(recursos_asignados, p, r)
          /\ UNCHANGED colasRecursos
          /\ Desalojar(<<p>>)
     ELSE /\ colasRecursos' = [colasRecursos EXCEPT ![r] = Append(@, p)]
          /\ UNCHANGED <<recursos_disponibles, recursos_asignados>>
          /\ Bloquear(p)
  /\ UNCHANGED <<vConsola, vBloqueo, vFS, vArchivos, vivo>>

\* Mutant: the process keeps the instance it signals.
doSignalSinQuitar(p) ==
  /\ recibir_pcb_de_CPU(p, {"SIGNAL"})
  /\ Arg(p) \in Recursos
  /\ LET r == Arg(p)
         extra == B(recursos_asignados[p][r] = SinEntrada)
         propia == recursos_asignados
     IN IF colasRecursos[r] # <<>>
        THEN LET w == Head(colasRecursos[r]) IN
             /\ recursos_asignados' = SumarInstancia(propia, w, r)
             /\ recursos_disponibles' = [recursos_disponibles EXCEPT ![r] = @ + extra]
             /\ colasRecursos' = [colasRecursos EXCEPT ![r] = Tail(@)]
             /\ Desalojar(<<w, p>>)
        ELSE /\ recursos_asignados' = propia
             /\ recursos_disponibles' = [recursos_disponibles EXCEPT ![r] = @ + extra + 1]
             /\ UNCHANGED colasRecursos
             /\ Desalojar(<<p>>)
  /\ UNCHANGED <<vConsola, vBloqueo, vFS, vArchivos, vivo>>

\* Mutant: the instance is freed and the first waiter stays in the queue.
doSignalSinDespertar(p) ==
  /\ recibir_pcb_de_CPU(p, {"SIGNAL"})
  /\ Arg(p) \in Recursos
  /\ LET r == Arg(p) IN
     /\ recursos_asignados' =
          [recursos_asignados EXCEPT ![p][r] = IF @ > 0 THEN @ - 1 ELSE @]
     /\ recursos_disponibles' = [recursos_disponibles EXCEPT ![r] = @ + 1]
  /\ Desalojar(<<p>>)
  /\ UNCHANGED <<colasRecursos, vConsola, vBloqueo, vFS, vArchivos, vivo>>

\* A process with no entry for r first adds an instance (kernel.c:182) and
\* then releases one like everybody else.
doSignal(p) ==
  /\ recibir_pcb_de_CPU(p, {"SIGNAL"})
  /\ Arg(p) \in Recursos
  /\ LET r == Arg(p)
         extra == B(recursos_asignados[p][r] = SinEntrada)
         propia == [recursos_asignados EXCEPT ![p][r] = IF @ > 0 THEN @ - 1 ELSE @]
     IN IF colasRecursos[r] # <<>>
        THEN LET w == Head(colasRecursos[r]) IN
             /\ recursos_asignados' = SumarInstancia(propia, w, r)
             /\ recursos_disponibles' = [recursos_disponibles EXCEPT ![r] = @ + extra]
             /\ colasRecursos' = [colasRecursos EXCEPT ![r] = Tail(@)]
             /\ Desalojar(<<w, p>>)
        ELSE /\ recursos_asignados' = propia
             /\ recursos_disponibles' = [recursos_disponibles EXCEPT ![r] = @ + extra + 1]
             /\ UNCHANGED colasRecursos
             /\ Desalojar(<<p>>)
  /\ UNCHANGED <<vConsola, vBloqueo, vFS, vArchivos, vivo>>

\* Mutant: the process that waits for the file does not get it in open_files.
do_f_open_sin_abrir(p) ==
  /\ recibir_pcb_de_CPU(p, {"F_OPEN"})
  /\ LET f == Arg(p) IN
     /\ open_files' = IF f \in tabla_archivos_globales THEN open_files
                      ELSE [open_files EXCEPT ![p][f] = @ + 1]
     /\ IF f \in tabla_archivos_globales
        THEN /\ colasArchivos' = [colasArchivos EXCEPT ![f] = Append(@, p)]
             /\ UNCHANGED tabla_archivos_globales
             /\ Bloquear(p)
        ELSE /\ tabla_archivos_globales' = tabla_archivos_globales \cup {f}
             /\ UNCHANGED colasArchivos
             /\ Seguir
  /\ UNCHANGED <<vConsola, vBloqueo, vFS, vRecursos, vivo>>

\* A file that is in the global table blocks the process until an F_CLOSE;
\* otherwise the file system opens or creates it and the process goes on.
do_f_open(p) ==
  /\ recibir_pcb_de_CPU(p, {"F_OPEN"})
  /\ LET f == Arg(p) IN
     /\ open_files' = [open_files EXCEPT ![p][f] = @ + 1]
     /\ IF f \in tabla_archivos_globales
        THEN /\ colasArchivos' = [colasArchivos EXCEPT ![f] = Append(@, p)]
             /\ UNCHANGED tabla_archivos_globales
             /\ Bloquear(p)
        ELSE /\ tabla_archivos_globales' = tabla_archivos_globales \cup {f}
             /\ UNCHANGED colasArchivos
             /\ Seguir
  /\ UNCHANGED <<vConsola, vBloqueo, vFS, vRecursos, vivo>>

\* Mutant: the file leaves the global table although a process waits for it.
do_f_close_siempre_quita(p) ==
  /\ recibir_pcb_de_CPU(p, {"F_CLOSE"})
  /\ LET f == Arg(p) IN
     /\ open_files' = [open_files EXCEPT ![p][f] = @ - 1]
     /\ tabla_archivos_globales' = tabla_archivos_globales \ {f}
     /\ IF colasArchivos[f] = <<>>
        THEN UNCHANGED colasArchivos /\ Desalojar(<<p>>)
        ELSE /\ colasArchivos' = [colasArchivos EXCEPT ![f] = Tail(@)]
             /\ Desalojar(<<Head(colasArchivos[f]), p>>)
  /\ UNCHANGED <<vConsola, vBloqueo, vFS, vRecursos, vivo>>

\* The file of a process that does not have it open has index -1: in the
\* global table that is a NULL queue; in open_files, whatever the list library
\* does with it (nothing, another file removed, or a NULL element freed).
do_f_close(p) ==
  /\ recibir_pcb_de_CPU(p, {"F_CLOSE"})
  /\ LET f == Arg(p) IN
     /\ IF f \notin tabla_archivos_globales
        THEN vivo' = FALSE /\ UNCHANGED open_files
        ELSE IF open_files[p][f] > 0
        THEN open_files' = [open_files EXCEPT ![p][f] = @ - 1] /\ UNCHANGED vivo
        ELSE /\ vivo' \in BOOLEAN
             /\ \E g \in Archivos :
                  open_files' = [open_files EXCEPT ![p][g] = IF @ > 0 THEN @ - 1 ELSE @]
     /\ IF colasArchivos[f] = <<>>
        THEN /\ tabla_archivos_globales' = tabla_archivos_globales \ {f}
             /\ UNCHANGED colasArchivos
             /\ Desalojar(<<p>>)
        ELSE /\ colasArchivos' = [colasArchivos EXCEPT ![f] = Tail(@)]
             /\ UNCHANGED tabla_archivos_globales
             /\ Desalojar(<<Head(colasArchivos[f]), p>>)
  /\ UNCHANGED <<vConsola, vBloqueo, vFS, vRecursos>>

\* A file pointer or a segment table entry changes; the process keeps executing.
do_f_seek(p) ==
  /\ recibir_pcb_de_CPU(p, {"F_SEEK"})
  /\ Seguir
  /\ UNCHANGED <<vConsola, vBloqueo, vFS, vRecursos, vArchivos, vivo>>

do_delete_segment(p) ==
  /\ recibir_pcb_de_CPU(p, {"DELETE_SEGMENT"})
  /\ Seguir
  /\ UNCHANGED <<vConsola, vBloqueo, vFS, vRecursos, vArchivos, vivo>>

\* F_READ and F_WRITE: open_files has no such file -> NULL; otherwise the
\* scheduler itself waits for semFS, holding the PCB.
do_f_read_write(p) ==
  /\ recibir_pcb_de_CPU(p, {"F_READ", "F_WRITE"})
  /\ vivo' = (open_files[p][Arg(p)] > 0)
  /\ pcb_a_ejecutar' = NULL /\ enMano' = <<p>> /\ sts' = "semFS_rw"
  /\ UNCHANGED <<vConsola, vLts, vListos, vBloqueo, vFS, vRecursos, vArchivos, vFin>>

\* Mutant: the request goes out without sem_wait(&semFS).
pedir_fs_sin_esperar ==
  /\ sts = "semFS_rw"
  /\ hiloFS' = "operando" /\ pcbFS' = Head(enMano)
  /\ Bloquear(Head(enMano))
  /\ UNCHANGED <<vConsola, pc, vBloqueo, semFS, vRecursos, vArchivos, vivo>>

pedir_fs ==
  /\ sts = "semFS_rw" /\ semFS > 0
  /\ semFS' = semFS - 1
  /\ hiloFS' = "operando" /\ pcbFS' = Head(enMano)
  /\ Bloquear(Head(enMano))
  /\ UNCHANGED <<vConsola, pc, vBloqueo, vRecursos, vArchivos, vivo>>

-----------------------------------------------------------------------------
(* Short term scheduler: CREATE_SEGMENT and compaction. Memory is external *)
(* here: only which of its answers arrives matters.                        *)

do_create_segment(p) ==
  /\ recibir_pcb_de_CPU(p, {"CREATE_SEGMENT"})
  /\ \E resp \in Respuestas :
       CASE resp = "SEGMENTO_CREADO" -> Seguir /\ UNCHANGED <<vRecursos, vArchivos>>
         [] resp = "OUT_OF_MEMORY"   -> doExit(p)
         [] resp = "COMPACTAR"       ->
              /\ sts' = "semFS_comp"
              /\ UNCHANGED <<pcb_a_ejecutar, enMano, vListos, vLts, vFin, vRecursos,
                             vArchivos>>
  /\ UNCHANGED <<vConsola, vBloqueo, vFS, vivo>>

pedir_compactacion ==
  /\ sts = "semFS_comp" /\ semFS > 0
  /\ semFS' = semFS - 1
  /\ sts' = "compactando"
  /\ UNCHANGED <<vConsola, vLts, vListos, pcb_a_ejecutar, enMano, pc, vBloqueo, hiloFS,
                 pcbFS, vRecursos, vArchivos, vFin, vivo>>

\* buscar_pid returns an uninitialised pointer when nothing is ready and the
\* table is of a process other than the one executing.
PunteroSinIniciar ==
  ready_queue = <<>> /\ \E q \in 0 .. proximo_pid - 1 : q # pcb_a_ejecutar

\* The tables have arrived; CREAR_SEGMENTO is tried again, then sem_post.
fin_compactacion ==
  /\ sts = "compactando"
  /\ semFS' = semFS + 1
  /\ vivo' \in IF PunteroSinIniciar THEN BOOLEAN ELSE {TRUE}
  /\ \E resp \in RespuestasTrasCompactar :
       IF resp = "OUT_OF_MEMORY" THEN doExit(pcb_a_ejecutar)
       ELSE /\ sts' = "cpu"
            /\ UNCHANGED <<pcb_a_ejecutar, enMano, vListos, vLts, vFin, vRecursos,
                           vArchivos>>
  /\ UNCHANGED <<vConsola, pc, vBloqueo, hiloFS, pcbFS>>

analizarMotivo(p) ==
  \/ finalizar_proceso(p) \/ doYield(p) \/ doIO(p) \/ doWait(p) \/ doSignal(p)
  \/ do_f_open(p) \/ do_f_close(p) \/ do_f_seek(p) \/ do_f_read_write(p)
  \/ do_f_truncate(p) \/ do_create_segment(p) \/ do_delete_segment(p)

short_term_scheduler ==
  \/ sts_esperar \/ sts_despachar \/ sts_agregar
  \/ \E p \in Pids : analizarMotivo(p)
  \/ pedir_fs \/ pedir_compactacion \/ fin_compactacion

-----------------------------------------------------------------------------
(* Detached threads. Between its push and its sem_post the process it woke *)
(* up may already run again, and even be blocked by another thread.        *)

\* bloquear_pcb (I/O) and bloquear_pcb_fs (F_TRUNCATE) push the process...
bloquear_pcb(p) ==
  /\ p \in bloqueados
  /\ bloqueados' = bloqueados \ {p}
  /\ ready_queue' = Append(ready_queue, p)
  /\ estado' = [estado EXCEPT ![p] = "READY"]
  /\ publicando' = publicando + 1
  /\ UNCHANGED <<vConsola, vLts, semProcesoListo, vSts, pc, vFS, vRecursos, vArchivos,
                 exit_list, vivo>>

\* ... and post semProcesoListo; publicando counts the threads in between.
publicar_despertado ==
  /\ publicando > 0
  /\ publicando' = publicando - 1
  /\ semProcesoListo' = semProcesoListo + 1
  /\ UNCHANGED <<vConsola, vLts, ready_queue, vSts, pc, bloqueados, vFS, vRecursos,
                 vArchivos, vFin, vivo>>

\* bloquear_pcb_fs_r_w: the file system has answered.
fs_agregar ==
  /\ hiloFS = "operando"
  /\ ready_queue' = Append(ready_queue, pcbFS)
  /\ estado' = [estado EXCEPT ![pcbFS] = "READY"]
  /\ hiloFS' = "encolado" /\ pcbFS' = NULL
  /\ UNCHANGED <<vConsola, vLts, semProcesoListo, vSts, pc, vBloqueo, semFS, vRecursos,
                 vArchivos, exit_list, vivo>>

\* Mutant: the process is queued and nobody is told.
fs_no_publicar ==
  /\ hiloFS = "encolado"
  /\ UNCHANGED semProcesoListo
  /\ hiloFS' = "publicado"
  /\ UNCHANGED <<vConsola, vLts, ready_queue, vSts, pc, vBloqueo, semFS, pcbFS,
                 vRecursos, vArchivos, vFin, vivo>>

fs_publicar ==
  /\ hiloFS = "encolado"
  /\ semProcesoListo' = semProcesoListo + 1
  /\ hiloFS' = "publicado"
  /\ UNCHANGED <<vConsola, vLts, ready_queue, vSts, pc, vBloqueo, semFS, pcbFS,
                 vRecursos, vArchivos, vFin, vivo>>

\* Mutant: the thread ends without sem_post(&semFS).
fs_no_liberar ==
  /\ hiloFS = "publicado"
  /\ UNCHANGED semFS
  /\ hiloFS' = "libre"
  /\ UNCHANGED <<vConsola, vLts, vListos, vSts, pc, vBloqueo, pcbFS, vRecursos,
                 vArchivos, vFin, vivo>>

fs_liberar ==
  /\ hiloFS = "publicado"
  /\ semFS' = semFS + 1
  /\ hiloFS' = "libre"
  /\ UNCHANGED <<vConsola, vLts, vListos, vSts, pc, vBloqueo, pcbFS, vRecursos,
                 vArchivos, vFin, vivo>>

bloquear_pcb_fs_r_w == fs_agregar \/ fs_publicar \/ fs_liberar

-----------------------------------------------------------------------------
Next ==
  /\ vivo
  /\ \/ crear_pcb
     \/ \E p \in Pids : Consola(p)
     \/ long_term_scheduler
     \/ short_term_scheduler
     \/ \E p \in Pids : bloquear_pcb(p)
     \/ publicar_despertado
     \/ bloquear_pcb_fs_r_w

\* Every thread that can take a step takes one: pthreads are scheduled, I/O
\* sleeps end, file system and memory answer. Consoles need not connect.
Equidad ==
  /\ \A p \in Pids : WF_vars(vivo /\ Consola(p))
  /\ WF_vars(vivo /\ long_term_scheduler)
  /\ WF_vars(vivo /\ short_term_scheduler)
  /\ \A p \in Pids : WF_vars(vivo /\ bloquear_pcb(p))
  /\ WF_vars(vivo /\ publicar_despertado)
  /\ WF_vars(vivo /\ bloquear_pcb_fs_r_w)

Spec == Init /\ [][Next]_vars
FairSpec == Spec /\ Equidad
-----------------------------------------------------------------------------
(* Correctness. *)

Cola == Seq(Pids)

TipoConsola ==
  /\ proximo_pid \in 0 .. MaxProcesos
  /\ consola \in [Pids -> {"sin_conectar", "creado", "encolado", "fin"}]
  /\ programa \in [Pids -> Programas \cup {<<>>}]
  /\ new_queue \in Cola /\ semProcesoNuevo \in Nat

TipoPlanificacion ==
  /\ lts \in {"nuevo", "multi", "saca", "publica"} /\ semMultiprogramacion \in Nat
  /\ ready_queue \in Cola /\ semProcesoListo \in Nat
  /\ sts \in {"espera", "saca", "cpu", "encola", "semFS_rw", "semFS_comp", "compactando"}
  /\ pcb_a_ejecutar \in Pids \cup {NULL} /\ enMano \in Cola
  /\ pc \in [Pids -> Nat \ {0}]
  /\ exit_list \subseteq Pids
  /\ estado \in [Pids -> {"SIN_CREAR", "NEW", "READY", "EXEC", "BLOCK", "EXIT"}]

TipoHilos ==
  /\ bloqueados \subseteq Pids /\ publicando \in Nat
  /\ semFS \in Nat /\ pcbFS \in Pids \cup {NULL}
  /\ hiloFS \in {"libre", "operando", "encolado", "publicado"}
  /\ vivo \in BOOLEAN

TipoRecursos ==
  /\ recursos_disponibles \in [Recursos -> Nat]
  /\ colasRecursos \in [Recursos -> Cola]
  /\ recursos_asignados \in [Pids -> [Recursos -> Nat \cup {SinEntrada}]]

TipoArchivos ==
  /\ tabla_archivos_globales \subseteq Archivos
  /\ colasArchivos \in [Archivos -> Cola]
  /\ open_files \in [Pids -> [Archivos -> Nat]]

TypeOK == TipoConsola /\ TipoPlanificacion /\ TipoHilos /\ TipoRecursos /\ TipoArchivos

\* semProcesoListo never promises a process that is not in ready_queue: every
\* entry is a post, or a thread between its push and its sem_post, or the one
\* the scheduler is about to pop. So sacar_pcb_cola_listos never pops NULL,
\* whatever the order in which five kinds of threads push and post.
ListosContados ==
  Len(ready_queue) = semProcesoListo + publicando + B(lts = "publica")
                     + B(hiloFS = "encolado") + B(sts = "saca")

\* The same for new_queue between the console threads, which push and post
\* separately, and the long term scheduler, which may hold a permit while it
\* waits for a place in the multiprogramming degree.
NuevosContados ==
  Len(new_queue) = semProcesoNuevo + Cardinality({p \in Pids : consola[p] = "encolado"})
                   + B(lts \in {"multi", "saca"})

\* Places of the multiprogramming degree are neither lost nor invented: the
\* free ones, the one the long term scheduler has taken and the admitted
\* processes are always GradoMaxMultiprog. doExit is the only one to give back.
Admitidos == {p \in Pids : estado[p] \in {"READY", "EXEC", "BLOCK"}}
GradoRespetado ==
  semMultiprogramacion + Cardinality(Admitidos) + B(lts = "saca") = GradoMaxMultiprog

\* semFS is held by at most one of the file operation under way and the
\* compaction: memory is never compacted under a file operation that carries
\* a physical address, and no post is lost or doubled.
SemFSExclusiva ==
  semFS + B(hiloFS # "libre") + B(sts = "compactando") = 1

Apariciones(q, p) == Cardinality({i \in DOMAIN q : q[i] = p})

Lugares(p) ==
  Apariciones(new_queue, p) + Apariciones(ready_queue, p) + Apariciones(enMano, p)
  + B(pcb_a_ejecutar = p) + B(p \in bloqueados) + B(pcbFS = p) + B(p \in exit_list)
  + B(consola[p] \in {"sin_conectar", "creado"})
  + SumFunction([r \in Recursos |-> Apariciones(colasRecursos[r], p)])
  + SumFunction([f \in Archivos |-> Apariciones(colasArchivos[f], p)])

\* A PCB is in exactly one place of the kernel, never lost and never queued
\* twice, and that place is the state the kernel logged for it.
UnicoLugar ==
  \A p \in Pids :
    /\ Lugares(p) = 1
    /\ estado[p] = "NEW" <=> p \in Range(new_queue)
    /\ estado[p] = "READY" <=> p \in Range(ready_queue)
    /\ estado[p] = "EXEC" => p = pcb_a_ejecutar \/ p \in Range(enMano)
    /\ estado[p] = "EXIT" <=> p \in exit_list

\* A file in the global table has exactly one process that holds it open and
\* is not waiting for it; no other file is open or waited for. (For programs
\* that close what they open, and only that.)
Duenios(f) == {p \in Pids : open_files[p][f] > 0 /\ p \notin Range(colasArchivos[f])}
DuenioUnico ==
  \A f \in Archivos :
    IF f \in tabla_archivos_globales THEN Cardinality(Duenios(f)) = 1
    ELSE Duenios(f) = {} /\ colasArchivos[f] = <<>>

Existentes(r) == recursos_disponibles[r] + SumFunction([p \in Pids |-> Tenidas(p, r)])

\* WAIT, SIGNAL and EXIT move the instances of INSTANCIAS_RECURSOS between the
\* kernel and the processes and never create or destroy one. (For programs
\* that only SIGNAL what they hold.)
RecursosConservados == \A r \in Recursos : Existentes(r) = Instancias[r]

\* A process waits for a resource only while no instance of it is free.
EsperaJustificada ==
  \A r \in Recursos : colasRecursos[r] # <<>> => recursos_disponibles[r] = 0

\* No step, and so no SIGNAL, adds more than one instance of a resource.
SignalLiberaUna == [][\A r \in Recursos : Existentes(r)' <= Existentes(r) + 1]_vars

\* The kernel never dereferences a bad pointer.
NoSeCae == vivo

\* D waits for itself: each of its members queues for a resource all of whose
\* instances are held by members.
AbrazoMortal(D) ==
  \A p \in D : \E r \in Recursos :
    /\ p \in Range(colasRecursos[r])
    /\ {q \in Pids : Tenidas(q, r) > 0} \subseteq D
EnAbrazo(p) == \E D \in SUBSET Pids : p \in D /\ AbrazoMortal(D)

\* Nothing but a deadlock over WAIT can keep a process from its EXIT: from some
\* point on every process that reached NEW has ended, or is in the deadlock, or
\* finds every place of the multiprogramming degree taken by processes that are.
TodosTerminan ==
  <>[] \A p \in Pids :
         \/ estado[p] \in {"SIN_CREAR", "EXIT"} \/ EnAbrazo(p)
         \/ estado[p] = "NEW" /\ \A q \in Admitidos : EnAbrazo(q)

\* A ready process runs, whoever else is waiting for whatever.
ListoEjecuta == \A p \in Pids : estado[p] = "READY" ~> estado[p] = "EXEC"

\* Seen from outside, the kernel is the life cycle of CicloDeVida: no step
\* skips a state, runs two processes or admits one too many, and a free CPU
\* takes a ready process.
Ciclo == INSTANCE CicloDeVida WITH Procesos <- Pids, Grado <- GradoMaxMultiprog
CicloSpec == Ciclo!Spec
=============================================================================
