------------------------------- MODULE Tablas --------------------------------
(***************************************************************************)
(* The copies of the segment tables. Memory has the true table of every    *)
(* process; the kernel keeps a copy in the PCB, which goes to the CPU and  *)
(* back with it, and the MMU translates with that copy. Creation and       *)
(* deletion bring both up to date; a compaction moves the segments of all, *)
(* and memory then sends every table to the kernel, which gives them to    *)
(* PCBs one at a time while other threads move PCBs around.                *)
(*                                                                         *)
(* Memory is seen through what Asignador promises and the order of its     *)
(* lists (see Memoria for the rest). Addresses count units. The ready      *)
(* queue is FIFO, and admission has no limit (see Kernel for both).        *)
(***************************************************************************)
EXTENDS Integers, Sequences, SequencesExt, FiniteSets, FiniteSetsExt

CONSTANTS
  Pids,
  cant_segmentos, tam_memoria, tam_segmento_0,   \* memoria.config
  Tamanios,        \* sizes a program may ask for
  Numeros,         \* entries a program may ask for
  MaxPedidos       \* bound: segments asked for in a behaviour

ASSUME TablasAssumption ==
  /\ Pids \subseteq Nat /\ cant_segmentos \in Nat \ {0}
  /\ tam_segmento_0 \in Nat \ {0} /\ tam_memoria \in Nat /\ tam_segmento_0 < tam_memoria
  /\ Tamanios \subseteq Nat \ {0} /\ MaxPedidos \in Nat
  /\ Numeros \subseteq 0 .. cant_segmentos - 1

Sids == 0 .. cant_segmentos - 1
NADIE == -1

VARIABLES
  segs,                      \* memory: the range of each entry of each table
  lista_segmentos_actuales,  \* memory: the entries <<p, s>> in order of creation
  lista_tablas,              \* memory: the processes with a table, in order
  estado,         \* "ausente", "new", "ready", "exec", "block", "fin" (FIN_PROCESO sent)
  ready_queue,
  segment_tables, cant_segmentos_actuales,   \* the copy of each PCB
  hiloFS,         \* the process whose file is being read or written, at an address
                  \* of one of its segments
  fase,           \* of a compaction, "libre" when there is none
  pedido,         \* the creation that asked for it
  tablas,         \* the tables sent by memory that the kernel has not given out yet
  porEnviar,      \* how many tables memory still sends, and where it is in the list
  defecto,        \* history: what has happened to each copy since it was last right
  pedidos,        \* bound: segments asked for
  vivo            \* FALSE once a bad pointer was used, or a write broke the kernel

vMemoria == <<segs, lista_segmentos_actuales, lista_tablas>>
vKernel == <<estado, ready_queue>>
vTablas == <<segment_tables, cant_segmentos_actuales, defecto>>
vCompactar == <<fase, pedido, tablas, porEnviar>>
vars == <<vMemoria, vKernel, vTablas, hiloFS, vCompactar, pedidos, vivo>>

A == INSTANCE Asignador WITH conTabla <- ToSet(lista_tablas)

\* An empty entry is base 0 and size 0 in the kernel and -1 and -1 in memory: no
\* address either way. The list leaves out segment 0, always the first of it.
SinPedido == [sid |-> 0, tam |-> 0]
SinTabla == [s \in Sids |-> A!NADA]
\* An entry that a write meant for another PCB fell on, any base and any size: no
\* range, since it ends before it begins.
PISADA == [base |-> 0, limite |-> -1]

Init ==
  /\ segs = [p \in Pids |-> SinTabla]
  /\ lista_segmentos_actuales = <<>> /\ lista_tablas = <<>>
  /\ estado = [p \in Pids |-> "ausente"] /\ ready_queue = <<>>
  /\ segment_tables = [p \in Pids |-> SinTabla]
  /\ cant_segmentos_actuales = [p \in Pids |-> 0]
  /\ hiloFS = NADIE
  /\ fase = "libre" /\ pedido = SinPedido /\ tablas = <<>>
  /\ porEnviar = [faltan |-> 0, i |-> 0]
  /\ defecto = [p \in Pids |-> {}]
  /\ pedidos = 0 /\ vivo = TRUE

\* Memory's own count of a process (Memoria!TablasYLista), and its table as
\* enviar_tabla_a_kernel sends it: the first entries only.
Cant(p) == Cardinality({s \in Sids : segs[p][s] # A!NADA})
Primeras(t, n) == [s \in Sids |-> IF s < n THEN t[s] ELSE A!NADA]
enviar_tabla_a_kernel(p) ==
  [pid |-> p, cant |-> Cant(p), segmentos |-> Primeras(segs[p], Cant(p))]

Ocupadas(p) == {s \in Sids \ {0} : segs[p][s] # A!NADA}

\* What is left of a table after crear_paquete_pcb and deserializarPcb.
Serializar(t, n) == Primeras(t, n)

Caer == vivo' = FALSE /\ UNCHANGED <<vMemoria, vKernel, vTablas, hiloFS, vCompactar, pedidos>>

-----------------------------------------------------------------------------
(* Processes. *)

Pasar(p, e) == estado' = [estado EXCEPT ![p] = e]
Encolar(p) == ready_queue' = Append(ready_queue, p)

\* Pids are handed out in order.
crear_pcb(p) ==
  /\ estado[p] = "ausente" /\ \A q \in Pids : q < p => estado[q] # "ausente"
  /\ Pasar(p, "new")
  /\ lista_tablas' = Append(lista_tablas, p)
  /\ segs' = [segs EXCEPT ![p][0] = A!SEGMENTO_0]
  /\ cant_segmentos_actuales' = [cant_segmentos_actuales EXCEPT ![p] = 1]
  /\ segment_tables' = [segment_tables EXCEPT ![p][0] = A!SEGMENTO_0]
  /\ UNCHANGED <<lista_segmentos_actuales, ready_queue, defecto, hiloFS, vCompactar, pedidos, vivo>>

\* The long term scheduler and the threads that end a wait.
agregar_pcb_en_cola_listos(p) ==
  /\ \/ estado[p] = "new"
     \/ estado[p] = "block" /\ hiloFS # p
  /\ Pasar(p, "ready") /\ Encolar(p)
  /\ UNCHANGED <<vMemoria, vTablas, hiloFS, vCompactar, pedidos, vivo>>

\* The file system has answered. Push, post and semFS are apart in Kernel.
bloquear_pcb_fs_r_w ==
  /\ hiloFS # NADIE
  /\ Pasar(hiloFS, "ready") /\ Encolar(hiloFS)
  /\ hiloFS' = NADIE
  /\ UNCHANGED <<vMemoria, vTablas, vCompactar, pedidos, vivo>>

enviar_pcb_cpu(p) ==
  segment_tables' = [segment_tables EXCEPT ![p] = Serializar(@, cant_segmentos_actuales[p])]

meter_pcb_en_ejecucion ==
  /\ ready_queue # <<>> /\ \A q \in Pids : estado[q] # "exec"
  /\ Pasar(Head(ready_queue), "exec") /\ ready_queue' = Tail(ready_queue)
  /\ enviar_pcb_cpu(Head(ready_queue))
  /\ UNCHANGED <<vMemoria, cant_segmentos_actuales, defecto, hiloFS, vCompactar, pedidos, vivo>>

\* What the process in the CPU may do next is up to its program.
Ejecuta(p) == estado[p] = "exec" /\ fase = "libre"

\* I/O, a WAIT or an F_OPEN that blocks, F_TRUNCATE; YIELD is a wait that ends at once.
doIO(p) ==
  /\ Ejecuta(p)
  /\ Pasar(p, "block")
  /\ UNCHANGED <<vMemoria, ready_queue, vTablas, hiloFS, vCompactar, pedidos, vivo>>

\* The CPU sends a physical address (enviar_direccion_fisica), and the kernel
\* waits for semFS before it hands it to the file system.
do_f_read_write(p) ==
  /\ Ejecuta(p) /\ hiloFS = NADIE /\ Ocupadas(p) # {}
  /\ hiloFS' = p
  /\ Pasar(p, "block")
  /\ UNCHANGED <<vMemoria, ready_queue, vTablas, vCompactar, pedidos, vivo>>

\* FIN_PROCESO goes to memory, and the PCB is freed.
doExit(p) ==
  /\ Pasar(p, "fin")
  /\ segment_tables' = [segment_tables EXCEPT ![p] = SinTabla]
  /\ cant_segmentos_actuales' = [cant_segmentos_actuales EXCEPT ![p] = 0]
  /\ defecto' = [defecto EXCEPT ![p] = {}]

EXIT(p) ==
  /\ Ejecuta(p) /\ doExit(p)
  /\ UNCHANGED <<vMemoria, ready_queue, hiloFS, vCompactar, pedidos, vivo>>

eliminar_segmento(p, s) ==
  /\ segs' = [segs EXCEPT ![p][s] = A!NADA]
  /\ lista_segmentos_actuales' = RemoveFirst(lista_segmentos_actuales, <<p, s>>)

\* FIN_PROCESO in its thread of memory: a segment at a time, then the table.
fin_proceso(p) ==
  /\ estado[p] = "fin" /\ p \in ToSet(lista_tablas)
  /\ IF Ocupadas(p) # {}
     THEN eliminar_segmento(p, Min(Ocupadas(p))) /\ UNCHANGED lista_tablas
     ELSE /\ segs' = [segs EXCEPT ![p] = SinTabla]
          /\ lista_tablas' = RemoveFirst(lista_tablas, p)
          /\ UNCHANGED lista_segmentos_actuales
  /\ UNCHANGED <<vKernel, vTablas, hiloFS, vCompactar, pedidos, vivo>>

-----------------------------------------------------------------------------
(* Segments. *)

\* The holes in which t units fit, each taken from its start.
Limites == {tam_segmento_0} \cup {segs[e[1]][e[2]].limite : e \in ToSet(lista_segmentos_actuales)}
\* Mutant: the last hole has no end.
Huecos_sin_fin(t) ==
  {r \in {[base |-> b, limite |-> b + t] : b \in Limites} : A!Libre(r)}
Huecos(t) ==
  {r \in {[base |-> b, limite |-> b + t] : b \in Limites} : r.limite <= tam_memoria /\ A!Libre(r)}
SumaTam(lista) == SumFunction([i \in DOMAIN lista |-> A!Tam(segs[lista[i][1]][lista[i][2]])])
Ocupado == tam_segmento_0 + SumaTam(lista_segmentos_actuales)

\* What the kernel writes into the table: size is where the segment ends.
Entrada(base, t) == [base |-> base, limite |-> base + t]

\* The room of a PCB that has come over the socket: four entries for each segment
\* it counts, whatever CANT_SEGMENTOS is.
Entradas(p) == 4 * cant_segmentos_actuales[p]
\* The other PCBs of the kernel.
EnKernel == {q \in Pids : estado[q] \in {"new", "ready", "block"}}

\* The kernel writes entry s of the PCB the CPU sent, whose room nobody checks, and
\* the first n go back. What is behind the array is not of that PCB: the write may
\* spoil nothing that a table shows, or an entry that another PCB counts, or
\* anything else of the kernel, of which nothing is said from then on (vivo).
escribir_entrada(p, s, e, n) ==
  LET copias == [segment_tables EXCEPT ![p] = Serializar([@ EXCEPT ![s] = e], n)]
      faltas == [defecto EXCEPT ![p] = IF s < n \/ e = A!NADA THEN @ ELSE @ \cup {"perdido"}]
  IN /\ cant_segmentos_actuales' = [cant_segmentos_actuales EXCEPT ![p] = n]
     /\ \/ /\ segment_tables' = copias /\ defecto' = faltas
           /\ vivo' \in IF s < Entradas(p) THEN {vivo} ELSE BOOLEAN
        \/ \E q \in EnKernel, x \in Sids :
             /\ s >= Entradas(p) /\ x < cant_segmentos_actuales[q]
             /\ segment_tables' = [copias EXCEPT ![q][x] = PISADA]
             /\ defecto' = [faltas EXCEPT ![q] = @ \cup {"pisado"}]
             /\ UNCHANGED vivo

\* Mutant: the kernel does not count the new segment.
SEGMENTO_CREADO_sin_contar(p, s, t) ==
  \E r \in Huecos(t) :
    /\ segs' = [segs EXCEPT ![p][s] = r]
    /\ lista_segmentos_actuales' = Append(lista_segmentos_actuales, <<p, s>>)
    /\ escribir_entrada(p, s, Entrada(r.base, t), cant_segmentos_actuales[p])
\* Memory's answer and what do_create_segment does with it, up to the PCB the
\* CPU gets back.
SEGMENTO_CREADO(p, s, t) ==
  \E r \in Huecos(t) :
    /\ segs' = [segs EXCEPT ![p][s] = r]
    /\ lista_segmentos_actuales' = Append(lista_segmentos_actuales, <<p, s>>)
    /\ escribir_entrada(p, s, Entrada(r.base, t), cant_segmentos_actuales[p] + 1)

\* The program asks for a segment in an entry it does not use.
do_create_segment(p) ==
  /\ Ejecuta(p) /\ pedidos < MaxPedidos
  /\ pedidos' = pedidos + 1
  /\ \E s \in {e \in Numeros : segs[p][e] = A!NADA}, t \in Tamanios :
       \/ SEGMENTO_CREADO(p, s, t) /\ UNCHANGED <<vKernel, vCompactar>>
       \/ /\ Huecos(t) = {} /\ tam_memoria - Ocupado >= t
          /\ fase' = "esperar" /\ pedido' = [sid |-> s, tam |-> t]
          /\ UNCHANGED <<segs, lista_segmentos_actuales, vKernel, vTablas, tablas, porEnviar, vivo>>
       \/ /\ tam_memoria - Ocupado < t
          /\ doExit(p)
          /\ UNCHANGED <<segs, lista_segmentos_actuales, ready_queue, vCompactar, vivo>>
  /\ UNCHANGED <<lista_tablas, hiloFS>>

\* The kernel does not lower its count.
do_delete_segment(p) ==
  /\ Ejecuta(p)
  /\ \E s \in Ocupadas(p) :
       /\ eliminar_segmento(p, s)
       /\ escribir_entrada(p, s, A!NADA, cant_segmentos_actuales[p])
  /\ UNCHANGED <<lista_tablas, vKernel, hiloFS, vCompactar, pedidos>>

-----------------------------------------------------------------------------
(* Compaction. *)

\* Mutant: the kernel does not wait for the file operation under way.
esperar_semFS_no == fase = "esperar"
\* semFS is held by the thread of a read or write until it ends.
esperar_semFS == fase = "esperar" /\ hiloFS = NADIE

\* Mutant: segment 0 is forgotten.
Destino_desde_cero(i) == SumaTam(SubSeq(lista_segmentos_actuales, 1, i - 1))
\* Segments go one behind the other in the order of the list.
Destino(i) == tam_segmento_0 + SumaTam(SubSeq(lista_segmentos_actuales, 1, i - 1))

Compactado ==
  LET Lugar(e) == CHOOSE i \in DOMAIN lista_segmentos_actuales : lista_segmentos_actuales[i] = e
  IN [p \in Pids |-> [s \in Sids |->
       IF <<p, s>> \in ToSet(lista_segmentos_actuales)
       THEN LET d == Destino(Lugar(<<p, s>>)) IN [base |-> d, limite |-> d + A!Tam(segs[p][s])]
       ELSE segs[p][s]]]

compactar_memoria ==
  /\ esperar_semFS
  /\ segs' = Compactado
  /\ defecto' = [p \in Pids |-> IF segs'[p] = segs[p] \/ estado[p] = "fin" THEN defecto[p]
                                ELSE defecto[p] \cup {"movido"}]
  /\ fase' = "enviar" /\ porEnviar' = [faltan |-> Len(lista_tablas), i |-> 1]
  /\ UNCHANGED <<lista_segmentos_actuales, lista_tablas, vKernel, segment_tables,
                 cant_segmentos_actuales, hiloFS, pedido, tablas, pedidos, vivo>>

\* The loop has the length the list had when it began: a table taken away by
\* FIN_PROCESO moves the others, and the last index finds none.
enviar_tablas ==
  /\ fase = "enviar"
  /\ IF porEnviar.i > Len(lista_tablas) THEN Caer
     ELSE /\ tablas' = Append(tablas, enviar_tabla_a_kernel(lista_tablas[porEnviar.i]))
          /\ porEnviar' = [faltan |-> porEnviar.faltan - 1, i |-> porEnviar.i + 1]
          /\ fase' = IF porEnviar.faltan = 1 THEN "asignar" ELSE "enviar"
          /\ UNCHANGED <<vMemoria, vKernel, vTablas, hiloFS, pedido, pedidos, vivo>>

Asignar(q, t, d) ==
  /\ segment_tables' = [segment_tables EXCEPT ![q] = t.segmentos]
  /\ cant_segmentos_actuales' = [cant_segmentos_actuales EXCEPT ![q] = t.cant]
  /\ defecto' = [defecto EXCEPT ![q] = d]

PerdidoEn(t) == IF \A s \in Sids : segs[t.pid][s] # A!NADA => s < t.cant THEN {} ELSE {"perdido"}

\* The PCB that gets the table: the ready one with that pid; for the executing
\* one pcb_a_ejecutar, whose table nobody reads again; for any other the last
\* PCB the search looked at, and with an empty queue a pointer never set.
buscar_pid(t) ==
  \/ t.pid \in ToSet(ready_queue) /\ Asignar(t.pid, t, PerdidoEn(t))
  \/ estado[t.pid] = "exec" /\ UNCHANGED vTablas
  \/ /\ t.pid \notin ToSet(ready_queue) /\ estado[t.pid] # "exec"
     /\ IF ready_queue # <<>> THEN Asignar(Last(ready_queue), t, {"ajeno"})
        ELSE UNCHANGED vTablas

asignar_tablas ==
  /\ fase = "asignar"
  /\ buscar_pid(Head(tablas))
  /\ tablas' = Tail(tablas)
  /\ fase' = IF Len(tablas) = 1 THEN "reintentar" ELSE "asignar"
  /\ UNCHANGED <<vMemoria, vKernel, hiloFS, pedido, porEnviar, pedidos, vivo>>

PunteroSinIniciar ==
  /\ fase = "asignar" /\ ready_queue = <<>> /\ estado[Head(tablas).pid] # "exec"
  /\ Caer

reintentar(p) ==
  /\ fase = "reintentar" /\ estado[p] = "exec"
  /\ SEGMENTO_CREADO(p, pedido.sid, pedido.tam)
  /\ fase' = "libre" /\ pedido' = SinPedido /\ porEnviar' = [faltan |-> 0, i |-> 0]
  /\ UNCHANGED <<lista_tablas, vKernel, hiloFS, tablas, pedidos>>

-----------------------------------------------------------------------------
Compactar ==
  \/ compactar_memoria
  \/ enviar_tablas
  \/ asignar_tablas
  \/ PunteroSinIniciar
  \/ \E p \in Pids : reintentar(p)

Next ==
  /\ vivo
  /\ \/ \E p \in Pids : crear_pcb(p)
     \/ \E p \in Pids : agregar_pcb_en_cola_listos(p)
     \/ bloquear_pcb_fs_r_w
     \/ meter_pcb_en_ejecucion
     \/ \E p \in Pids : doIO(p)
     \/ \E p \in Pids : do_f_read_write(p)
     \/ \E p \in Pids : EXIT(p)
     \/ \E p \in Pids : fin_proceso(p)
     \/ \E p \in Pids : do_create_segment(p)
     \/ \E p \in Pids : do_delete_segment(p)
     \/ Compactar

Spec == Init /\ [][Next]_vars

-----------------------------------------------------------------------------
(* The MMU. *)

\* Mutant: the array is not cleared, and the entries that did not come over the
\* socket may be old ones.
Leidas_sin_limpiar(p, s) ==
  IF s < cant_segmentos_actuales[p] /\ s \in Sids THEN {segment_tables[p][s]}
  ELSE {A!NADA, [base |-> 0, limite |-> tam_memoria]}
\* The entry that cpu.c finds at number s of its array: zeros behind what came over
\* the socket, and anything behind the array or where another write fell.
Cualquiera == [base : Int, limite : Int]
Leidas(p, s) ==
  IF s >= Entradas(p) THEN Cualquiera
  ELSE IF s \notin Sids THEN {A!NADA}
  ELSE IF segment_tables[p][s] = PISADA THEN Cualquiera ELSE {segment_tables[p][s]}

mmu(e, d) == e.base + d
tam_max(e) == e.limite - e.base

\* Mutant: the offset is checked, and not the end of the register.
SEG_FAULT_sin_registro(e, d, n) == d >= tam_max(e)
\* MOV_IN and MOV_OUT of a register of n units at offset d of the segment of entry e.
SEG_FAULT(e, d, n) == d + n > tam_max(e)

-----------------------------------------------------------------------------
(* Properties. *)

Tabla == [Sids -> A!Rangos]
Copia == [Sids -> A!Rangos \cup {PISADA}]
Defectos == SUBSET {"movido", "ajeno", "perdido", "pisado"}

\* Tables hold ranges, queues hold processes, a compaction is asked for by the
\* process that executes.
TypeOK ==
  /\ segs \in [Pids -> Tabla] /\ segment_tables \in [Pids -> Copia]
  /\ lista_segmentos_actuales \in Seq(Pids \X Sids) /\ lista_tablas \in Seq(Pids)
  /\ estado \in [Pids -> {"ausente", "new", "ready", "exec", "block", "fin"}]
  /\ ready_queue \in Seq(Pids)
  /\ cant_segmentos_actuales \in [Pids -> 0 .. MaxPedidos + 1]
  /\ hiloFS \in Pids \cup {NADIE}
  /\ fase \in {"libre", "esperar", "enviar", "asignar", "reintentar"}
  /\ fase # "libre" => \E p \in Pids : estado[p] = "exec"
  /\ pedido.sid \in Sids /\ pedido.tam \in Tamanios \cup {0}
  /\ tablas \in Seq([pid : Pids, cant : 0 .. cant_segmentos, segmentos : Tabla])
  /\ porEnviar.faltan \in Nat /\ porEnviar.i \in Nat
  /\ defecto \in [Pids -> Defectos] /\ pedidos \in 0 .. MaxPedidos /\ vivo \in BOOLEAN

EnCPU(p) == estado[p] = "exec" /\ fase = "libre"
Desplazamientos == 0 .. tam_memoria - 1
Registros == 1 .. 2

\* Memory's size of segment s of p, present or not.
TamReal(p, s) == IF s \in Sids THEN A!Tam(segs[p][s]) ELSE 0

\* An access that passes the check of MOV_IN or MOV_OUT falls inside the segment
\* the program named, in memory's own table: no address of another process. It
\* holds through creations, deletions and entries dropped on the way to the CPU,
\* for every number inside the array, of a segment the process has or not. It says
\* nothing of a number behind the array, where any base and size may be read, nor
\* after a compaction moved the segments of a process while its PCB was not in
\* ready_queue or gave its PCB the table of another, nor after a write behind the
\* array of another process fell on its table.
TraduccionFiel ==
  \A p \in Pids : EnCPU(p) /\ defecto[p] \subseteq {"perdido"} =>
    \A s \in 0 .. Entradas(p) - 1 : \A e \in Leidas(p, s) :
      \A d \in Desplazamientos, n \in Registros :
        ~SEG_FAULT(e, d, n) =>
          /\ s \in Sids
          /\ segs[p][s].base <= mmu(e, d)
          /\ mmu(e, d) + n <= segs[p][s].limite

\* A process is killed for a SEG_FAULT when it is outside its segment, and only
\* then, also after a compaction left it with old bases: sizes survive what bases
\* do not. Numbers are those inside the array.
LimitesFieles ==
  \A p \in Pids : EnCPU(p) /\ defecto[p] \subseteq {"movido"} =>
    \A s \in 0 .. Entradas(p) - 1 : \A e \in Leidas(p, s) :
      \A d \in Desplazamientos, n \in Registros :
        SEG_FAULT(e, d, n) <=> d + n > TamReal(p, s)

\* How far the array reaches: four times as many entries as memory has segments of
\* the process, through deletions (which lower no count of the kernel) and
\* compactions (which bring it down to that of memory). A program whose numbers
\* stay below that neither writes nor reads behind it.
LugarSuficiente ==
  \A p \in Pids : EnCPU(p) /\ defecto[p] \cap {"ajeno", "pisado"} = {} =>
    Entradas(p) >= 4 * Cant(p)

\* The file system works on an address computed long before it reaches memory:
\* until it answers, the segments of that process stay where they were (semFS,
\* kernel.c:558), whoever else asks for memory.
DireccionVigente ==
  [][hiloFS # NADIE /\ hiloFS' = hiloFS => segs'[hiloFS] = segs[hiloFS]]_vars

\* With compaction in the order of the list, and processes ending before, during
\* and after it, ranges are handed out once and moved as Asignador promises.
ImplementaAsignador == A!Spec
=============================================================================
