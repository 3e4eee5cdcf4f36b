# T.U.K.I. in TLA+

A verification project for T.U.K.I., a distributed operating-system simulator in
C: a kernel, a CPU, a memory and a file system that are processes connected by
TCP, and consoles that send programs to the kernel. The modules here are
translated from the C sources; `PROJECT.json` gives, for every definition, the
lines it stands for.

| file | what it is |
|---|---|
| `Kernel.tla` | the kernel process: consoles, schedulers, resources, files, compaction protocol |
| `CicloDeVida.tla` | abstract specification: what the kernel promises of its processes |
| `KernelMC.tla`, `Kernel*.cfg` | instances of `Kernel` for TLC, four runs |
| `KernelProofs.tla` | theorems about `Kernel` and their TLAPS proofs: types, semaphores and queues, where a process is, the degree, the refinement of `CicloDeVida` |
| `Disciplina.tla` | what the kernel takes for granted about a list of instructions |
| `KernelProgramas.tla` | theorems about programs that keep to it: resources, files, no NULL |
| `ColaListos.tla` | the ready queue under HRRN: estimates, timers, sorting, logging |
| `ColaListosMC.tla`, `ColaListos.cfg` | instance of `ColaListos`, one run |
| `ColaListosProofs.tla` | theorems about `ColaListos` |
| `Asignador.tla` | abstract specification: what memory promises of its segments |
| `AsignadorProofs.tla` | theorem about `Asignador` |
| `Memoria.tla` | the memory process: holes, segments, tables, compaction |
| `MemoriaMC.tla`, `Memoria*.cfg` | instances of `Memoria`, three runs |
| `MemoriaProofs.tla` | theorems about `Memoria`, the refinement of `Asignador` among them |
| `Tablas.tla` | the copies of the segment tables in kernel and CPU, and the MMU |
| `TablasMC.tla`, `TablasCompactacion.cfg` | instance of `Tablas`, one run |
| `TablasProofs.tla` | theorems about `Tablas`, the refinement of `Asignador` among them |
| `FileSystem.tla` | the file system: bitmap, FCBs, pointers, truncation, restarts |
| `Accesos.tla` | extends `FileSystem`: the bytes a read or a write of a file touches |
| `Valores.tla` | extends `Accesos`: a value from a register to memory, a file, and back |
| `FileSystemProofs.tla` | theorems about `FileSystem`, `Accesos` and `Valores` |
| `FileSystemMC.tla`, `FileSystem*.cfg` | instances of those three, three runs |
| `Sumas.tla` | lemmas about induction over finite sets, folds, finite sums and lists |

Names in the modules are those of the code where TLA+ allows it.

## 1. Inventory

**Kernel** (`src/kernel/src`). State: `new_queue`, `ready_queue` and `exit_list`,
each with a mutex; `pcb_a_ejecutar`; the semaphores `semProcesoNuevo`,
`semProcesoListo`, `semMultiprogramacion` and `semFS`; the resources, each with a
count and a queue; the global table of open files, each with a queue. A PCB holds
the program counter and registers, the segment table, the files the process has
open and the resources it was given. Threads: one `handle_consola` per console, the
long term scheduler (NEW to READY, up to the multiprogramming degree), the short
term scheduler (takes a ready process, under FIFO or HRRN, dispatches it to the
CPU and handles what makes the PCB come back),
and a detached thread for each process that sleeps (`bloquear_pcb`), truncates
(`bloquear_pcb_fs`) or reads or writes a file (`bloquear_pcb_fs_r_w`).
*Hard:* queues are pushed under a mutex and announced by a semaphore after it, by
five kinds of threads; the scheduler may itself wait for `semFS` with a PCB in its
hands; `doExit` is called from five places, one of them after a compaction; under
HRRN the timer of a wait is created after the push, and the queue is walked to log
it without its mutex; after a compaction the new tables go to PCBs that other
threads are moving around. *Correct when:* the semaphores
agree with the queues, a PCB is in exactly one place, places and instances are
neither lost nor invented, files and memory are never operated on during a
compaction, the process with the largest response ratio executes, and whoever can
run does.

**Memory** (`src/memoria/src`). State: the list of free holes, the list of segments,
one segment table per process, the bytes. Operations: tables for a new process,
creation under BEST, WORST or FIRST, deletion with consolidation, compaction, end of
a process (not answered, so it overlaps with later requests), reads and writes.
*Hard:* the order of the hole list depends on everything done before, and deletion
works with indices of that list; free memory is added up to decide between
COMPACTAR and OUT_OF_MEMORY. *Correct when:* holes and segments partition the
memory, tables and list name the same segments, compaction loses no byte, and a
retry after it fits.

**File system** (`src/fileSystem/src`). State, all persistent: the bitmap, the
blocks, one FCB per file (size, first block, block of pointers). Operations: open or
create, truncate, read, write; one thread per connection. *Hard:* truncates of
different files are concurrent; the bitmap, the block of pointers and the FCB
are written one after the other; 0 means "no block" and is a block. *Correct when:* no
block has two owners, none is lost, and a file has a block for each of its bytes.

**CPU** (`src/cpu/src`). State: registers and the PCB it runs. Runs instructions until
one needs the kernel; the MMU translates with the table in the PCB. *Hard:* the table
is a copy of a copy, cut to a count when it travels, in an array whose room depends
on that count and which kernel and CPU index with the numbers of the program; registers are arrays of bytes
and memory takes them for strings. *Correct when:* the PCB goes back once per
dispatch, an address is translated with the current table, and a value comes back
as it was stored.

**Console** (`src/consola/src`) reads a program, sends it and waits for the end.
**Shared** (`src/shared/src`) has sockets, packets and PCB serialisation.

Who talks to whom:

    consoles --program--> kernel --PCB--> CPU --PCB and motive--> kernel
    kernel --create, delete, compact, end--> memory --answer, tables--> kernel
    kernel --open, truncate, read, write--> file system --read, write--> memory
    CPU --read, write at a physical address--> memory

What is hard to test in this code is listed in `PROJECT.json` under `hazards`, each
at its line and with the properties that watch it.

## 2. What is modelled, and how it corresponds to the code

### Kernel

A thread is a program counter (`consola[p]`, `lts`, `sts`, `hiloFS`), and a step is
the code between two points where another thread can tell the difference. So a push
under a mutex and the `sem_post` after it are two steps, and whatever the short
term scheduler does to resources, files or `exit_list`, which nobody else touches, is
one step with the handler it belongs to. The only merge of a push and its post is
`sts_agregar`: the scheduler is itself the only consumer of that semaphore.

| code | definitions |
|---|---|
| `handle_consola`, `crear_pcb` | `crear_pcb`, `agregar_pcb_cola_nuevos`, `publicar_nuevo` |
| `long_term_scheduler` | `lts_esperar_nuevo`, `lts_esperar_grado`, `lts_admitir`, `lts_publicar` |
| `short_term_scheduler` | `sts_esperar`, `sts_despachar`, `sts_agregar`, `analizarMotivo` |
| `doExit`, `doIO`, `doYield`, `doWait`, `doSignal` | the same; what they end in is `Desalojar`, `Bloquear`, `Seguir` |
| `do_f_open`, `do_f_close`, `do_f_seek`, `do_f_truncate` | the same |
| `do_f_read`, `do_f_write` | `do_f_read_write`, `pedir_fs` (the wait for `semFS`) |
| `do_create_segment` | `do_create_segment`, `pedir_compactacion`, `fin_compactacion` |
| detached threads | `bloquear_pcb`, `publicar_despertado`, `fs_agregar`, `fs_publicar`, `fs_liberar` |

A program is the list of its instructions that reach the kernel, and SEG_FAULT where
the CPU would report one. Memory, CPU and file system are seen through their
answers: memory may answer any of `Respuestas` to a creation. Where the code
follows a pointer that is NULL or was never set, `vivo` becomes FALSE; where it
depends on what the pointer holds (`buscar_pid`), both outcomes are possible.

`estado` is the state the kernel logs for the process. It is what `CicloDeVida` is
about: `Ciclo == INSTANCE CicloDeVida` maps it as it is.

### ColaListos

What `Kernel` abstracts from the ready queue. A pushing thread (`hilo[t]`) goes
through `agregar_pcb_en_cola_listos` (push), `empezar_espera_ready` (timer),
`mostrar_cola_ready` and `leer_ultimo` (the log), and posts; the short term
scheduler is `sts_esperar`, `ordenar_cola_listos`, `sacar_pcb_cola_listos`, and
`recibir_pcb_de_CPU` when the burst ends. Sorting and taking are two steps, as the
mutex is released in between.

Time passes while a process executes, and counts units of the shortest burst: what
the other steps take is small against a burst, and ratios compare waits with
estimates, both multiples of bursts. `estimacion_next_burst` allows every estimate
between the old one and the burst, which is what any `hrrn_alfa` in 0 .. 1 gives.
The estimate of a process that blocked in F_OPEN (kernel.c:140-147) is memory that
`malloc` gave and nobody wrote (shared_utils.c:346), so it may be any double:
`SinEscribir` is an estimate like the others, or `BASURA`, which stands for zero, less
than a unit, more than `MaxEstimacion`, a negative number or NaN, and stays: what is
averaged with it is no better. A ratio with `BASURA` may be anything, and a NaN makes
every comparison fail, so `list_sort` may leave a queue with such a PCB in any order
(`Ordenes`, `Estimados`). The three properties that speak of ratios and waits claim
nothing from there on, and that is a hazard of its own: with an estimate of 0 a
process passes all others as often as it comes. Where the code reads a timer that is NULL, or an element of the queue
that another thread took, `vivo` becomes FALSE; NULL timers are read only when there
are two processes to compare.

### Asignador, Memoria and Tablas

`Asignador` is what memory promises: a new segment gets a range nobody has, keeps
its size through compactions, and goes when the process deletes it or ends.
`Memoria` (how memory does it) and `Tablas` (what becomes of the copies) both
implement it: `ImplementaAsignador` in each maps their tables to `segs`. In `Memoria`
it is stated for behaviours whose lists have not been damaged.

### Memoria

Addresses count units of 128 bytes, the size of segment 0. The kernel is the client: it
sends one request at a time and keeps `semFS` from the COMPACTAR answer to the
retry (`kernel`). `fin_proceso` is a thread of its own, because FIN_PROCESO is not
answered; it deletes a segment per step. Programs create segments in free entries
and delete the ones they created. `Ordenaciones` is `list_sort`: any order of
holes that compare equal. `list_remove(l, -1)`, which the code reaches when the
hole that follows is the first of the list, belongs to the list library, whose
source is not in the repository: `QuitarMenosUno` is the set of outcomes allowed, and
the passing run allows them all.

`sana` is a history variable: TRUE until a deletion removes another hole than the one
it merged with (see `memoria_huecos` below), and again after a compaction, which
rebuilds both lists. Three properties are stated under it: they are about
everything else the code does to the lists.

### Tablas

| code | definitions |
|---|---|
| segment table of memory, and its answers | `segs`, `Huecos`, `SEGMENTO_CREADO`, `enviar_tabla_a_kernel` |
| table in the PCB, and its way to the CPU and back | `segment_tables`, `cant_segmentos_actuales`, `Serializar`, `enviar_pcb_cpu` |
| the array of that table, and what is behind it | `Entradas`, `escribir_entrada`, `PISADA`, `Leidas`, `Cualquiera` |
| `do_create_segment`, `do_delete_segment`, `doExit` | the same |
| compaction | `compactar_memoria`, `enviar_tablas`, `asignar_tablas` with `buscar_pid`, `reintentar` |
| F_READ and F_WRITE with a physical address | `do_f_read_write`, `bloquear_pcb_fs_r_w` |
| `mmu` and the check of MOV_IN and MOV_OUT | `mmu`, `tam_max`, `SEG_FAULT` |

Between the steps of a compaction the threads that end waits push processes, and
FIN_PROCESO takes segments out of memory's list, one per step, and then the table. What waits for what is abstracted
(any wait is `doIO`, a YIELD is a wait that ends at once), admission has no limit,
and a segment may start where any other ends: more behaviours than those of
`Kernel` and `Memoria`, not fewer. The order in which memory lists segments is
kept, because it decides where a compaction moves them.

A table may have any number of entries (`cant_segmentos`; every memory.config of the
repository has 16), and a program asks for any of them (`Numeros`; COMPACTACION,
FS_2, ERROR_4, MEMORIA_2 and MEMORIA_MIO create entries from 4 up to 9). But the array of a PCB that has come over a socket
has room for four entries per segment it counts, `Entradas(p)`, and neither the kernel
(kernel.c:552, 617) nor the CPU (cpu.c:140, 293, 356) compares a number with it. A
write behind it (`escribir_entrada`) may spoil nothing that a table shows, or an entry
that another PCB of the kernel counts, which becomes `PISADA`, or anything else of the
kernel: then `vivo` is FALSE and nothing more is said. A read (`Leidas`) finds zeros
in the array behind what was sent, because `calloc` cleared it, and any base and size
behind the array or where a write fell (`Cualquiera`).

`defecto` is a history variable with what has happened to a copy since it was last
right: `"movido"` (a compaction moved its segments), `"ajeno"` (it was given the
table of another process), `"perdido"` (an entry did not travel), `"pisado"` (a write
behind the array of another PCB fell on it). A copy that
receives its own table is right again. `TraduccionFiel` covers the copies with
nothing or `"perdido"`, `LimitesFieles` those with nothing or `"movido"`; the other
cases are the hazards of planificacion.c:133, kernel.c:577, memory's utils.c:133,
shared_utils.c:529 and kernel.c:552, in which the code does go wrong. Both speak of
every number inside the array, of a segment the process has or has not, and of none
behind it: there the CPU may take any address for good. `LugarSuficiente` says how far
the array reaches.

### FileSystem

A block is an identity; its contents are followed only as pointers. `truncate_archivo`
runs in a thread per file whose local variables are in `hilo[f]`: the FCB and
pointers are read first, then each round of `expand_block` is a search for a clear
bit (`bitarray_test_bit`) and its assignment (`asignar`), each round of
`reduce_block` is `reducir`, and the pointers, the FCB and its size are saved in
three steps. The search is one step: only the bit it ends at matters to others.
`init_fileSystem` is a restart at any point with truncates under way; bitmap and
blocks are mapped files and survive.

`sano` and `exacto` are history variables with the cases in which the code is known
to go wrong (two threads about to change bits, the write to a block just freed,
block 0 handed out as a pointer, a restart during a reduction; `exacto`: any
restart in a truncate). The properties claim nothing once they are FALSE; each of
those cases is a hazard in `PROJECT.json`, and two of them are runs of their own.

### Accesos and Valores

`Accesos` follows `read_archivo` and `write_archivo` as the pairs <<byte of the
buffer, byte of the disk>> they copy, in any layout of blocks that truncates have
left behind, and compares them with the place of each byte in the file (`Lugar`).
`EscrituraFiel` and `LecturaFiel` say for which ranges they agree: those inside one
block, those that start with a block (reads: not with the first one), and
writes that start in the first block and are at least a block long. In the other
ranges the code does use the wrong bytes (fileSystem.c:267 and 285).

`Valores` adds the strings: `strncpy` into registers, `strlen` before every transfer
to or from memory, byte counts in the file system. `ViajeFiel` and `ViajeCorto` take
a value from a register through memory and a file and back, in every layout the run
reaches. What F_WRITE copies from beyond the answer of memory is `BASURA`, of which
nothing is claimed.

## 3. The runs

| run | checks | shows |
|---|---|---|
| `kernel_seguridad` | `TypeOK`, `ListosContados`, `NuevosContados`, `GradoRespetado`, `SemFSExclusiva`, `UnicoLugar`, `DuenioUnico`, `RecursosConservados`, `EsperaJustificada` | three processes with any of four programs: a resource and I/O; a file with truncate, seek and write; segments with compaction and lack of memory; an invalid resource |
| `kernel_vivacidad` | `NoSeCae`, `TodosTerminan`, `ListoEjecuta`, `CicloSpec` | three fair processes that may deadlock over two resources and then read a file |
| `kernel_turno` | `SignalLiberaUna`, violated | SIGNAL of a resource the process never waited for adds two instances |
| `kernel_salida` | `EsperaJustificada`, violated | a process ends with an instance that another waits for, and nobody is woken up |
| `cola_listos` | `TypeOK`, `TemporizadorATiempo`, `DespachoPorRatio`, `EsperaAcotada`, `ListoEjecuta` | HRRN with a thread that pushes while the scheduler pushes, sorts and takes: timers reach processes still in the queue and, while every estimate has been written, the largest ratio executes, waits are bounded and nobody starves unless the kernel dies of a NULL |
| `memoria_particion` | `TypeOK`, `ParticionSana`, `HuecosConsolidados`, `TablasYLista`, `CopiaFiel`, `ReintentoCabe`, `ImplementaAsignador` | two processes create, delete and end in any order, with compaction and FIN_PROCESO interleaved |
| `memoria_huecos` | `Particion`, violated | deleting below a free hole removes the wrong hole |
| `memoria_llena` | `LlenaAvisa`, violated | the request that follows a full memory uses a bad pointer |
| `tablas_compactacion` | `TypeOK`, `TraduccionFiel`, `LimitesFieles`, `LugarSuficiente`, `DireccionVigente`, `ImplementaAsignador` | three processes create, delete, wait, read files and end around compactions, in entries inside the array of a PCB and behind it: inside, what the MMU accepts is in the segment the program named, and segments that do not exist are refused; the array always has four entries for each segment; a file operation keeps its address |
| `filesystem_truncar` | `TypeOK`, `SinCompartir`, `SinFugas`, `TamanioCubierto`, `EntraEnDisco`, `EscrituraFiel`, `LecturaFiel`, `ViajeFiel`, `ViajeCorto` | concurrent truncates of two files, up and down, with a restart anywhere; reads, writes and values in every layout they leave |
| `filesystem_bloque_cero` | `BloqueCeroConDuenio`, violated | block 0 as a pointer reads as "no pointer" and is lost |
| `filesystem_bytes` | `TamanioCubierto`, violated | a block and a half gets one block |

The violated ones are disagreements between the code and a comment or log line of
the repository, quoted in `PROJECT.json` under `findings`. All are safety properties.

`CHECK_DEADLOCK FALSE` is in every configuration: the kernel waits for ever after
the last process, a full set of bounds stops memory and file system, and a process
that used a bad pointer is gone.

### Bounds, and why they are enough

- *Kernel:* three processes and a degree of two, so that one process waits in
  NEW, two compete, and a place is given back and taken again; the long term
  scheduler is then found waiting for a place with a permit in its hand. One
  resource and one file with one instance make every queue and hand-over happen; two
  resources make the deadlock. The programs are those of `src/consola/config`
  reduced to the instructions that reach the kernel.
- *Memoria:* six units, one for segment 0, four segments in a behaviour of sizes 1
  to 3, two processes. Three holes with segments between them need two deletions
  among four segments, and five units fill up with two requests. The passing run uses
  BEST, `memoria_llena` WORST; the algorithms differ in `Clave` alone.
- *ColaListos:* three processes, so that one arrives while two are compared. Two threads
  push, the one of `Hilos` and the scheduler itself (a YIELD): so a permit of one
  push lets the scheduler come for a queue with another that has no timer yet, and a
  take falls between the comparison and the read of the log. Several threads of
  `Hilos` are in the theorems, which have every safety property of this run for any
  number; with two, and estimates nobody wrote, liveness is too large to check in
  minutes. Bursts of one unit and estimates of one or two make ratios differ, tie, and be overtaken. `MaxEspera`
  is one more than `CotaEspera`, which is 4 here, so it cuts nothing off:
  `EsperaAcotada` says that no wait reaches it, and aging is exact.
- *Tablas:* four units, one for segment 0; tables of five entries, and programs that use
  entries 1 and 4. A PCB that counts segment 0 only has an array of four, so entry 4 is
  behind it, and inside once entry 1 has been created, though sent to the CPU only if
  the count says so. Three requests of one or two units: a compaction needs two
  segments, a deletion and a request that fits nowhere, and a write behind the array of
  one process can fall on the table of another that then executes. More entries
  add no case: a number is below the count, below four times the count, in memory's
  table, or none of these. Three processes, so that one executes, one is ready and one
  blocked when the tables arrive.
- *FileSystem:* blocks of eight bytes, so a block of pointers holds two; sizes of 0 to
  3 blocks, so a file may have none, its first block only, and one or two
  pointers; two files on eight blocks, which is exactly their largest size (each file
  has its first block, a block of pointers and two more); four truncates and
  one restart. Accesses are of whole words of 4 bytes, half a block, so they start
  and end at and inside blocks; registers have 4, 8 and 16 bytes, half a block, one
  and two. Sizes are whole blocks, as in the programs of the repository;
  `filesystem_bytes` has the others. `CONSTRAINT Sano` stops at states that
  follow one that is not `sano`: the only property that says anything of them is
  `TypeOK`, and it is checked on the first of them.

### Fairness

`FairSpec` has weak fairness of every thread of the kernel: POSIX threads are
scheduled, `sleep` ends, and memory and file system answer (their sockets block
until then). `crear_pcb` has none: a console need not connect. Weak fairness of
the scheduler as one thread is enough, because its program counter enables one
kind of step at a time. No fairness is assumed of a semaphore: `semFS` has two
users, but both are the same thread, and `semProcesoListo` a single consumer.

`ColaListos!FairSpec` has weak fairness of the scheduler (the CPU sends every PCB
back) and of each pushing thread once it has begun; whether a process comes back to
the queue is not assumed.

`TodosTerminan` excludes what the code really does not do: a set of processes each
waiting for a resource all of whose instances the set holds is never detected, and
keeps its places of the multiprogramming degree.

## 4. What is proved

All theorems are checked by TLAPS for every value of the constants that satisfies
the assumption of the module (`KernelAssumption`, ...). Those assumptions are what
the configuration files and the code give: sizes are naturals, a block holds at least
one pointer, the sets of processes, threads, resources and files are finite, tables have
any number of entries. Two of them are about programs: the entries they name are in
memory's table (`TablasAssumption`), and bursts and the first estimate are no longer than
`MaxEstimacion` (`ColaListosAssumption`). Nothing is assumed of memory that
the code reads without having written it. TLC evaluates the assumptions in every run.

A theorem about what the kernel owes to *well-written* programs has the hypothesis
on the programs in its statement, never in an assumption of the module.

### Kernel

`KernelProofs.tla`, for any number of processes, degree, programs, resources,
instances and files:

- `TiposCorrectos`: `Spec => []TypeOK`. `TypeOK` is not inductive: `sts_agregar`
  takes the head of `enMano`, `fin_compactacion` ends `pcb_a_ejecutar`, and
  `fs_agregar` queues `pcbFS`. The strengthening `Control` ties each program
  counter to the PCB it holds. There is one lemma per handler, and four lemmas for
  what handlers end in (`Desalojar`, `Bloquear`, `Seguir`, `doExit`).
- `SemFSCorrecto`: `Spec => []SemFSExclusiva`. Inductive as it stands, over the types.
- `ListosCorrectos`: `Spec => []ListosContados`, over `SemFSExclusiva` (a second
  file thread would need `hiloFS` to be free), `TypeOK` and `Control`.
- `NuncaSacaDeVacia`: from it, `sts = "saca"` implies that `ready_queue` is not
  empty: `sacar_pcb_cola_listos` never returns NULL.
- `NuevosCorrectos`: `Spec => []NuevosContados`, with the invariant that no
  console above `proximo_pid` has done anything; the argument adds and removes
  one element of the set of consoles between push and post.
- `NuncaAdmiteDeVacia`: the same for `new_queue`.

In the same module, on where a process is:

- `SitiosCorrectos` and from it `LugaresCorrectos`: `Spec => []UnicoLugar`. The
  invariant is a balance per process: how often it is in the hands of the scheduler,
  on the CPU, asleep, with the file thread, in the queue of each resource and of each
  file adds up to 1 if it executes or is blocked and to 0 otherwise (`Retenido`),
  and the other four states are one place each (`Anotado`). `Manos` says which
  hands are empty at which point of the scheduler. Each way of moving a PCB is a
  lemma that takes 1 from one place and gives it to another.
- `GradoCorrecto`: `Spec => []GradoRespetado`. An admission takes the permit the long
  term scheduler holds and a process that ends gives one back. That the one
  admitted was not admitted before, and the one ended was, is read in the places: it
  comes out of `new_queue`, so it is NEW, or it is on the CPU, so it is not.
- `ImplementaElCiclo`: `Spec => Ciclo!Init /\ [][Ciclo!Next]_(Ciclo!vars)`, the safety
  part of the refinement of `CicloDeVida`: one case per action, over the places. The
  fairness in `CicloSpec` stays with TLC.

`KernelProgramas.tla`:

- `InstanciasNoSePierden`: with any programs, no step makes the instances of a
  resource, free and assigned, fewer.
- `SaldosCorrectos`, `RecursosCorrectos` (`RecursosConservados`) and `SignalCorrecta`
  for programs that signal only what they waited for (`SueltaLoQueTiene`). The
  invariant (`SaldoRecursos`) reads the balance of a process off its program: the
  instances it holds, the queue it may be waiting in and the SIGNALs before its program
  counter add up to the WAITs before it. The run `kernel_turno` has a program that breaks the
  hypothesis, and the property with it.
- `EsperaCorrecta` (`EsperaJustificada`) for programs that also end with no resource
  in their hands (`DevuelveTodo`). `EnCreate` covers the end by OUT_OF_MEMORY after a
  compaction, when the program counter is already past the instruction that failed.
  `kernel_salida` shows that the hypothesis is needed.
- `ArchivosCorrectos` (`DuenioUnico`) and `KernelEnPie` (`NoSeCae`) for programs that
  use and close what they open (`UsaLoQueAbre`, `CierraTodo`). `KernelEnPie`
  assumes besides that memory never answers COMPACTAR: with it `buscar_pid` may use
  the pointer it never set (`kernel.c:577`), and no program can prevent that.

`KernelMC` has ASSUMEs by which TLC confirms that the programs of the passing runs
satisfy these hypotheses, where a run states the property, and that those of the two
violated runs do not.

### ColaListos

`ColaListosProofs.tla`, for any processes, threads, bursts and estimates:

- `TemporizadorSiempreATiempo`: `Spec => []TemporizadorATiempo`.
- `DespachaMayorRazon`: `Spec => DespachoPorRatio`.
- `TiposCorrectos`: `Spec => []TypeOK`, for a finite set of processes.
- `EsperaSiempreAcotada`: `Spec => []EsperaAcotada`, for a finite set of processes: nobody
  waits longer than `CotaEspera`, the largest estimate times the longest burst times the
  number of the others, as long as no PCB has an estimate nobody wrote (`BASURA`).

`DespachoPorRatio` has that condition for the PCBs in the queue. It is not one on the
constants: the steps that lead to `BASURA`, and all that may follow, are part of `Spec`.

They rest on `IInv`. `Balance` counts permits: those of the semaphore, one in the
hand of the scheduler, and one for each thread between push and post make up the
length of the queue. So when the scheduler sorts a queue of one process, nobody is
about to create its timer; and a longer one it has compared, so all timers exist.
Hence `Cabeza`: between the sort and the take the head has a timer and the largest
ratio of those timed; pushes in between add processes with no timer or a wait of 0.
And hence `Pendientes`: the process taken is never one whose timer is still to come.

`TiposCorrectos` adds `Medidas`, what the numbers are bounded by. The queue holds a
process once, so its length, and with `Balance` the permits, are at most the number of
processes; an estimate is a weighted mean of a burst and the estimate before it, so it lies
between the two, or `BASURA`.

`EsperaSiempreAcotada` is about aging. Say that `q` comes late for `p`
when it does not execute and has no timer, or has waited `Ventaja` less than `p` at least
(`Tardios(p)`). `Ventaja` is what makes up for the largest estimate:
`(E - 1) * R * (N - 1) + 1`, for estimates up to `E`, bursts up to `R` and `N` processes. Once `p` has waited that
long nobody who is late is taken before it: the response ratio of that one would have to
be as large, and its wait times the estimate of `p` is less than the wait of `p` times its
own (`NadieSeAdelanta`). So each burst is of a process that was not late, and makes it so;
nobody stops being late while `p` waits, because two waits grow together. Hence the
invariant: from `Ventaja` on, a wait is at most `Ventaja - 1` and `R` for each process
that is late (`Envejece`), of which there are at most `N - 1`. The invariant `Presentes`
adds that a process that is ready is in the queue. When `MaxEspera` is not
larger than `CotaEspera` the count of a wait stops before the bound and the theorem says
nothing of the code; the proof treats that case apart.

### Memoria

`MemoriaProofs.tla`, for any memory, tables, processes and sizes, under BEST, WORST and
FIRST, and whatever `list_remove(l, -1)` does:

- `TypeCorrect` (`TypeOK`) and `TablasYListaSiempre` (`TablasYLista`): these do not
  depend on the holes, and hold after consolidations that damage them.
- `ParticionSiempre` (`ParticionSana`), `ConsolidadosSiempre` (`HuecosConsolidados`) and
  `ReintentoSiempreCabe` (`ReintentoCabe`).
- `ImplementaAsignadorSiempre`: `Spec => ImplementaAsignador`.
- `AislamientoSano`: `Spec => [](sana => A!Disjuntos)`.

The invariant `Inv`, which TLC checked before it was proved, says of the lists and
tables, at any time: a segment has at least one address and its id to itself, segment
0 comes first (`Formas`, `Nombres`); each other segment is in one entry of one
table, of a process that has one (`EnTablas`); the program whose creation waits
is alive, its entry is free, and the size it asks for fits behind the segments
(`Pedido`). And while `sana`: holes and segments share no address and miss none, and
no two holes touch (`Partida`); their sizes add up to the memory (`Sanas`).

`HuecosConsolidados` alone is not inductive. An empty hole, which a compaction that
leaves no room makes, could touch two others without sharing an address with
them, so `Partida` keeps any two holes apart, empty ones included (`Lejos`). `Consolidada` is the heart of the deletion: in a
partition at most one hole touches each end of a segment, so the last that `Vecinos`
finds is the only one (`VecinosEs`), and what is merged touches nothing else. `Partido`
is that of the creation. The sum in `Sanas` turns COMPACTAR, which compares
with the free total, into a bound on the segments (`Compactara`), which deletions only
lower; `EnFila` lays the segments in the order of the list one after the other, so
after the compaction one hole has all the rest, and the request fits.

`CopiaSiempreFiel`, `Spec => []CopiaFiel`, has no invariant of the steps but one of the loop.
`CopiaPorVueltas` takes the fold of `CopiarSegmentos` apart into rounds, over the lemmas of
`Sumas`. Segments in the order of their addresses go down or stay, because those before
each add up to no more than its base (`BajanOQuedan`). So after round `i` the first `i`
segments have arrived, and nothing from the base of the next one on has been written
(`CopiaEnOrden`): each is read before it is overwritten.

### Asignador and Tablas

`AsignadorProofs.tla`: `Aislamiento`, segments of different processes or entries
never share an address, in everything that `Asignador` allows.

`TablasProofs.tla`, for any processes, memory, tables, sizes and number of requests:

- `DireccionVigenteSiempre`, `Spec => DireccionVigente`: from the moment the CPU
  computes the address of a F_READ or F_WRITE to the answer of the file system nobody
  moves or frees the segments of the process. The invariant says that `ready_queue`
  holds ready processes only, so that the blocked one cannot be dispatched and delete,
  create or end, and that a compaction past its wait for `semFS` excludes a file
  thread. Without that wait the proof fails, as it should.
- `TypeCorrect`, `TraduccionFielSiempre`, `LimitesFielesSiempre`: `TypeOK`,
  `TraduccionFiel` and `LimitesFieles`, the last two for every number inside the array.
- `LugarSuficienteSiempre`: `Spec => []LugarSuficiente`. By it a program whose numbers
  stay below four times the segments it has never leaves the array, unless a compaction
  gave its PCB the table of another or a write fell on it.
- `ImplementaAsignadorSiempre`: `Spec => ImplementaAsignador`.
- `AislamientoSiempre`: `Spec => []A!Disjuntos`, the last theorem composed with
  `Aislamiento` through an instance of `AsignadorProofs`.

The invariant `Inv` is one for all of them, because none of its parts is inductive
alone. `ListasOK`: memory's two lists repeat nothing and say the same as the tables.
`Fases`: one process executes; while its request is pending the entry it asked for is
free, and what is occupied fits before a compaction. `Cuentas`: no count of segments
exceeds the requests made, a number that grows with each. `Enviadas`: a table in flight
is the one memory still has, unless its process ended; this is what makes a
delivery right although segments are freed between the sending and the arrival.
`Copias`: a PCB with no defect, or only entries that did not travel, has ranges of
its own table or nothing; one with no defect, or only bases that moved, has its sizes.
Such a copy has no `PISADA`, whose size is negative, so what is read inside its array
is what the copy has (`LeidaDentro`). `Lugares` is the invariant of
`LugarSuficiente`: the PCB counts what memory counts or more, which creation raises on
both sides, deletion lowers in memory only, and a compaction makes equal.
That a compaction is a step of `Asignador` is arithmetic: a segment goes to the sum
of the sizes of those before it in the list (`Destino`), these sums are laid one
after the other, and the last one ends within what was occupied. That this fits in memory
was decided when memory answered COMPACTAR, and only frees have happened since (`Fases`).

### FileSystem

`FileSystemProofs.tla`, for any number of files, blocks, sizes and restarts:

- `TypeCorrect` (`TypeOK`), `SinCompartirSiempre`, `SinFugasSiempre`,
  `TamanioSiempreCubierto` and `EntraSiempre` (`EntraEnDisco`).
- `EscrituraSiempreFiel` (`EscrituraFiel`) and `LecturaSiempreFiel` (`LecturaFiel`), about
  `Accesos`, for the ranges those properties name.
- `ViajeSiempreFiel` (`ViajeFiel`) and `ViajeCortoSiempre` (`ViajeCorto`), about `Valores`.

A file has places (`Lugares`): its first block, its block of pointers, one for each
pointer. `Bloque(f, l)` is the block in a place, read in the FCB or, during a truncate,
in the variables of the thread. Every step is described by what it does to the places
of one file (nothing, one filled, some emptied), and the invariant is stated over them:
no block is in two places and every one has its bit set (`SinDobles`); a thread has the
blocks its rounds so far ask for, holds a bit nobody else has between search and
assignment, and until it saves the FCB what is on disk is a part of what it has, which
is what a restart goes back to (`Guardado`); every set bit is a block in a place, and
there are no more of these than the size asks for (`Exacta`, while `exacto`). The hypothesis `BloquesEnteros` (sizes are whole blocks) is
needed: `filesystem_bytes` breaks `TamanioCubierto` without it, and an ASSUME of
`FileSystemMC` checks which runs have it.

`EntraSiempre` says that with enough blocks for every file at its largest size, no
thread searches past the last. It does not follow from counting free bits alone: a
clear bit may be taken by another thread, and one given back behind the place a search
has reached. `Alcanzan` counts up to any block `c`: there are no more clear bits up to
`c` than empty places of the threads that have not passed `c`, and the blocks left
over when every file is full. At the last block: every set bit is in a place, so one
beyond the end would leave more clear bits than empty places.

The two about `Accesos` need one more invariant: the pointers of a file are the first
positions of its block of pointers (`TodosSeguidos`). `expand_block` fills the first
empty position from `t` on, and none before `t` is empty; `reduce_block` empties the
last. With `Exacta`, a file of `n` blocks at rest has its first block and the pointers 0
to `n - 2` (`PunterosSon`), so the loops read none that is 0 as long as the range is
inside the file. `SiguientesSon` says what the rounds of a loop copy, all together: byte
`k` meets byte `k % tamanio_bloque` of the block of pointer `k \div tamanio_bloque`. From
it `RecorrerEs` gets that the byte `k` of the buffer is byte `pos + k` of the file, on
the ranges where the displacement is 0 after the first round or there is one round only;
and `SinDobles` gives that its block is this file's (`ByteEnSuBloque`). The other ranges
are those the code gets wrong, which the properties leave out and section 2 describes.

The two about `Valores` follow a value from place to place. `LargoDeCadena` says where the
string in a buffer ends; `EscribeValor`, `EnviaTodo` and `EnviaCorto` what a write
to memory leaves and what a read is answered with, a value with no NUL inside or one
with NULs behind; `EscribeEnArchivo` and `LeeDeArchivo` that the pairs of an access give
each byte of the buffer one byte of the disk and no other, because distinct bytes of a
file have distinct places (`LugaresDistintos`). They have a second hypothesis, `Entra`: the disk
has room for every file at its largest size. Without it the search for a clear bit
goes past the end of the disk (`EntraEnDisco`), and what is written to such a block is
not kept. The instance of `filesystem_truncar` satisfies it exactly.

### Sumas

The library's induction theorems take an operator as a parameter, which the provers
here cannot instantiate. `Sumas` has the induction over finite sets it needs as a
statement about a *set of subsets* instead, proved by taking a minimal
counterexample of a well-founded order.

The folds of the community modules are recursive functions over the subsets of a set,
defined by CHOOSE. `EsFold` says what such a function has to satisfy; `FoldExiste` and
`FoldUnico`, by that induction, that there is exactly one, whatever is folded and
whatever the choice of the next element. From them come the lemmas about `SumFunction`
and `SumFunctionOnSet` (one term changes, one is added, terms are renamed) that the
others use, and `FoldDeLista`: a fold over a list is what its rounds leave, one after
the other.

### Only model-checked

Liveness (`TodosTerminan`, both `ListoEjecuta`, the fairness of `CicloSpec`), which
the prover does not reach. Every invariant and every property of a step that a passing
run checks is stated by a theorem.

## 5. What is not modelled, and why

- *One specification of everything*: `Kernel`, `ColaListos`, `Tablas` and `Memoria`
  look at the same programs from different sides, and each abstracts the others;
  their product is out of TLC's reach. `Kernel` takes ready processes in FIFO order;
  no property checked there depends on which one is taken, except that a process is
  not overtaken for ever, which `ColaListos` checks under HRRN.
- *A second COMPACTAR answer within the retry* is absent from `Kernel`:
  `ReintentoCabe` in `Memoria` is about that, and where it does not hold (lists
  already damaged) the kernel waits for itself (`"trabado"`).
- *F_READ and F_WRITE with a physical address of -1*, which `analizarMotivo` would
  drop with the process in its hands (kernel.c:674-685): the CPU always sends an
  address, a base plus an offset (utils.c:48-56 of the CPU), and never -1.
- *Programs killed while they hold a file open*: the file stays in the global table.
  `DuenioUnico` is stated for programs that close what they open, and the hazard is
  listed.
- *Entries that memory's tables do not have*: memory checks the number no more than the
  kernel does (memory's utils.c:191), and a program that names an entry from
  `CANT_SEGMENTOS` on makes it write behind its own table. No program of the repository
  does. `Kernel` and `Memoria` leave out the writes behind the array of a PCB, which is
  the matter of `Tablas`; there, damage to the kernel other than to an entry of a
  table ends the behaviour (`vivo`).
- *Creating a segment in an entry in use*: memory does not check, and the old segment
  is lost. The programs modelled create in free entries.
- *Reads and writes of a file during its own truncate*: the kernel gives a file to
  one process at a time, which waits for each of its operations.
- *Races inside the list library* (`mostrar_cola_ready` while others push): the
  outcomes are those of a list that is consistent at each read. The lists of the
  commons library are used through their results.
- *A program as a sequence of instructions in the CPU*: `Kernel` has those that reach
  the kernel, `Tablas` and `Valores` what MOV_IN, MOV_OUT and SET do; the loop between
  them, the parsing of programs in console and kernel, sockets, logging and
  configuration are pure computation or I/O. TCP is taken as reliable and ordered per
  connection; no module of T.U.K.I. reconnects.

## 6. Plan

Done: `Kernel` with `CicloDeVida`, `ColaListos`, `Asignador`, `Memoria`, `Tablas`,
`FileSystem`, `Accesos`, `Valores`, and eight modules of proofs, which have a theorem for
every safety property of the passing runs.

Eight hazards of `PROJECT.json` have no property. Six of them the modules reach or
leave room for, and the properties near them stop there, each saying so: what the code
does is known, and there is no line that says what it should do. They are the files of
processes that are killed, the log of the ready queue, the estimate nobody wrote, the
tables a FIN_PROCESO takes from a compaction, two searches for a bit at once, and a
restart between the two saves of an FCB. The others (the creation in an entry in use or
one that memory's tables do not have, the write of a reduction to block 0) need programs
that those of the repository are not like. A decision about what should happen comes
before a property.
