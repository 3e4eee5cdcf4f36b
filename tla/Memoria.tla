------------------------------- MODULE Memoria -------------------------------
(***************************************************************************)
(* The memory process (src/memoria/src): the list of free holes, the list  *)
(* of segments, the segment table of every process, and what its           *)
(* connection threads do to them for the kernel.                           *)
(*                                                                         *)
(* The kernel asks for segments one request at a time (kernel.c:521-618)   *)
(* and keeps its semFS from the COMPACTAR answer to the retry. FIN_PROCESO *)
(* is not answered, so the thread that handles it runs against later       *)
(* requests; no lock is taken, and one step is one eliminar_segmento.      *)
(*                                                                         *)
(* Addresses count units of the smallest segment. What list_remove does    *)
(* with index -1 is the business of the list library: see QuitarMenosUno.  *)
(***************************************************************************)
EXTENDS Integers, Sequences, SequencesExt, FiniteSets, FiniteSetsExt

CONSTANTS
  tam_memoria, tam_segmento_0, cant_segmentos,   \* memoria.config
  algoritmo_asignacion,                          \* BEST, WORST or FIRST
  Pids,
  Tamanios,         \* sizes a program may ask for
  MaxSegmentos,     \* bound: segments created in a behaviour
  QuitarMenosUno    \* what list_remove(l, -1) may do: remove the head, nothing, or crash

ASSUME MemoriaAssumption ==
  /\ tam_segmento_0 \in Nat \ {0} /\ tam_memoria \in Nat /\ tam_segmento_0 < tam_memoria
  /\ cant_segmentos \in Nat \ {0} /\ MaxSegmentos \in Nat
  /\ algoritmo_asignacion \in {"BEST", "WORST", "FIRST"}
  /\ Tamanios \subseteq 1 .. tam_memoria
  /\ QuitarMenosUno \subseteq {"cabeza", "nada", "cae"}

VACIO == -1          \* id of segmento_vacio
SEGMENTO_0 == 0      \* id of the segment every process shares
Sids == 0 .. cant_segmentos - 1
SinPedido == [pid |-> -1, sid |-> -1, tam |-> 0, sana |-> TRUE]

VARIABLES
  huecos_libres,             \* sequence of [base, limite]
  lista_segmentos_actuales,  \* sequence of [id, base, limite]
  segmento_id_global,
  tablas, cant_actuales,     \* per process: slot -> segment id, and the count
  proceso,     \* "nuevo", "activo", "fin" (FIN_PROCESO sent), "borrado"
  kernel,      \* "libre", "compactar", "reintentar", "trabado" on its own semFS
  pedido,      \* the creation the kernel will retry
  sana,        \* history: no consolidation has removed the wrong hole since the
               \* start or the last compaction
  vivo         \* FALSE once memory has used a bad pointer

vListas == <<huecos_libres, lista_segmentos_actuales, segmento_id_global>>
vTablas == <<tablas, cant_actuales, proceso>>
vKernel == <<kernel, pedido>>
vars == <<vListas, vTablas, vKernel, sana, vivo>>

Init ==
  /\ huecos_libres = << [base |-> tam_segmento_0, limite |-> tam_memoria] >>
  /\ lista_segmentos_actuales =
       << [id |-> SEGMENTO_0, base |-> 0, limite |-> tam_segmento_0] >>
  /\ segmento_id_global = 1
  /\ tablas = [p \in Pids |-> [s \in Sids |-> VACIO]]
  /\ cant_actuales = [p \in Pids |-> 0]
  /\ proceso = [p \in Pids |-> "nuevo"]
  /\ kernel = "libre" /\ pedido = SinPedido
  /\ sana = TRUE /\ vivo = TRUE

Tam(h) == h.limite - h.base
SumaTam(hs) == SumFunction([i \in DOMAIN hs |-> Tam(hs[i])])

\* Mutant: holes counted with both ends.
tamanio_libre_disponible_de_mas(hs) == SumaTam(hs) + Len(hs)
tamanio_libre_disponible(hs) == SumaTam(hs)

\* Memory has used a bad pointer.
Caer == vivo' = FALSE /\ UNCHANGED <<vListas, vTablas, vKernel, sana>>

-----------------------------------------------------------------------------
(* Tables. *)

inicializar_estructuras_pcb(p) ==
  /\ proceso[p] = "nuevo"
  /\ proceso' = [proceso EXCEPT ![p] = "activo"]
  /\ tablas' = [tablas EXCEPT ![p][0] = SEGMENTO_0]
  /\ cant_actuales' = [cant_actuales EXCEPT ![p] = 1]
  /\ UNCHANGED <<vListas, vKernel, sana, vivo>>

\* Slots a program may create a segment in, and those it may delete: the
\* programs create in free slots and delete what they created.
SlotsLibres(p) == {s \in Sids : tablas[p][s] = VACIO}
SlotsOcupados(p) == {s \in Sids : tablas[p][s] \notin {VACIO, SEGMENTO_0}}

-----------------------------------------------------------------------------
(* Creating a segment. *)

\* list_sort with the comparator of the algorithm: any order of equal holes.
Clave(h) == CASE algoritmo_asignacion = "BEST"  -> Tam(h)
              [] algoritmo_asignacion = "WORST" -> -Tam(h)
              [] algoritmo_asignacion = "FIRST" -> h.base
Ordenaciones(hs) ==
  {orden \in {[i \in DOMAIN hs |-> hs[perm[i]]] : perm \in Bijection(DOMAIN hs, DOMAIN hs)} :
     \A i, j \in DOMAIN hs : i < j => Clave(orden[i]) <= Clave(orden[j])}

\* Mutant: the hole keeps its base.
modificar_lista_sin_avanzar(hs, i, tam) == hs

\* The new segment takes the start of hole i, which goes away when used up.
modificar_lista_hueco_libre(hs, i, tam) ==
  IF Tam(hs[i]) = tam THEN RemoveAt(hs, i) ELSE [hs EXCEPT ![i].base = @ + tam]

\* The answers of crear_segmento; sigue is what the kernel does on COMPACTAR.
SEGMENTO_CREADO(p, sid, hs, i, tam) ==
  /\ huecos_libres' = modificar_lista_hueco_libre(hs, i, tam)
  /\ lista_segmentos_actuales' =
       Append(lista_segmentos_actuales,
              [id |-> segmento_id_global, base |-> hs[i].base, limite |-> hs[i].base + tam])
  /\ tablas' = [tablas EXCEPT ![p][sid] = segmento_id_global]
  /\ cant_actuales' = [cant_actuales EXCEPT ![p] = @ + 1]
  /\ segmento_id_global' = segmento_id_global + 1
  /\ kernel' = "libre" /\ pedido' = SinPedido
  /\ UNCHANGED <<proceso, vivo>>

\* The kernel ends the process: doExit sends FIN_PROCESO.
OUT_OF_MEMORY(p, hs) ==
  /\ huecos_libres' = hs
  /\ proceso' = [proceso EXCEPT ![p] = "fin"]
  /\ kernel' = "libre" /\ pedido' = SinPedido
  /\ UNCHANGED <<lista_segmentos_actuales, segmento_id_global, tablas, cant_actuales>>

COMPACTAR(p, sid, hs, tam, sigue) ==
  /\ huecos_libres' = hs
  /\ kernel' = sigue
  /\ pedido' = [pid |-> p, sid |-> sid, tam |-> tam, sana |-> sana]
  /\ UNCHANGED <<lista_segmentos_actuales, segmento_id_global, vTablas, vivo>>

\* With no hole at all, WORST dereferences NULL; BEST and FIRST write their
\* answer through a pointer nobody initialised.
crear_segmento(p, sid, tam, sigue) ==
  /\ UNCHANGED sana
  /\ \E hs \in Ordenaciones(huecos_libres) :
       LET caben == {i \in DOMAIN hs : Tam(hs[i]) >= tam} IN
       IF hs = <<>>
       THEN \/ Caer
            \/ algoritmo_asignacion # "WORST" /\ OUT_OF_MEMORY(p, hs) /\ UNCHANGED vivo
       ELSE IF caben # {} THEN SEGMENTO_CREADO(p, sid, hs, Min(caben), tam)
       ELSE IF tamanio_libre_disponible(hs) >= tam THEN COMPACTAR(p, sid, hs, tam, sigue)
       ELSE OUT_OF_MEMORY(p, hs) /\ UNCHANGED vivo

pedir_segmento(p) ==
  /\ kernel = "libre" /\ proceso[p] = "activo" /\ segmento_id_global <= MaxSegmentos
  /\ \E sid \in SlotsLibres(p), tam \in Tamanios : crear_segmento(p, sid, tam, "compactar")

\* do_create_segment calls itself with semFS taken: another COMPACTAR would
\* wait for a semaphore that only this call can post.
reintentar ==
  /\ kernel = "reintentar"
  /\ crear_segmento(pedido.pid, pedido.sid, pedido.tam, "trabado")

-----------------------------------------------------------------------------
(* Deleting a segment. *)

\* The last of the positions i that is not after k, as an index from 0; -1 is none.
Ultimo(posiciones, k) == Max({i \in posiciones : i <= k} \cup {0}) - 1

\* Mutant: the hole that follows is not looked for.
Vecinos_sin_posterior(hs, s) ==
  [anterior  |-> Ultimo({i \in DOMAIN hs : hs[i].limite = s.base}, Len(hs)),
   posterior |-> -1]

\* Indices of the holes that end where the segment starts and start where it ends:
\* the loop keeps the last it sees of each, and stops once both are above 0.
Vecinos(hs, s) ==
  LET antes   == {i \in DOMAIN hs : hs[i].limite = s.base}
      despues == {i \in DOMAIN hs : hs[i].base = s.limite}
      corta   == {k \in DOMAIN hs : Ultimo(antes, k) > 0 /\ Ultimo(despues, k) > 0}
      fin     == Min(corta \cup {Len(hs)}) IN
  [anterior |-> Ultimo(antes, fin), posterior |-> Ultimo(despues, fin)]

HuecoNuevo(hs, s, v) ==
  [base   |-> IF v.anterior = -1 THEN s.base ELSE hs[v.anterior + 1].base,
   limite |-> IF v.posterior = -1 THEN s.limite ELSE hs[v.posterior + 1].limite]

QuitarAnterior(hs, v) == IF v.anterior = -1 THEN hs ELSE RemoveAt(hs, v.anterior + 1)

\* The following hole is looked up, after that removal, at its index less 1.
QuitarPosterior(hs, v, r) ==
  IF v.posterior = -1 \/ (v.posterior = 0 /\ r = "nada") THEN hs
  ELSE RemoveAt(hs, IF v.posterior = 0 THEN 1 ELSE v.posterior)

\* Did that index still name the following hole?
QuitaElPosterior(v, r) ==
  IF v.posterior = 0 THEN r = "cabeza"
  ELSE v.posterior = -1 \/ (v.anterior # -1 /\ v.anterior < v.posterior)

\* Mutant: the count of the table is not lowered.
BajarCuenta_nunca(c, p) == c
BajarCuenta(c, p) == [c EXCEPT ![p] = @ - 1]

eliminar_segmento(p, sid) ==
  LET segs == lista_segmentos_actuales
      j == CHOOSE i \in DOMAIN segs : segs[i].id = tablas[p][sid]
      v == Vecinos(huecos_libres, segs[j])
      resto == QuitarAnterior(huecos_libres, v) IN
  \E r \in QuitarMenosUno :
    IF v.posterior = 0 /\ r = "cae" THEN Caer
    ELSE /\ huecos_libres' =
              Append(QuitarPosterior(resto, v, r), HuecoNuevo(huecos_libres, segs[j], v))
         /\ lista_segmentos_actuales' = RemoveAt(segs, j)
         /\ tablas' = [tablas EXCEPT ![p][sid] = VACIO]
         /\ cant_actuales' = BajarCuenta(cant_actuales, p)
         /\ sana' = (sana /\ QuitaElPosterior(v, r))
         /\ UNCHANGED <<segmento_id_global, vivo>>

borrar(p) ==
  /\ kernel = "libre" /\ proceso[p] = "activo"
  /\ \E sid \in SlotsOcupados(p) : eliminar_segmento(p, sid)
  /\ UNCHANGED <<proceso, vKernel>>

\* EXIT: FIN_PROCESO is sent and the kernel goes on.
terminar(p) ==
  /\ kernel = "libre" /\ proceso[p] = "activo"
  /\ proceso' = [proceso EXCEPT ![p] = "fin"]
  /\ UNCHANGED <<vListas, tablas, cant_actuales, vKernel, sana, vivo>>

\* The loop of fin_proceso, a segment at a time, and the end of the table.
fin_proceso(p) ==
  /\ proceso[p] = "fin"
  /\ UNCHANGED vKernel
  /\ IF SlotsOcupados(p) # {}
     THEN eliminar_segmento(p, Min(SlotsOcupados(p))) /\ UNCHANGED proceso
     ELSE /\ proceso' = [proceso EXCEPT ![p] = "borrado"]
          /\ tablas' = [tablas EXCEPT ![p][0] = VACIO]
          /\ cant_actuales' = [cant_actuales EXCEPT ![p] = 0]
          /\ UNCHANGED <<vListas, sana, vivo>>

-----------------------------------------------------------------------------
(* Compacting. *)

\* Where each segment goes: behind those before it in the list.
Destino(segs, i) == SumaTam(SubSeq(segs, 1, i - 1))

\* The bytes after the loop, each named by the address it had before it.
CopiarSegmentos_de_menos(segs) ==          \* mutant: one byte too few
  FoldLeftDomain(
    LAMBDA m, i : [a \in DOMAIN m |->
      LET d == Destino(segs, i) IN
      IF a \in d .. d + Tam(segs[i]) - 2 THEN m[segs[i].base + (a - d)] ELSE m[a]],
    [a \in 0 .. tam_memoria - 1 |-> a], segs)
CopiarSegmentos(segs) ==
  FoldLeftDomain(
    LAMBDA m, i : [a \in DOMAIN m |->
      LET d == Destino(segs, i) IN
      IF a \in d .. d + Tam(segs[i]) - 1 THEN m[segs[i].base + (a - d)] ELSE m[a]],
    [a \in 0 .. tam_memoria - 1 |-> a], segs)

\* Overlapping segments may add up to more than the memory: memset then gets a
\* negative size.
compactar_memoria ==
  LET segs == lista_segmentos_actuales
      total == SumaTam(segs) IN
  /\ kernel = "compactar"
  /\ IF total > tam_memoria THEN Caer
     ELSE /\ lista_segmentos_actuales' =
               [i \in DOMAIN segs |-> [id |-> segs[i].id, base |-> Destino(segs, i),
                                       limite |-> Destino(segs, i) + Tam(segs[i])]]
          /\ huecos_libres' = << [base |-> total, limite |-> tam_memoria] >>
          /\ kernel' = "reintentar"
          /\ sana' = TRUE
          /\ UNCHANGED <<segmento_id_global, vTablas, pedido, vivo>>

-----------------------------------------------------------------------------
Next ==
  /\ vivo
  /\ \/ \E p \in Pids : inicializar_estructuras_pcb(p)
     \/ \E p \in Pids : pedir_segmento(p)
     \/ \E p \in Pids : borrar(p)
     \/ \E p \in Pids : terminar(p)
     \/ \E p \in Pids : fin_proceso(p)
     \/ compactar_memoria
     \/ reintentar

Spec == Init /\ [][Next]_vars

-----------------------------------------------------------------------------
(* Properties. *)

Segmentos == [id : Nat, base : 0 .. tam_memoria, limite : 0 .. tam_memoria]
Huecos == [base : 0 .. tam_memoria, limite : 0 .. tam_memoria]

\* The lists hold ranges of the memory, the tables ids that were handed out.
TypeOK ==
  /\ huecos_libres \in Seq(Huecos) /\ lista_segmentos_actuales \in Seq(Segmentos)
  /\ segmento_id_global \in Nat \ {0}
  /\ tablas \in [Pids -> [Sids -> {VACIO} \cup 0 .. segmento_id_global - 1]]
  /\ cant_actuales \in [Pids -> 0 .. cant_segmentos]
  /\ proceso \in [Pids -> {"nuevo", "activo", "fin", "borrado"}]
  /\ kernel \in {"libre", "compactar", "reintentar", "trabado"}
  /\ pedido.pid \in Pids \cup {-1} /\ pedido.sid \in Sids \cup {-1} /\ pedido.tam \in Nat
  /\ sana \in BOOLEAN /\ vivo \in BOOLEAN

Direcciones(r) == r.base .. r.limite - 1
Usos(a) == Cardinality({i \in DOMAIN huecos_libres : a \in Direcciones(huecos_libres[i])})
         + Cardinality({i \in DOMAIN lista_segmentos_actuales :
                          a \in Direcciones(lista_segmentos_actuales[i])})

\* What utils.c:224 asks of the hole list: every address of the memory is in one
\* hole or in one segment, and in no two, whatever was created, deleted, freed by
\* an ending process or compacted.
Particion == \A a \in 0 .. tam_memoria - 1 : Usos(a) = 1

\* The same, as long as no consolidation has taken the wrong hole away: the
\* arithmetic of creation, deletion and compaction loses and repeats nothing.
ParticionSana == sana => Particion

\* "y consolidar de ser necesario" (utils.c:224): no two holes are left side by
\* side, so the largest request that fits is not hidden by a split hole.
HuecosConsolidados ==
  sana => \A i, j \in DOMAIN huecos_libres :
            i # j => huecos_libres[i].limite # huecos_libres[j].base

\* The tables and the list of segments name the same segments, each in one
\* table, and the count that enviar_tabla_a_kernel sends by is the number of
\* entries in use: FIN_PROCESO, which runs by itself, does not leave them apart.
TablasYLista ==
  /\ \A p \in Pids : cant_actuales[p] = Cardinality({s \in Sids : tablas[p][s] # VACIO})
  /\ \A i \in DOMAIN lista_segmentos_actuales :
       lista_segmentos_actuales[i].id # SEGMENTO_0 =>
         Cardinality({e \in Pids \X Sids :
                        tablas[e[1]][e[2]] = lista_segmentos_actuales[i].id}) = 1
  /\ \A p \in Pids, s \in Sids :
       tablas[p][s] # VACIO =>
         Cardinality({i \in DOMAIN lista_segmentos_actuales :
                        lista_segmentos_actuales[i].id = tablas[p][s]}) = 1

PorBase(segs) == \A i, j \in DOMAIN segs : i < j => segs[i].base <= segs[j].base

\* The loop that moves the segments (utils.c:264-275) goes in the order of the
\* list and not of the addresses. When both orders agree, every byte of every
\* segment arrives; nothing is overwritten before it has been moved.
CopiaFiel ==
  LET segs == lista_segmentos_actuales
      m == CopiarSegmentos(segs) IN
  kernel = "compactar" /\ sana /\ PorBase(segs) =>
    \A i \in DOMAIN segs, k \in 0 .. tam_memoria - 1 :
      k < Tam(segs[i]) => m[Destino(segs, i) + k] = segs[i].base + k

\* After COMPACTAR the retry of do_create_segment, which holds semFS, finds a hole
\* that is large enough: it does not compact again and wait for itself, also
\* when FIN_PROCESO frees segments before, during or after the compaction.
ReintentoCabe ==
  kernel = "reintentar" /\ pedido.sana /\ sana =>
    \E i \in DOMAIN huecos_libres : Tam(huecos_libres[i]) >= pedido.tam

\* With no room left the answer is OUT_OF_MEMORY (utils.c:380-383), and memory goes on.
LlenaAvisa == vivo
-----------------------------------------------------------------------------
(* What the lists and tables implement. *)

RangoDe(id) ==
  LET i == CHOOSE j \in DOMAIN lista_segmentos_actuales : lista_segmentos_actuales[j].id = id
  IN [base   |-> lista_segmentos_actuales[i].base,
      limite |-> lista_segmentos_actuales[i].limite]

A == INSTANCE Asignador WITH
  segs <- [p \in Pids |-> [s \in Sids |->
             IF tablas[p][s] = VACIO THEN [base |-> 0, limite |-> 0] ELSE RangoDe(tablas[p][s])]],
  conTabla <- {p \in Pids : proceso[p] \in {"activo", "fin"}}

\* Whatever memory does to its lists and tables is one step of Asignador or none:
\* ranges are handed out once, and kept with their size through the deletions of
\* others and through compactions. Creations are left out while a consolidation
\* has the lists of holes wrong.
ImplementaAsignador == A!Init /\ [][sana \/ sana' => A!Next]_(A!vars)
=============================================================================
