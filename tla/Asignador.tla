------------------------------ MODULE Asignador ------------------------------
(***************************************************************************)
(* What the memory process promises of its segments: the program that      *)
(* creates a segment gets a range nobody else has, and keeps it until it   *)
(* deletes it or ends; a compaction moves ranges and changes no size. How  *)
(* the ranges are found (lists of holes and of segments, the algorithms,   *)
(* the consolidation) is the business of Memoria, which implements this.   *)
(***************************************************************************)
EXTENDS Integers

CONSTANTS Pids, Sids, tam_memoria, tam_segmento_0

VARIABLES
  segs,       \* per process and entry of its table: the range of the segment
  conTabla    \* the processes that have a table

vars == <<segs, conTabla>>

NADA == [base |-> 0, limite |-> 0]     \* an entry with no segment: no address
SEGMENTO_0 == [base |-> 0, limite |-> tam_segmento_0]

Rangos == [base : 0 .. tam_memoria, limite : 0 .. tam_memoria]
Privadas == Sids \ {0}                 \* entry 0 is the segment all share
Tam(r) == r.limite - r.base
Separados(r, q) ==
  r.limite <= r.base \/ q.limite <= q.base \/ r.limite <= q.base \/ q.limite <= r.base

Init ==
  /\ segs = [p \in Pids |-> [s \in Sids |-> NADA]]
  /\ conTabla = {}

Iniciar(p) ==
  /\ p \notin conTabla
  /\ conTabla' = conTabla \cup {p}
  /\ segs' = [segs EXCEPT ![p][0] = SEGMENTO_0]

\* No segment has an address of r.
Libre(r) ==
  /\ Separados(r, SEGMENTO_0)
  /\ \A p \in Pids, s \in Privadas : Separados(r, segs[p][s])

Crear(p, s) ==
  /\ p \in conTabla /\ segs[p][s] = NADA
  /\ LET r == segs'[p][s] IN
       /\ r.base < r.limite /\ r \in Rangos /\ Libre(r)
       /\ segs' = [segs EXCEPT ![p][s] = r]
  /\ UNCHANGED conTabla

Eliminar(p, s) ==
  /\ p \in conTabla /\ segs[p][s] # NADA
  /\ segs' = [segs EXCEPT ![p][s] = NADA]
  /\ UNCHANGED conTabla

\* The end of a process frees what it has left.
Terminar(p) ==
  /\ p \in conTabla
  /\ conTabla' = conTabla \ {p}
  /\ segs' = [segs EXCEPT ![p] = [s \in Sids |-> NADA]]

\* No two private segments share an address, nor one and the segment of all.
Separadas(m) ==
  \A p \in Pids, s \in Privadas :
    /\ Separados(m[p][s], SEGMENTO_0)
    /\ \A q \in Pids, t \in Privadas :
         <<p, s>> # <<q, t>> => Separados(m[p][s], m[q][t])

\* Some segments move, and all keep their size.
Compactar ==
  /\ UNCHANGED conTabla
  /\ segs' \in [Pids -> [Sids -> Rangos]]
  /\ \A p \in Pids, s \in Sids :
       /\ segs'[p][s] = NADA <=> segs[p][s] = NADA
       /\ Tam(segs'[p][s]) = Tam(segs[p][s])
  /\ \A p \in Pids : segs'[p][0] = segs[p][0]
  /\ Separadas(segs')

\* The table of one process changes, or all that a compaction moves.
Next ==
  /\ segs' # segs
  /\ \/ \E p \in Pids : Iniciar(p) \/ Terminar(p)
     \/ \E p \in Pids, s \in Privadas : Crear(p, s) \/ Eliminar(p, s)
     \/ Compactar

Spec == Init /\ [][Next]_vars

-----------------------------------------------------------------------------
\* Tables are filled for processes that have one, with ranges of the memory.
TypeOK ==
  /\ segs \in [Pids -> [Sids -> Rangos]]
  /\ conTabla \in SUBSET Pids

\* Isolation: an address of a private segment belongs to one process and one
\* entry of its table, whatever was created, deleted, ended or compacted.
Disjuntos == Separadas(segs)
=============================================================================
