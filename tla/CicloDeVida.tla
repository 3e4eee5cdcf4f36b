----------------------------- MODULE CicloDeVida -----------------------------
(***************************************************************************)
(* What the kernel promises of its processes, whatever its threads, queues *)
(* and semaphores do: the five-state life cycle, one process executing at  *)
(* a time, at most Grado processes admitted, and a ready process always    *)
(* taken when the CPU is free.                                             *)
(***************************************************************************)
EXTENDS Naturals, FiniteSets

CONSTANTS Procesos,   \* the processes that may ever be created
          Grado       \* how many may be READY, EXEC or BLOCK at once

VARIABLE estado

En(e) == {p \in Procesos : estado[p] = e}

Init == estado = [p \in Procesos |-> "SIN_CREAR"]

Pasar(p, de, a) == estado[p] = de /\ estado' = [estado EXCEPT ![p] = a]

Crear(p) == Pasar(p, "SIN_CREAR", "NEW")

Admitir(p) ==
  /\ Cardinality(En("READY") \cup En("EXEC") \cup En("BLOCK")) < Grado
  /\ Pasar(p, "NEW", "READY")

Despachar(p) == En("EXEC") = {} /\ Pasar(p, "READY", "EXEC")

Desalojar(p) == Pasar(p, "EXEC", "READY")
Bloquear(p) == Pasar(p, "EXEC", "BLOCK")
Despertar(p) == Pasar(p, "BLOCK", "READY")
Terminar(p) == Pasar(p, "EXEC", "EXIT")

Next ==
  \E p \in Procesos :
    \/ Crear(p) \/ Admitir(p) \/ Despachar(p) \/ Desalojar(p)
    \/ Bloquear(p) \/ Despertar(p) \/ Terminar(p)

Spec ==
  /\ Init /\ [][Next]_estado
  /\ WF_estado(\E p \in Procesos : Despachar(p))
=============================================================================
