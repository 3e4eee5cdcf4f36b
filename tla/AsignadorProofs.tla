--------------------------- MODULE AsignadorProofs ---------------------------
(***************************************************************************)
(* What Asignador promises keeps the processes apart, for any set of       *)
(* processes, any table and any memory. That Memoria and Tablas implement  *)
(* Asignador is proved in MemoriaProofs and TablasProofs.                  *)
(***************************************************************************)
EXTENDS Asignador, TLAPS

\* Tables have an entry for the segment all share, and that segment fits.
Parametros ==
  /\ 0 \in Sids
  /\ tam_memoria \in Nat /\ tam_segmento_0 \in 0 .. tam_memoria

IInv == TypeOK /\ Disjuntos

-----------------------------------------------------------------------------
\* Separation is symmetric, and an entry with no segment is apart from all.
LEMMA SeparadosSimetrico ==
  ASSUME NEW r, NEW q PROVE Separados(r, q) <=> Separados(q, r)
BY DEF Separados

LEMMA NadaSeparada ==
  ASSUME NEW r PROVE Separados(NADA, r) /\ Separados(r, NADA)
BY DEF Separados, NADA

\* Changing one entry of a separated set of tables to a range that is apart from
\* the segment of all and from every other entry leaves them separated.
LEMMA CambiarUna ==
  ASSUME NEW m \in [Pids -> [Sids -> Rangos]], Separadas(m),
         NEW p \in Pids, NEW s \in Privadas, NEW r,
         Separados(r, SEGMENTO_0),
         \A q \in Pids, t \in Privadas : <<p, s>> # <<q, t>> => Separados(r, m[q][t])
  PROVE  Separadas([m EXCEPT ![p][s] = r])
<1> DEFINE n == [m EXCEPT ![p][s] = r]
<1>0. s \in Sids /\ 0 \notin Privadas BY DEF Privadas
<1>1. \A q \in Pids, t \in Privadas :
        n[q][t] = IF <<q, t>> = <<p, s>> THEN r ELSE m[q][t]
  BY <1>0 DEF Privadas
<1>2. ASSUME NEW q \in Pids, NEW t \in Privadas
      PROVE  Separados(n[q][t], SEGMENTO_0)
  BY <1>1, <1>2 DEF Separadas
<1>3. ASSUME NEW q \in Pids, NEW t \in Privadas, NEW u \in Pids, NEW v \in Privadas,
             <<q, t>> # <<u, v>>
      PROVE  Separados(n[q][t], n[u][v])
  <2>1. CASE <<q, t>> = <<p, s>>
    <3>1. n[q][t] = r /\ n[u][v] = m[u][v] BY <1>1, <1>3, <2>1
    <3> QED BY <3>1, <1>3, <2>1
  <2>2. CASE <<u, v>> = <<p, s>>
    <3>1. n[u][v] = r /\ n[q][t] = m[q][t] BY <1>1, <1>3, <2>2
    <3>2. Separados(r, m[q][t]) BY <1>3, <2>2
    <3> QED BY <3>1, <3>2, SeparadosSimetrico
  <2>3. CASE <<q, t>> # <<p, s>> /\ <<u, v>> # <<p, s>>
    <3>1. n[q][t] = m[q][t] /\ n[u][v] = m[u][v] BY <1>1, <1>3, <2>3
    <3> QED BY <3>1, <1>3 DEF Separadas
  <2> QED BY <2>1, <2>2, <2>3
<1> HIDE DEF n
<1>4. Separadas(n) BY <1>2, <1>3 DEF Separadas
<1> QED BY <1>4 DEF n

-----------------------------------------------------------------------------
\* The ranges written are ranges of the memory.
LEMMA Constantes ==
  ASSUME Parametros
  PROVE  NADA \in Rangos /\ SEGMENTO_0 \in Rangos /\ 0 \in Sids /\ Privadas \subseteq Sids
BY DEF Parametros, NADA, SEGMENTO_0, Rangos, Privadas

LEMMA Inicio == ASSUME Parametros PROVE Init => IInv
<1> SUFFICES ASSUME Init PROVE IInv OBVIOUS
<1>1. TypeOK BY Constantes DEF Init, TypeOK
<1>2. \A p \in Pids, s \in Privadas : segs[p][s] = NADA BY Constantes DEF Init
<1>3. Disjuntos BY <1>2, NadaSeparada DEF Disjuntos, Separadas
<1> QED BY <1>1, <1>3 DEF IInv

\* Entry 0 of a table may change without anything else: nobody's range does.
LEMMA SoloEntradaCero ==
  ASSUME IInv,
         \A p \in Pids, s \in Privadas : segs'[p][s] \in {segs[p][s], NADA}
  PROVE  Disjuntos'
<1>1. ASSUME NEW p \in Pids, NEW s \in Privadas
      PROVE  Separados(segs'[p][s], SEGMENTO_0)
  BY <1>1, NadaSeparada DEF IInv, Disjuntos, Separadas
<1>2. ASSUME NEW p \in Pids, NEW s \in Privadas, NEW q \in Pids, NEW t \in Privadas,
             <<p, s>> # <<q, t>>
      PROVE  Separados(segs'[p][s], segs'[q][t])
  <2>1. Separados(segs[p][s], segs[q][t]) BY <1>2 DEF IInv, Disjuntos, Separadas
  <2>2. segs'[p][s] \in {segs[p][s], NADA} /\ segs'[q][t] \in {segs[q][t], NADA} BY <1>2
  <2> QED BY <2>1, <2>2, NadaSeparada
<1>3. SEGMENTO_0' = SEGMENTO_0 BY DEF SEGMENTO_0
<1> QED BY <1>1, <1>2, <1>3 DEF Disjuntos, Separadas

LEMMA PasoIniciar ==
  ASSUME Parametros, IInv, NEW p \in Pids, Iniciar(p) PROVE IInv'
<1>1. TypeOK' BY Constantes DEF IInv, TypeOK, Iniciar
<1>2. \A q \in Pids, s \in Privadas : segs'[q][s] = segs[q][s]
  BY Constantes DEF IInv, TypeOK, Iniciar, Privadas
<1>3. Disjuntos' BY <1>2, SoloEntradaCero
<1> QED BY <1>1, <1>3 DEF IInv

LEMMA PasoTerminar ==
  ASSUME Parametros, IInv, NEW p \in Pids, Terminar(p) PROVE IInv'
<1>1. TypeOK' BY Constantes DEF IInv, TypeOK, Terminar
<1>2. \A q \in Pids, s \in Privadas : segs'[q][s] \in {segs[q][s], NADA}
  BY Constantes DEF IInv, TypeOK, Terminar, Privadas
<1>3. Disjuntos' BY <1>2, SoloEntradaCero
<1> QED BY <1>1, <1>3 DEF IInv

LEMMA PasoEliminar ==
  ASSUME Parametros, IInv, NEW p \in Pids, NEW s \in Privadas, Eliminar(p, s) PROVE IInv'
<1>1. TypeOK' BY Constantes DEF IInv, TypeOK, Eliminar
<1>2. \A q \in Pids, t \in Privadas : segs'[q][t] \in {segs[q][t], NADA}
  BY Constantes DEF IInv, TypeOK, Eliminar, Privadas
<1>3. Disjuntos' BY <1>2, SoloEntradaCero
<1> QED BY <1>1, <1>3 DEF IInv

LEMMA PasoCrear ==
  ASSUME Parametros, IInv, NEW p \in Pids, NEW s \in Privadas, Crear(p, s) PROVE IInv'
<1> DEFINE r == segs'[p][s]
<1>1. r \in Rangos /\ Libre(r) /\ segs' = [segs EXCEPT ![p][s] = r] /\ conTabla' = conTabla
  BY DEF Crear
<1> HIDE DEF r
<1>2. TypeOK' BY <1>1, Constantes DEF IInv, TypeOK
<1>3. Separadas([segs EXCEPT ![p][s] = r])
  <2>1. segs \in [Pids -> [Sids -> Rangos]] /\ Separadas(segs) BY DEF IInv, TypeOK, Disjuntos
  <2>2. Separados(r, SEGMENTO_0) /\ \A q \in Pids, t \in Privadas : Separados(r, segs[q][t])
    BY <1>1 DEF Libre
  <2> QED BY <2>1, <2>2, CambiarUna
<1>4. Disjuntos' BY <1>1, <1>3 DEF Disjuntos
<1> QED BY <1>2, <1>4 DEF IInv

LEMMA PasoCompactar == ASSUME IInv, Compactar PROVE IInv'
<1>1. TypeOK' BY DEF IInv, TypeOK, Compactar
<1>2. Disjuntos' BY DEF Compactar, Disjuntos
<1> QED BY <1>1, <1>2 DEF IInv

LEMMA Paso == ASSUME Parametros, IInv, [Next]_vars PROVE IInv'
<1>1. CASE UNCHANGED vars
  BY <1>1 DEF vars, IInv, TypeOK, Disjuntos
<1>2. ASSUME NEW p \in Pids, Iniciar(p) \/ Terminar(p) PROVE IInv'
  BY <1>2, PasoIniciar, PasoTerminar
<1>3. ASSUME NEW p \in Pids, NEW s \in Privadas, Crear(p, s) \/ Eliminar(p, s) PROVE IInv'
  BY <1>3, PasoCrear, PasoEliminar
<1>4. CASE Compactar BY <1>4, PasoCompactar
<1> QED BY <1>1, <1>2, <1>3, <1>4 DEF Next

-----------------------------------------------------------------------------
\* Isolation: in every behaviour, an address of a private segment belongs to one
\* process and one entry, and every entry is a range of the memory. Creations, the
\* deletions and ends of others and compactions (crear_segmento, eliminar_segmento,
\* fin_proceso, compactar_memoria) never bring two processes together.
THEOREM Aislamiento ==
  ASSUME Parametros PROVE Spec => [](TypeOK /\ Disjuntos)
<1>1. Init => IInv BY Inicio
<1>2. IInv /\ [Next]_vars => IInv' BY Paso
<1>3. IInv => TypeOK /\ Disjuntos BY DEF IInv
<1> QED BY <1>1, <1>2, <1>3, PTL DEF Spec
=============================================================================
