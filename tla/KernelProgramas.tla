---------------------------- MODULE KernelProgramas ----------------------------
(***************************************************************************)
(* What the kernel owes to programs that use resources as they should. Its *)
(* handlers trust the programs: SIGNAL creates an instance for a process   *)
(* that holds none, and EXIT gives instances back without waking anybody.  *)
(* So these theorems have a hypothesis on the instruction lists, and show  *)
(* that nothing else is needed, whatever the interleaving.                 *)
(***************************************************************************)
EXTENDS KernelProofs, Disciplina

-----------------------------------------------------------------------------
(* The instances the processes hold. *)

Asignaciones == [Pids -> [Recursos -> Nat \cup {SinEntrada}]]
Tiene(a, p, r) == IF a[p][r] = SinEntrada THEN 0 ELSE a[p][r]
EnManos(a, r) == SumFunction([p \in Pids |-> Tiene(a, p, r)])

\* Two assignments that differ in what p holds of r at most.
SoloDe(p, r, a, b) == \A q \in Pids : q = p \/ b[q][r] = a[q][r]

LEMMA PidsFinito == IsFiniteSet(Pids)
BY FS_Interval, KernelAssumption DEF Pids

LEMMA TieneNat ==
  ASSUME NEW a \in Asignaciones, NEW p \in Pids, NEW r \in Recursos
  PROVE  Tiene(a, p, r) \in Nat
BY DEF Asignaciones, Tiene, SinEntrada

LEMMA EnManosNat ==
  ASSUME NEW a \in Asignaciones, NEW r \in Recursos
  PROVE  EnManos(a, r) \in Nat
<1> DEFINE v == [p \in Pids |-> Tiene(a, p, r)]
<1>1. v \in [Pids -> Nat]
  BY TieneNat
<1> HIDE DEF v
<1>2. SumFunction(v) \in Nat
  BY <1>1, PidsFinito, SumaFuncion
<1> QED BY <1>2 DEF v, EnManos

LEMMA EnManosCambia ==
  ASSUME NEW a \in Asignaciones, NEW b \in Asignaciones, NEW p \in Pids,
         NEW r \in Recursos, SoloDe(p, r, a, b), NEW d \in Int,
         Tiene(b, p, r) = Tiene(a, p, r) + d
  PROVE  EnManos(b, r) = EnManos(a, r) + d
<1> DEFINE v == [q \in Pids |-> Tiene(a, q, r)]
           w == [q \in Pids |-> Tiene(b, q, r)]
           sv == SumFunction(v)
           sw == SumFunction(w)
           vp == v[p]
           wp == w[p]
<1>1. v \in [Pids -> Int] /\ w \in [Pids -> Int]
  BY TieneNat
<1>2. \A q \in Pids \ {p} : w[q] = v[q]
  BY DEF SoloDe, Tiene
<1>3. w[p] = v[p] + d
  OBVIOUS
<1> HIDE DEF v, w
<1>4. SumFunction(w) = SumFunction(v) + (w[p] - v[p])
  BY <1>1, <1>2, PidsFinito, SumaCambiar
<1>5. SumFunction(v) \in Int /\ SumFunction(w) \in Int
  BY <1>1, PidsFinito, SumaEntera DEF SumFunction
<1>6. sv \in Int /\ vp \in Int /\ wp \in Int /\ wp = vp + d /\ sw = sv + (wp - vp)
  BY <1>1, <1>3, <1>4, <1>5
<1> HIDE DEF sv, sw, vp, wp
<1>7. sw = sv + d
  BY <1>6
<1> QED BY <1>7 DEF v, w, sv, sw, EnManos

LEMMA EnManosIgual ==
  ASSUME NEW a \in Asignaciones, NEW b \in Asignaciones, NEW r \in Recursos,
         \A q \in Pids : b[q][r] = a[q][r]
  PROVE  EnManos(b, r) = EnManos(a, r)
<1>1. [p \in Pids |-> Tiene(b, p, r)] = [p \in Pids |-> Tiene(a, p, r)]
  BY DEF Tiene
<1> QED BY <1>1 DEF EnManos

\* One more instance for p, entry or no entry.
LEMMA SumarUna ==
  ASSUME NEW a \in Asignaciones, NEW p \in Pids, NEW r \in Recursos
  PROVE  /\ SumarInstancia(a, p, r) \in Asignaciones
         /\ Tiene(SumarInstancia(a, p, r), p, r) = Tiene(a, p, r) + 1
         /\ \A x \in Recursos \ {r} : \A q \in Pids : SumarInstancia(a, p, r)[q][x] = a[q][x]
         /\ SoloDe(p, r, a, SumarInstancia(a, p, r))
BY DEF Asignaciones, SumarInstancia, Tiene, SinEntrada, SoloDe

\* One less for p, if it holds some.
RestarInstancia(a, p, r) == [a EXCEPT ![p][r] = IF @ > 0 THEN @ - 1 ELSE @]

LEMMA RestarUna ==
  ASSUME NEW a \in Asignaciones, NEW p \in Pids, NEW r \in Recursos
  PROVE  /\ RestarInstancia(a, p, r) \in Asignaciones
         /\ Tiene(RestarInstancia(a, p, r), p, r) = Tiene(a, p, r) + (0 - B(Tiene(a, p, r) > 0))
         /\ \A x \in Recursos \ {r} : \A q \in Pids : RestarInstancia(a, p, r)[q][x] = a[q][x]
         /\ SoloDe(p, r, a, RestarInstancia(a, p, r))
BY DEF Asignaciones, RestarInstancia, Tiene, SinEntrada, SoloDe, B

-----------------------------------------------------------------------------
(* What each handler does to the instances that exist. *)

LEMMA ExistentesSon ==
  ASSUME TypeOK, NEW r \in Recursos
  PROVE  /\ recursos_asignados \in Asignaciones
         /\ Existentes(r) = recursos_disponibles[r] + EnManos(recursos_asignados, r)
         /\ recursos_disponibles[r] \in Nat /\ EnManos(recursos_asignados, r) \in Nat
<1>1. recursos_asignados \in Asignaciones /\ recursos_disponibles[r] \in Nat
  BY DEF TypeOK, TipoRecursos, Asignaciones
<1> QED BY <1>1, EnManosNat DEF Existentes, EnManos, Tenidas, Tiene

\* What exists of r grows by d. (Existentes(r)', in terms of the new values.)
Crece(r, d) ==
  recursos_disponibles'[r] + EnManos(recursos_asignados', r)
    = recursos_disponibles[r] + EnManos(recursos_asignados, r) + d

LEMMA CreceExistentes ==
  ASSUME TypeOK, NEW r \in Recursos, NEW d, Crece(r, d)
  PROVE  Existentes(r)' = Existentes(r) + d
<1>1. Existentes(r)' = recursos_disponibles'[r] + EnManos(recursos_asignados', r)
  BY DEF Existentes, EnManos, Tenidas, Tiene
<1> QED BY <1>1, ExistentesSon DEF Crece

LEMMA CreceQuieto ==
  ASSUME TypeOK, TypeOK', NEW r \in Recursos, recursos_disponibles'[r] = recursos_disponibles[r],
         \A q \in Pids : recursos_asignados'[q][r] = recursos_asignados[q][r]
  PROVE  Crece(r, 0)
<1>1. recursos_asignados \in Asignaciones /\ recursos_asignados' \in Asignaciones
  BY DEF TypeOK, TipoRecursos, Asignaciones
<1> DEFINE m == EnManos(recursos_asignados, r)
           d == recursos_disponibles[r]
<1>2. EnManos(recursos_asignados', r) = m
  BY <1>1, EnManosIgual
<1>3. m \in Nat /\ d \in Nat
  BY ExistentesSon
<1> HIDE DEF m
<1> QED BY <1>2, <1>3 DEF Crece, m

LEMMA CreceWait ==
  ASSUME TypeOK, TypeOK', NEW p \in Pids, doWait(p), NEW r \in Recursos
  PROVE  Crece(r, 0)
<1> DEFINE x == Arg(p)
           a == recursos_asignados
<1>1. x \in Recursos
  BY DEF doWait
<1>2. CASE r # x \/ ~(recursos_disponibles[x] > 0)
  <2>1. recursos_disponibles'[r] = recursos_disponibles[r]
    BY <1>1, <1>2 DEF doWait, TypeOK, TipoRecursos
  <2>2. \A q \in Pids : recursos_asignados'[q][r] = recursos_asignados[q][r]
    <3>1. CASE recursos_disponibles[x] > 0
      <4>1. recursos_asignados' = SumarInstancia(a, p, x) /\ a \in Asignaciones /\ r # x
        BY <1>2, <3>1 DEF doWait, TypeOK, TipoRecursos, Asignaciones
      <4> HIDE DEF a, x
      <4>2. \A q \in Pids : recursos_asignados'[q][r] = a[q][r]
        BY <1>1, <4>1, SumarUna
      <4> QED BY <4>2 DEF a
    <3>2. CASE ~(recursos_disponibles[x] > 0)
      BY <3>2 DEF doWait
    <3> QED BY <3>1, <3>2
  <2> HIDE DEF x
  <2> QED BY <2>1, <2>2, CreceQuieto
<1>3. CASE r = x /\ recursos_disponibles[x] > 0
  <2>1. /\ recursos_disponibles'[r] = recursos_disponibles[r] - 1
        /\ recursos_asignados' = SumarInstancia(a, p, r)
    BY <1>1, <1>3 DEF doWait, TypeOK, TipoRecursos
  <2>2. a \in Asignaciones /\ recursos_asignados' \in Asignaciones
    BY DEF TypeOK, TipoRecursos, Asignaciones
  <2> HIDE DEF a, x
  <2>3. EnManos(recursos_asignados', r) = EnManos(a, r) + 1
    BY <2>1, <2>2, SumarUna, EnManosCambia
  <2> DEFINE m == EnManos(a, r)
  <2>4. m \in Nat /\ recursos_disponibles[r] \in Nat
    BY ExistentesSon DEF a
  <2> HIDE DEF m
  <2>5. recursos_disponibles'[r] + (m + 1) = recursos_disponibles[r] + m + 0
    BY <2>1, <2>4
  <2> QED BY <2>3, <2>5 DEF Crece, m, a
<1> QED BY <1>2, <1>3

\* SIGNAL moves an instance when the process holds one. When it holds none it
\* creates one, and two if it has never held any (kernel.c:182).
CreaAlSoltar(p, r) ==
  IF Tenidas(p, r) > 0 THEN 0 ELSE 1 + B(recursos_asignados[p][r] = SinEntrada)

LEMMA CreceSignal ==
  ASSUME TypeOK, TypeOK', NEW p \in Pids, doSignal(p), NEW r \in Recursos
  PROVE  Crece(r, IF r = Arg(p) THEN CreaAlSoltar(p, r) ELSE 0)
<1> DEFINE x == Arg(p)
           a == recursos_asignados
           extra == B(a[p][x] = SinEntrada)
           propia == RestarInstancia(a, p, x)
           w == Head(colasRecursos[x])
<1>1. x \in Recursos /\ a \in Asignaciones /\ extra \in Nat
      /\ recursos_disponibles[x] \in Nat
  BY DEF doSignal, TypeOK, TipoRecursos, Asignaciones, B
<1>2. CASE colasRecursos[x] = <<>>
  <2>1. /\ recursos_asignados' = propia
        /\ recursos_disponibles' = [recursos_disponibles EXCEPT ![x] = @ + extra + 1]
    BY <1>2 DEF doSignal, RestarInstancia
  <2>2. CASE r # x
    <3>1. \A q \in Pids : recursos_asignados'[q][r] = a[q][r]
      <4> HIDE DEF a, x, propia
      <4> QED BY <1>1, <2>1, <2>2, RestarUna DEF propia
    <3>2. recursos_disponibles'[r] = recursos_disponibles[r]
      BY <2>1, <2>2 DEF TypeOK, TipoRecursos
    <3> HIDE DEF x
    <3> QED BY <2>2, <3>1, <3>2, CreceQuieto DEF x
  <2>3. CASE r = x
    <3> DEFINE h == B(Tiene(a, p, r) > 0)
               m == EnManos(a, r)
               d == recursos_disponibles[r]
    <3>1. recursos_disponibles'[r] = d + extra + 1
      BY <1>1, <2>1, <2>3 DEF TypeOK, TipoRecursos
    <3>2. h \in Nat /\ 0 - h \in Int
      BY DEF B
    <3>3. EnManos(recursos_asignados', r) = m + (0 - h)
      <4> HIDE DEF a, x, propia, h
      <4> QED BY <1>1, <2>1, <2>3, <3>2, RestarUna, EnManosCambia DEF propia, h
    <3>4. m \in Nat /\ d \in Nat
      BY ExistentesSon
    <3>5. CreaAlSoltar(p, r) = extra + 1 - h
      BY <1>1, <2>3 DEF CreaAlSoltar, Tenidas, Tiene, B, Asignaciones, SinEntrada
    <3> HIDE DEF h, m, d, extra
    <3>6. (d + extra + 1) + (m + (0 - h)) = d + m + (extra + 1 - h)
      BY <1>1, <3>2, <3>4
    <3> HIDE DEF x
    <3> QED BY <2>3, <3>1, <3>3, <3>5, <3>6 DEF Crece, m, d, x
  <2> QED BY <2>2, <2>3
<1>3. CASE colasRecursos[x] # <<>>
  <2>1. /\ recursos_asignados' = SumarInstancia(propia, w, x)
        /\ recursos_disponibles' = [recursos_disponibles EXCEPT ![x] = @ + extra]
    BY <1>3 DEF doSignal, RestarInstancia
  <2>2. w \in Pids
    BY <1>1, <1>3 DEF TypeOK, TipoRecursos, Cola
  <2>3. propia \in Asignaciones
    <3> HIDE DEF a, x
    <3> QED BY <1>1, RestarUna
  <2>4. CASE r # x
    <3>1. \A q \in Pids : recursos_asignados'[q][r] = a[q][r]
      <4>1. \A q \in Pids : propia[q][r] = a[q][r]
        <5> HIDE DEF a, x, propia
        <5> QED BY <1>1, <2>4, RestarUna DEF propia
      <4> HIDE DEF a, x, propia, w
      <4> QED BY <1>1, <2>3, <2>1, <2>2, <2>4, <4>1, SumarUna
    <3>2. recursos_disponibles'[r] = recursos_disponibles[r]
      BY <2>1, <2>4 DEF TypeOK, TipoRecursos
    <3> HIDE DEF x
    <3> QED BY <2>4, <3>1, <3>2, CreceQuieto DEF x
  <2>5. CASE r = x
    <3> DEFINE h == B(Tiene(a, p, r) > 0)
               m == EnManos(a, r)
               mp == EnManos(propia, r)
               d == recursos_disponibles[r]
    <3>1. recursos_disponibles'[r] = d + extra
      BY <1>1, <2>1, <2>5 DEF TypeOK, TipoRecursos
    <3>2. h \in Nat /\ 0 - h \in Int
      BY DEF B
    <3>3. mp = m + (0 - h)
      <4> HIDE DEF a, x, h
      <4> QED BY <1>1, <2>3, <2>5, <3>2, RestarUna, EnManosCambia DEF h
    <3>4. EnManos(recursos_asignados', r) = mp + 1
      <4> HIDE DEF a, x, propia, w
      <4> QED BY <2>3, <2>1, <2>2, <2>5, SumarUna, EnManosCambia
    <3>5. m \in Nat /\ d \in Nat
      BY ExistentesSon
    <3>6. CreaAlSoltar(p, r) = extra + 1 - h
      BY <1>1, <2>5 DEF CreaAlSoltar, Tenidas, Tiene, B, Asignaciones, SinEntrada
    <3> HIDE DEF h, m, mp, d, extra
    <3>7. (d + extra) + (mp + 1) = d + m + (extra + 1 - h)
      BY <1>1, <3>2, <3>3, <3>5
    <3> HIDE DEF x, w, propia
    <3> QED BY <2>5, <3>1, <3>4, <3>6, <3>7 DEF Crece, m, d, x
  <2> QED BY <2>4, <2>5
<1> QED BY <1>2, <1>3

LEMMA CreceExit ==
  ASSUME TypeOK, TypeOK', NEW p \in Pids, doExit(p), NEW r \in Recursos
  PROVE  Crece(r, 0)
<1> DEFINE a == recursos_asignados
           m == EnManos(a, r)
           t == Tiene(a, p, r)
           d == recursos_disponibles[r]
<1>1. recursos_disponibles'[r] = d + t
  BY DEF doExit, Tenidas, Tiene
<1>2. a \in Asignaciones /\ recursos_asignados' \in Asignaciones
  BY DEF TypeOK, TipoRecursos, Asignaciones
<1>3. recursos_asignados' = [a EXCEPT ![p] = SinRecursos]
  BY DEF doExit
<1>4. t \in Nat /\ 0 - t \in Int /\ m \in Nat /\ d \in Nat
  BY <1>2, TieneNat, ExistentesSon
<1>5. Tiene(recursos_asignados', p, r) = 0 /\ SoloDe(p, r, a, recursos_asignados')
  BY <1>2, <1>3 DEF Tiene, SoloDe, SinRecursos, Asignaciones
<1> HIDE DEF a, t, d, m
<1>6. Tiene(recursos_asignados', p, r) = t + (0 - t)
  BY <1>4, <1>5
<1>7. EnManos(recursos_asignados', r) = EnManos(a, r) + (0 - t)
  BY <1>2, <1>4, <1>5, <1>6, EnManosCambia DEF t
<1>8. (d + t) + (m + (0 - t)) = d + m + 0
  BY <1>4
<1> QED BY <1>1, <1>7, <1>8 DEF Crece, a, d, m

\* Only a SIGNAL of a process that holds no instance makes any grow.
LEMMA CrecePaso ==
  ASSUME TypeOK, TypeOK', Control, [Next]_vars, NEW r \in Recursos
  PROVE  \/ Crece(r, 0)
         \/ \E p \in Pids : /\ doSignal(p) /\ Arg(p) = r
                            /\ Crece(r, CreaAlSoltar(p, r))
<1> USE DEF vRecursos
<1>1. ASSUME UNCHANGED vRecursos PROVE Crece(r, 0)
  BY <1>1, CreceQuieto
<1>2. ASSUME NEW p \in Pids, doExit(p) PROVE Crece(r, 0)
  BY <1>2, CreceExit
<1>3. ASSUME NEW p \in Pids, analizarMotivo(p)
      PROVE  \/ Crece(r, 0)
             \/ doSignal(p) /\ Arg(p) = r /\ Crece(r, CreaAlSoltar(p, r))
  <2>1. CASE doSignal(p)
    <3>2. CASE r = Arg(p)
      <4>1. Crece(r, CreaAlSoltar(p, r))
        BY <2>1, <3>2, CreceSignal
      <4> QED BY <2>1, <3>2, <4>1
    <3>3. CASE r # Arg(p)
      BY <2>1, <3>3, CreceSignal
    <3> QED BY <3>2, <3>3
  <2>2. CASE doWait(p)
    BY <2>2, CreceWait
  <2>3. CASE finalizar_proceso(p)
    BY <1>2, <2>3 DEF finalizar_proceso
  <2>4. CASE do_create_segment(p)
    <3>1. doExit(p) \/ UNCHANGED vRecursos
      BY <2>4, KernelAssumption DEF do_create_segment
    <3> QED BY <1>1, <1>2, <3>1
  <2>5. CASE doYield(p) \/ doIO(p) \/ do_f_open(p) \/ do_f_close(p) \/ do_f_seek(p)
             \/ do_f_read_write(p) \/ do_f_truncate(p) \/ do_delete_segment(p)
    <3>1. UNCHANGED vRecursos
      <4>1. CASE doYield(p) \/ doIO(p) \/ do_f_truncate(p)
        BY <4>1 DEF doYield, doIO, do_f_truncate, BloquearEnHilo
      <4>2. CASE do_f_open(p)
        BY <4>2 DEF do_f_open
      <4>3. CASE do_f_close(p)
        BY <4>3 DEF do_f_close
      <4>4. CASE do_f_read_write(p)
        BY <4>4 DEF do_f_read_write
      <4>5. CASE do_f_seek(p) \/ do_delete_segment(p)
        BY <4>5 DEF do_f_seek, do_delete_segment
      <4> QED BY <2>5, <4>1, <4>2, <4>3, <4>4, <4>5
    <3> QED BY <1>1, <3>1
  <2> QED BY <1>3, <2>1, <2>2, <2>3, <2>4, <2>5 DEF analizarMotivo
<1>4. CASE fin_compactacion
  BY <1>1, <1>2, <1>4 DEF fin_compactacion, Control
<1>5. CASE sts_esperar \/ sts_despachar \/ sts_agregar \/ pedir_fs \/ pedir_compactacion
  <2>1. UNCHANGED vRecursos
    BY <1>5 DEF sts_esperar, sts_despachar, sts_agregar, pedir_fs, pedir_compactacion, Caer
  <2> QED BY <1>1, <2>1
<1>6. CASE crear_pcb \/ (\E p \in Pids : Consola(p)) \/ long_term_scheduler
  <2>1. UNCHANGED vRecursos
    BY <1>6 DEF crear_pcb, Consola, agregar_pcb_cola_nuevos, publicar_nuevo,
       long_term_scheduler, lts_esperar_nuevo, lts_esperar_grado, lts_admitir, lts_publicar, Caer
  <2> QED BY <1>1, <2>1
<1>7. CASE (\E p \in Pids : bloquear_pcb(p)) \/ publicar_despertado \/ bloquear_pcb_fs_r_w
  <2>1. UNCHANGED vRecursos
    BY <1>7 DEF bloquear_pcb, publicar_despertado, bloquear_pcb_fs_r_w, fs_agregar,
       fs_publicar, fs_liberar
  <2> QED BY <1>1, <2>1
<1>8. CASE UNCHANGED vars
  <2>1. UNCHANGED vRecursos
    BY <1>8 DEF vars
  <2> QED BY <1>1, <2>1
<1> QED BY <1>3, <1>4, <1>5, <1>6, <1>7, <1>8 DEF Next, short_term_scheduler

\* No instance of a resource is ever lost, whatever the programs do: WAIT,
\* SIGNAL, EXIT and the ends for lack of memory give back all they take.
NingunaSePierde == [][\A r \in Recursos : Existentes(r) <= Existentes(r)']_vars

THEOREM InstanciasNoSePierden == Spec => NingunaSePierde
<1>1. TypeOK /\ TypeOK' /\ Control /\ [Next]_vars
        => [\A r \in Recursos : Existentes(r) <= Existentes(r)']_vars
  <2> SUFFICES ASSUME TypeOK, TypeOK', Control, [Next]_vars, NEW r \in Recursos
               PROVE  Existentes(r) <= Existentes(r)'
    OBVIOUS
  <2> DEFINE e == Existentes(r)
             e1 == Existentes(r)'
  <2>1. e \in Int
    <3> DEFINE m == EnManos(recursos_asignados, r)
    <3>1. e = recursos_disponibles[r] + m /\ recursos_disponibles[r] \in Nat /\ m \in Nat
      BY ExistentesSon
    <3> HIDE DEF m, e
    <3> QED BY <3>1
  <2>2. ASSUME NEW d \in Nat, Crece(r, d) PROVE e <= e1
    <3>1. e1 = e + d
      BY <2>2, CreceExistentes
    <3> HIDE DEF e, e1
    <3> QED BY <2>1, <3>1
  <2>3. \A p \in Pids : CreaAlSoltar(p, r) \in Nat
    BY DEF CreaAlSoltar, B
  <2> QED BY <2>2, <2>3, CrecePaso
<1> QED BY <1>1, TiposCorrectos, PTL DEF Spec, NingunaSePierde

-----------------------------------------------------------------------------
(* How many instructions of a kind a process has behind it. *)

Finito(prog) == IsFiniteSet(DOMAIN prog) /\ DOMAIN prog \subseteq Nat \ {0}

LEMMA AntesNat ==
  ASSUME NEW prog, Finito(prog), NEW op, NEW x, NEW n
  PROVE  Antes(prog, op, x, n) \in Nat
<1>1. IsFiniteSet({i \in DOMAIN prog : i < n /\ prog[i].op = op /\ prog[i].arg = x})
  BY FS_Subset DEF Finito
<1> QED BY <1>1, FS_CardinalityType DEF Antes

LEMMA AntesUno ==
  ASSUME NEW prog, Finito(prog), NEW op, NEW x
  PROVE  Antes(prog, op, x, 1) = 0
<1>1. {i \in DOMAIN prog : i < 1 /\ prog[i].op = op /\ prog[i].arg = x} = {}
  BY DEF Finito
<1> QED BY <1>1, FS_EmptySet DEF Antes

LEMMA AntesSiguiente ==
  ASSUME NEW prog, Finito(prog), NEW op, NEW x, NEW n \in DOMAIN prog
  PROVE  Antes(prog, op, x, n + 1)
           = Antes(prog, op, x, n) + B(prog[n].op = op /\ prog[n].arg = x)
<1> DEFINE S == {i \in DOMAIN prog : i < n /\ prog[i].op = op /\ prog[i].arg = x}
           T == {i \in DOMAIN prog : i < n + 1 /\ prog[i].op = op /\ prog[i].arg = x}
           es == prog[n].op = op /\ prog[n].arg = x
<1>1. IsFiniteSet(S) /\ Cardinality(S) \in Nat
  <2>1. IsFiniteSet(S)
    BY FS_Subset DEF Finito
  <2> QED BY <2>1, FS_CardinalityType
<1>2. n \notin S /\ T = IF es THEN S \cup {n} ELSE S
  BY DEF Finito
<1> HIDE DEF S, T, es
<1>3. Cardinality(T) = Cardinality(S) + B(es)
  <2>1. CASE es
    <3>1. Cardinality(S \cup {n}) = Cardinality(S) + 1
      BY <1>1, <1>2, FS_AddElement
    <3> QED BY <1>2, <2>1, <3>1 DEF B
  <2>2. CASE ~es
    <3>1. T = S
      BY <1>2, <2>2
    <3> QED BY <1>1, <2>2, <3>1 DEF B
  <2> QED BY <2>1, <2>2
<1> QED BY <1>3 DEF Antes, S, T, es

Hechas(q, op, x) == Antes(programa[q], op, x, pc[q])

LEMMA ProgramaFinito ==
  ASSUME TypeOK, NEW q \in Pids
  PROVE  /\ Finito(programa[q])
         /\ pc[q] <= Len(programa[q]) => pc[q] \in DOMAIN programa[q] /\ programa[q] \in Programas
<1> DEFINE I == [op : STRING, arg : STRING]
<1>1. programa[q] \in Seq(I)
  <2>1. programa[q] \in Programas \/ programa[q] = <<>>
    BY DEF TypeOK, TipoConsola
  <2>2. Programas \subseteq Seq(I)
    BY KernelAssumption
  <2>3. <<>> \in Seq(I)
    OBVIOUS
  <2> HIDE DEF I
  <2> QED BY <2>1, <2>2, <2>3
<1> HIDE DEF I
<1>2. Len(programa[q]) \in Nat /\ DOMAIN programa[q] = 1 .. Len(programa[q])
  BY <1>1
<1>3. Finito(programa[q])
  <2>1. IsFiniteSet(1 .. Len(programa[q]))
    BY <1>2, FS_Interval
  <2> QED BY <1>2, <2>1 DEF Finito
<1>4. pc[q] <= Len(programa[q]) => pc[q] \in DOMAIN programa[q]
  BY <1>2 DEF TypeOK, TipoPlanificacion
<1>5. pc[q] <= Len(programa[q]) => programa[q] # <<>>
  <2>1. pc[q] \in Nat /\ pc[q] > 0 /\ Len(<<>>) = 0
    BY DEF TypeOK, TipoPlanificacion
  <2> QED BY <2>1
<1> QED BY <1>3, <1>4, <1>5 DEF TypeOK, TipoConsola

LEMMA HechasNat ==
  ASSUME TypeOK, NEW q \in Pids, NEW op, NEW x
  PROVE  Hechas(q, op, x) \in Nat
BY ProgramaFinito, AntesNat DEF Hechas

\* One more, of the kind of the instruction p was at.
LEMMA HechasPaso ==
  ASSUME TypeOK, NEW p \in Pids, NEW ops, recibir_pcb_de_CPU(p, ops), programa' = programa,
         NEW op, NEW x, NEW q \in Pids
  PROVE  Hechas(q, op, x)' = Hechas(q, op, x)
                             + B(q = p /\ programa[p][pc[p]].op = op /\ Arg(p) = x)
<1>1. pc' = [pc EXCEPT ![p] = @ + 1] /\ pc[p] <= Len(programa[p])
  BY DEF recibir_pcb_de_CPU
<1>2. Hechas(q, op, x) \in Nat
  BY HechasNat
<1>3. CASE q = p
  <2>1. pc'[p] = pc[p] + 1
    BY <1>1 DEF TypeOK, TipoPlanificacion
  <2>2. Antes(programa[p], op, x, pc[p] + 1)
          = Antes(programa[p], op, x, pc[p]) + B(programa[p][pc[p]].op = op /\ Arg(p) = x)
    BY <1>1, ProgramaFinito, AntesSiguiente DEF Arg
  <2> QED BY <1>3, <2>1, <2>2 DEF Hechas
<1>4. CASE q # p
  <2>1. pc'[q] = pc[q]
    BY <1>1, <1>4 DEF TypeOK, TipoPlanificacion
  <2>2. Hechas(q, op, x)' = Hechas(q, op, x)
    BY <2>1 DEF Hechas
  <2> DEFINE h == Hechas(q, op, x)
  <2> HIDE DEF h
  <2>3. h = h + 0
    BY <1>2 DEF h
  <2> QED BY <1>4, <2>2, <2>3 DEF B, h
<1> QED BY <1>3, <1>4

-----------------------------------------------------------------------------
(* The inductive invariant for the resources: what a process holds, and    *)
(* what it waits for, is what it asked for and has not signalled yet.      *)

SaldoDe(q, r) ==
  Tiene(recursos_asignados, q, r) + Apariciones(colasRecursos[r], q) + Hechas(q, "SIGNAL", r)
    = Hechas(q, "WAIT", r)

\* A process that has ended runs no more, and has given everything back.
SaldoRecursos == \A q \in Pids : estado[q] # "EXIT" => \A r \in Recursos : SaldoDe(q, r)

\* A process nobody has created has run nothing.
SinEmpezar == \A q \in Pids : consola[q] = "sin_conectar" => programa[q] = <<>> /\ pc[q] = 1

LEMMA SaldoNat ==
  ASSUME TypeOK, NEW q \in Pids, NEW r \in Recursos
  PROVE  /\ Tiene(recursos_asignados, q, r) \in Nat
         /\ Apariciones(colasRecursos[r], q) \in Nat
         /\ Hechas(q, "SIGNAL", r) \in Nat /\ Hechas(q, "WAIT", r) \in Nat
<1>1. Tiene(recursos_asignados, q, r) \in Nat
  BY TieneNat DEF TypeOK, TipoRecursos, Asignaciones
<1>2. Apariciones(colasRecursos[r], q) \in Nat
  BY AparicionesNat DEF TypeOK, TipoRecursos, Cola
<1> QED BY <1>1, <1>2, HechasNat

\* The balance is kept when what changes of it adds up.
LEMMA SaldoMueve ==
  ASSUME TypeOK, NEW q \in Pids, NEW r \in Recursos, SaldoDe(q, r),
         NEW t \in Int, NEW a \in Int, NEW s \in Int, NEW w \in Int, t + a + s = w,
         Tiene(recursos_asignados', q, r) = Tiene(recursos_asignados, q, r) + t,
         Apariciones(colasRecursos'[r], q) = Apariciones(colasRecursos[r], q) + a,
         Hechas(q, "SIGNAL", r)' = Hechas(q, "SIGNAL", r) + s,
         Hechas(q, "WAIT", r)' = Hechas(q, "WAIT", r) + w
  PROVE  SaldoDe(q, r)'
<1> DEFINE t0 == Tiene(recursos_asignados, q, r)
           a0 == Apariciones(colasRecursos[r], q)
           s0 == Hechas(q, "SIGNAL", r)
           w0 == Hechas(q, "WAIT", r)
<1>1. t0 \in Nat /\ a0 \in Nat /\ s0 \in Nat /\ w0 \in Nat
  BY SaldoNat
<1>2. t0 + a0 + s0 = w0
  BY DEF SaldoDe
<1> HIDE DEF t0, a0, s0, w0
<1>3. (t0 + t) + (a0 + a) + (s0 + s) = w0 + w
  BY <1>1, <1>2
<1>4. SaldoDe(q, r)' <=>
        Tiene(recursos_asignados', q, r) + Apariciones(colasRecursos'[r], q)
          + Hechas(q, "SIGNAL", r)' = Hechas(q, "WAIT", r)'
  BY DEF SaldoDe
<1> QED BY <1>3, <1>4 DEF t0, a0, s0, w0

\* Nothing of it changes.
LEMMA SaldoQuieto ==
  ASSUME TypeOK, NEW q \in Pids, NEW r \in Recursos, SaldoDe(q, r),
         recursos_asignados'[q][r] = recursos_asignados[q][r],
         colasRecursos'[r] = colasRecursos[r],
         Hechas(q, "SIGNAL", r)' = Hechas(q, "SIGNAL", r),
         Hechas(q, "WAIT", r)' = Hechas(q, "WAIT", r)
  PROVE  SaldoDe(q, r)'
<1>1. Tiene(recursos_asignados', q, r) = Tiene(recursos_asignados, q, r)
  BY DEF Tiene
<1> QED BY <1>1 DEF SaldoDe

\* An instruction that is no WAIT and no SIGNAL of r counts for nothing.
LEMMA HechasOtra ==
  ASSUME TypeOK, NEW p \in Pids, NEW ops, recibir_pcb_de_CPU(p, ops), programa' = programa,
         NEW q \in Pids, NEW op, NEW x,
         programa[p][pc[p]].op # op \/ Arg(p) # x
  PROVE  Hechas(q, op, x)' = Hechas(q, op, x)
<1> DEFINE h == Hechas(q, op, x)
<1>1. h \in Nat
  BY HechasNat
<1>2. Hechas(q, op, x)' = h + 0
  BY HechasPaso DEF B
<1> HIDE DEF h
<1>3. h + 0 = h
  BY <1>1
<1> QED BY <1>2, <1>3 DEF h

LEMMA SaldoWait ==
  ASSUME TypeOK, TypeOK', NEW p \in Pids, doWait(p), NEW q \in Pids, NEW r \in Recursos,
         SaldoDe(q, r)
  PROVE  SaldoDe(q, r)'
<1> DEFINE x == Arg(p)
           a == recursos_asignados
<1>1. /\ recibir_pcb_de_CPU(p, {"WAIT"}) /\ programa' = programa /\ x \in Recursos
      /\ programa[p][pc[p]].op = "WAIT"
  BY DEF doWait, recibir_pcb_de_CPU, vConsola
<1>2. Hechas(q, "SIGNAL", r)' = Hechas(q, "SIGNAL", r)
  BY <1>1, HechasOtra
<1>3. CASE r # x
  <2>1. Hechas(q, "WAIT", r)' = Hechas(q, "WAIT", r)
    BY <1>1, <1>3, HechasOtra
  <2>2. recursos_asignados'[q][r] = recursos_asignados[q][r]
    <3>1. /\ a \in Asignaciones
          /\ recursos_asignados' = a \/ recursos_asignados' = SumarInstancia(a, p, x)
      BY DEF doWait, TypeOK, TipoRecursos, Asignaciones
    <3> HIDE DEF a, x
    <3>2. recursos_asignados'[q][r] = a[q][r]
      BY <1>1, <1>3, <3>1, SumarUna
    <3> QED BY <3>2 DEF a
  <2>3. colasRecursos'[r] = colasRecursos[r]
    BY <1>1, <1>3 DEF doWait, TypeOK, TipoRecursos
  <2> QED BY <1>2, <2>1, <2>2, <2>3, SaldoQuieto
<1>4. CASE r = x
  <2> DEFINE d == B(p = q)
             t0 == Tiene(a, q, r)
             a0 == Apariciones(colasRecursos[r], q)
             s0 == Hechas(q, "SIGNAL", r)
  <2>1. d \in Int /\ t0 \in Nat /\ a0 \in Nat /\ s0 \in Nat
    BY SaldoNat DEF B
  <2>2. Hechas(q, "WAIT", r)' = Hechas(q, "WAIT", r) + d
    BY <1>1, <1>4, HechasPaso DEF B
  <2>3. Hechas(q, "SIGNAL", r)' = s0 + 0
    <3> HIDE DEF s0
    <3>1. s0 + 0 = s0
      BY <2>1
    <3> QED BY <1>2, <3>1 DEF s0
  <2>4. CASE recursos_disponibles[r] > 0
    <3>1. recursos_asignados' = SumarInstancia(a, p, r) /\ a \in Asignaciones
          /\ colasRecursos' = colasRecursos
      BY <1>4, <2>4 DEF doWait, TypeOK, TipoRecursos, Asignaciones
    <3>2. Tiene(recursos_asignados', q, r) = t0 + d
      <4>1. CASE p = q
        <5> HIDE DEF a
        <5> QED BY <3>1, <4>1, SumarUna DEF B
      <4>2. CASE p # q
        <5>1. Tiene(recursos_asignados', q, r) = t0 /\ d = 0
          <6> HIDE DEF a
          <6>1. SoloDe(p, r, a, SumarInstancia(a, p, r))
            BY <3>1, SumarUna
          <6> QED BY <3>1, <4>2, <6>1 DEF SoloDe, Tiene, B
        <5> HIDE DEF t0, d
        <5> QED BY <2>1, <5>1
      <4> QED BY <4>1, <4>2
    <3>3. Apariciones(colasRecursos'[r], q) = a0 + 0
      <4>1. Apariciones(colasRecursos'[r], q) = a0
        BY <3>1
      <4> HIDE DEF a0
      <4> QED BY <2>1, <4>1
    <3>4. d + 0 + 0 = d
      BY <2>1
    <3> HIDE DEF d
    <3> QED BY <2>1, <2>2, <2>3, <3>2, <3>3, <3>4, SaldoMueve DEF t0, a0, s0
  <2>5. CASE ~(recursos_disponibles[r] > 0)
    <3>1. recursos_asignados' = a /\ colasRecursos' = [colasRecursos EXCEPT ![r] = Append(@, p)]
      BY <1>4, <2>5 DEF doWait
    <3>2. Tiene(recursos_asignados', q, r) = t0 + 0
      <4>1. Tiene(recursos_asignados', q, r) = t0
        BY <3>1
      <4> HIDE DEF t0
      <4> QED BY <2>1, <4>1
    <3>3. Apariciones(colasRecursos'[r], q) = a0 + d
      <4> DEFINE c == colasRecursos[r]
      <4>1. c \in Seq(Pids) /\ colasRecursos'[r] = Append(c, p)
        BY <3>1 DEF TypeOK, TipoRecursos, Cola
      <4> HIDE DEF c
      <4> QED BY <4>1, AparicionesAppend DEF c
    <3>4. 0 + d + 0 = d
      BY <2>1
    <3> HIDE DEF d
    <3> QED BY <2>1, <2>2, <2>3, <3>2, <3>3, <3>4, SaldoMueve DEF t0, a0, s0
  <2> QED BY <2>4, <2>5
<1> QED BY <1>3, <1>4

\* SIGNAL of a process that holds the instance.
LEMMA SaldoSignal ==
  ASSUME TypeOK, TypeOK', NEW p \in Pids, doSignal(p), Tenidas(p, Arg(p)) > 0,
         NEW q \in Pids, NEW r \in Recursos, SaldoDe(q, r)
  PROVE  SaldoDe(q, r)'
<1> DEFINE x == Arg(p)
           a == recursos_asignados
           propia == RestarInstancia(a, p, x)
           w == Head(colasRecursos[x])
<1>1. /\ recibir_pcb_de_CPU(p, {"SIGNAL"}) /\ programa' = programa /\ x \in Recursos
      /\ programa[p][pc[p]].op = "SIGNAL" /\ a \in Asignaciones
  BY DEF doSignal, recibir_pcb_de_CPU, vConsola, TypeOK, TipoRecursos, Asignaciones
<1>2. Hechas(q, "WAIT", r)' = Hechas(q, "WAIT", r)
  BY <1>1, HechasOtra
<1>3. propia \in Asignaciones /\ SoloDe(p, x, a, propia)
      /\ \A y \in Recursos \ {x} : \A z \in Pids : propia[z][y] = a[z][y]
  <2> HIDE DEF a, x
  <2> QED BY <1>1, RestarUna
<1>4. \/ /\ colasRecursos[x] # <<>> /\ w \in Pids
         /\ recursos_asignados' = SumarInstancia(propia, w, x)
         /\ colasRecursos' = [colasRecursos EXCEPT ![x] = Tail(@)]
      \/ recursos_asignados' = propia /\ colasRecursos' = colasRecursos
  <2>1. colasRecursos[x] # <<>> => w \in Pids
    BY <1>1 DEF TypeOK, TipoRecursos, Cola
  <2>2. CASE colasRecursos[x] # <<>>
    BY <2>1, <2>2 DEF doSignal, RestarInstancia
  <2>3. CASE colasRecursos[x] = <<>>
    BY <2>3 DEF doSignal, RestarInstancia
  <2> QED BY <2>2, <2>3
<1>5. CASE r # x
  <2>1. Hechas(q, "SIGNAL", r)' = Hechas(q, "SIGNAL", r)
    BY <1>1, <1>5, HechasOtra
  <2>2. colasRecursos'[r] = colasRecursos[r]
    BY <1>4, <1>5 DEF TypeOK, TipoRecursos
  <2>3. recursos_asignados'[q][r] = a[q][r]
    <3> HIDE DEF a, x, propia, w
    <3> QED BY <1>1, <1>3, <1>4, <1>5, SumarUna
  <2> QED BY <1>2, <2>1, <2>2, <2>3, SaldoQuieto
<1>6. CASE r = x
  <2> DEFINE h == B(p = q)
             t0 == Tiene(a, q, r)
             a0 == Apariciones(colasRecursos[r], q)
             w0 == Hechas(q, "WAIT", r)
             tp == Tiene(propia, q, r)
  <2>1. h \in Int /\ 0 - h \in Int /\ t0 \in Nat /\ a0 \in Nat /\ w0 \in Nat
    BY SaldoNat DEF B
  <2>2. Hechas(q, "SIGNAL", r)' = Hechas(q, "SIGNAL", r) + h
    BY <1>1, <1>6, HechasPaso DEF B
  <2>3. Hechas(q, "WAIT", r)' = w0 + 0
    <3> HIDE DEF w0
    <3>1. w0 + 0 = w0
      BY <2>1
    <3> QED BY <1>2, <3>1 DEF w0
  <2>4. tp = t0 + (0 - h)
    <3>1. CASE p = q
      <4>1. Tiene(a, p, x) > 0
        BY DEF Tenidas, Tiene
      <4> HIDE DEF a, x, propia
      <4>2. Tiene(propia, p, x) = Tiene(a, p, x) + (0 - B(Tiene(a, p, x) > 0))
        BY <1>1, RestarUna DEF propia
      <4> QED BY <1>6, <3>1, <4>1, <4>2 DEF B
    <3>2. CASE p # q
      <4>1. tp = t0 /\ h = 0
        <5> HIDE DEF a, x, propia
        <5> QED BY <1>3, <1>6, <3>2 DEF SoloDe, Tiene, B
      <4> HIDE DEF tp, t0, h
      <4> QED BY <2>1, <4>1
    <3> QED BY <3>1, <3>2
  <2>5. CASE recursos_asignados' = propia /\ colasRecursos' = colasRecursos
    <3>1. Tiene(recursos_asignados', q, r) = t0 + (0 - h)
      BY <2>4, <2>5
    <3>2. Apariciones(colasRecursos'[r], q) = a0 + 0
      <4>1. Apariciones(colasRecursos'[r], q) = a0
        BY <2>5
      <4> HIDE DEF a0
      <4> QED BY <2>1, <4>1
    <3>3. (0 - h) + 0 + h = 0
      BY <2>1
    <3> HIDE DEF h
    <3> QED BY <2>1, <2>2, <2>3, <3>1, <3>2, <3>3, SaldoMueve DEF t0, a0, w0
  <2>6. CASE /\ colasRecursos[x] # <<>> /\ w \in Pids
             /\ recursos_asignados' = SumarInstancia(propia, w, x)
             /\ colasRecursos' = [colasRecursos EXCEPT ![x] = Tail(@)]
    <3> DEFINE d == B(w = q)
               t == (0 - h) + d
    <3>1. d \in Int /\ 0 - d \in Int /\ t \in Int
      <4>1. d \in Int
        BY DEF B
      <4> HIDE DEF d, h
      <4> QED BY <2>1, <4>1
    <3>2. Tiene(recursos_asignados', q, r) = tp + d
      <4>1. CASE w = q
        <5>1. d = 1
          BY <4>1 DEF B
        <5> HIDE DEF a, x, propia, w, d
        <5> QED BY <1>3, <1>6, <2>6, <4>1, <5>1, SumarUna
      <4>2. CASE w # q
        <5>1. Tiene(recursos_asignados', q, r) = tp /\ d = 0
          <6> HIDE DEF a, x, propia, w
          <6>1. SoloDe(w, x, propia, SumarInstancia(propia, w, x))
            BY <1>1, <1>3, <2>6, SumarUna
          <6> QED BY <1>6, <2>6, <4>2, <6>1 DEF SoloDe, Tiene, B
        <5> HIDE DEF t0, d, h, tp
        <5> QED BY <2>1, <2>4, <5>1
      <4> QED BY <4>1, <4>2
    <3>3. Tiene(recursos_asignados', q, r) = t0 + t
      <4> HIDE DEF t0, tp, h, d
      <4> QED BY <2>1, <2>4, <3>1, <3>2
    <3>4. Apariciones(colasRecursos'[r], q) = a0 + (0 - d)
      <4> DEFINE c == colasRecursos[r]
                 a1 == Apariciones(Tail(c), q)
      <4>1. c \in Seq(Pids) /\ c # <<>> /\ colasRecursos'[r] = Tail(c) /\ Head(c) = w
            /\ Tail(c) \in Seq(Pids)
        BY <1>6, <2>6 DEF TypeOK, TipoRecursos, Cola
      <4> HIDE DEF c, w
      <4>2. Apariciones(c, q) = a1 + d /\ a1 \in Nat
        BY <4>1, AparicionesTail, AparicionesNat, ZenonT(40)
      <4> HIDE DEF a1, d
      <4>3. a1 = Apariciones(c, q) + (0 - d)
        BY <3>1, <4>2
      <4> QED BY <4>1, <4>3 DEF c, a1
    <3>5. t + (0 - d) + h = 0
      <4> HIDE DEF d, h
      <4> QED BY <2>1, <3>1
    <3> HIDE DEF h, t, d
    <3> QED BY <2>1, <2>2, <2>3, <3>1, <3>3, <3>4, <3>5, SaldoMueve DEF t0, a0, w0
  <2> QED BY <1>4, <2>5, <2>6
<1> QED BY <1>5, <1>6

-----------------------------------------------------------------------------
(* One step of any thread. *)

\* The instruction p hands its PCB back at.
Recibe(p) == recibir_pcb_de_CPU(p, {programa[p][pc[p]].op}) /\ programa' = programa
Op(p) == programa[p][pc[p]].op

\* What a motive other than WAIT and SIGNAL of an existing resource touches.
LEMMA MotivoSinRecurso ==
  ASSUME NEW p \in Pids, analizarMotivo(p)
  PROVE  /\ Recibe(p)
         /\ \/ doWait(p) \/ doSignal(p)
            \/ /\ Op(p) \notin {"WAIT", "SIGNAL"} \/ Arg(p) \notin Recursos
               /\ \/ UNCHANGED <<recursos_asignados, recursos_disponibles, colasRecursos>>
                  \/ doExit(p) /\ PuedeTerminar(programa[p][pc[p]], Recursos, Respuestas)
<1> USE DEF Recibe, Op, recibir_pcb_de_CPU, vConsola, vRecursos
<1>1. CASE finalizar_proceso(p)
  BY <1>1 DEF finalizar_proceso, PuedeTerminar, Arg
<1>2. CASE doYield(p) \/ doIO(p) \/ do_f_truncate(p)
  BY <1>2 DEF doYield, doIO, do_f_truncate, BloquearEnHilo
<1>3. CASE doWait(p) \/ doSignal(p)
  BY <1>3 DEF doWait, doSignal
<1>4. CASE do_f_open(p)
  BY <1>4 DEF do_f_open
<1>5. CASE do_f_close(p)
  BY <1>5 DEF do_f_close
<1>6. CASE do_f_seek(p) \/ do_delete_segment(p) \/ do_f_read_write(p)
  BY <1>6 DEF do_f_seek, do_delete_segment, do_f_read_write
<1>7. CASE do_create_segment(p)
  <2>1. Recibe(p) /\ Op(p) = "CREATE_SEGMENT"
    BY <1>7 DEF do_create_segment
  <2>2. \/ UNCHANGED <<recursos_asignados, recursos_disponibles, colasRecursos>>
        \/ doExit(p) /\ "OUT_OF_MEMORY" \in Respuestas
    BY <1>7, KernelAssumption DEF do_create_segment, Seguir
  <2> QED BY <2>1, <2>2 DEF PuedeTerminar
<1> QED BY <1>1, <1>2, <1>3, <1>4, <1>5, <1>6, <1>7 DEF analizarMotivo

\* The steps of the other threads, and of the scheduler without a motive.
LEMMA PasoSinMotivo ==
  ASSUME [Next]_vars, TypeOK, Control
  PROVE  \/ crear_pcb
         \/ \E p \in Pids : analizarMotivo(p)
         \/ fin_compactacion
         \/ UNCHANGED <<programa, pc, vRecursos, vArchivos>>
            /\ \A q \in Pids : consola'[q] = "sin_conectar" => consola[q] = "sin_conectar"
<1> USE DEF vConsola, vRecursos, vArchivos
<1>1. CASE UNCHANGED vars
  BY <1>1 DEF vars
<1>2. CASE sts_esperar \/ sts_despachar \/ sts_agregar \/ pedir_fs \/ pedir_compactacion
  BY <1>2 DEF sts_esperar, sts_despachar, sts_agregar, pedir_fs, pedir_compactacion, Caer
<1>3. CASE long_term_scheduler
  BY <1>3 DEF long_term_scheduler, lts_esperar_nuevo, lts_esperar_grado, lts_admitir,
     lts_publicar, Caer
<1>4. ASSUME NEW p \in Pids, Consola(p)
      PROVE  UNCHANGED <<programa, pc, vRecursos, vArchivos>>
             /\ \A q \in Pids : consola'[q] = "sin_conectar" => consola[q] = "sin_conectar"
  BY <1>4 DEF Consola, agregar_pcb_cola_nuevos, publicar_nuevo, TypeOK, TipoConsola
<1>5. CASE (\E p \in Pids : bloquear_pcb(p)) \/ publicar_despertado \/ bloquear_pcb_fs_r_w
  BY <1>5 DEF bloquear_pcb, publicar_despertado, bloquear_pcb_fs_r_w, fs_agregar,
     fs_publicar, fs_liberar
<1> QED BY <1>1, <1>2, <1>3, <1>4, <1>5 DEF Next, short_term_scheduler

\* Nobody comes back from EXIT.
LEMMA ExitEsFinal ==
  ASSUME TypeOK, PasoDelCiclo, NEW q \in Pids, estado[q] = "EXIT"
  PROVE  estado'[q] = "EXIT"
BY DEF PasoDelCiclo, Pasa, TypeOK, TipoPlanificacion

\* The process that executes waits in no queue.
LEMMA EnCPUSinCola ==
  ASSUME TypeOK, Manos, Sitios, NEW p \in Pids, pcb_a_ejecutar = p,
         sts \in {"cpu", "semFS_comp", "compactando"}
  PROVE  /\ estado[p] = "EXEC"
         /\ \A r \in Recursos : Apariciones(colasRecursos[r], p) = 0
         /\ \A f \in Archivos : Apariciones(colasArchivos[f], p) = 0
<1>1. estado[p] = "EXEC" /\ Parado(p) = 0
  BY EnCPU
<1> DEFINE b == B(p \in bloqueados)
           g == B(pcbFS = p)
           r0 == EnColas(colasRecursos, Recursos, p)
           a0 == EnColas(colasArchivos, Archivos, p)
<1>2. b \in Nat /\ g \in Nat /\ r0 \in Nat /\ a0 \in Nat /\ b + g + r0 + a0 = 0
  BY <1>1, ParadoNat DEF Parado
<1> HIDE DEF b, g, r0, a0
<1>3. r0 = 0 /\ a0 = 0
  BY <1>2
<1>4. ASSUME NEW r \in Recursos PROVE Apariciones(colasRecursos[r], p) = 0
  <2> DEFINE v == [x \in Recursos |-> Apariciones(colasRecursos[x], p)]
  <2>1. v \in [Recursos -> Nat]
    BY Familias, AparicionesNat DEF Colas
  <2>2. SumFunction(v) = 0
    BY <1>3 DEF r0, EnColas
  <2>3. v[r] = Apariciones(colasRecursos[r], p)
    OBVIOUS
  <2> HIDE DEF v
  <2>4. v[r] <= SumFunction(v) /\ v[r] \in Nat
    BY <2>1, KernelAssumption, SumaFuncion
  <2> QED BY <2>2, <2>3, <2>4
<1>5. ASSUME NEW f \in Archivos PROVE Apariciones(colasArchivos[f], p) = 0
  <2> DEFINE v == [x \in Archivos |-> Apariciones(colasArchivos[x], p)]
  <2>1. v \in [Archivos -> Nat]
    BY Familias, AparicionesNat DEF Colas
  <2>2. SumFunction(v) = 0
    BY <1>3 DEF a0, EnColas
  <2>3. v[f] = Apariciones(colasArchivos[f], p)
    OBVIOUS
  <2> HIDE DEF v
  <2>4. v[f] <= SumFunction(v) /\ v[f] \in Nat
    BY <2>1, KernelAssumption, SumaFuncion
  <2> QED BY <2>2, <2>3, <2>4
<1> QED BY <1>1, <1>4, <1>5

\* A new console brings a program; nothing of it has run.
LEMMA CrearEmpieza ==
  ASSUME TypeOK, TypeOK', SinNumerar, SinEmpezar, crear_pcb, NEW q \in Pids, NEW op, NEW x
  PROVE  /\ Hechas(q, op, x)' = Hechas(q, op, x)
         /\ consola'[q] = "sin_conectar" =>
              consola[q] = "sin_conectar" /\ programa'[q] = programa[q] /\ pc'[q] = pc[q]
<1>1. /\ proximo_pid \in Pids /\ pc' = pc
      /\ consola' = [consola EXCEPT ![proximo_pid] = "creado"]
      /\ \A z \in Pids : z # proximo_pid => programa'[z] = programa[z]
  BY KernelAssumption DEF crear_pcb, TypeOK, TipoConsola, Pids
<1>2. consola'[q] = "sin_conectar" =>
        consola[q] = "sin_conectar" /\ programa'[q] = programa[q] /\ pc'[q] = pc[q]
  BY <1>1 DEF TypeOK, TipoConsola
<1>3. CASE q # proximo_pid
  BY <1>1, <1>2, <1>3 DEF Hechas
<1>4. CASE q = proximo_pid
  <2>1. consola[q] = "sin_conectar"
    BY <1>1, <1>4 DEF SinNumerar, Pids
  <2>2. pc[q] = 1 /\ pc'[q] = 1
    BY <1>1, <2>1 DEF SinEmpezar
  <2>3. Hechas(q, op, x) = 0
    BY <2>2, ProgramaFinito, AntesUno DEF Hechas
  <2>4. Hechas(q, op, x)' = 0
    <3>1. \A z \in Pids : Finito(programa[z])
      BY ProgramaFinito
    <3>2. Finito(programa'[q])
      <4> DEFINE I == [op : STRING, arg : STRING]
      <4>1. programa'[q] \in Programas
        BY <1>1, <1>4 DEF crear_pcb, TypeOK, TipoConsola
      <4>2. programa'[q] \in Seq(I)
        BY <4>1, KernelAssumption
      <4> DEFINE prog == programa'[q]
      <4> HIDE DEF I, prog
      <4>3. Len(prog) \in Nat /\ DOMAIN prog = 1 .. Len(prog)
        BY <4>2 DEF prog
      <4>4. IsFiniteSet(1 .. Len(prog))
        BY <4>3, FS_Interval
      <4> QED BY <4>3, <4>4 DEF Finito, prog
    <3> QED BY <2>2, <3>2, AntesUno DEF Hechas
  <2> QED BY <1>2, <2>3, <2>4
<1> QED BY <1>3, <1>4

\* A process that signals what it asked for holds it.
LEMMA SueltaLoSuyo ==
  ASSUME TypeOK, Manos, Sitios, SaldoRecursos, SueltaLoQueTiene(Programas, Recursos),
         NEW p \in Pids, Recibe(p), Op(p) = "SIGNAL", Arg(p) \in Recursos
  PROVE  Tenidas(p, Arg(p)) > 0
<1> DEFINE r == Arg(p)
           t == Tiene(recursos_asignados, p, r)
           a == Apariciones(colasRecursos[r], p)
           s == Hechas(p, "SIGNAL", r)
           w == Hechas(p, "WAIT", r)
<1>1. sts = "cpu" /\ pcb_a_ejecutar = p /\ pc[p] <= Len(programa[p])
  BY DEF Recibe, recibir_pcb_de_CPU
<1>2. estado[p] = "EXEC" /\ a = 0
  BY <1>1, EnCPUSinCola
<1>3. pc[p] \in DOMAIN programa[p] /\ programa[p] \in Programas
  BY <1>1, ProgramaFinito
<1>4. s < w
  BY <1>3 DEF SueltaLoQueTiene, Op, Arg, Hechas
<1>5. t + a + s = w
  BY <1>2 DEF SaldoRecursos, SaldoDe
<1>6. t \in Nat /\ a \in Nat /\ s \in Nat /\ w \in Nat
  BY SaldoNat
<1> HIDE DEF t, a, s, w
<1>7. t > 0
  BY <1>2, <1>4, <1>5, <1>6
<1> QED BY <1>7 DEF t, Tiene, Tenidas

LEMMA EmpezarPaso ==
  ASSUME TypeOK, TypeOK', Control, SinNumerar, Manos, Sitios, SinEmpezar, [Next]_vars
  PROVE  SinEmpezar'
<1>1. CASE crear_pcb
  BY <1>1, CrearEmpieza DEF SinEmpezar
<1>2. ASSUME NEW p \in Pids, analizarMotivo(p) PROVE SinEmpezar'
  <2>1. Recibe(p) /\ sts = "cpu" /\ pcb_a_ejecutar = p /\ consola' = consola
        /\ programa' = programa /\ pc' = [pc EXCEPT ![p] = @ + 1]
    <3>1. Recibe(p)
      BY <1>2, MotivoSinRecurso
    <3>2. consola' = consola
      BY <1>2, EfectoMotivo DEF vConsola
    <3> QED BY <3>1, <3>2 DEF Recibe, recibir_pcb_de_CPU
  <2>2. consola[p] # "sin_conectar"
    <3>1. estado[p] = "EXEC"
      BY <2>1, EnCPUSinCola
    <3> QED BY <3>1 DEF Sitios, Sitio, Anotado
  <2>3. \A q \in Pids : q # p => pc'[q] = pc[q]
    BY <2>1 DEF TypeOK, TipoPlanificacion
  <2> QED BY <2>1, <2>2, <2>3 DEF SinEmpezar
<1>3. CASE fin_compactacion
  BY <1>3 DEF fin_compactacion, vConsola, SinEmpezar
<1>4. CASE /\ UNCHANGED <<programa, pc>>
           /\ \A q \in Pids : consola'[q] = "sin_conectar" => consola[q] = "sin_conectar"
  BY <1>4 DEF SinEmpezar
<1> QED BY <1>1, <1>2, <1>3, <1>4, PasoSinMotivo

LEMMA EmpezarCorrecto == Spec => []SinEmpezar
<1>1. Init => SinEmpezar
  BY DEF Init, SinEmpezar
<1>2. TypeOK /\ TypeOK' /\ Control /\ SinNumerar /\ Manos /\ Sitios /\ SinEmpezar /\ [Next]_vars
        => SinEmpezar'
  BY EmpezarPaso
<1> QED BY <1>1, <1>2, TiposCorrectos, NuevosCorrectos, SitiosCorrectos, PTL DEF Spec

LEMMA SaldoPaso ==
  ASSUME TypeOK, TypeOK', Control, SinNumerar, Manos, Sitios, PasoDelCiclo,
         SaldoRecursos, SinEmpezar, SueltaLoQueTiene(Programas, Recursos), [Next]_vars
  PROVE  SaldoRecursos'
<1>1. ASSUME NEW q \in Pids, NEW r \in Recursos, estado'[q] # "EXIT" PROVE SaldoDe(q, r)
  BY <1>1, ExitEsFinal DEF SaldoRecursos
<1>2. ASSUME NEW p \in Pids, doExit(p), NEW q \in Pids, estado'[q] # "EXIT"
      PROVE  recursos_asignados'[q] = recursos_asignados[q] /\ colasRecursos' = colasRecursos
  <2>1. q # p
    BY <1>2 DEF doExit, TypeOK, TipoPlanificacion
  <2> QED BY <1>2, <2>1 DEF doExit, TypeOK, TipoRecursos
<1>3. CASE crear_pcb
  <2>2. ASSUME NEW q \in Pids, NEW r \in Recursos, estado'[q] # "EXIT" PROVE SaldoDe(q, r)'
    <3>1. UNCHANGED <<recursos_asignados, colasRecursos>>
      BY <1>3 DEF crear_pcb, vRecursos
    <3>2. /\ Hechas(q, "SIGNAL", r)' = Hechas(q, "SIGNAL", r)
          /\ Hechas(q, "WAIT", r)' = Hechas(q, "WAIT", r)
      BY <1>3, CrearEmpieza
    <3>3. SaldoDe(q, r)
      BY <1>1, <2>2
    <3> QED BY <3>1, <3>2, <3>3, SaldoQuieto
  <2> QED BY <2>2 DEF SaldoRecursos
<1>4. ASSUME NEW p \in Pids, analizarMotivo(p) PROVE SaldoRecursos'
  <2>1. Recibe(p) /\ sts = "cpu" /\ pcb_a_ejecutar = p /\ programa' = programa
    BY <1>4, MotivoSinRecurso DEF Recibe, recibir_pcb_de_CPU
  <2>3. ASSUME NEW q \in Pids, NEW r \in Recursos, estado'[q] # "EXIT" PROVE SaldoDe(q, r)'
    <3>0. SaldoDe(q, r)
      BY <1>1, <2>3
    <3>1. CASE doWait(p)
      BY <3>0, <3>1, SaldoWait
    <3>2. CASE doSignal(p)
      <4>1. Op(p) = "SIGNAL" /\ Arg(p) \in Recursos
        BY <3>2 DEF doSignal, Op, recibir_pcb_de_CPU
      <4>2. Tenidas(p, Arg(p)) > 0
        BY <2>1, <4>1, SueltaLoSuyo
      <4> QED BY <3>0, <3>2, <4>2, SaldoSignal
    <3>3. CASE ~doWait(p) /\ ~doSignal(p)
      <4>1. Op(p) \notin {"WAIT", "SIGNAL"} \/ Arg(p) # r
        BY <1>4, <3>3, MotivoSinRecurso
      <4>2. recursos_asignados'[q] = recursos_asignados[q] /\ colasRecursos' = colasRecursos
        BY <1>4, <1>2, <2>3, <3>3, MotivoSinRecurso
      <4>3. /\ Hechas(q, "SIGNAL", r)' = Hechas(q, "SIGNAL", r)
            /\ Hechas(q, "WAIT", r)' = Hechas(q, "WAIT", r)
        BY <2>1, <4>1, HechasOtra DEF Recibe, Op
      <4> QED BY <3>0, <4>2, <4>3, SaldoQuieto
    <3> QED BY <3>1, <3>2, <3>3
  <2> QED BY <2>3 DEF SaldoRecursos
<1>5. CASE /\ UNCHANGED <<programa, pc>>
           /\ \A q \in Pids : estado'[q] # "EXIT" =>
                recursos_asignados'[q] = recursos_asignados[q] /\ colasRecursos' = colasRecursos
  <2>2. ASSUME NEW q \in Pids, NEW r \in Recursos, estado'[q] # "EXIT" PROVE SaldoDe(q, r)'
    <3>1. /\ Hechas(q, "SIGNAL", r)' = Hechas(q, "SIGNAL", r)
          /\ Hechas(q, "WAIT", r)' = Hechas(q, "WAIT", r)
      BY <1>5 DEF Hechas
    <3>2. SaldoDe(q, r)
      BY <1>1, <2>2
    <3> QED BY <1>5, <2>2, <3>1, <3>2, SaldoQuieto
  <2> QED BY <2>2 DEF SaldoRecursos
<1>6. CASE fin_compactacion
  <2>1. UNCHANGED <<programa, pc>>
    BY <1>6 DEF fin_compactacion, vConsola
  <2>2. pcb_a_ejecutar \in Pids
        /\ (doExit(pcb_a_ejecutar) \/ UNCHANGED <<recursos_asignados, colasRecursos>>)
    BY <1>6 DEF fin_compactacion, Control, vRecursos
  <2> QED BY <1>2, <1>5, <2>1, <2>2
<1> QED BY <1>3, <1>4, <1>5, <1>6, PasoSinMotivo DEF vRecursos

-----------------------------------------------------------------------------
(* The resources of programs that signal what they hold. *)

LEMMA SaldosIniciales == Init => SaldoRecursos
<1> SUFFICES ASSUME Init PROVE SaldoRecursos
  OBVIOUS
<1>1. ASSUME NEW q \in Pids, NEW r \in Recursos PROVE SaldoDe(q, r)
  <2>1. Tiene(recursos_asignados, q, r) = 0
    BY DEF Init, Tiene, SinRecursos
  <2>2. Apariciones(colasRecursos[r], q) = 0
    BY AparicionesVacia DEF Init
  <2>3. Hechas(q, "SIGNAL", r) = 0 /\ Hechas(q, "WAIT", r) = 0
    <3>1. pc[q] = 1 /\ Finito(programa[q])
      BY TiposIniciales, ProgramaFinito DEF Init
    <3> QED BY <3>1, AntesUno DEF Hechas
  <2> QED BY <2>1, <2>2, <2>3 DEF SaldoDe
<1> QED BY <1>1 DEF SaldoRecursos

\* What a process holds of a resource is what it has asked for and been given,
\* less what it has signalled.
THEOREM SaldosCorrectos ==
  ASSUME SueltaLoQueTiene(Programas, Recursos)
  PROVE  Spec => []SaldoRecursos
<1>1. TypeOK /\ TypeOK' /\ Control /\ SinNumerar /\ Manos /\ Sitios /\ PasoDelCiclo
        /\ SaldoRecursos /\ SinEmpezar /\ [Next]_vars => SaldoRecursos'
  BY SaldoPaso
<1> QED BY <1>1, SaldosIniciales, EmpezarCorrecto, CicloPaso, TiposCorrectos, SemFSCorrecto,
           NuevosCorrectos, SitiosCorrectos, PTL DEF Spec

LEMMA ExistentesQuietas ==
  ASSUME TypeOK, TypeOK', Control, Manos, Sitios, SaldoRecursos,
         SueltaLoQueTiene(Programas, Recursos), [Next]_vars, NEW r \in Recursos
  PROVE  Existentes(r)' = Existentes(r)
<1>1. Crece(r, 0)
  <2> SUFFICES ASSUME NEW p \in Pids, doSignal(p), Arg(p) = r, Crece(r, CreaAlSoltar(p, r))
               PROVE  Crece(r, 0)
    BY CrecePaso
  <2>1. Recibe(p) /\ Op(p) = "SIGNAL"
    BY DEF doSignal, Recibe, Op, recibir_pcb_de_CPU, vConsola
  <2>2. Tenidas(p, r) > 0
    BY <2>1, SueltaLoSuyo
  <2> QED BY <2>2 DEF CreaAlSoltar
<1> DEFINE e == Existentes(r)
<1>2. Existentes(r)' = e + 0
  BY <1>1, CreceExistentes
<1>3. e \in Int
  <2> DEFINE m == EnManos(recursos_asignados, r)
  <2>1. e = recursos_disponibles[r] + m /\ recursos_disponibles[r] \in Nat /\ m \in Nat
    BY ExistentesSon
  <2> HIDE DEF m, e
  <2> QED BY <2>1
<1> HIDE DEF e
<1>4. e + 0 = e
  BY <1>3
<1> QED BY <1>2, <1>4 DEF e

\* WAIT, SIGNAL and EXIT move instances between the kernel and the processes
\* and neither create nor destroy one, if every process signals what it holds.
THEOREM RecursosCorrectos ==
  ASSUME SueltaLoQueTiene(Programas, Recursos)
  PROVE  Spec => []RecursosConservados
<1>1. Init => RecursosConservados
  <2> SUFFICES ASSUME Init, NEW r \in Recursos PROVE Existentes(r) = Instancias[r]
    BY DEF RecursosConservados
  <2> DEFINE v == [p \in Pids |-> Tiene(recursos_asignados, p, r)]
  <2>1. v \in [Pids -> Nat] /\ \A p \in Pids : v[p] = 0
    BY DEF Init, Tiene, SinRecursos
  <2> HIDE DEF v
  <2>2. SumFunction(v) = 0
    BY <2>1, PidsFinito, SumaFuncion
  <2>3. EnManos(recursos_asignados, r) = 0
    BY <2>2 DEF v, EnManos
  <2>4. Existentes(r) = recursos_disponibles[r] + EnManos(recursos_asignados, r)
        /\ recursos_disponibles[r] \in Nat
    BY TiposIniciales, ExistentesSon
  <2> QED BY <2>3, <2>4 DEF Init
<1>2. TypeOK /\ TypeOK' /\ Control /\ Manos /\ Sitios /\ SaldoRecursos /\ RecursosConservados
        /\ [Next]_vars => RecursosConservados'
  <2> SUFFICES ASSUME TypeOK, TypeOK', Control, Manos, Sitios, SaldoRecursos,
                      RecursosConservados, [Next]_vars, NEW r \in Recursos
               PROVE  Existentes(r)' = Instancias[r]
    BY DEF RecursosConservados
  <2>1. Existentes(r)' = Existentes(r)
    BY ExistentesQuietas
  <2> QED BY <2>1 DEF RecursosConservados
<1> QED BY <1>1, <1>2, SaldosCorrectos, TiposCorrectos, SitiosCorrectos, PTL DEF Spec

\* Then no SIGNAL adds the second instance of kernel.c:182 either.
THEOREM SignalCorrecta ==
  ASSUME SueltaLoQueTiene(Programas, Recursos)
  PROVE  Spec => SignalLiberaUna
<1>1. TypeOK /\ TypeOK' /\ Control /\ Manos /\ Sitios /\ SaldoRecursos /\ [Next]_vars
        => [\A r \in Recursos : Existentes(r)' <= Existentes(r) + 1]_vars
  <2> SUFFICES ASSUME TypeOK, TypeOK', Control, Manos, Sitios, SaldoRecursos, [Next]_vars,
                      NEW r \in Recursos
               PROVE  Existentes(r)' <= Existentes(r) + 1
    OBVIOUS
  <2> DEFINE e == Existentes(r)
             m == EnManos(recursos_asignados, r)
  <2>1. Existentes(r)' = e
    BY ExistentesQuietas
  <2>2. e = recursos_disponibles[r] + m /\ recursos_disponibles[r] \in Nat /\ m \in Nat
    BY ExistentesSon
  <2> HIDE DEF m, e
  <2>3. e <= e + 1
    BY <2>2
  <2> QED BY <2>1, <2>3 DEF e
<1> QED BY <1>1, SaldosCorrectos, TiposCorrectos, SitiosCorrectos, PTL DEF Spec, SignalLiberaUna

-----------------------------------------------------------------------------
(* Where a process ends. *)

TodasLasRespuestas == Respuestas \cup RespuestasTrasCompactar

\* While it waits for a compaction the scheduler is at a CREATE_SEGMENT of the
\* process that executes, which the program counter has left behind.
EnCreate ==
  sts \in {"semFS_comp", "compactando"} =>
    \E n \in DOMAIN programa[pcb_a_ejecutar] :
      /\ pc[pcb_a_ejecutar] = n + 1
      /\ programa[pcb_a_ejecutar][n].op = "CREATE_SEGMENT"

\* p is at an instruction it may end at, or at the CREATE_SEGMENT behind it.
FinDe(p) ==
  \E n \in DOMAIN programa[p] :
    /\ programa[p] \in Programas
    /\ PuedeTerminar(programa[p][n], Recursos, TodasLasRespuestas)
    /\ pc[p] = n \/ (pc[p] = n + 1 /\ programa[p][n].op = "CREATE_SEGMENT")

\* Nothing that counts is done between that instruction and the end.
LEMMA FinHechas ==
  ASSUME TypeOK, NEW p \in Pids, NEW n \in DOMAIN programa[p],
         pc[p] = n \/ (pc[p] = n + 1 /\ programa[p][n].op = "CREATE_SEGMENT"),
         NEW op, op # "CREATE_SEGMENT", NEW x
  PROVE  Hechas(p, op, x) = Antes(programa[p], op, x, n)
<1>1. CASE pc[p] = n
  BY <1>1 DEF Hechas
<1>2. CASE pc[p] = n + 1 /\ programa[p][n].op = "CREATE_SEGMENT"
  <2> DEFINE h == Antes(programa[p], op, x, n)
  <2>1. h \in Nat
    BY ProgramaFinito, AntesNat
  <2>2. Antes(programa[p], op, x, n + 1)
          = h + B(programa[p][n].op = op /\ programa[p][n].arg = x)
    BY ProgramaFinito, AntesSiguiente
  <2> HIDE DEF h
  <2>3. Antes(programa[p], op, x, n + 1) = h
    BY <1>2, <2>1, <2>2 DEF B
  <2> QED BY <1>2, <2>3 DEF Hechas, h
<1> QED BY <1>1, <1>2

LEMMA EnCreatePaso ==
  ASSUME TypeOK, TypeOK', Control, SinNumerar, Manos, Sitios, EnCreate, [Next]_vars
  PROVE  EnCreate'
<1> USE DEF vSts, vConsola
<1>0. ASSUME sts' = sts, pcb_a_ejecutar' = pcb_a_ejecutar, programa' = programa, pc' = pc
      PROVE  EnCreate'
  BY <1>0 DEF EnCreate
<1>1. CASE crear_pcb
  <2> SUFFICES ASSUME sts \in {"semFS_comp", "compactando"} PROVE EnCreate'
    BY <1>1 DEF crear_pcb, EnCreate
  <2>1. pcb_a_ejecutar \in Pids
    BY DEF Control
  <2>2. estado[pcb_a_ejecutar] = "EXEC"
    BY <2>1, EnCPUSinCola
  <2>3. consola[pcb_a_ejecutar] # "sin_conectar"
    BY <2>1, <2>2 DEF Sitios, Sitio, Anotado
  <2>4. proximo_pid \in Pids /\ consola[proximo_pid] = "sin_conectar"
    BY <1>1, KernelAssumption DEF crear_pcb, TypeOK, TipoConsola, Pids, SinNumerar
  <2>5. programa'[pcb_a_ejecutar] = programa[pcb_a_ejecutar] /\ pc' = pc
        /\ sts' = sts /\ pcb_a_ejecutar' = pcb_a_ejecutar
    BY <1>1, <2>1, <2>3, <2>4 DEF crear_pcb, TypeOK, TipoConsola
  <2> QED BY <2>5 DEF EnCreate
<1>2. ASSUME NEW p \in Pids, analizarMotivo(p) PROVE EnCreate'
  <2>1. CASE do_create_segment(p)
    <3>1. /\ pc[p] \in DOMAIN programa[p] /\ programa[p][pc[p]].op = "CREATE_SEGMENT"
          /\ pc'[p] = pc[p] + 1 /\ programa' = programa /\ pcb_a_ejecutar = p /\ sts = "cpu"
      BY <2>1, ProgramaFinito DEF do_create_segment, recibir_pcb_de_CPU, TypeOK, TipoPlanificacion
    <3>2. sts' \in {"semFS_comp", "compactando"} => pcb_a_ejecutar' = pcb_a_ejecutar
      BY <2>1, <3>1, KernelAssumption DEF do_create_segment, doExit, Seguir
    <3> QED BY <3>1, <3>2 DEF EnCreate
  <2>2. CASE ~do_create_segment(p)
    <3>0. sts = "cpu"
      BY <1>2, MotivoSinRecurso DEF Recibe, recibir_pcb_de_CPU
    <3>1. sts' \notin {"semFS_comp", "compactando"}
      <4>1. CASE finalizar_proceso(p)
        BY <4>1 DEF finalizar_proceso, doExit
      <4>2. CASE doYield(p) \/ doIO(p) \/ do_f_truncate(p)
        BY <4>2 DEF doYield, doIO, do_f_truncate, BloquearEnHilo, Bloquear, Desalojar
      <4>3. CASE doWait(p) \/ doSignal(p)
        BY <4>3 DEF doWait, doSignal, Bloquear, Desalojar
      <4>4. CASE do_f_open(p)
        BY <3>0, <4>4 DEF do_f_open, Seguir, Bloquear
      <4>5. CASE do_f_close(p)
        BY <4>5 DEF do_f_close, Desalojar
      <4>6. CASE do_f_seek(p) \/ do_delete_segment(p)
        BY <3>0, <4>6 DEF do_f_seek, do_delete_segment, Seguir
      <4>7. CASE do_f_read_write(p)
        BY <4>7 DEF do_f_read_write
      <4> QED BY <1>2, <2>2, <4>1, <4>2, <4>3, <4>4, <4>5, <4>6, <4>7 DEF analizarMotivo
    <3> QED BY <3>1 DEF EnCreate
  <2> QED BY <2>1, <2>2
<1>3. CASE fin_compactacion
  <2>1. sts' \notin {"semFS_comp", "compactando"}
    BY <1>3 DEF fin_compactacion, doExit
  <2> QED BY <2>1 DEF EnCreate
<1>4. CASE sts_esperar \/ sts_despachar \/ sts_agregar \/ pedir_fs
  <2>1. sts' \notin {"semFS_comp", "compactando"} \/ UNCHANGED <<programa, pc, vSts>>
    BY <1>4 DEF sts_esperar, sts_despachar, sts_agregar, pedir_fs, Bloquear, Caer
  <2> QED BY <1>0, <2>1 DEF EnCreate
<1>5. CASE pedir_compactacion
  <2>1. sts = "semFS_comp" /\ UNCHANGED <<programa, pc, pcb_a_ejecutar>>
    BY <1>5 DEF pedir_compactacion
  <2> QED BY <2>1 DEF EnCreate
<1>6. CASE (\E p \in Pids : Consola(p)) \/ long_term_scheduler
  BY <1>0, <1>6 DEF Consola, agregar_pcb_cola_nuevos, publicar_nuevo,
     long_term_scheduler, lts_esperar_nuevo, lts_esperar_grado, lts_admitir, lts_publicar, Caer
<1>7. CASE (\E p \in Pids : bloquear_pcb(p)) \/ publicar_despertado \/ bloquear_pcb_fs_r_w
  BY <1>0, <1>7 DEF bloquear_pcb, publicar_despertado, bloquear_pcb_fs_r_w, fs_agregar,
     fs_publicar, fs_liberar
<1>8. CASE UNCHANGED vars
  BY <1>0, <1>8 DEF vars
<1> QED BY <1>1, <1>2, <1>3, <1>4, <1>5, <1>6, <1>7, <1>8 DEF Next, short_term_scheduler

LEMMA FinTrasCompactar ==
  ASSUME TypeOK, EnCreate, sts = "compactando", NEW p \in Pids, pcb_a_ejecutar = p,
         "OUT_OF_MEMORY" \in RespuestasTrasCompactar
  PROVE  FinDe(p)
<1>1. PICK n \in DOMAIN programa[p] : pc[p] = n + 1 /\ programa[p][n].op = "CREATE_SEGMENT"
  BY DEF EnCreate
<1>2. programa[p] \in Programas
  <2>1. programa[p] # <<>>
    BY <1>1
  <2> QED BY <2>1 DEF TypeOK, TipoConsola
<1>3. PuedeTerminar(programa[p][n], Recursos, TodasLasRespuestas)
  BY <1>1 DEF PuedeTerminar, TodasLasRespuestas
<1> QED BY <1>1, <1>2, <1>3 DEF FinDe

\* The steps that touch the resources.
LEMMA PasoRecursos ==
  ASSUME TypeOK, Control, EnCreate, [Next]_vars
  PROVE  \/ UNCHANGED vRecursos
         \/ \E p \in Pids : doWait(p) \/ doSignal(p)
         \/ \E p \in Pids : /\ doExit(p) /\ FinDe(p)
                            /\ pcb_a_ejecutar = p /\ sts \in {"cpu", "compactando"}
<1> USE DEF vRecursos
<1>1. CASE crear_pcb
  BY <1>1 DEF crear_pcb
<1>2. ASSUME NEW p \in Pids, analizarMotivo(p), ~doWait(p), ~doSignal(p)
      PROVE  \/ UNCHANGED vRecursos
             \/ doExit(p) /\ FinDe(p) /\ pcb_a_ejecutar = p /\ sts = "cpu"
  <2> SUFFICES ASSUME doExit(p), PuedeTerminar(programa[p][pc[p]], Recursos, Respuestas)
               PROVE  FinDe(p) /\ pcb_a_ejecutar = p /\ sts = "cpu"
    BY <1>2, MotivoSinRecurso
  <2>1. sts = "cpu" /\ pcb_a_ejecutar = p /\ pc[p] <= Len(programa[p])
    BY <1>2, MotivoSinRecurso DEF Recibe, recibir_pcb_de_CPU
  <2>2. PuedeTerminar(programa[p][pc[p]], Recursos, TodasLasRespuestas)
    BY DEF PuedeTerminar, TodasLasRespuestas
  <2> QED BY <2>1, <2>2, ProgramaFinito DEF FinDe
<1>3. CASE fin_compactacion
  <2> DEFINE p == pcb_a_ejecutar
  <2>1. p \in Pids /\ sts = "compactando"
    BY <1>3 DEF fin_compactacion, Control
  <2>2. UNCHANGED vRecursos \/ (doExit(p) /\ "OUT_OF_MEMORY" \in RespuestasTrasCompactar)
    BY <1>3 DEF fin_compactacion
  <2>3. ASSUME "OUT_OF_MEMORY" \in RespuestasTrasCompactar PROVE FinDe(p)
    BY <2>1, <2>3, FinTrasCompactar
  <2> QED BY <2>1, <2>2, <2>3
<1> QED BY <1>1, <1>2, <1>3, PasoSinMotivo

\* A process whose program gives everything back holds nothing when it ends.
LEMMA TerminaSinNada ==
  ASSUME TypeOK, Manos, Sitios, SaldoRecursos,
         DevuelveTodo(Programas, Recursos, TodasLasRespuestas),
         NEW p \in Pids, FinDe(p), pcb_a_ejecutar = p, sts \in {"cpu", "compactando"},
         NEW r \in Recursos
  PROVE  Tenidas(p, r) = 0
<1> DEFINE t == Tiene(recursos_asignados, p, r)
           a == Apariciones(colasRecursos[r], p)
           s == Hechas(p, "SIGNAL", r)
           w == Hechas(p, "WAIT", r)
<1>1. estado[p] = "EXEC" /\ a = 0
  BY EnCPUSinCola
<1>2. t + a + s = w /\ t \in Nat /\ a \in Nat /\ s \in Nat /\ w \in Nat
  BY <1>1, SaldoNat DEF SaldoRecursos, SaldoDe
<1>3. s = w
  <2>1. PICK n \in DOMAIN programa[p] :
          /\ programa[p] \in Programas
          /\ PuedeTerminar(programa[p][n], Recursos, TodasLasRespuestas)
          /\ pc[p] = n \/ (pc[p] = n + 1 /\ programa[p][n].op = "CREATE_SEGMENT")
    BY DEF FinDe
  <2>2. s = Antes(programa[p], "SIGNAL", r, n) /\ w = Antes(programa[p], "WAIT", r, n)
    BY <2>1, FinHechas
  <2> QED BY <2>1, <2>2 DEF DevuelveTodo
<1> HIDE DEF t, a, s, w
<1>4. t = 0
  BY <1>1, <1>2, <1>3
<1> QED BY <1>4 DEF t, Tiene, Tenidas

LEMMA EsperaPaso ==
  ASSUME TypeOK, TypeOK', Control, Manos, Sitios, SaldoRecursos, EnCreate,
         SueltaLoQueTiene(Programas, Recursos),
         DevuelveTodo(Programas, Recursos, TodasLasRespuestas),
         EsperaJustificada, [Next]_vars
  PROVE  EsperaJustificada'
<1> SUFFICES ASSUME NEW r \in Recursos, colasRecursos'[r] # <<>>
             PROVE  recursos_disponibles'[r] = 0
  BY DEF EsperaJustificada
<1>0. colasRecursos[r] # <<>> => recursos_disponibles[r] = 0
  BY DEF EsperaJustificada
<1>1. CASE UNCHANGED vRecursos
  BY <1>0, <1>1 DEF vRecursos
<1>2. ASSUME NEW p \in Pids, doWait(p) PROVE recursos_disponibles'[r] = 0
  <2>1. Arg(p) \in Recursos /\ recursos_disponibles \in [Recursos -> Nat]
        /\ colasRecursos \in [Recursos -> Cola]
    BY <1>2 DEF doWait, TypeOK, TipoRecursos
  <2>2. CASE recursos_disponibles[Arg(p)] > 0
    <3>1. colasRecursos' = colasRecursos
          /\ recursos_disponibles' = [recursos_disponibles EXCEPT ![Arg(p)] = @ - 1]
      BY <1>2, <2>2 DEF doWait
    <3> QED BY <1>0, <2>1, <2>2, <3>1
  <2>3. CASE ~(recursos_disponibles[Arg(p)] > 0)
    <3>1. colasRecursos' = [colasRecursos EXCEPT ![Arg(p)] = Append(@, p)]
          /\ recursos_disponibles' = recursos_disponibles
      BY <1>2, <2>3 DEF doWait
    <3> QED BY <1>0, <2>1, <2>3, <3>1
  <2> QED BY <2>2, <2>3
<1>3. ASSUME NEW p \in Pids, doSignal(p) PROVE recursos_disponibles'[r] = 0
  <2>1. Arg(p) \in Recursos /\ recursos_disponibles \in [Recursos -> Nat]
        /\ colasRecursos \in [Recursos -> Cola]
    BY <1>3 DEF doSignal, TypeOK, TipoRecursos
  <2>2. Recibe(p) /\ Op(p) = "SIGNAL"
    BY <1>3 DEF doSignal, Recibe, Op, recibir_pcb_de_CPU, vConsola
  <2>3. B(recursos_asignados[p][Arg(p)] = SinEntrada) = 0
    <3>1. Tenidas(p, Arg(p)) > 0
      BY <2>1, <2>2, SueltaLoSuyo
    <3> QED BY <3>1 DEF Tenidas, B
  <2>4. CASE colasRecursos[Arg(p)] # <<>>
    <3>1. recursos_disponibles' = [recursos_disponibles EXCEPT ![Arg(p)] = @ + 0]
          /\ colasRecursos' = [colasRecursos EXCEPT ![Arg(p)] = Tail(@)]
      BY <1>3, <2>3, <2>4 DEF doSignal
    <3>2. CASE r = Arg(p)
      <4>1. recursos_disponibles[r] = 0
        BY <1>0, <2>4, <3>2
      <4> QED BY <2>1, <3>1, <3>2, <4>1
    <3>3. CASE r # Arg(p)
      <4>1. recursos_disponibles'[r] = recursos_disponibles[r]
            /\ colasRecursos'[r] = colasRecursos[r]
        BY <2>1, <3>1, <3>3
      <4> QED BY <1>0, <4>1
    <3> QED BY <3>2, <3>3
  <2>5. CASE colasRecursos[Arg(p)] = <<>>
    <3>1. \A x \in Recursos : x # Arg(p) => recursos_disponibles'[x] = recursos_disponibles[x]
      BY <1>3, <2>1, <2>5 DEF doSignal
    <3>2. colasRecursos' = colasRecursos
      BY <1>3, <2>5 DEF doSignal
    <3>3. r # Arg(p)
      BY <2>5, <3>2
    <3> QED BY <1>0, <3>1, <3>2, <3>3
  <2> QED BY <2>4, <2>5
<1>4. ASSUME NEW p \in Pids, doExit(p), FinDe(p), pcb_a_ejecutar = p,
             sts \in {"cpu", "compactando"}
      PROVE  recursos_disponibles'[r] = 0
  <2>1. Tenidas(p, r) = 0
    BY <1>4, TerminaSinNada
  <2>2. colasRecursos' = colasRecursos
        /\ recursos_disponibles'[r] = recursos_disponibles[r] + Tenidas(p, r)
    BY <1>4 DEF doExit
  <2> QED BY <1>0, <2>1, <2>2
<1> QED BY <1>1, <1>2, <1>3, <1>4, PasoRecursos

LEMMA CreateCorrecto == Spec => []EnCreate
<1>1. Init => EnCreate
  BY DEF Init, EnCreate
<1>2. TypeOK /\ TypeOK' /\ Control /\ SinNumerar /\ Manos /\ Sitios /\ EnCreate /\ [Next]_vars
        => EnCreate'
  BY EnCreatePaso
<1> QED BY <1>1, <1>2, TiposCorrectos, NuevosCorrectos, SitiosCorrectos, PTL DEF Spec

\* Nobody waits for a resource with a free instance, if every process signals
\* what it holds and ends with nothing: EXIT frees instances and wakes nobody.
THEOREM EsperaCorrecta ==
  ASSUME SueltaLoQueTiene(Programas, Recursos),
         DevuelveTodo(Programas, Recursos, TodasLasRespuestas)
  PROVE  Spec => []EsperaJustificada
<1>1. Init => EsperaJustificada
  BY DEF Init, EsperaJustificada
<1>2. TypeOK /\ TypeOK' /\ Control /\ Manos /\ Sitios /\ SaldoRecursos /\ EnCreate
        /\ EsperaJustificada /\ [Next]_vars => EsperaJustificada'
  BY EsperaPaso
<1> QED BY <1>1, <1>2, SaldosCorrectos, CreateCorrecto, TiposCorrectos, SitiosCorrectos, PTL
        DEF Spec

-----------------------------------------------------------------------------
(* The files, for programs that use and close what they open.              *)

\* A file is open for a process from its F_OPEN to its F_CLOSE.
AbiertoPor(q, f) ==
  open_files[q][f] + Hechas(q, "F_CLOSE", f) = Hechas(q, "F_OPEN", f)

Esperan(f) == Range(colasArchivos[f])

\* The owner is the one process with the file open that does not wait for it.
Posee(p, f) ==
  \A q \in Pids : (open_files[q][f] > 0 /\ q \notin Esperan(f)) <=> q = p

EnOrden(f) ==
  /\ \A q \in Pids : open_files[q][f] <= 1 /\ AbiertoPor(q, f)
  /\ \A q \in Esperan(f) : open_files[q][f] = 1
  /\ f \in tabla_archivos_globales => \E p \in Pids : Posee(p, f)
  /\ f \notin tabla_archivos_globales =>
       colasArchivos[f] = <<>> /\ \A q \in Pids : open_files[q][f] = 0

ArchivosEnOrden == \A f \in Archivos : EnOrden(f)

LEMMA TiposDeArchivos ==
  ASSUME TypeOK, NEW f \in Archivos
  PROVE  /\ colasArchivos[f] \in Seq(Pids) /\ Esperan(f) \subseteq Pids
         /\ \A q \in Pids : open_files[q][f] \in Nat
<1>1. colasArchivos[f] \in Seq(Pids) /\ \A q \in Pids : open_files[q][f] \in Nat
  BY DEF TypeOK, TipoArchivos, Cola
<1>2. ASSUME NEW c \in Seq(Pids) PROVE Range(c) \subseteq Pids
  BY DEF Range
<1> QED BY <1>1, <1>2 DEF Esperan

LEMMA OrdenDaDuenio == ASSUME TypeOK, ArchivosEnOrden PROVE DuenioUnico
<1> SUFFICES ASSUME NEW f \in Archivos
             PROVE  IF f \in tabla_archivos_globales THEN Cardinality(Duenios(f)) = 1
                    ELSE Duenios(f) = {} /\ colasArchivos[f] = <<>>
  BY DEF DuenioUnico
<1>1. EnOrden(f)
  BY DEF ArchivosEnOrden
<1>2. CASE f \in tabla_archivos_globales
  <2>1. PICK p \in Pids : Posee(p, f)
    BY <1>1, <1>2 DEF EnOrden
  <2>2. Duenios(f) = {p}
    BY <2>1 DEF Posee, Duenios, Esperan
  <2>3. Cardinality({p}) = 1
    BY FS_Singleton
  <2> QED BY <1>2, <2>2, <2>3
<1>3. CASE f \notin tabla_archivos_globales
  <2>1. Duenios(f) = {}
    BY <1>1, <1>3 DEF EnOrden, Duenios
  <2> QED BY <1>1, <1>3, <2>1 DEF EnOrden
<1> QED BY <1>2, <1>3

\* What a motive other than F_OPEN and F_CLOSE touches.
LEMMA MotivoSinArchivo ==
  ASSUME TypeOK, NEW p \in Pids, analizarMotivo(p)
  PROVE  \/ do_f_open(p) \/ do_f_close(p)
         \/ /\ Op(p) \notin {"F_OPEN", "F_CLOSE"}
            /\ UNCHANGED vArchivos
               \/ (doExit(p) /\ PuedeTerminar(programa[p][pc[p]], Recursos, Respuestas))
<1> USE DEF Op, recibir_pcb_de_CPU, vArchivos
<1>1. CASE finalizar_proceso(p)
  BY <1>1 DEF finalizar_proceso, PuedeTerminar, Arg
<1>2. CASE doYield(p) \/ doIO(p) \/ do_f_truncate(p)
  BY <1>2 DEF doYield, doIO, do_f_truncate, BloquearEnHilo
<1>3. CASE doWait(p)
  BY <1>3 DEF doWait
<1>4. CASE doSignal(p)
  BY <1>4 DEF doSignal
<1>5. CASE do_f_seek(p) \/ do_delete_segment(p) \/ do_f_read_write(p)
  BY <1>5 DEF do_f_seek, do_delete_segment, do_f_read_write
<1>6. CASE do_create_segment(p)
  <2>1. Op(p) = "CREATE_SEGMENT"
    BY <1>6 DEF do_create_segment
  <2>2. UNCHANGED vArchivos \/ (doExit(p) /\ "OUT_OF_MEMORY" \in Respuestas)
    BY <1>6, KernelAssumption DEF do_create_segment, Seguir
  <2> QED BY <2>1, <2>2 DEF PuedeTerminar
<1> QED BY <1>1, <1>2, <1>3, <1>4, <1>5, <1>6 DEF analizarMotivo

\* The steps that touch the files, and what the rest leave of the programs.
LEMMA PasoArchivos ==
  ASSUME TypeOK, TypeOK', Control, SinNumerar, SinEmpezar, EnCreate, [Next]_vars
  PROVE  \/ \E p \in Pids : do_f_open(p) \/ do_f_close(p)
         \/ /\ \A q \in Pids, op \in {"F_OPEN", "F_CLOSE"}, f \in Archivos :
                 Hechas(q, op, f)' = Hechas(q, op, f)
            /\ \/ UNCHANGED vArchivos
               \/ \E p \in Pids : doExit(p) /\ FinDe(p)
<1> DEFINE Iguales == \A q \in Pids, op \in {"F_OPEN", "F_CLOSE"}, f \in Archivos :
                        Hechas(q, op, f)' = Hechas(q, op, f)
<1>1. CASE crear_pcb
  <2>1. Iguales
    BY <1>1, CrearEmpieza
  <2> QED BY <1>1, <2>1 DEF crear_pcb
<1>2. ASSUME NEW p \in Pids, analizarMotivo(p), ~do_f_open(p), ~do_f_close(p)
      PROVE  Iguales /\ (UNCHANGED vArchivos \/ (doExit(p) /\ FinDe(p)))
  <2>1. Recibe(p) /\ Op(p) \notin {"F_OPEN", "F_CLOSE"}
    BY <1>2, MotivoSinRecurso, MotivoSinArchivo
  <2>2. Iguales
    BY <2>1, HechasOtra DEF Recibe, Op
  <2>3. ASSUME doExit(p), PuedeTerminar(programa[p][pc[p]], Recursos, Respuestas)
        PROVE  FinDe(p)
    <3>1. pc[p] <= Len(programa[p])
      BY <2>1 DEF Recibe, recibir_pcb_de_CPU
    <3>2. PuedeTerminar(programa[p][pc[p]], Recursos, TodasLasRespuestas)
      BY <2>3 DEF PuedeTerminar, TodasLasRespuestas
    <3> QED BY <3>1, <3>2, ProgramaFinito DEF FinDe
  <2> QED BY <1>2, <2>2, <2>3, MotivoSinArchivo
<1>3. CASE fin_compactacion
  <2> DEFINE p == pcb_a_ejecutar
  <2>1. p \in Pids /\ sts = "compactando" /\ programa' = programa /\ pc' = pc
    BY <1>3 DEF fin_compactacion, Control, vConsola
  <2>2. UNCHANGED vArchivos \/ (doExit(p) /\ "OUT_OF_MEMORY" \in RespuestasTrasCompactar)
    BY <1>3 DEF fin_compactacion
  <2>3. ASSUME "OUT_OF_MEMORY" \in RespuestasTrasCompactar PROVE FinDe(p)
    BY <2>1, <2>3, FinTrasCompactar
  <2>4. Iguales
    BY <2>1 DEF Hechas
  <2> QED BY <2>1, <2>2, <2>3, <2>4
<1>4. CASE UNCHANGED <<programa, pc, vRecursos, vArchivos>>
  <2>1. Iguales
    BY <1>4 DEF Hechas
  <2> QED BY <1>4, <2>1
<1> QED BY <1>1, <1>2, <1>3, <1>4, PasoSinMotivo

\* Nothing of f changes.
LEMMA OrdenQuieto ==
  ASSUME TypeOK, NEW f \in Archivos, EnOrden(f),
         f \in tabla_archivos_globales' <=> f \in tabla_archivos_globales,
         colasArchivos'[f] = colasArchivos[f],
         \A q \in Pids : /\ open_files'[q][f] = open_files[q][f]
                         /\ Hechas(q, "F_OPEN", f)' = Hechas(q, "F_OPEN", f)
                         /\ Hechas(q, "F_CLOSE", f)' = Hechas(q, "F_CLOSE", f)
  PROVE  EnOrden(f)'
<1>1. Esperan(f)' = Esperan(f)
  BY DEF Esperan
<1>2. \A q \in Pids : AbiertoPor(q, f)'
  BY DEF EnOrden, AbiertoPor
<1>3. \A p \in Pids : Posee(p, f) => Posee(p, f)'
  BY <1>1 DEF Posee
<1>4. \A q \in Esperan(f) : open_files'[q][f] = 1
  BY TiposDeArchivos DEF EnOrden
<1> QED BY <1>1, <1>2, <1>3, <1>4 DEF EnOrden

\* A process at an instruction on f that its program says it has open, or not.
LEMMA EnInstruccion ==
  ASSUME TypeOK, Manos, Sitios, ArchivosEnOrden, UsaLoQueAbre(Programas, Archivos),
         NEW p \in Pids, NEW ops, recibir_pcb_de_CPU(p, ops), Arg(p) \in Archivos
  PROVE  /\ Op(p) \in {"F_CLOSE", "F_READ", "F_WRITE"} => open_files[p][Arg(p)] = 1
         /\ Op(p) = "F_OPEN" => open_files[p][Arg(p)] = 0
         /\ \A f \in Archivos : p \notin Esperan(f)
<1> DEFINE f == Arg(p)
           o == open_files[p][f]
           c == Hechas(p, "F_CLOSE", f)
           a == Hechas(p, "F_OPEN", f)
<1>1. sts = "cpu" /\ pcb_a_ejecutar = p /\ pc[p] <= Len(programa[p])
  BY DEF recibir_pcb_de_CPU
<1>2. pc[p] \in DOMAIN programa[p] /\ programa[p] \in Programas
  BY <1>1, ProgramaFinito
<1>3. /\ Op(p) \in {"F_CLOSE", "F_READ", "F_WRITE"} => c < a
      /\ Op(p) = "F_OPEN" => c = a
  BY <1>2 DEF UsaLoQueAbre, Op, Arg, Hechas
<1>4. o + c = a /\ o <= 1 /\ o \in Nat /\ c \in Nat /\ a \in Nat
  BY TiposDeArchivos, HechasNat DEF ArchivosEnOrden, EnOrden, AbiertoPor
<1>5. ASSUME NEW g \in Archivos PROVE p \notin Esperan(g)
  <2>1. Apariciones(colasArchivos[g], p) = 0
    BY <1>1, EnCPUSinCola
  <2> QED BY <2>1, TiposDeArchivos, AparicionesNat DEF Esperan
<1> HIDE DEF o, c, a
<1>6. (c < a => o = 1) /\ (c = a => o = 0)
  BY <1>4
<1> QED BY <1>3, <1>5, <1>6 DEF o

LEMMA RangoAppend ==
  ASSUME NEW c \in Seq(Pids), NEW p \in Pids
  PROVE  \A q \in Pids : q \in Range(Append(c, p)) <=> q \in Range(c) \/ q = p
<1> SUFFICES ASSUME NEW q \in Pids
             PROVE  q \in Range(Append(c, p)) <=> q \in Range(c) \/ q = p
  OBVIOUS
<1> DEFINE n == Apariciones(c, q)
<1>1. Append(c, p) \in Seq(Pids) /\ Apariciones(Append(c, p), q) = n + B(p = q)
  BY AparicionesAppend
<1>2. n \in Nat /\ (n > 0 <=> q \in Range(c))
  BY AparicionesNat
<1>3. Apariciones(Append(c, p), q) > 0 <=> q \in Range(Append(c, p))
  BY <1>1, AparicionesNat
<1> HIDE DEF n
<1> QED BY <1>1, <1>2, <1>3 DEF B

LEMMA RangoTail ==
  ASSUME NEW c \in Seq(Pids), c # <<>>, Apariciones(c, Head(c)) <= 1
  PROVE  \A q \in Pids : q \in Range(Tail(c)) <=> q \in Range(c) /\ q # Head(c)
<1> SUFFICES ASSUME NEW q \in Pids
             PROVE  q \in Range(Tail(c)) <=> q \in Range(c) /\ q # Head(c)
  OBVIOUS
<1> DEFINE n == Apariciones(c, q)
           m == Apariciones(Tail(c), q)
<1>1. Tail(c) \in Seq(Pids) /\ n = m + B(Head(c) = q)
  BY AparicionesTail
<1>2. n \in Nat /\ (n > 0 <=> q \in Range(c)) /\ m \in Nat /\ (m > 0 <=> q \in Range(Tail(c)))
  BY <1>1, AparicionesNat
<1>3. q = Head(c) => n <= 1
  OBVIOUS
<1> HIDE DEF n, m
<1> QED BY <1>1, <1>2, <1>3 DEF B

\* Nobody waits twice for a file.
LEMMA EsperaUnaVez ==
  ASSUME TypeOK, Sitios, NEW q \in Pids, NEW f \in Archivos
  PROVE  Apariciones(colasArchivos[f], q) <= 1
<1> DEFINE v == [x \in Archivos |-> Apariciones(colasArchivos[x], q)]
           b == B(q \in bloqueados)
           g == B(pcbFS = q)
           r0 == EnColas(colasRecursos, Recursos, q)
           a0 == EnColas(colasArchivos, Archivos, q)
           m == Apariciones(enMano, q)
           c == B(pcb_a_ejecutar = q)
<1>1. v \in [Archivos -> Nat] /\ v[f] = Apariciones(colasArchivos[f], q)
  BY Familias, AparicionesNat DEF Colas
<1>2. a0 = SumFunction(v)
  BY DEF EnColas
<1> HIDE DEF v
<1>3. v[f] <= SumFunction(v) /\ v[f] \in Nat
  BY <1>1, KernelAssumption, SumaFuncion
<1>4. /\ b \in Nat /\ g \in Nat /\ r0 \in Nat /\ a0 \in Nat /\ m \in Nat /\ c \in Nat
      /\ m + c + (b + g + r0 + a0) = B(estado[q] \in {"EXEC", "BLOCK"})
  <2>1. m \in Nat /\ c \in Nat
    BY AparicionesNat DEF TypeOK, TipoPlanificacion, Cola, B
  <2>2. m + c + Parado(q) = B(estado[q] \in {"EXEC", "BLOCK"})
    BY DEF Sitios, Sitio, Retenido
  <2> QED BY <2>1, <2>2, ParadoNat DEF Parado
<1> HIDE DEF b, g, r0, a0, m, c
<1>5. a0 <= 1
  BY <1>4 DEF B
<1> QED BY <1>1, <1>2, <1>3, <1>4, <1>5

LEMMA OrdenOpen ==
  ASSUME TypeOK, TypeOK', Manos, Sitios, ArchivosEnOrden, UsaLoQueAbre(Programas, Archivos),
         NEW p \in Pids, do_f_open(p), NEW f \in Archivos
  PROVE  EnOrden(f)'
<1> DEFINE x == Arg(p)
<1>1. recibir_pcb_de_CPU(p, {"F_OPEN"}) /\ Op(p) = "F_OPEN" /\ x \in Archivos
      /\ programa' = programa
  <2>1. recibir_pcb_de_CPU(p, {"F_OPEN"}) /\ Op(p) = "F_OPEN" /\ programa' = programa
    BY DEF do_f_open, Op, recibir_pcb_de_CPU, vConsola
  <2> QED BY <2>1, InstruccionBienFormada DEF OpsDeArchivo, Op
<1>2. EnOrden(f) /\ EnOrden(x)
  BY <1>1 DEF ArchivosEnOrden
<1>3. open_files[p][x] = 0 /\ p \notin Esperan(x)
  BY <1>1, EnInstruccion
<1>4. open_files' = [open_files EXCEPT ![p][x] = @ + 1]
      /\ open_files \in [Pids -> [Archivos -> Nat]]
      /\ colasArchivos \in [Archivos -> Seq(Pids)]
  BY DEF do_f_open, TypeOK, TipoArchivos, Cola
<1>5. \A q \in Pids : Hechas(q, "F_CLOSE", f)' = Hechas(q, "F_CLOSE", f)
  BY <1>1, HechasOtra DEF Op
<1>6. CASE f # x
  <2>1. \A q \in Pids : Hechas(q, "F_OPEN", f)' = Hechas(q, "F_OPEN", f)
    BY <1>1, <1>6, HechasOtra DEF Op
  <2>2. \A q \in Pids : open_files'[q][f] = open_files[q][f]
    BY <1>1, <1>4, <1>6
  <2>3. colasArchivos'[f] = colasArchivos[f]
        /\ (f \in tabla_archivos_globales' <=> f \in tabla_archivos_globales)
    BY <1>1, <1>4, <1>6 DEF do_f_open
  <2> HIDE DEF x
  <2> QED BY <1>2, <1>5, <2>1, <2>2, <2>3, OrdenQuieto
<1>7. CASE f = x
  <2>1. open_files'[p][f] = 1 /\ \A q \in Pids : q # p => open_files'[q][f] = open_files[q][f]
    BY <1>1, <1>3, <1>4, <1>7
  <2>2. ASSUME NEW q \in Pids PROVE open_files'[q][f] <= 1 /\ AbiertoPor(q, f)'
    <3> DEFINE o == open_files[q][f]
               c == Hechas(q, "F_CLOSE", f)
               a == Hechas(q, "F_OPEN", f)
               d == B(q = p)
    <3>1. o \in Nat /\ c \in Nat /\ a \in Nat /\ d \in Nat /\ o + c = a /\ o <= 1
      BY <1>2, TiposDeArchivos, HechasNat DEF EnOrden, AbiertoPor, B
    <3>2. Hechas(q, "F_OPEN", f)' = a + d
      <4>1. Hechas(q, "F_OPEN", f)' = a + B(q = p /\ programa[p][pc[p]].op = "F_OPEN" /\ Arg(p) = f)
        BY <1>1, HechasPaso
      <4> QED BY <1>1, <1>7, <4>1 DEF B, Op
    <3>3. open_files'[q][f] = o + d /\ (q = p => o = 0)
      <4>1. CASE q = p
        BY <1>3, <1>7, <2>1, <4>1 DEF B
      <4>2. CASE q # p
        <5>1. open_files'[q][f] = o /\ d = 0
          BY <2>1, <4>2 DEF B
        <5> HIDE DEF o, d
        <5> QED BY <3>1, <4>2, <5>1
      <4> QED BY <4>1, <4>2
    <3>4. Hechas(q, "F_CLOSE", f)' = c
      BY <1>5
    <3>5. AbiertoPor(q, f)' <=> open_files'[q][f] + Hechas(q, "F_CLOSE", f)' = Hechas(q, "F_OPEN", f)'
      BY DEF AbiertoPor
    <3>6. d <= 1 /\ (q # p => d = 0)
      BY DEF B
    <3> HIDE DEF o, c, a, d
    <3> QED BY <3>1, <3>2, <3>3, <3>4, <3>5, <3>6
  <2>3. CASE f \in tabla_archivos_globales
    <3>1. colasArchivos'[f] = Append(colasArchivos[f], p) /\ f \in tabla_archivos_globales'
      BY <1>1, <1>4, <1>7, <2>3 DEF do_f_open
    <3>2. \A q \in Pids : q \in Esperan(f)' <=> q \in Esperan(f) \/ q = p
      <4>1. colasArchivos[f] \in Seq(Pids)
        BY <1>4
      <4> QED BY <3>1, <4>1, RangoAppend DEF Esperan
    <3>3. Esperan(f)' \subseteq Pids
      <4>1. colasArchivos'[f] \in Seq(Pids)
        BY DEF TypeOK, TipoArchivos, Cola
      <4> QED BY <4>1 DEF Esperan, Range
    <3>4. \A q \in Esperan(f)' : open_files'[q][f] = 1
      BY <1>2, <2>1, <3>2, <3>3 DEF EnOrden
    <3>5. PICK d \in Pids : Posee(d, f)
      BY <1>2, <2>3 DEF EnOrden
    <3>6. Posee(d, f)'
      <4>1. d # p
        BY <1>3, <1>7, <3>5 DEF Posee
      <4> QED BY <1>3, <1>7, <2>1, <3>2, <3>5, <4>1 DEF Posee
    <3> QED BY <2>2, <3>1, <3>4, <3>6 DEF EnOrden
  <2>4. CASE f \notin tabla_archivos_globales
    <3>1. colasArchivos'[f] = <<>> /\ f \in tabla_archivos_globales'
      BY <1>2, <1>7, <2>4 DEF do_f_open, EnOrden
    <3>2. Esperan(f)' = {}
      BY <3>1 DEF Esperan, Range
    <3>3. Posee(p, f)'
      BY <1>2, <2>1, <2>4, <3>2 DEF Posee, EnOrden
    <3> QED BY <2>2, <3>1, <3>2, <3>3 DEF EnOrden
  <2> QED BY <2>3, <2>4
<1> QED BY <1>6, <1>7

\* F_CLOSE of a process that has the file open: it is the owner, and nobody
\* dereferences the index -1.
LEMMA CierraLoSuyo ==
  ASSUME TypeOK, Manos, Sitios, ArchivosEnOrden, UsaLoQueAbre(Programas, Archivos),
         NEW p \in Pids, do_f_close(p)
  PROVE  /\ recibir_pcb_de_CPU(p, {"F_CLOSE"}) /\ Op(p) = "F_CLOSE" /\ Arg(p) \in Archivos
         /\ programa' = programa /\ vivo' = vivo
         /\ Arg(p) \in tabla_archivos_globales /\ Posee(p, Arg(p))
         /\ open_files[p][Arg(p)] = 1
         /\ open_files' = [open_files EXCEPT ![p][Arg(p)] = @ - 1]
<1>1. recibir_pcb_de_CPU(p, {"F_CLOSE"}) /\ Op(p) = "F_CLOSE" /\ programa' = programa
  BY DEF do_f_close, Op, recibir_pcb_de_CPU, vConsola
<1>2. Arg(p) \in Archivos
  BY <1>1, InstruccionBienFormada DEF OpsDeArchivo, Op
<1>3. open_files[p][Arg(p)] = 1 /\ p \notin Esperan(Arg(p))
  BY <1>1, <1>2, EnInstruccion
<1>4. EnOrden(Arg(p))
  BY <1>2 DEF ArchivosEnOrden
<1>5. Arg(p) \in tabla_archivos_globales
  BY <1>3, <1>4 DEF EnOrden
<1>6. Posee(p, Arg(p))
  <2>1. PICK d \in Pids : Posee(d, Arg(p))
    BY <1>4, <1>5 DEF EnOrden
  <2>2. d = p
    BY <1>3, <2>1 DEF Posee
  <2> QED BY <2>1, <2>2
<1> QED BY <1>1, <1>2, <1>3, <1>5, <1>6 DEF do_f_close

LEMMA OrdenClose ==
  ASSUME TypeOK, TypeOK', Manos, Sitios, ArchivosEnOrden, UsaLoQueAbre(Programas, Archivos),
         NEW p \in Pids, do_f_close(p), NEW f \in Archivos
  PROVE  EnOrden(f)'
<1> DEFINE x == Arg(p)
<1>1. /\ recibir_pcb_de_CPU(p, {"F_CLOSE"}) /\ Op(p) = "F_CLOSE" /\ x \in Archivos
      /\ programa' = programa /\ x \in tabla_archivos_globales /\ Posee(p, x)
      /\ open_files[p][x] = 1 /\ open_files' = [open_files EXCEPT ![p][x] = @ - 1]
  BY CierraLoSuyo
<1>2. EnOrden(f) /\ EnOrden(x)
  BY <1>1 DEF ArchivosEnOrden
<1>4. /\ open_files \in [Pids -> [Archivos -> Nat]]
      /\ colasArchivos \in [Archivos -> Seq(Pids)]
  BY DEF TypeOK, TipoArchivos, Cola
<1>5. \A q \in Pids : Hechas(q, "F_OPEN", f)' = Hechas(q, "F_OPEN", f)
  BY <1>1, HechasOtra DEF Op
<1>6. CASE f # x
  <2>1. \A q \in Pids : Hechas(q, "F_CLOSE", f)' = Hechas(q, "F_CLOSE", f)
    BY <1>1, <1>6, HechasOtra DEF Op
  <2>2. \A q \in Pids : open_files'[q][f] = open_files[q][f]
    BY <1>1, <1>4, <1>6
  <2>3. colasArchivos'[f] = colasArchivos[f]
        /\ (f \in tabla_archivos_globales' <=> f \in tabla_archivos_globales)
    BY <1>1, <1>4, <1>6 DEF do_f_close
  <2> HIDE DEF x
  <2> QED BY <1>2, <1>5, <2>1, <2>2, <2>3, OrdenQuieto
<1>7. CASE f = x
  <2>1. open_files'[p][f] = 0 /\ \A q \in Pids : q # p => open_files'[q][f] = open_files[q][f]
    BY <1>1, <1>4, <1>7
  <2>2. ASSUME NEW q \in Pids PROVE open_files'[q][f] <= 1 /\ AbiertoPor(q, f)'
    <3> DEFINE o == open_files[q][f]
               c == Hechas(q, "F_CLOSE", f)
               a == Hechas(q, "F_OPEN", f)
               d == B(q = p)
    <3>1. o \in Nat /\ c \in Nat /\ a \in Nat /\ d \in Nat /\ o + c = a /\ o <= 1
      BY <1>2, TiposDeArchivos, HechasNat DEF EnOrden, AbiertoPor, B
    <3>2. Hechas(q, "F_CLOSE", f)' = c + d
      <4>1. Hechas(q, "F_CLOSE", f)' = c + B(q = p /\ programa[p][pc[p]].op = "F_CLOSE" /\ Arg(p) = f)
        BY <1>1, HechasPaso
      <4> QED BY <1>1, <1>7, <4>1 DEF B, Op
    <3>3. open_files'[q][f] = o - d
      <4>1. CASE q = p
        BY <1>1, <1>7, <2>1, <4>1 DEF B
      <4>2. CASE q # p
        <5>1. open_files'[q][f] = o /\ d = 0
          BY <2>1, <4>2 DEF B
        <5> HIDE DEF o, d
        <5> QED BY <3>1, <5>1
      <4> QED BY <4>1, <4>2
    <3>4. Hechas(q, "F_OPEN", f)' = a
      BY <1>5
    <3>5. AbiertoPor(q, f)' <=> open_files'[q][f] + Hechas(q, "F_CLOSE", f)' = Hechas(q, "F_OPEN", f)'
      BY DEF AbiertoPor
    <3> HIDE DEF o, c, a, d
    <3> QED BY <3>1, <3>2, <3>3, <3>4, <3>5
  <2>3. CASE colasArchivos[f] # <<>>
    <3>0. PICK w \in Pids : w = Head(colasArchivos[f]) /\ w \in Esperan(f)
      BY <1>4, <2>3, PrimeroAparece, AparicionesNat DEF Esperan
    <3>1. /\ colasArchivos[f] \in Seq(Pids)
          /\ colasArchivos'[f] = Tail(colasArchivos[f]) /\ f \in tabla_archivos_globales'
      <4>1. colasArchivos' = [colasArchivos EXCEPT ![x] = Tail(@)]
            /\ tabla_archivos_globales' = tabla_archivos_globales
        BY <1>7, <2>3 DEF do_f_close
      <4> QED BY <1>1, <1>4, <1>7, <4>1
    <3>2. \A q \in Pids : q \in Esperan(f)' <=> q \in Esperan(f) /\ q # w
      <4>1. Apariciones(colasArchivos[f], w) <= 1
        BY EsperaUnaVez
      <4> QED BY <2>3, <3>0, <3>1, <4>1, RangoTail DEF Esperan
    <3>3. Esperan(f)' \subseteq Pids
      <4>1. colasArchivos'[f] \in Seq(Pids)
        BY DEF TypeOK, TipoArchivos, Cola
      <4> QED BY <4>1 DEF Esperan, Range
    <3>4. p \notin Esperan(f) /\ w # p
      BY <1>1, <1>7, <3>0 DEF Posee
    <3>5. \A q \in Esperan(f)' : open_files'[q][f] = 1
      BY <1>2, <2>1, <3>2, <3>3, <3>4 DEF EnOrden
    <3>6. Posee(w, f)'
      <4>1. open_files'[w][f] = 1
        BY <1>2, <2>1, <3>0, <3>4 DEF EnOrden
      <4>2. ASSUME NEW q \in Pids, q # w
            PROVE  ~(open_files'[q][f] > 0 /\ q \notin Esperan(f)')
        <5>1. Posee(p, f)
          BY <1>1, <1>7
        <5>2. q = p \/ open_files[q][f] = open_files'[q][f]
          BY <2>1
        <5> QED BY <2>1, <3>2, <4>2, <5>1, <5>2 DEF Posee
      <4>3. w \notin Esperan(f)'
        BY <3>2
      <4> QED BY <4>1, <4>2, <4>3 DEF Posee
    <3> QED BY <2>2, <3>1, <3>5, <3>6 DEF EnOrden
  <2>4. CASE colasArchivos[f] = <<>>
    <3>1. colasArchivos'[f] = <<>> /\ f \notin tabla_archivos_globales'
      BY <1>7, <2>4 DEF do_f_close
    <3>2. Esperan(f) = {} /\ Esperan(f)' = {}
      BY <2>4, <3>1 DEF Esperan, Range
    <3>3. \A q \in Pids : open_files'[q][f] = 0
      <4>1. \A q \in Pids : open_files[q][f] \in Nat
        BY TiposDeArchivos
      <4> QED BY <1>1, <1>7, <2>1, <3>2, <4>1 DEF Posee
    <3> QED BY <2>2, <3>1, <3>2, <3>3 DEF EnOrden
  <2> QED BY <2>3, <2>4
<1> QED BY <1>6, <1>7

\* A process whose program closes what it opens has nothing open when it ends.
LEMMA TerminaSinAbiertos ==
  ASSUME TypeOK, ArchivosEnOrden, CierraTodo(Programas, Recursos, Archivos, TodasLasRespuestas),
         NEW p \in Pids, FinDe(p), NEW f \in Archivos
  PROVE  open_files[p][f] = 0
<1> DEFINE o == open_files[p][f]
           c == Hechas(p, "F_CLOSE", f)
           a == Hechas(p, "F_OPEN", f)
<1>1. o + c = a /\ o \in Nat /\ c \in Nat /\ a \in Nat
  BY TiposDeArchivos, HechasNat DEF ArchivosEnOrden, EnOrden, AbiertoPor
<1>2. c = a
  <2>1. PICK n \in DOMAIN programa[p] :
          /\ programa[p] \in Programas
          /\ PuedeTerminar(programa[p][n], Recursos, TodasLasRespuestas)
          /\ pc[p] = n \/ (pc[p] = n + 1 /\ programa[p][n].op = "CREATE_SEGMENT")
    BY DEF FinDe
  <2>2. c = Antes(programa[p], "F_CLOSE", f, n) /\ a = Antes(programa[p], "F_OPEN", f, n)
    BY <2>1, FinHechas
  <2> QED BY <2>1, <2>2 DEF CierraTodo
<1> HIDE DEF o, c, a
<1>3. o = 0
  BY <1>1, <1>2
<1> QED BY <1>3 DEF o

LEMMA ArchivosPaso ==
  ASSUME TypeOK, TypeOK', Control, SinNumerar, SinEmpezar, EnCreate, Manos, Sitios,
         UsaLoQueAbre(Programas, Archivos),
         CierraTodo(Programas, Recursos, Archivos, TodasLasRespuestas),
         ArchivosEnOrden, [Next]_vars
  PROVE  ArchivosEnOrden'
<1> SUFFICES ASSUME NEW f \in Archivos PROVE EnOrden(f)'
  BY DEF ArchivosEnOrden
<1>0. EnOrden(f)
  BY DEF ArchivosEnOrden
<1>1. ASSUME NEW p \in Pids, do_f_open(p) \/ do_f_close(p) PROVE EnOrden(f)'
  BY <1>1, OrdenOpen, OrdenClose
<1>2. CASE /\ \A q \in Pids, op \in {"F_OPEN", "F_CLOSE"}, g \in Archivos :
                Hechas(q, op, g)' = Hechas(q, op, g)
           /\ \/ UNCHANGED vArchivos
              \/ \E p \in Pids : doExit(p) /\ FinDe(p)
  <2>1. \A q \in Pids : /\ Hechas(q, "F_OPEN", f)' = Hechas(q, "F_OPEN", f)
                        /\ Hechas(q, "F_CLOSE", f)' = Hechas(q, "F_CLOSE", f)
    BY <1>2
  <2>2. CASE UNCHANGED vArchivos
    BY <1>0, <2>1, <2>2, OrdenQuieto DEF vArchivos
  <2>3. ASSUME NEW p \in Pids, doExit(p), FinDe(p) PROVE EnOrden(f)'
    <3>1. tabla_archivos_globales' = tabla_archivos_globales /\ colasArchivos' = colasArchivos
          /\ open_files' = [open_files EXCEPT ![p] = SinArchivos]
      BY <2>3 DEF doExit
    <3>2. open_files[p][f] = 0
      BY <2>3, TerminaSinAbiertos
    <3>3. \A q \in Pids : open_files'[q][f] = open_files[q][f]
      BY <3>1, <3>2 DEF SinArchivos, TypeOK, TipoArchivos
    <3> QED BY <1>0, <2>1, <3>1, <3>3, OrdenQuieto
  <2> QED BY <1>2, <2>2, <2>3
<1> QED BY <1>1, <1>2, PasoArchivos

LEMMA ArchivosIniciales == Init => ArchivosEnOrden
<1> SUFFICES ASSUME Init, NEW f \in Archivos PROVE EnOrden(f)
  BY DEF ArchivosEnOrden
<1>1. colasArchivos[f] = <<>> /\ f \notin tabla_archivos_globales /\ Esperan(f) = {}
  BY DEF Init, Esperan, Range
<1>2. ASSUME NEW q \in Pids PROVE open_files[q][f] = 0 /\ AbiertoPor(q, f)
  <2>1. open_files[q][f] = 0
    BY DEF Init, SinArchivos
  <2>2. Hechas(q, "F_OPEN", f) = 0 /\ Hechas(q, "F_CLOSE", f) = 0
    <3>1. pc[q] = 1 /\ Finito(programa[q])
      BY TiposIniciales, ProgramaFinito DEF Init
    <3> QED BY <3>1, AntesUno DEF Hechas
  <2> QED BY <2>1, <2>2 DEF AbiertoPor
<1> QED BY <1>1, <1>2 DEF EnOrden

\* The inductive invariant of the files and the sentence of DuenioUnico: a file
\* of the global table has one owner, and passes from owner to waiter.
THEOREM ArchivosCorrectos ==
  ASSUME UsaLoQueAbre(Programas, Archivos),
         CierraTodo(Programas, Recursos, Archivos, TodasLasRespuestas)
  PROVE  Spec => [](ArchivosEnOrden /\ DuenioUnico)
<1>1. TypeOK /\ TypeOK' /\ Control /\ SinNumerar /\ SinEmpezar /\ EnCreate /\ Manos /\ Sitios
        /\ ArchivosEnOrden /\ [Next]_vars => ArchivosEnOrden'
  BY ArchivosPaso
<1>2. TypeOK /\ ArchivosEnOrden => DuenioUnico
  BY OrdenDaDuenio
<1> QED BY <1>1, <1>2, ArchivosIniciales, EmpezarCorrecto, CreateCorrecto, TiposCorrectos,
           NuevosCorrectos, SitiosCorrectos, PTL DEF Spec

-----------------------------------------------------------------------------
(* The kernel does not fall over.                                          *)

\* Every dereference of a step but the one of buscar_pid after a compaction.
LEMMA NoSeCaePaso ==
  ASSUME TypeOK, Control, Manos, Sitios, ArchivosEnOrden, UsaLoQueAbre(Programas, Archivos),
         sts = "saca" => ready_queue # <<>>, lts = "saca" => new_queue # <<>>,
         sts # "compactando", NoSeCae, [Next]_vars
  PROVE  NoSeCae'
<1> USE DEF NoSeCae, Caer
<1>1. ASSUME NEW p \in Pids, analizarMotivo(p) PROVE vivo'
  <2>1. CASE finalizar_proceso(p)
    BY <2>1 DEF finalizar_proceso
  <2>2. CASE doYield(p) \/ doIO(p) \/ do_f_truncate(p)
    BY <2>2 DEF doYield, doIO, do_f_truncate, BloquearEnHilo
  <2>3. CASE doWait(p)
    BY <2>3 DEF doWait
  <2>4. CASE doSignal(p)
    BY <2>4 DEF doSignal
  <2>5. CASE do_f_open(p)
    BY <2>5 DEF do_f_open
  <2>6. CASE do_f_close(p)
    BY <2>6, CierraLoSuyo
  <2>7. CASE do_f_read_write(p)
    <3>1. recibir_pcb_de_CPU(p, {"F_READ", "F_WRITE"}) /\ Op(p) \in {"F_READ", "F_WRITE"}
      BY <2>7 DEF do_f_read_write, Op, recibir_pcb_de_CPU
    <3>2. Arg(p) \in Archivos
      BY <3>1, InstruccionBienFormada DEF OpsDeArchivo, Op
    <3>3. open_files[p][Arg(p)] = 1
      BY <3>1, <3>2, EnInstruccion
    <3>4. vivo' = (open_files[p][Arg(p)] > 0)
      BY <2>7 DEF do_f_read_write
    <3>5. (open_files[p][Arg(p)] > 0) = TRUE
      BY <3>3
    <3> QED BY <3>4, <3>5, Zenon
  <2>8. CASE do_f_seek(p) \/ do_delete_segment(p) \/ do_create_segment(p)
    BY <2>8 DEF do_f_seek, do_delete_segment, do_create_segment
  <2> QED BY <1>1, <2>1, <2>2, <2>3, <2>4, <2>5, <2>6, <2>7, <2>8 DEF analizarMotivo
<1>2. CASE sts_esperar \/ sts_despachar \/ sts_agregar \/ pedir_fs \/ pedir_compactacion
  BY <1>2 DEF sts_esperar, sts_despachar, sts_agregar, pedir_fs, pedir_compactacion
<1>3. CASE fin_compactacion
  BY <1>3 DEF fin_compactacion
<1>4. CASE crear_pcb \/ (\E p \in Pids : Consola(p)) \/ long_term_scheduler
  BY <1>4 DEF crear_pcb, Consola, agregar_pcb_cola_nuevos, publicar_nuevo,
     long_term_scheduler, lts_esperar_nuevo, lts_esperar_grado, lts_admitir, lts_publicar
<1>5. CASE (\E p \in Pids : bloquear_pcb(p)) \/ publicar_despertado \/ bloquear_pcb_fs_r_w
  BY <1>5 DEF bloquear_pcb, publicar_despertado, bloquear_pcb_fs_r_w, fs_agregar,
     fs_publicar, fs_liberar
<1>6. CASE UNCHANGED vars
  BY <1>6 DEF vars
<1> QED BY <1>1, <1>2, <1>3, <1>4, <1>5, <1>6 DEF Next, short_term_scheduler

SinCompactar == sts \notin {"semFS_comp", "compactando"}

LEMMA SinCompactarPaso ==
  ASSUME SinCompactar, "COMPACTAR" \notin Respuestas, [Next]_vars
  PROVE  SinCompactar'
<1> USE DEF SinCompactar, vSts
<1>1. ASSUME NEW p \in Pids, analizarMotivo(p) PROVE SinCompactar'
  <2>1. CASE do_create_segment(p)
    <3>1. sts = "cpu" /\ (Seguir \/ doExit(p))
      BY <1>1, <2>1, EfectoMotivo, KernelAssumption DEF do_create_segment
    <3> QED BY <3>1 DEF Seguir, doExit
  <2>2. CASE ~do_create_segment(p)
    <3>0. sts = "cpu"
      BY <1>1, EfectoMotivo
    <3>1. CASE finalizar_proceso(p)
      BY <3>1 DEF finalizar_proceso, doExit
    <3>2. CASE doYield(p) \/ doIO(p) \/ do_f_truncate(p)
      BY <3>2 DEF doYield, doIO, do_f_truncate, BloquearEnHilo, Bloquear, Desalojar
    <3>3. CASE doWait(p) \/ doSignal(p)
      BY <3>3 DEF doWait, doSignal, Bloquear, Desalojar
    <3>4. CASE do_f_open(p)
      BY <3>0, <3>4 DEF do_f_open, Seguir, Bloquear
    <3>5. CASE do_f_close(p)
      BY <3>5 DEF do_f_close, Desalojar
    <3>6. CASE do_f_seek(p) \/ do_delete_segment(p)
      BY <3>0, <3>6 DEF do_f_seek, do_delete_segment, Seguir
    <3>7. CASE do_f_read_write(p)
      BY <3>7 DEF do_f_read_write
    <3> QED BY <1>1, <2>2, <3>1, <3>2, <3>3, <3>4, <3>5, <3>6, <3>7 DEF analizarMotivo
  <2> QED BY <2>1, <2>2
<1>2. CASE sts_esperar \/ sts_despachar \/ sts_agregar \/ pedir_fs
  BY <1>2 DEF sts_esperar, sts_despachar, sts_agregar, pedir_fs, Bloquear, Caer
<1>3. CASE pedir_compactacion \/ fin_compactacion
  BY <1>3 DEF pedir_compactacion, fin_compactacion
<1>4. CASE crear_pcb \/ (\E p \in Pids : Consola(p)) \/ long_term_scheduler
  BY <1>4 DEF crear_pcb, Consola, agregar_pcb_cola_nuevos, publicar_nuevo,
     long_term_scheduler, lts_esperar_nuevo, lts_esperar_grado, lts_admitir, lts_publicar, Caer
<1>5. CASE (\E p \in Pids : bloquear_pcb(p)) \/ publicar_despertado \/ bloquear_pcb_fs_r_w
  BY <1>5 DEF bloquear_pcb, publicar_despertado, bloquear_pcb_fs_r_w, fs_agregar,
     fs_publicar, fs_liberar
<1>6. CASE UNCHANGED vars
  BY <1>6 DEF vars
<1> QED BY <1>1, <1>2, <1>3, <1>4, <1>5, <1>6 DEF Next, short_term_scheduler

\* With programs that use and close the files they open, and a memory that
\* never asks for a compaction, no step dereferences a bad pointer. A file that
\* is not open and the search of buscar_pid are all that can bring it down:
\* pops and lookups of its queues are safe whatever the programs do.
THEOREM KernelEnPie ==
  ASSUME UsaLoQueAbre(Programas, Archivos),
         CierraTodo(Programas, Recursos, Archivos, TodasLasRespuestas),
         "COMPACTAR" \notin Respuestas
  PROVE  Spec => []NoSeCae
<1>1. Init => NoSeCae /\ SinCompactar
  BY DEF Init, NoSeCae, SinCompactar
<1>2. SinCompactar /\ [Next]_vars => SinCompactar'
  BY SinCompactarPaso
<1>3. TypeOK /\ Control /\ Manos /\ Sitios /\ ArchivosEnOrden /\ SinCompactar
        /\ (sts = "saca" => ready_queue # <<>>) /\ (lts = "saca" => new_queue # <<>>)
        /\ NoSeCae /\ [Next]_vars => NoSeCae'
  <2>1. SinCompactar => sts # "compactando"
    BY DEF SinCompactar
  <2> QED BY <2>1, NoSeCaePaso
<1> QED BY <1>1, <1>2, <1>3, ArchivosCorrectos, NuncaSacaDeVacia, NuncaAdmiteDeVacia,
           TiposCorrectos, SitiosCorrectos, PTL DEF Spec
=============================================================================
