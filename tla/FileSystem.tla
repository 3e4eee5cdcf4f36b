------------------------------ MODULE FileSystem ------------------------------
(***************************************************************************)
(* The blocks of the file system (src/fileSystem/src/fileSystem.c): the    *)
(* bitmap, the FCB of every file and its block of pointers, and            *)
(* F_TRUNCATE, which is what changes them. Contents of files are not here. *)
(*                                                                         *)
(* A thread serves each connection. The kernel opens a file for a process  *)
(* at a time, so two truncates of a file do not meet, but those of two     *)
(* files do (kernel.c:496-519 takes no semaphore). Bitmap and blocks are   *)
(* mapped files and FCBs are saved, so all of them outlive the process.    *)
(***************************************************************************)
EXTENDS Integers, FiniteSets, FiniteSetsExt

CONSTANTS
  Archivos,
  cant_bloques, tamanio_bloque,   \* superbloque.dat
  Tamanios,                       \* sizes a program truncates to, in bytes
  MaxTruncados, MaxCaidas         \* bounds: truncates, restarts in a behaviour

cpb == tamanio_bloque \div 4      \* cpb_get: pointers of 4 bytes

ASSUME FileSystemAssumption ==
  /\ IsFiniteSet(Archivos)
  /\ cant_bloques \in Nat \ {0} /\ MaxTruncados \in Nat /\ MaxCaidas \in Nat
  /\ tamanio_bloque \in Nat /\ tamanio_bloque >= 4
  /\ Tamanios \subseteq 0 .. (cpb + 1) * tamanio_bloque  \* what an FCB can point to

SinPunteros == [t \in 0 .. cpb - 1 |-> 0]
Libre == [pc |-> "libre"]

VARIABLES
  existe,   \* files with an FCB
  fcb,      \* the saved FCBs
  bitmap,   \* blocks whose bit is set
  disco,    \* what each block holds, read as pointers
  hilo,     \* per file, the thread that truncates it: pc and local variables
  sano,     \* history: see below
  exacto,   \* history: sano, and no restart has cut a truncate short
  truncados, caidas, vivo

\* sano: no two threads have been about to change bits at the same time, none has
\* written to a block it had freed and another had taken for its pointers, block 0
\* has not been handed out as a pointer (0 also means "none"), and no restart has
\* cut a reduction short.
vDisco == <<existe, fcb, bitmap, disco>>
vCotas == <<truncados, caidas>>
vars == <<vDisco, hilo, sano, exacto, vCotas, vivo>>

Init ==
  /\ existe = {}
  /\ fcb = [f \in Archivos |-> [tam |-> 0, directo |-> 0, indirecto |-> 0]]
  /\ bitmap = {} /\ disco = [b \in 0 .. cant_bloques - 1 |-> SinPunteros]
  /\ hilo = [f \in Archivos |-> Libre]
  /\ sano = TRUE /\ exacto = TRUE /\ truncados = 0 /\ caidas = 0 /\ vivo = TRUE

EnReposo == \A f \in Archivos : hilo[f] = Libre

\* What has been sane stays so only if ok holds of this step.
Juzgar(ok) == sano' = (sano /\ ok) /\ exacto' = (exacto /\ ok)

\* bitarray_set_bit and bitarray_clean_bit read, change and write a byte: no other
\* thread may be about to do the same.
SinCarrera(f) == \A g \in Archivos \ {f} : hilo[g].pc \notin {"asignar", "reducir"}

\* A bad pointer takes the process down.
Caer == vivo' = FALSE /\ UNCHANGED <<vDisco, hilo, sano, exacto, vCotas>>

-----------------------------------------------------------------------------
verificar_existencia_archivo(f) ==
  /\ f \notin existe
  /\ existe' = existe \cup {f}
  /\ UNCHANGED <<fcb, bitmap, disco, hilo, sano, exacto, vCotas, vivo>>

\* ceil of an integer division: rounded down.
Bloques(bytes) == bytes \div tamanio_bloque

\* Where a loop of n rounds goes after round i. The mutant is off by one.
Sigue_de_mas(i, n, pc) == IF i > n THEN "bloque" ELSE pc
Sigue(i, n, pc) == IF i = n THEN "bloque" ELSE pc

\* truncate_archivo, expand_block and reduce_block up to their loops: the FCB and
\* the pointers are read. A size equal to the current one changes nothing.
truncate_archivo(f) ==
  \E cant \in Tamanios :
    LET c == fcb[f]
        crece == cant >= c.tam
        n == Bloques(IF crece THEN cant - c.tam ELSE c.tam - cant) IN
    /\ f \in existe /\ hilo[f] = Libre /\ cant # c.tam
    /\ hilo' = [hilo EXCEPT ![f] =
         [pc |-> Sigue(0, n, IF crece THEN "probar" ELSE "reducir"),
          crece |-> crece, cant |-> cant, n |-> n, i |-> 0,
          j |-> IF crece THEN 0 ELSE cpb - 1, t |-> 0, tam |-> c.tam,
          directo |-> c.directo, indirecto |-> c.indirecto, puntero |-> c.indirecto,
          punteros |-> IF c.indirecto = 0 THEN SinPunteros ELSE disco[c.indirecto]]]
    /\ truncados < MaxTruncados /\ truncados' = truncados + 1
    /\ UNCHANGED <<vDisco, sano, exacto, caidas, vivo>>

-----------------------------------------------------------------------------
(* expand_block: a clear bit is looked for, then set. *)

\* The first clear bit from j on: the bitmap has no end to the loop.
bitarray_test_bit(f) ==
  LET h == hilo[f] IN
  /\ h.pc = "probar"
  /\ hilo' = [hilo EXCEPT ![f] =
       [h EXCEPT !.pc = "asignar",
                 !.j = Min((h.j .. h.j + Cardinality(bitmap)) \ bitmap)]]
  /\ UNCHANGED <<vDisco, sano, exacto, vCotas, vivo>>

\* Mutant: the bit stays clear.
bitarray_set_bit_no(bits, j) == bits
bitarray_set_bit(bits, j) == bits \cup {j}

\* The block of pointers is not one the file grows by (i--). The mutant counts it.
CuentaBloquePunteros_si == 1
CuentaBloquePunteros == 0

\* Block j becomes the first block, the block of pointers, or the first pointer
\* that is 0 from position t on; past the end of the array the stack is damaged.
asignar(f) ==
  LET h == hilo[f]
      primero == h.directo = 0 /\ h.tam = 0
      vacios == {t \in h.t .. cpb - 1 : h.punteros[t] = 0}
      Pasar(g, cuenta) ==
        hilo' = [hilo EXCEPT ![f] =
          [g EXCEPT !.i = @ + cuenta, !.j = @ + 1, !.pc = Sigue(h.i + cuenta, h.n, "probar")]] IN
  /\ h.pc = "asignar"
  /\ IF ~primero /\ h.indirecto # 0 /\ vacios = {} THEN Caer
     ELSE /\ bitmap' = bitarray_set_bit(bitmap, h.j)
          /\ IF primero THEN Pasar([h EXCEPT !.directo = h.j, !.tam = 1], 1)
             ELSE IF h.indirecto = 0
             THEN Pasar([h EXCEPT !.indirecto = h.j, !.puntero = h.j], CuentaBloquePunteros)
             ELSE Pasar([h EXCEPT !.punteros[Min(vacios)] = h.j, !.t = Min(vacios)], 1)
          /\ Juzgar(SinCarrera(f) /\ (primero \/ h.j # 0))
          /\ UNCHANGED <<existe, fcb, disco, vCotas, vivo>>

-----------------------------------------------------------------------------
(* reduce_block. *)

\* Bits cleared with the pointer at position k; the mutant forgets the block of
\* pointers when it goes with the last pointer.
Liberados_sin_bloque_punteros(h, k) == {h.punteros[k]}
Liberados(h, k) == {h.punteros[k]} \cup IF k = 0 THEN {h.puntero} ELSE {}

\* One round: the last pointer goes, or the first block when no pointer is left.
\* The loop also reads punteros[-1], whatever it holds with the same outcome.
reducir(f) ==
  LET h == hilo[f]
      k == Max({-1} \cup {x \in 0 .. h.j : h.punteros[x] # 0}) IN
  /\ h.pc = "reducir"
  /\ IF k # -1
     THEN /\ bitmap' = bitmap \ Liberados(h, k)
          /\ hilo' = [hilo EXCEPT ![f] =
               [h EXCEPT !.punteros[k] = 0, !.j = k, !.i = @ + 1,
                         !.indirecto = IF k = 0 THEN 0 ELSE @,
                         !.pc = Sigue(h.i + 1, h.n, "reducir")]]
     ELSE /\ bitmap' = bitmap \ {h.directo}
          /\ hilo' = [hilo EXCEPT ![f] = [h EXCEPT !.directo = 0, !.j = -1, !.pc = "bloque"]]
  /\ Juzgar(SinCarrera(f))
  /\ UNCHANGED <<existe, fcb, disco, vCotas, vivo>>

-----------------------------------------------------------------------------
(* The end of both: the pointers, the FCB, and the FCB again with its size. *)

EsDePunterosDeOtro(f, b) ==
  \E g \in Archivos \ {f} :
    b = fcb[g].indirecto \/ (hilo[g] # Libre /\ hilo[g].indirecto = b)

\* expand_block writes when there is a block of pointers, reduce_block always,
\* to the block of pointers it may just have freed or, without one, to block 0.
\* A block past the end of the mapped file cannot be written.
copiar_punteros(f) ==
  LET h == hilo[f] IN
  /\ h.pc = "bloque"
  /\ IF h.puntero >= cant_bloques THEN Caer
     ELSE /\ disco' = IF h.crece /\ h.puntero = 0 THEN disco
                      ELSE [disco EXCEPT ![h.puntero] = h.punteros]
          /\ hilo' = [hilo EXCEPT ![f].pc = "fcb"]
          /\ Juzgar(h.crece \/ h.puntero = h.indirecto \/ ~EsDePunterosDeOtro(f, h.puntero))
          /\ UNCHANGED <<existe, fcb, bitmap, vCotas, vivo>>

config_save(f) ==
  LET h == hilo[f] IN
  /\ h.pc = "fcb"
  /\ fcb' = [fcb EXCEPT ![f].directo = h.directo, ![f].indirecto = h.indirecto]
  /\ hilo' = [hilo EXCEPT ![f].pc = "tamanio"]
  /\ UNCHANGED <<existe, bitmap, disco, sano, exacto, vCotas, vivo>>

guardar_tamanio(f) ==
  /\ hilo[f].pc = "tamanio"
  /\ fcb' = [fcb EXCEPT ![f].tam = hilo[f].cant]
  /\ hilo' = [hilo EXCEPT ![f] = Libre]
  /\ UNCHANGED <<existe, bitmap, disco, sano, exacto, vCotas, vivo>>

-----------------------------------------------------------------------------
\* The process ends with truncates under way and starts again: init_fileSystem
\* maps the same bitmap and blocks and finds the FCBs as they were last saved.
init_fileSystem ==
  LET activos == {f \in Archivos : hilo[f] # Libre} IN
  /\ activos # {} /\ caidas < MaxCaidas
  /\ caidas' = caidas + 1
  /\ hilo' = [f \in Archivos |-> Libre]
  /\ exacto' = FALSE
  /\ sano' = (sano /\ \A f \in activos : hilo[f].crece)
  /\ UNCHANGED <<vDisco, truncados, vivo>>

Next ==
  /\ vivo
  /\ \/ \E f \in Archivos : verificar_existencia_archivo(f)
     \/ \E f \in Archivos : truncate_archivo(f)
     \/ \E f \in Archivos : bitarray_test_bit(f)
     \/ \E f \in Archivos : asignar(f)
     \/ \E f \in Archivos : reducir(f)
     \/ \E f \in Archivos : copiar_punteros(f)
     \/ \E f \in Archivos : config_save(f)
     \/ \E f \in Archivos : guardar_tamanio(f)
     \/ init_fileSystem

Spec == Init /\ [][Next]_vars

-----------------------------------------------------------------------------
(* Properties. *)

Punteros == [0 .. cpb - 1 -> Nat]

\* The programs truncate to whole numbers of blocks.
BloquesEnteros == \A cant \in Tamanios : cant % tamanio_bloque = 0

\* Saved FCBs and blocks hold sizes and block numbers, and no loop passes its bound.
TypeOK ==
  /\ existe \subseteq Archivos /\ bitmap \subseteq Nat /\ vivo \in BOOLEAN
  /\ sano \in BOOLEAN /\ exacto \in BOOLEAN /\ caidas \in 0 .. MaxCaidas
  /\ truncados \in 0 .. MaxTruncados
  /\ fcb \in [Archivos -> [tam : Tamanios \cup {0}, directo : Nat, indirecto : Nat]]
  /\ disco \in [0 .. cant_bloques - 1 -> Punteros]
  /\ \A f \in Archivos :
       hilo[f] # Libre =>
         /\ hilo[f].pc \in {"probar", "asignar", "reducir", "bloque", "fcb", "tamanio"}
         /\ hilo[f].i \in 0 .. hilo[f].n
         /\ hilo[f].punteros \in Punteros

\* Pointers of a file, as read_archivo and write_archivo read them.
PosicionesUsadas(f) ==
  IF fcb[f].indirecto = 0 THEN {}
  ELSE {t \in 0 .. cpb - 1 : disco[fcb[f].indirecto][t] # 0}

\* How many times a file refers to block b.
UsosDe(f, b) ==
    (IF fcb[f].directo = b /\ (b # 0 \/ fcb[f].tam # 0) THEN 1 ELSE 0)
  + (IF fcb[f].indirecto = b /\ b # 0 THEN 1 ELSE 0)
  + Cardinality({t \in PosicionesUsadas(f) : disco[fcb[f].indirecto][t] = b})
Usos(b) == MapThenSumSet(LAMBDA f : UsosDe(f, b), Archivos)

\* A block belongs to one file and to one place in it, and its bit is set so that
\* expand_block hands it to nobody else. A restart in the middle of an expansion
\* does not break this: bits are set before the FCB is saved.
SinCompartir ==
  sano /\ EnReposo =>
    \A b \in 0 .. cant_bloques - 1 : Usos(b) <= 1 /\ (Usos(b) = 1 => b \in bitmap)

\* A set bit is a block some file owns: truncates up and down leave no block that
\* can neither be used nor handed out.
SinFugas == exacto /\ EnReposo => \A b \in bitmap : Usos(b) = 1

\* Every byte of a file has a block: the size the FCB is saved with and the
\* blocks expand_block and reduce_block leave agree.
TamanioCubierto ==
  exacto /\ EnReposo =>
    \A f \in Archivos :
      fcb[f].tam # 0 => (1 + Cardinality(PosicionesUsadas(f))) * tamanio_bloque >= fcb[f].tam

\* A disk with room for the largest size of every file never has a block asked
\* for beyond its end, where bitarray_test_bit goes on looking.
EntraEnDisco ==
  exacto /\ Cardinality(Archivos) * (cpb + 2) <= cant_bloques =>
    bitmap \subseteq 0 .. cant_bloques - 1

\* fileSystem.c:545 and :560: the block of pointers is assigned once and a pointer
\* goes to a free position. So, when truncates come one after the other and nothing
\* restarts, every set bit is a block of a file, block 0 among them.
BloqueCeroConDuenio ==
  EnReposo => \A b \in bitmap : Usos(b) = 1
=============================================================================
