--------------------------- MODULE FileSystemProofs ---------------------------
(***************************************************************************)
(* Theorems about FileSystem: its types, that no block has two owners,     *)
(* that none is lost, that a file has the blocks its size asks for, and    *)
(* that a disk with room for all of them is not searched past its end;     *)
(* about Accesos: that reads and writes find every byte in its place; and  *)
(* about Valores: that a value survives the way to a file and back.        *)
(*                                                                         *)
(* A file has a place for its first block, one for its block of pointers   *)
(* and one for each pointer. Everything follows from what a step does to   *)
(* the block in each place, read in the FCB or in the thread of a truncate *)
(* under way.                                                              *)
(***************************************************************************)
EXTENDS Valores, Sumas

Lugares == -2 .. cpb - 1        \* -2 first block, -1 block of pointers, t pointer t

\* The block in a place, -1 for none.
BloqueEn(tiene, directo, indirecto, punteros, l) ==
  IF l = -2 THEN (IF tiene THEN directo ELSE -1)
  ELSE IF indirecto = 0 THEN -1
  ELSE IF l = -1 THEN indirecto
  ELSE IF punteros[l] = 0 THEN -1 ELSE punteros[l]

BloqueFCB(f, l) ==
  BloqueEn(fcb[f].directo # 0 \/ fcb[f].tam # 0, fcb[f].directo, fcb[f].indirecto,
           disco[fcb[f].indirecto], l)
BloqueDe(h, l) ==
  BloqueEn((h.directo # 0 \/ h.tam # 0) /\ h.j # -1, h.directo, h.indirecto, h.punteros, l)
Bloque(f, l) == IF hilo[f] = Libre THEN BloqueFCB(f, l) ELSE BloqueDe(hilo[f], l)

-----------------------------------------------------------------------------
(* Integer division and the constants. *)

LEMMA Division ==
  ASSUME NEW a \in Nat, NEW b \in Nat \ {0}
  PROVE  a \div b \in Nat /\ a = b * (a \div b) + (a % b) /\ a % b \in 0 .. b - 1
OBVIOUS

LEMMA DivisionExacta ==
  ASSUME NEW a \in Nat, NEW c \in Nat, NEW b \in Nat \ {0}, a % b = 0, c % b = 0
  PROVE  /\ (a - c) \div b = (a \div b) - (c \div b)
         /\ a > c => a \div b > c \div b
<1>1. a = b * (a \div b) /\ c = b * (c \div b) /\ a \div b \in Int /\ c \div b \in Int
  BY Division
<1>2. a - c = b * ((a \div b) - (c \div b))
  BY <1>1
<1>3. \A q \in Int : (b * q) \div b = q
  OBVIOUS
<1>4. \A p, q \in Int : b * p > b * q => p > q
  OBVIOUS
<1> QED BY <1>1, <1>2, <1>3, <1>4

LEMMA Constantes ==
  /\ cpb \in Nat \ {0} /\ tamanio_bloque \in Nat \ {0} /\ cant_bloques \in Nat \ {0}
  /\ Tamanios \subseteq Nat /\ SinPunteros \in Punteros
  /\ IsFiniteSet(Lugares) /\ Cardinality(Lugares) = cpb + 2
<1>1. tamanio_bloque \in Nat \ {0} /\ cant_bloques \in Nat \ {0} /\ Tamanios \subseteq Nat
  BY FileSystemAssumption
<1>2. cpb \in Nat \ {0}
  BY FileSystemAssumption DEF cpb
<1>3. SinPunteros \in Punteros
  BY DEF SinPunteros, Punteros
<1>4. IsFiniteSet(Lugares) /\ Cardinality(Lugares) = cpb + 2
  BY <1>2, FS_Interval DEF Lugares
<1> QED BY <1>1, <1>2, <1>3, <1>4

LEMMA BloquesSon ==
  ASSUME NEW a \in Nat PROVE Bloques(a) \in Nat /\ tamanio_bloque * Bloques(a) <= a
<1>1. tamanio_bloque \in Nat \ {0}
  BY Constantes
<1>2. /\ a \div tamanio_bloque \in Nat
      /\ a = tamanio_bloque * (a \div tamanio_bloque) + (a % tamanio_bloque)
      /\ a % tamanio_bloque \in 0 .. tamanio_bloque - 1
  BY <1>1, Division
<1>3. \A x, y, z \in Int : x = y + z /\ z >= 0 => y <= x
  OBVIOUS
<1>4. a % tamanio_bloque \in Nat
  BY <1>1, <1>2
<1> QED BY <1>1, <1>2, <1>3, <1>4 DEF Bloques

\* Sizes are whole numbers of blocks, as in the programs of src/consola/config.
LEMMA BloquesExactos ==
  ASSUME BloquesEnteros, NEW a \in Tamanios \cup {0}, NEW c \in Tamanios \cup {0}
  PROVE  /\ Bloques(a) \in Nat /\ a = tamanio_bloque * Bloques(a)
         /\ Bloques(a - c) = Bloques(a) - Bloques(c)
         /\ a > c => Bloques(a) > Bloques(c)
<1>1. a \in Nat /\ c \in Nat /\ tamanio_bloque \in Nat \ {0}
  BY Constantes
<1>2. a % tamanio_bloque = 0 /\ c % tamanio_bloque = 0
  BY <1>1 DEF BloquesEnteros
<1>3. /\ (a - c) \div tamanio_bloque = (a \div tamanio_bloque) - (c \div tamanio_bloque)
      /\ a > c => a \div tamanio_bloque > c \div tamanio_bloque
  BY <1>1, <1>2, DivisionExacta
<1>4. /\ a \div tamanio_bloque \in Nat
      /\ a = tamanio_bloque * (a \div tamanio_bloque) + (a % tamanio_bloque)
  BY <1>1, Division
<1>5. a \div tamanio_bloque \in Nat /\ a = tamanio_bloque * (a \div tamanio_bloque)
  BY <1>1, <1>2, <1>4
<1> QED BY <1>3, <1>5 DEF Bloques

-----------------------------------------------------------------------------
(* The bits of the bitmap that are clear. *)

\* A finite set of bits has a clear one among any that are more than it has.
LEMMA HayLibre ==
  ASSUME NEW B \in SUBSET Nat, IsFiniteSet(B), NEW j \in Nat
  PROVE  LET S == (j .. j + Cardinality(B)) \ B IN
         /\ Min(S) \in Nat /\ Min(S) >= j /\ Min(S) \notin B
         /\ \A x \in j .. Min(S) - 1 : x \in B
<1> DEFINE I == j .. j + Cardinality(B)
           S == I \ B
<1>1. Cardinality(B) \in Nat
  BY FS_CardinalityType
<1>2. IsFiniteSet(I) /\ Cardinality(I) = Cardinality(B) + 1
  BY <1>1, FS_Interval, SMTT(30)
<1>3. IsFiniteSet(S) /\ S \in SUBSET Int
  <2>1. IsFiniteSet(S)
    <3> HIDE DEF I
    <3> QED BY <1>2, FS_Difference
  <2> QED BY <2>1
<1>4. S # {}
  <2> SUFFICES ASSUME I \subseteq B PROVE FALSE
    OBVIOUS
  <2>1. Cardinality(I) <= Cardinality(B)
    <3> HIDE DEF I
    <3> QED BY FS_Subset
  <2> HIDE DEF I
  <2> QED BY <1>1, <1>2, <2>1
<1>5. Min(S) \in S /\ \A y \in S : Min(S) <= y
  <2> HIDE DEF S
  <2> QED BY <1>3, <1>4, MinimoDe
<1> HIDE DEF S
<1>6. \A x \in j .. Min(S) - 1 : x \in I
  BY <1>1, <1>5 DEF S
<1>7. \A x \in j .. Min(S) - 1 : x \in B
  <2> SUFFICES ASSUME NEW x \in j .. Min(S) - 1, x \notin B PROVE FALSE
    OBVIOUS
  <2>1. x \in S
    BY <1>6 DEF S
  <2>2. Min(S) \in Int /\ x \in Int
    BY <1>5 DEF S
  <2> QED BY <1>5, <2>1, <2>2
<1> QED BY <1>1, <1>5, <1>7 DEF S

-----------------------------------------------------------------------------
(* Types. The local variables of a truncate, and what ties them to its     *)
(* program counter and to the FCB c it started from.                       *)

Pasos == {"probar", "asignar", "reducir", "bloque", "fcb", "tamanio"}
Hilos == [pc : Pasos, crece : BOOLEAN, cant : Tamanios, n : Nat, i : Nat, j : Int, t : Nat,
          tam : Nat, directo : Nat, indirecto : Nat, puntero : Nat, punteros : Punteros]
FCBs == [tam : Tamanios \cup {0}, directo : Nat, indirecto : Nat]

FormaDe(h, c) ==
  /\ h.i <= h.n /\ (h.pc \in {"probar", "asignar", "reducir"} => h.i < h.n)
  /\ h.pc \in {"probar", "asignar"} => h.crece
  /\ h.pc = "reducir" => ~h.crece
  /\ h.crece =>
       /\ h.j >= 0 /\ h.puntero = h.indirecto
       /\ h.cant > c.tam /\ h.n = Bloques(h.cant - c.tam)
  /\ ~h.crece =>
       /\ h.j \in -1 .. cpb - 1 /\ (h.j = -1 => h.pc # "reducir" /\ h.directo = 0)
       /\ h.tam = c.tam /\ h.cant < c.tam /\ h.n = Bloques(c.tam - h.cant)
       /\ h.indirecto \in {h.puntero, 0}
       /\ \A x \in 0 .. cpb - 1 : x > h.j => h.punteros[x] = 0
  /\ h.indirecto = 0 => h.punteros = SinPunteros
  /\ h.pc \in {"fcb", "tamanio"} => h.puntero < cant_bloques
  /\ h.pc = "tamanio" => c.directo = h.directo /\ c.indirecto = h.indirecto

Formas ==
  /\ hilo \in [Archivos -> {Libre} \cup Hilos] /\ IsFiniteSet(bitmap)
  /\ \A f \in Archivos :
       /\ fcb[f].indirecto < cant_bloques
       /\ hilo[f] # Libre => FormaDe(hilo[f], fcb[f])

Tipos == TypeOK /\ Formas

LEMMA LibreNoEsHilo == Libre \notin Hilos /\ Libre.pc = "libre" /\ "libre" \notin Pasos
BY DEF Libre, Hilos, Pasos

LEMMA CamposDe ==
  ASSUME NEW h \in Hilos
  PROVE  /\ h.pc \in Pasos /\ h.crece \in BOOLEAN /\ h.cant \in Tamanios /\ h.n \in Nat
         /\ h.i \in Nat /\ h.j \in Int /\ h.t \in Nat /\ h.tam \in Nat /\ h.directo \in Nat
         /\ h.indirecto \in Nat /\ h.puntero \in Nat /\ h.punteros \in Punteros
BY DEF Hilos

LEMMA CamposFCB ==
  ASSUME NEW c \in FCBs
  PROVE  c.tam \in Nat /\ c.tam \in Tamanios \cup {0} /\ c.directo \in Nat /\ c.indirecto \in Nat
<1>1. c.tam \in Tamanios \cup {0} /\ c.directo \in Nat /\ c.indirecto \in Nat
  BY DEF FCBs
<1>2. \A x \in Tamanios \cup {0} : x \in Nat
  BY Constantes
<1> QED BY <1>1, <1>2

LEMMA HiloNuevo ==
  ASSUME NEW pc \in Pasos, NEW crece \in BOOLEAN, NEW cant \in Tamanios, NEW n \in Nat,
         NEW j \in Int, NEW tam \in Nat, NEW directo \in Nat, NEW indirecto \in Nat,
         NEW punteros \in Punteros
  PROVE  [pc |-> pc, crece |-> crece, cant |-> cant, n |-> n, i |-> 0, j |-> j, t |-> 0,
          tam |-> tam, directo |-> directo, indirecto |-> indirecto, puntero |-> indirecto,
          punteros |-> punteros] \in Hilos
BY DEF Hilos

LEMMA HiloAvanza ==
  ASSUME NEW h \in Hilos, NEW i \in Nat, NEW j \in Int, NEW pc \in Pasos
  PROVE  [h EXCEPT !.i = i, !.j = j, !.pc = pc] \in Hilos
BY DEF Hilos

LEMMA TiposIniciales == Init => Tipos
<1> SUFFICES ASSUME Init PROVE Tipos
  OBVIOUS
<1>1. TypeOK
  BY FileSystemAssumption, Constantes DEF Init, TypeOK, Libre
<1>2. Formas
  BY FS_EmptySet, Constantes DEF Init, Formas
<1> QED BY <1>1, <1>2 DEF Tipos

\* A step that changes one truncate, and leaves the FCBs or changes that of its file.
LEMMA CambiaUno ==
  ASSUME Tipos, NEW f \in Archivos, NEW h \in {Libre} \cup Hilos, NEW c \in FCBs,
         hilo' = [hilo EXCEPT ![f] = h], fcb' = [fcb EXCEPT ![f] = c],
         c.indirecto < cant_bloques, h # Libre => FormaDe(h, c),
         bitmap' \subseteq Nat, IsFiniteSet(bitmap'),
         disco' \in [0 .. cant_bloques - 1 -> Punteros],
         existe' \subseteq Archivos, vivo' \in BOOLEAN, sano' \in BOOLEAN, exacto' \in BOOLEAN,
         caidas' \in 0 .. MaxCaidas, truncados' \in 0 .. MaxTruncados
  PROVE  Tipos'
<1>1. \A g \in Archivos : /\ hilo'[g] = IF g = f THEN h ELSE hilo[g]
                         /\ fcb'[g] = IF g = f THEN c ELSE fcb[g]
  BY DEF Tipos, TypeOK, Formas
<1>2. hilo' \in [Archivos -> {Libre} \cup Hilos] /\ fcb' \in [Archivos -> FCBs]
  BY DEF Tipos, TypeOK, Formas, FCBs
<1>3. \A g \in Archivos :
        /\ fcb'[g].indirecto < cant_bloques
        /\ hilo'[g] # Libre => FormaDe(hilo'[g], fcb'[g])
  BY <1>1 DEF Tipos, Formas
<1>4. Formas'
  BY <1>2, <1>3 DEF Formas
<1>5. ASSUME NEW g \in Archivos, hilo'[g] # Libre
      PROVE  /\ hilo'[g].pc \in Pasos /\ hilo'[g].i \in 0 .. hilo'[g].n
             /\ hilo'[g].punteros \in Punteros
  <2>1. hilo'[g] \in Hilos /\ FormaDe(hilo'[g], fcb'[g])
    BY <1>2, <1>3, <1>5
  <2>2. hilo'[g].i \in Nat /\ hilo'[g].n \in Nat /\ hilo'[g].i <= hilo'[g].n
    BY <2>1 DEF Hilos, FormaDe
  <2> QED BY <2>1, <2>2 DEF Hilos
<1>6. TypeOK'
  BY <1>2, <1>5 DEF TypeOK, Pasos, FCBs
<1> QED BY <1>4, <1>6 DEF Tipos

\* The same when the FCBs stay.
LEMMA CambiaHilo ==
  ASSUME Tipos, NEW f \in Archivos, NEW h \in Hilos,
         hilo' = [hilo EXCEPT ![f] = h], fcb' = fcb, FormaDe(h, fcb[f]),
         bitmap' \subseteq Nat, IsFiniteSet(bitmap'),
         disco' \in [0 .. cant_bloques - 1 -> Punteros],
         existe' = existe, vivo' = vivo, sano' \in BOOLEAN, exacto' \in BOOLEAN,
         caidas' = caidas, truncados' \in 0 .. MaxTruncados
  PROVE  Tipos'
<1>1. fcb[f] \in FCBs /\ fcb[f].indirecto < cant_bloques
  BY DEF Tipos, TypeOK, Formas, FCBs
<1>2. fcb' = [fcb EXCEPT ![f] = fcb[f]]
  BY DEF Tipos, TypeOK
<1>3. existe' \subseteq Archivos /\ vivo' \in BOOLEAN /\ caidas' \in 0 .. MaxCaidas
  BY DEF Tipos, TypeOK
<1> QED BY <1>1, <1>2, <1>3, CambiaUno

LEMMA DelHilo ==
  ASSUME Tipos, NEW f \in Archivos, hilo[f].pc \in Pasos
  PROVE  hilo[f] \in Hilos /\ hilo[f] # Libre /\ FormaDe(hilo[f], fcb[f])
         /\ fcb[f] \in FCBs /\ fcb[f].indirecto < cant_bloques
<1>1. hilo[f] # Libre
  BY LibreNoEsHilo
<1> QED BY <1>1 DEF Tipos, TypeOK, Formas, FCBs

-----------------------------------------------------------------------------
(* What each step of a truncate does to its thread, field by field. *)

LEMMA EfectoTruncar ==
  ASSUME Tipos, NEW f \in Archivos, truncate_archivo(f)
  PROVE  \E h \in Hilos :
           /\ hilo' = [hilo EXCEPT ![f] = h] /\ hilo[f] = Libre
           /\ FormaDe(h, fcb[f]) /\ h.i = 0 /\ h.cant # fcb[f].tam
           /\ h.pc = Sigue(0, h.n, IF h.crece THEN "probar" ELSE "reducir")
           /\ h.tam = fcb[f].tam /\ h.directo = fcb[f].directo /\ h.j # -1
           /\ h.indirecto = fcb[f].indirecto
           /\ h.indirecto # 0 => h.punteros = disco[h.indirecto]
           /\ h.crece => h.j = 0 /\ h.t = 0
<1> DEFINE c == fcb[f]
           ps == IF c.indirecto = 0 THEN SinPunteros ELSE disco[c.indirecto]
           Nuevo(cant, crece, n, j) ==
             [pc |-> Sigue(0, n, IF crece THEN "probar" ELSE "reducir"),
              crece |-> crece, cant |-> cant, n |-> n, i |-> 0, j |-> j, t |-> 0,
              tam |-> c.tam, directo |-> c.directo, indirecto |-> c.indirecto,
              puntero |-> c.indirecto, punteros |-> ps]
<1>1. PICK cant \in Tamanios : cant # c.tam /\ hilo[f] = Libre
         /\ hilo' = [hilo EXCEPT ![f] =
                       Nuevo(cant, cant >= c.tam,
                             Bloques(IF cant >= c.tam THEN cant - c.tam ELSE c.tam - cant),
                             IF cant >= c.tam THEN 0 ELSE cpb - 1)]
  BY DEF truncate_archivo
<1>2. c \in FCBs /\ c.indirecto < cant_bloques
  BY DEF Tipos, TypeOK, Formas, FCBs
<1>3. c.tam \in Nat /\ cant \in Nat /\ c.directo \in Nat /\ c.indirecto \in Nat
  <2>1. cant \in Nat
    BY Constantes
  <2> HIDE DEF c
  <2> QED BY <1>2, <2>1, CamposFCB
<1>4. ps \in Punteros
  <2>1. c.indirecto \in 0 .. cant_bloques - 1
    BY <1>2, <1>3, Constantes
  <2> HIDE DEF c
  <2> QED BY <2>1, Constantes DEF Tipos, TypeOK
<1>5. ASSUME NEW crece \in BOOLEAN, NEW n \in Nat, NEW j \in Int,
             hilo' = [hilo EXCEPT ![f] = Nuevo(cant, crece, n, j)],
             FormaDe(Nuevo(cant, crece, n, j), c), j # -1, crece => j = 0
      PROVE  \E h \in Hilos :
           /\ hilo' = [hilo EXCEPT ![f] = h] /\ hilo[f] = Libre
           /\ FormaDe(h, fcb[f]) /\ h.i = 0 /\ h.cant # fcb[f].tam
           /\ h.pc = Sigue(0, h.n, IF h.crece THEN "probar" ELSE "reducir")
           /\ h.tam = fcb[f].tam /\ h.directo = fcb[f].directo /\ h.j # -1
           /\ h.indirecto = fcb[f].indirecto
           /\ h.indirecto # 0 => h.punteros = disco[h.indirecto]
           /\ h.crece => h.j = 0 /\ h.t = 0
  <2> DEFINE h == Nuevo(cant, crece, n, j)
  <2>1. Sigue(0, n, IF crece THEN "probar" ELSE "reducir") \in Pasos
    BY DEF Pasos, Sigue
  <2>2. h \in Hilos
    <3> HIDE DEF c, ps
    <3> QED BY <1>3, <1>4, <2>1, HiloNuevo
  <2>3. /\ h.i = 0 /\ h.cant # c.tam /\ h.tam = c.tam /\ h.directo = c.directo /\ h.j # -1
        /\ h.indirecto = c.indirecto /\ (h.crece => h.j = 0 /\ h.t = 0)
        /\ h.pc = Sigue(0, h.n, IF h.crece THEN "probar" ELSE "reducir")
    <3> HIDE DEF c, ps
    <3> QED BY <1>1, <1>5
  <2>4. h.indirecto # 0 => h.punteros = disco[h.indirecto]
    OBVIOUS
  <2> HIDE DEF Nuevo
  <2> QED BY <1>1, <1>5, <2>2, <2>3, <2>4
<1>6. CASE cant >= c.tam
  <2>1. Bloques(cant - c.tam) \in Nat
    BY <1>3, <1>6, BloquesSon
  <2>2. hilo' = [hilo EXCEPT ![f] = Nuevo(cant, TRUE, Bloques(cant - c.tam), 0)]
    <3>1. (cant >= c.tam) = TRUE
      BY <1>6
    <3> HIDE DEF Nuevo, c
    <3> QED BY <1>1, <3>1
  <2>3. FormaDe(Nuevo(cant, TRUE, Bloques(cant - c.tam), 0), c)
    <3> DEFINE n == Bloques(cant - c.tam)
    <3> HIDE DEF c, ps, n
    <3>1. cant > c.tam
      BY <1>1, <1>3, <1>6
    <3>2. c.indirecto = 0 => ps = SinPunteros
      BY DEF ps
    <3> QED BY <1>3, <2>1, <3>1, <3>2 DEF FormaDe, Sigue, n
  <2>4. TRUE \in BOOLEAN /\ 0 \in Int /\ 0 # -1
    OBVIOUS
  <2> HIDE DEF Nuevo, c
  <2> QED BY <1>5, <2>1, <2>2, <2>3, <2>4, Zenon
<1>7. CASE ~(cant >= c.tam)
  <2>1. Bloques(c.tam - cant) \in Nat /\ cpb - 1 \in Int /\ cpb - 1 # -1
    BY <1>3, <1>7, BloquesSon, Constantes
  <2>2. hilo' = [hilo EXCEPT ![f] = Nuevo(cant, FALSE, Bloques(c.tam - cant), cpb - 1)]
    <3>1. (cant >= c.tam) = FALSE
      BY <1>7
    <3> HIDE DEF Nuevo, c
    <3> QED BY <1>1, <3>1
  <2>3. FormaDe(Nuevo(cant, FALSE, Bloques(c.tam - cant), cpb - 1), c)
    <3> DEFINE n == Bloques(c.tam - cant)
    <3> HIDE DEF c, ps, n
    <3>1. cant < c.tam /\ cpb \in Nat /\ cpb > 0
      BY <1>1, <1>3, <1>7, Constantes
    <3>2. c.indirecto = 0 => ps = SinPunteros
      BY DEF ps
    <3> QED BY <1>3, <2>1, <3>1, <3>2 DEF FormaDe, Sigue, n
  <2> HIDE DEF Nuevo, c
  <2> QED BY <1>5, <2>1, <2>2, <2>3
<1> QED BY <1>6, <1>7

LEMMA EfectoProbar ==
  ASSUME Tipos, NEW f \in Archivos, bitarray_test_bit(f)
  PROVE  \E h \in Hilos :
           /\ hilo' = [hilo EXCEPT ![f] = h] /\ FormaDe(h, fcb[f])
           /\ hilo[f].pc = "probar" /\ h.pc = "asignar"
           /\ h.j >= hilo[f].j /\ h.j \notin bitmap
           /\ \A x \in hilo[f].j .. h.j - 1 : x \in bitmap
           /\ h = [hilo[f] EXCEPT !.pc = "asignar", !.j = h.j]
<1> DEFINE h == hilo[f]
           j == Min((h.j .. h.j + Cardinality(bitmap)) \ bitmap)
           h1 == [h EXCEPT !.pc = "asignar", !.j = j]
<1>1. h.pc = "probar" /\ hilo' = [hilo EXCEPT ![f] = h1]
  BY DEF bitarray_test_bit
<1>2. h \in Hilos /\ FormaDe(h, fcb[f])
  BY <1>1, DelHilo DEF Pasos
<1>3. h.j \in Nat /\ bitmap \in SUBSET Nat /\ IsFiniteSet(bitmap) /\ h.crece
  BY <1>1, <1>2 DEF FormaDe, Hilos, Tipos, TypeOK, Formas
<1> HIDE DEF h
<1>4. j \in Nat /\ j >= h.j /\ j \notin bitmap /\ \A x \in h.j .. j - 1 : x \in bitmap
  BY <1>3, HayLibre
<1> HIDE DEF j
<1>5. h1 \in Hilos
  <2>1. "asignar" \in Pasos /\ j \in Int
    BY <1>4 DEF Pasos
  <2> QED BY <1>2, <2>1 DEF Hilos
<1>6. h1.pc = "asignar" /\ h1.j = j
  BY <1>2 DEF Hilos
<1>7. FormaDe(h1, fcb[f])
  BY <1>1, <1>2, <1>3, <1>4 DEF FormaDe, Hilos
<1> QED BY <1>1, <1>4, <1>5, <1>6, <1>7 DEF h

\* The three places a block may be assigned to: what becomes of thread h.
EnPrimero(h, h1) ==
  /\ h.directo = 0 /\ h.tam = 0 /\ h1.directo = h.j /\ h1.tam = 1
  /\ h1.indirecto = h.indirecto /\ h1.punteros = h.punteros /\ h1.i = h.i + 1
  /\ h1.t = h.t
EnIndirecto(h, h1) ==
  /\ h1.directo = h.directo /\ h1.tam = h.tam /\ (h.directo # 0 \/ h.tam # 0)
  /\ h.indirecto = 0 /\ h1.indirecto = h.j /\ h1.punteros = SinPunteros /\ h1.i = h.i
  /\ h1.t = h.t
EnPuntero(h, h1) ==
  /\ h1.directo = h.directo /\ h1.tam = h.tam /\ (h.directo # 0 \/ h.tam # 0)
  /\ h.indirecto # 0 /\ h1.indirecto = h.indirecto /\ h1.i = h.i + 1
  /\ \E k \in 0 .. cpb - 1 :
       /\ h.punteros[k] = 0 /\ h1.punteros = [h.punteros EXCEPT ![k] = h.j]
       /\ h1.t = k /\ \A s \in 0 .. k - 1 : s >= h.t => h.punteros[s] # 0

LEMMA EfectoAsignar ==
  ASSUME Tipos, NEW f \in Archivos, asignar(f), vivo' = vivo, vivo
  PROVE  \E h \in Hilos :
           /\ hilo' = [hilo EXCEPT ![f] = h] /\ FormaDe(h, fcb[f])
           /\ hilo[f].pc = "asignar" /\ bitmap' = bitmap \cup {hilo[f].j}
           /\ h.crece /\ h.cant = hilo[f].cant /\ h.n = hilo[f].n /\ h.j = hilo[f].j + 1
           /\ h.pc = Sigue(h.i, h.n, "probar")
           /\ EnPrimero(hilo[f], h) \/ EnIndirecto(hilo[f], h) \/ EnPuntero(hilo[f], h)
           /\ sano' => EnPrimero(hilo[f], h) \/ hilo[f].j # 0
<1> DEFINE h == hilo[f]
           primero == h.directo = 0 /\ h.tam = 0
           vacios == {t \in h.t .. cpb - 1 : h.punteros[t] = 0}
           Hacer(g, cuenta) ==
             [g EXCEPT !.i = @ + cuenta, !.j = @ + 1, !.pc = Sigue(h.i + cuenta, h.n, "probar")]
           A == [h EXCEPT !.directo = h.j, !.tam = 1]
           B1 == [h EXCEPT !.indirecto = h.j, !.puntero = h.j]
           C == [h EXCEPT !.punteros[Min(vacios)] = h.j, !.t = Min(vacios)]
<1>1. h.pc = "asignar"
  BY DEF asignar
<1>2. h \in Hilos /\ FormaDe(h, fcb[f])
  BY <1>1, DelHilo DEF Pasos
<1>3. /\ primero \/ h.indirecto = 0 \/ vacios # {}
      /\ bitmap' = bitmap \cup {h.j}
      /\ IF primero THEN hilo' = [hilo EXCEPT ![f] = Hacer(A, 1)]
         ELSE IF h.indirecto = 0 THEN hilo' = [hilo EXCEPT ![f] = Hacer(B1, 0)]
         ELSE hilo' = [hilo EXCEPT ![f] = Hacer(C, 1)]
      /\ sano' => primero \/ h.j # 0
  BY DEF asignar, Caer, bitarray_set_bit, CuentaBloquePunteros, Juzgar
<1> HIDE DEF h
<1>4. /\ h.crece /\ h.j \in Nat /\ h.i \in Nat /\ h.n \in Nat /\ h.i < h.n /\ h.t \in Nat
      /\ h.directo \in Nat /\ h.tam \in Nat /\ h.indirecto \in Nat /\ h.punteros \in Punteros
  BY <1>1, <1>2 DEF FormaDe, Hilos
<1>5. CASE primero
  <2> DEFINE h1 == Hacer(A, 1)
  <2>1. h1 \in Hilos
    <3>1. Sigue(h.i + 1, h.n, "probar") \in Pasos
      BY DEF Pasos, Sigue
    <3>2. A \in Hilos
      BY <1>2, <1>4 DEF Hilos
    <3> HIDE DEF A
    <3>3. A.i \in Nat /\ A.j \in Int
      BY <3>2, CamposDe
    <3>4. A.i + 1 \in Nat /\ A.j + 1 \in Int
      BY <3>3
    <3> QED BY <3>1, <3>2, <3>4, HiloAvanza
  <2>2. FormaDe(h1, fcb[f])
    BY <1>1, <1>2, <1>4 DEF FormaDe, Hilos, Sigue
  <2>3. /\ h1.crece /\ h1.cant = h.cant /\ h1.n = h.n /\ h1.j = h.j + 1 /\ h1.directo = h.j
        /\ h1.pc = Sigue(h1.i, h1.n, "probar") /\ h1.tam = 1
        /\ h1.indirecto = h.indirecto /\ h1.punteros = h.punteros /\ h1.i = h.i + 1
        /\ h1.t = h.t
    BY <1>2, <1>4 DEF Hilos
  <2>4. hilo' = [hilo EXCEPT ![f] = h1]
    BY <1>3, <1>5
  <2>5. EnPrimero(h, h1)
    BY <1>5, <2>3 DEF EnPrimero
  <2> HIDE DEF h1, A, B1, C, Hacer, vacios
  <2> QED BY <1>1, <1>3, <2>1, <2>2, <2>3, <2>4, <2>5 DEF h
<1>6. CASE ~primero /\ h.indirecto = 0
  <2> DEFINE h1 == Hacer(B1, 0)
  <2>0. h.punteros = SinPunteros
    BY <1>2, <1>6 DEF FormaDe
  <2>1. h1 \in Hilos
    <3>1. Sigue(h.i + 0, h.n, "probar") \in Pasos
      BY DEF Pasos, Sigue
    <3>2. B1 \in Hilos
      BY <1>2, <1>4 DEF Hilos
    <3> HIDE DEF B1
    <3>3. B1.i \in Nat /\ B1.j \in Int
      BY <3>2, CamposDe
    <3>4. B1.i + 0 \in Nat /\ B1.j + 1 \in Int
      BY <3>3
    <3> QED BY <3>1, <3>2, <3>4, HiloAvanza
  <2>2. FormaDe(h1, fcb[f])
    BY <1>1, <1>2, <1>4, <1>6 DEF FormaDe, Hilos, Sigue
  <2>3. /\ h1.crece /\ h1.cant = h.cant /\ h1.n = h.n /\ h1.j = h.j + 1 /\ h1.directo = h.directo
        /\ h1.pc = Sigue(h1.i, h1.n, "probar") /\ h1.tam = h.tam
        /\ h1.indirecto = h.j /\ h1.punteros = SinPunteros /\ h1.i = h.i /\ h1.t = h.t
    BY <1>2, <1>4, <2>0 DEF Hilos
  <2>4. hilo' = [hilo EXCEPT ![f] = h1]
    BY <1>3, <1>6
  <2>5. EnIndirecto(h, h1) /\ (sano' => h.j # 0)
    <3> HIDE DEF h1, A, B1, C, Hacer, vacios
    <3> QED BY <1>3, <1>6, <2>3 DEF EnIndirecto
  <2> HIDE DEF h1, A, B1, C, Hacer, vacios
  <2> QED BY <1>1, <1>3, <2>1, <2>2, <2>3, <2>4, <2>5 DEF h
<1>7. CASE ~primero /\ h.indirecto # 0
  <2> DEFINE h1 == Hacer(C, 1)
             k == Min(vacios)
  <2>0. k \in 0 .. cpb - 1 /\ h.punteros[k] = 0 /\ \A s \in 0 .. k - 1 : s >= h.t => h.punteros[s] # 0
    <3>1. IsFiniteSet(h.t .. cpb - 1)
      <4>1. h.t \in Int /\ cpb - 1 \in Int
        BY <1>4, Constantes
      <4> QED BY <4>1, FS_Interval
    <3>2. vacios # {} /\ vacios \in SUBSET Int /\ IsFiniteSet(vacios)
      <4>1. vacios \in SUBSET (h.t .. cpb - 1) /\ vacios \in SUBSET Int
        OBVIOUS
      <4>2. vacios # {}
        <5> HIDE DEF vacios, Hacer, A, B1, C
        <5> QED BY <1>3, <1>7
      <4> HIDE DEF vacios
      <4> QED BY <3>1, <4>1, <4>2, FS_Subset
    <3>3. k \in vacios /\ \A y \in vacios : k <= y
      <4> HIDE DEF vacios
      <4> QED BY <3>2, MinimoDe
    <3>4. k \in 0 .. cpb - 1 /\ h.punteros[k] = 0
      BY <1>4, <3>3, Constantes
    <3>5. ASSUME NEW s \in 0 .. k - 1, s >= h.t, h.punteros[s] = 0 PROVE FALSE
      <4> HIDE DEF k
      <4>1. s \in Int /\ k \in Int /\ s < k /\ s <= cpb - 1
        BY <3>4, Constantes
      <4>2. s \in vacios
        BY <1>4, <3>5, <4>1, Constantes
      <4> QED BY <3>3, <4>1, <4>2
    <3> QED BY <3>4, <3>5
  <2> HIDE DEF vacios, k
  <2>1. [h.punteros EXCEPT ![k] = h.j] \in Punteros
    BY <1>4, <2>0 DEF Punteros
  <2>2. h1.punteros = [h.punteros EXCEPT ![k] = h.j]
    BY <1>2, <1>4 DEF Hilos, k
  <2>3. /\ h1.crece /\ h1.cant = h.cant /\ h1.n = h.n /\ h1.j = h.j + 1 /\ h1.directo = h.directo
        /\ h1.pc = Sigue(h1.i, h1.n, "probar") /\ h1.tam = h.tam /\ h1.puntero = h.puntero
        /\ h1.indirecto = h.indirecto /\ h1.i = h.i + 1 /\ h1.t = k
    BY <1>2, <1>4, <2>0 DEF Hilos, k
  <2>4. h1 \in Hilos
    <3>1. Sigue(h.i + 1, h.n, "probar") \in Pasos /\ k \in Nat
      BY <2>0, Constantes DEF Pasos, Sigue
    <3>2. C \in Hilos
      <4>1. C = [h EXCEPT !.punteros = [h.punteros EXCEPT ![k] = h.j], !.t = k]
        BY <1>2, <1>4 DEF Hilos, k
      <4> HIDE DEF C
      <4> QED BY <1>2, <2>1, <3>1, <4>1 DEF Hilos
    <3> HIDE DEF C
    <3>3. C.i \in Nat /\ C.j \in Int
      BY <3>2, CamposDe
    <3>4. C.i + 1 \in Nat /\ C.j + 1 \in Int
      BY <3>3
    <3> QED BY <3>1, <3>2, <3>4, HiloAvanza
  <2>5. hilo' = [hilo EXCEPT ![f] = h1]
    BY <1>3, <1>7
  <2> HIDE DEF h1
  <2>6. FormaDe(h1, fcb[f])
    BY <1>1, <1>2, <1>4, <1>7, <2>3 DEF FormaDe, Hilos, Sigue
  <2>7. EnPuntero(h, h1) /\ (sano' => h.j # 0)
    <3> HIDE DEF A, B1, C, Hacer
    <3> QED BY <1>3, <1>7, <2>0, <2>2, <2>3 DEF EnPuntero
  <2> HIDE DEF A, B1, C, Hacer
  <2> QED BY <1>1, <1>3, <2>3, <2>4, <2>5, <2>6, <2>7 DEF h
<1> QED BY <1>5, <1>6, <1>7

\* The two things a round of reduce_block may do.
QuitaPuntero(h, h1, k) ==
  /\ h.punteros[k] # 0 /\ h.indirecto # 0 /\ \A x \in 0 .. cpb - 1 : x > k => h.punteros[x] = 0
  /\ h1.punteros = [h.punteros EXCEPT ![k] = 0] /\ h1.j = k /\ h1.i = h.i + 1
  /\ h1.directo = h.directo /\ h1.indirecto = IF k = 0 THEN 0 ELSE h.indirecto
  /\ h1.pc = Sigue(h1.i, h.n, "reducir")
  /\ bitmap' = bitmap \ ({h.punteros[k]} \cup IF k = 0 THEN {h.indirecto} ELSE {})
QuitaPrimero(h, h1) ==
  /\ h.punteros = SinPunteros /\ h1.punteros = h.punteros /\ h1.j = -1 /\ h1.directo = 0
  /\ h1.indirecto = h.indirecto /\ h1.pc = "bloque" /\ bitmap' = bitmap \ {h.directo}

LEMMA EfectoReducir ==
  ASSUME Tipos, NEW f \in Archivos, reducir(f)
  PROVE  \E h \in Hilos :
           /\ hilo' = [hilo EXCEPT ![f] = h] /\ FormaDe(h, fcb[f])
           /\ hilo[f].pc = "reducir" /\ ~h.crece /\ h.cant = hilo[f].cant /\ h.n = hilo[f].n
           /\ h.tam = hilo[f].tam
           /\ QuitaPrimero(hilo[f], h) \/ \E k \in 0 .. cpb - 1 : QuitaPuntero(hilo[f], h, k)
<1> DEFINE h == hilo[f]
           usados == {x \in 0 .. h.j : h.punteros[x] # 0}
           k == Max({-1} \cup usados)
           A == [h EXCEPT !.punteros[k] = 0, !.j = k, !.i = @ + 1,
                          !.indirecto = IF k = 0 THEN 0 ELSE @,
                          !.pc = Sigue(h.i + 1, h.n, "reducir")]
           D == [h EXCEPT !.directo = 0, !.j = -1, !.pc = "bloque"]
<1>1. h.pc = "reducir"
  BY DEF reducir
<1>2. h \in Hilos /\ FormaDe(h, fcb[f])
  BY <1>1, DelHilo DEF Pasos
<1>3. IF k # -1 THEN bitmap' = bitmap \ Liberados(h, k) /\ hilo' = [hilo EXCEPT ![f] = A]
      ELSE bitmap' = bitmap \ {h.directo} /\ hilo' = [hilo EXCEPT ![f] = D]
  BY DEF reducir
<1> HIDE DEF h
<1>4. /\ ~h.crece /\ h.j \in 0 .. cpb - 1 /\ h.i \in Nat /\ h.n \in Nat /\ h.i < h.n
      /\ h.directo \in Nat /\ h.tam \in Nat /\ h.indirecto \in Nat /\ h.punteros \in Punteros
      /\ h.indirecto \in {h.puntero, 0} /\ h.puntero \in Nat
      /\ (h.indirecto = 0 => h.punteros = SinPunteros)
      /\ \A x \in 0 .. cpb - 1 : x > h.j => h.punteros[x] = 0
  <2>1. h.j \in Int /\ cpb \in Nat
    BY <1>2, CamposDe, Constantes
  <2> QED BY <1>1, <1>2, <2>1, CamposDe DEF FormaDe
<1>5. k \in {-1} \cup usados /\ \A x \in usados : k >= x
  <2>1. IsFiniteSet(0 .. h.j)
    <3>1. h.j \in Int
      BY <1>4, Constantes
    <3> QED BY <3>1, FS_Interval
  <2>2. usados \in SUBSET (0 .. h.j) /\ usados \in SUBSET Int
    OBVIOUS
  <2> DEFINE S == {-1} \cup usados
  <2> HIDE DEF usados
  <2>3. IsFiniteSet(S)
    <3>1. IsFiniteSet(usados)
      BY <2>1, <2>2, FS_Subset
    <3>2. IsFiniteSet(usados \cup {-1}) /\ S = usados \cup {-1}
      BY <3>1, FS_AddElement
    <3> QED BY <3>2
  <2>4. S \in SUBSET Int /\ S # {}
    BY <2>2
  <2>5. Max(S) \in S /\ \A y \in S : Max(S) >= y
    <3> HIDE DEF S
    <3> QED BY <2>3, <2>4, MaximoDe
  <2> QED BY <2>5
<1> HIDE DEF k
<1>6. CASE k # -1
  <2>1. k \in 0 .. cpb - 1 /\ h.punteros[k] # 0 /\ k \in Nat
    BY <1>4, <1>5, <1>6, Constantes
  <2>2. \A x \in 0 .. cpb - 1 : x > k => h.punteros[x] = 0
    BY <1>4, <1>5, <2>1, Constantes
  <2>3. h.indirecto # 0 /\ h.puntero = h.indirecto
    BY <1>4, <2>1 DEF SinPunteros
  <2>4. [h.punteros EXCEPT ![k] = 0] \in Punteros
    BY <1>4, <2>1 DEF Punteros
  <2>5. hilo' = [hilo EXCEPT ![f] = A]
        /\ bitmap' = bitmap \ ({h.punteros[k]} \cup IF k = 0 THEN {h.indirecto} ELSE {})
    BY <1>3, <1>6, <2>3 DEF Liberados
  <2>6. A.punteros = [h.punteros EXCEPT ![k] = 0]
    BY <1>2 DEF Hilos
  <2>7. /\ A.j = k /\ A.i = h.i + 1 /\ A.directo = h.directo /\ A.tam = h.tam
        /\ A.cant = h.cant /\ A.n = h.n /\ A.crece = h.crece /\ A.puntero = h.puntero
        /\ A.pc = Sigue(h.i + 1, h.n, "reducir")
    BY <1>2 DEF Hilos
  <2>8. A.indirecto = IF k = 0 THEN 0 ELSE h.indirecto
    BY <1>2 DEF Hilos
  <2>9. A \in Hilos
    <3> DEFINE ind == IF k = 0 THEN 0 ELSE h.indirecto
               i1 == h.i + 1
               pc1 == Sigue(h.i + 1, h.n, "reducir")
               ps == [h.punteros EXCEPT ![k] = 0]
    <3>1. pc1 \in Pasos /\ ind \in Nat /\ i1 \in Nat /\ k \in Int /\ ps \in Punteros
      BY <1>4, <2>1, <2>4 DEF Pasos, Sigue
    <3>2. A = [h EXCEPT !.punteros = ps, !.j = k, !.i = i1, !.indirecto = ind, !.pc = pc1]
      BY <1>2 DEF Hilos
    <3>3. ASSUME NEW g \in Hilos, NEW x \in Punteros, NEW a \in Int, NEW b \in Nat,
                 NEW c \in Nat, NEW d \in Pasos
          PROVE  [g EXCEPT !.punteros = x, !.j = a, !.i = b, !.indirecto = c, !.pc = d] \in Hilos
      BY DEF Hilos
    <3> HIDE DEF A, ind, i1, pc1, ps
    <3> QED BY <1>2, <3>1, <3>2, <3>3
  <2> HIDE DEF A
  <2>10. FormaDe(A, fcb[f])
    <3>1. \A x \in 0 .. cpb - 1 : x > k => A.punteros[x] = 0
      BY <1>4, <2>1, <2>2, <2>6 DEF Punteros
    <3>2. A.indirecto = 0 => A.punteros = SinPunteros
      <4>1. A.indirecto = 0 => k = 0
        BY <2>3, <2>8
      <4>2. ASSUME k = 0, NEW x \in 0 .. cpb - 1 PROVE A.punteros[x] = 0
        <5>1. A.punteros[x] = IF x = k THEN 0 ELSE h.punteros[x]
          BY <1>4, <2>1, <2>6 DEF Punteros
        <5>2. x # 0 => x > 0
          BY Constantes
        <5> QED BY <2>2, <4>2, <5>1, <5>2
      <4>3. A.punteros \in [0 .. cpb - 1 -> Nat]
        BY <2>4, <2>6 DEF Punteros
      <4> QED BY <4>1, <4>2, <4>3 DEF SinPunteros
    <3>3. A.indirecto \in {A.puntero, 0}
      BY <2>3, <2>7, <2>8
    <3>4. A.pc \in {"reducir", "bloque"} /\ (A.pc = "reducir" => A.i # A.n)
      BY <2>7 DEF Sigue
    <3>5. /\ A.i <= A.n /\ (A.pc = "reducir" => A.i < A.n) /\ ~A.crece
          /\ A.j \in -1 .. cpb - 1 /\ A.j # -1
      BY <1>4, <2>1, <2>7, <3>4, Constantes
    <3>6. A.tam = fcb[f].tam /\ A.cant < fcb[f].tam /\ A.n = Bloques(fcb[f].tam - A.cant)
      BY <1>2, <1>4, <2>7 DEF FormaDe
    <3> QED BY <2>7, <3>1, <3>2, <3>3, <3>4, <3>5, <3>6 DEF FormaDe
  <2>11. QuitaPuntero(h, A, k)
    BY <2>1, <2>2, <2>3, <2>5, <2>6, <2>7, <2>8 DEF QuitaPuntero
  <2> QED BY <1>1, <1>4, <2>1, <2>5, <2>7, <2>9, <2>10, <2>11 DEF h
<1>7. CASE k = -1
  <2>1. \A x \in 0 .. cpb - 1 : h.punteros[x] = 0
    <3>1. ASSUME NEW x \in 0 .. cpb - 1 PROVE h.punteros[x] = 0
      <4>1. CASE x > h.j
        BY <1>4, <4>1
      <4>2. CASE x <= h.j
        <5>1. x \notin usados
          BY <1>5, <1>7
        <5> QED BY <1>4, <4>2, <5>1
      <4> QED BY <1>4, <4>1, <4>2, Constantes
    <3> QED BY <3>1
  <2>2. h.punteros = SinPunteros
    BY <1>4, <2>1 DEF Punteros, SinPunteros
  <2>3. hilo' = [hilo EXCEPT ![f] = D] /\ bitmap' = bitmap \ {h.directo}
    BY <1>3, <1>7
  <2>4. /\ D.j = -1 /\ D.i = h.i /\ D.directo = 0 /\ D.tam = h.tam /\ D.pc = "bloque"
        /\ D.cant = h.cant /\ D.n = h.n /\ D.crece = h.crece /\ D.puntero = h.puntero
        /\ D.punteros = h.punteros /\ D.indirecto = h.indirecto
    BY <1>2 DEF Hilos
  <2>5. D \in Hilos
    <3>1. "bloque" \in Pasos /\ -1 \in Int /\ 0 \in Nat
      BY DEF Pasos
    <3> QED BY <1>2, <3>1 DEF Hilos
  <2> HIDE DEF D
  <2>6. FormaDe(D, fcb[f])
    BY <1>2, <1>4, <2>1, <2>2, <2>4, Constantes DEF FormaDe
  <2>7. QuitaPrimero(h, D)
    BY <2>2, <2>3, <2>4 DEF QuitaPrimero
  <2> QED BY <1>1, <1>4, <2>3, <2>4, <2>5, <2>6, <2>7 DEF h
<1> QED BY <1>6, <1>7

LEMMA SoloPc ==
  ASSUME NEW h \in Hilos, NEW pc \in Pasos, NEW h1, h1 = [h EXCEPT !.pc = pc]
  PROVE  /\ h1 \in Hilos /\ h1.pc = pc /\ h1.crece = h.crece /\ h1.cant = h.cant /\ h1.n = h.n
         /\ h1.i = h.i /\ h1.j = h.j /\ h1.t = h.t /\ h1.tam = h.tam /\ h1.directo = h.directo
         /\ h1.indirecto = h.indirecto /\ h1.puntero = h.puntero /\ h1.punteros = h.punteros
<1>1. h1 \in Hilos
  BY DEF Hilos
<1> QED BY <1>1 DEF Hilos

LEMMA EfectoCopiar ==
  ASSUME Tipos, NEW f \in Archivos, copiar_punteros(f), vivo' = vivo, vivo
  PROVE  \E h \in Hilos :
           /\ hilo' = [hilo EXCEPT ![f] = h] /\ FormaDe(h, fcb[f])
           /\ hilo[f].pc = "bloque" /\ h = [hilo[f] EXCEPT !.pc = "fcb"]
           /\ h.puntero \in 0 .. cant_bloques - 1
           /\ disco' = IF h.crece /\ h.puntero = 0 THEN disco
                       ELSE [disco EXCEPT ![h.puntero] = h.punteros]
           /\ sano' => h.crece \/ h.puntero = h.indirecto \/ ~EsDePunterosDeOtro(f, h.puntero)
<1> DEFINE h == hilo[f]
           h1 == [h EXCEPT !.pc = "fcb"]
<1>1. /\ h.pc = "bloque" /\ ~(h.puntero >= cant_bloques)
      /\ disco' = IF h.crece /\ h.puntero = 0 THEN disco
                  ELSE [disco EXCEPT ![h.puntero] = h.punteros]
      /\ hilo' = [hilo EXCEPT ![f].pc = "fcb"]
      /\ sano' => h.crece \/ h.puntero = h.indirecto \/ ~EsDePunterosDeOtro(f, h.puntero)
  BY DEF copiar_punteros, Caer, Juzgar
<1>2. h \in Hilos /\ FormaDe(h, fcb[f])
  BY <1>1, DelHilo DEF Pasos
<1>3. hilo' = [hilo EXCEPT ![f] = h1]
  BY <1>1
<1> HIDE DEF h
<1>4. "fcb" \in Pasos
  BY DEF Pasos
<1>5. h.puntero \in 0 .. cant_bloques - 1
  BY <1>1, <1>2, CamposDe, Constantes
<1> HIDE DEF h1
<1>6. /\ h1 \in Hilos /\ h1.pc = "fcb" /\ h1.crece = h.crece /\ h1.cant = h.cant /\ h1.n = h.n
      /\ h1.i = h.i /\ h1.j = h.j /\ h1.tam = h.tam /\ h1.directo = h.directo
      /\ h1.indirecto = h.indirecto /\ h1.puntero = h.puntero /\ h1.punteros = h.punteros
  BY <1>2, <1>4, SoloPc DEF h1
<1>7. FormaDe(h1, fcb[f])
  BY <1>2, <1>5, <1>6, Constantes DEF FormaDe
<1>8. h1 = [h EXCEPT !.pc = "fcb"]
  BY DEF h1
<1> QED BY <1>1, <1>3, <1>5, <1>6, <1>7, <1>8, ZenonT(40) DEF h

LEMMA EfectoGuardar ==
  ASSUME Tipos, NEW f \in Archivos, config_save(f)
  PROVE  \E h \in Hilos, c \in FCBs :
           /\ hilo' = [hilo EXCEPT ![f] = h] /\ fcb' = [fcb EXCEPT ![f] = c]
           /\ FormaDe(h, c) /\ c.indirecto < cant_bloques
           /\ hilo[f].pc = "fcb" /\ h = [hilo[f] EXCEPT !.pc = "tamanio"]
           /\ c.tam = fcb[f].tam /\ c.directo = h.directo /\ c.indirecto = h.indirecto
<1> DEFINE h == hilo[f]
           h1 == [h EXCEPT !.pc = "tamanio"]
           c == [fcb[f] EXCEPT !.directo = h.directo, !.indirecto = h.indirecto]
<1>1. h.pc = "fcb"
  BY DEF config_save
<1>2. h \in Hilos /\ FormaDe(h, fcb[f]) /\ fcb[f] \in FCBs
  BY <1>1, DelHilo DEF Pasos
<1>3. hilo' = [hilo EXCEPT ![f] = h1] /\ fcb' = [fcb EXCEPT ![f] = c]
  BY DEF config_save
<1>4. "tamanio" \in Pasos
  BY DEF Pasos
<1>5. h.directo \in Nat /\ h.indirecto \in Nat /\ h.indirecto < cant_bloques
  <2>1. h.puntero < cant_bloques /\ (h.indirecto = h.puntero \/ h.indirecto = 0)
    BY <1>1, <1>2, CamposDe DEF FormaDe
  <2> QED BY <1>2, <2>1, CamposDe, Constantes
<1> HIDE DEF h
<1>6. c \in FCBs /\ c.tam = fcb[f].tam /\ c.directo = h.directo /\ c.indirecto = h.indirecto
  BY <1>2, <1>5 DEF FCBs
<1> HIDE DEF h1, c
<1>7. /\ h1 \in Hilos /\ h1.pc = "tamanio" /\ h1.crece = h.crece /\ h1.cant = h.cant
      /\ h1.i = h.i /\ h1.j = h.j /\ h1.tam = h.tam /\ h1.directo = h.directo /\ h1.n = h.n
      /\ h1.indirecto = h.indirecto /\ h1.puntero = h.puntero /\ h1.punteros = h.punteros
  BY <1>2, <1>4, SoloPc DEF h1
<1>8. FormaDe(h1, c)
  BY <1>1, <1>2, <1>6, <1>7 DEF FormaDe
<1>9. h1 = [h EXCEPT !.pc = "tamanio"]
  BY DEF h1
<1> QED BY <1>1, <1>3, <1>5, <1>6, <1>7, <1>8, <1>9, ZenonT(40) DEF h

LEMMA EfectoTamanio ==
  ASSUME Tipos, NEW f \in Archivos, guardar_tamanio(f)
  PROVE  \E c \in FCBs :
           /\ hilo' = [hilo EXCEPT ![f] = Libre] /\ fcb' = [fcb EXCEPT ![f] = c]
           /\ c.indirecto < cant_bloques /\ hilo[f].pc = "tamanio"
           /\ c.tam = hilo[f].cant /\ c.directo = fcb[f].directo /\ c.indirecto = fcb[f].indirecto
<1> DEFINE c == [fcb[f] EXCEPT !.tam = hilo[f].cant]
<1>1. hilo[f].pc = "tamanio" /\ hilo' = [hilo EXCEPT ![f] = Libre] /\ fcb' = [fcb EXCEPT ![f] = c]
  BY DEF guardar_tamanio
<1>2. hilo[f] \in Hilos /\ fcb[f] \in FCBs /\ fcb[f].indirecto < cant_bloques
  BY <1>1, DelHilo DEF Pasos
<1>3. hilo[f].cant \in Tamanios
  BY <1>2, CamposDe
<1>4. c \in FCBs /\ c.tam = hilo[f].cant /\ c.directo = fcb[f].directo
      /\ c.indirecto = fcb[f].indirecto
  BY <1>2, <1>3 DEF FCBs
<1> HIDE DEF c
<1> QED BY <1>1, <1>2, <1>4

LEMMA TiposPaso == Tipos /\ [Next]_vars => Tipos'
<1> SUFFICES ASSUME Tipos, [Next]_vars PROVE Tipos'
  OBVIOUS
<1>0. /\ bitmap \subseteq Nat /\ IsFiniteSet(bitmap) /\ vivo \in BOOLEAN /\ sano \in BOOLEAN
      /\ exacto \in BOOLEAN /\ caidas \in 0 .. MaxCaidas /\ truncados \in 0 .. MaxTruncados
      /\ disco \in [0 .. cant_bloques - 1 -> Punteros] /\ existe \subseteq Archivos
      /\ fcb \in [Archivos -> FCBs] /\ hilo \in [Archivos -> {Libre} \cup Hilos]
      /\ \A g \in Archivos : fcb[g].indirecto < cant_bloques
  BY DEF Tipos, TypeOK, Formas, FCBs
<1>1. CASE UNCHANGED vars
  BY <1>1 DEF vars, vDisco, vCotas, Tipos, TypeOK, Formas
<1>2. ASSUME NEW f \in Archivos, verificar_existencia_archivo(f) PROVE Tipos'
  <2>1. /\ fcb' = fcb /\ bitmap' = bitmap /\ disco' = disco /\ hilo' = hilo /\ sano' = sano
        /\ exacto' = exacto /\ truncados' = truncados /\ caidas' = caidas /\ vivo' = vivo
        /\ existe' = existe \cup {f}
    BY <1>2 DEF verificar_existencia_archivo, vCotas
  <2> QED BY <2>1 DEF Tipos, TypeOK, Formas
<1>3. ASSUME NEW f \in Archivos, truncate_archivo(f) PROVE Tipos'
  <2>1. /\ fcb' = fcb /\ bitmap' = bitmap /\ disco' = disco /\ existe' = existe /\ sano' = sano
        /\ exacto' = exacto /\ caidas' = caidas /\ vivo' = vivo
        /\ truncados < MaxTruncados /\ truncados' = truncados + 1
    BY <1>3 DEF truncate_archivo, vDisco
  <2>2. truncados' \in 0 .. MaxTruncados
    BY <1>0, <2>1, FileSystemAssumption
  <2> QED BY <1>0, <1>3, <2>1, <2>2, EfectoTruncar, CambiaHilo
<1>4. ASSUME NEW f \in Archivos, bitarray_test_bit(f) PROVE Tipos'
  <2>1. /\ fcb' = fcb /\ bitmap' = bitmap /\ disco' = disco /\ existe' = existe /\ sano' = sano
        /\ exacto' = exacto /\ caidas' = caidas /\ vivo' = vivo /\ truncados' = truncados
    BY <1>4 DEF bitarray_test_bit, vDisco, vCotas
  <2> QED BY <1>0, <1>4, <2>1, EfectoProbar, CambiaHilo
<1>5. CASE Caer
  <2>1. /\ fcb' = fcb /\ bitmap' = bitmap /\ disco' = disco /\ hilo' = hilo /\ sano' = sano
        /\ exacto' = exacto /\ truncados' = truncados /\ caidas' = caidas /\ vivo' = FALSE
        /\ existe' = existe
    BY <1>5 DEF Caer, vCotas, vDisco
  <2> QED BY <2>1 DEF Tipos, TypeOK, Formas
<1>6. ASSUME NEW f \in Archivos, asignar(f), ~Caer, vivo PROVE Tipos'
  <2>1. /\ fcb' = fcb /\ disco' = disco /\ existe' = existe /\ sano' \in BOOLEAN
        /\ exacto' \in BOOLEAN /\ caidas' = caidas /\ vivo' = vivo /\ truncados' = truncados
    BY <1>6, <1>0 DEF asignar, vCotas, Juzgar
  <2>2. PICK h \in Hilos :
          /\ hilo' = [hilo EXCEPT ![f] = h] /\ FormaDe(h, fcb[f])
          /\ hilo[f].pc = "asignar" /\ bitmap' = bitmap \cup {hilo[f].j}
          /\ h.crece /\ h.j = hilo[f].j + 1
    BY <1>6, <2>1, EfectoAsignar
  <2>3. hilo[f].j \in Nat
    <3>1. hilo[f] \in Hilos /\ FormaDe(hilo[f], fcb[f])
      BY <2>2, DelHilo DEF Pasos
    <3>2. hilo[f].j \in Int /\ hilo[f].crece
      BY <2>2, <3>1, CamposDe DEF FormaDe
    <3> QED BY <3>1, <3>2 DEF FormaDe
  <2>4. IsFiniteSet(bitmap') /\ bitmap' \subseteq Nat
    BY <1>0, <2>2, <2>3, FS_AddElement
  <2> QED BY <1>0, <2>1, <2>2, <2>4, CambiaHilo
<1>7. ASSUME NEW f \in Archivos, reducir(f) PROVE Tipos'
  <2>1. /\ fcb' = fcb /\ disco' = disco /\ existe' = existe /\ sano' \in BOOLEAN
        /\ exacto' \in BOOLEAN /\ caidas' = caidas /\ vivo' = vivo /\ truncados' = truncados
    BY <1>7, <1>0 DEF reducir, vCotas, Juzgar
  <2>2. bitmap' \in SUBSET bitmap
    BY <1>7 DEF reducir
  <2>3. IsFiniteSet(bitmap') /\ bitmap' \subseteq Nat
    BY <1>0, <2>2, FS_Subset
  <2> QED BY <1>0, <1>7, <2>1, <2>3, EfectoReducir, CambiaHilo
<1>8. ASSUME NEW f \in Archivos, copiar_punteros(f), ~Caer, vivo PROVE Tipos'
  <2>1. /\ fcb' = fcb /\ bitmap' = bitmap /\ existe' = existe /\ sano' \in BOOLEAN
        /\ exacto' \in BOOLEAN /\ caidas' = caidas /\ vivo' = vivo /\ truncados' = truncados
    BY <1>8, <1>0 DEF copiar_punteros, vCotas, Juzgar
  <2>2. PICK h \in Hilos :
          /\ hilo' = [hilo EXCEPT ![f] = h] /\ FormaDe(h, fcb[f])
          /\ h.puntero \in 0 .. cant_bloques - 1
          /\ disco' = IF h.crece /\ h.puntero = 0 THEN disco
                      ELSE [disco EXCEPT ![h.puntero] = h.punteros]
    BY <1>8, <2>1, EfectoCopiar
  <2>3. disco' \in [0 .. cant_bloques - 1 -> Punteros]
    BY <1>0, <2>2, CamposDe
  <2> QED BY <1>0, <2>1, <2>2, <2>3, CambiaHilo
<1>9. ASSUME NEW f \in Archivos, config_save(f) PROVE Tipos'
  <2>1. /\ bitmap' = bitmap /\ disco' = disco /\ existe' = existe /\ sano' = sano
        /\ exacto' = exacto /\ caidas' = caidas /\ vivo' = vivo /\ truncados' = truncados
    BY <1>9 DEF config_save, vCotas
  <2> QED BY <1>0, <1>9, <2>1, EfectoGuardar, CambiaUno
<1>10. ASSUME NEW f \in Archivos, guardar_tamanio(f) PROVE Tipos'
  <2>1. /\ bitmap' = bitmap /\ disco' = disco /\ existe' = existe /\ sano' = sano
        /\ exacto' = exacto /\ caidas' = caidas /\ vivo' = vivo /\ truncados' = truncados
    BY <1>10 DEF guardar_tamanio, vCotas
  <2> QED BY <1>0, <1>10, <2>1, EfectoTamanio, CambiaUno
<1>11. CASE init_fileSystem
  <2>1. /\ fcb' = fcb /\ bitmap' = bitmap /\ disco' = disco /\ existe' = existe
        /\ hilo' = [f \in Archivos |-> Libre] /\ exacto' = FALSE /\ sano' \in BOOLEAN
        /\ vivo' = vivo /\ truncados' = truncados /\ caidas < MaxCaidas /\ caidas' = caidas + 1
    BY <1>11, <1>0 DEF init_fileSystem, vDisco
  <2>2. caidas' \in 0 .. MaxCaidas
    BY <1>0, <2>1, FileSystemAssumption
  <2>3. TypeOK'
    BY <2>1, <2>2 DEF Tipos, TypeOK
  <2>4. Formas'
    BY <2>1 DEF Tipos, Formas
  <2> QED BY <2>3, <2>4 DEF Tipos
<1> QED BY <1>1, <1>2, <1>3, <1>4, <1>5, <1>6, <1>7, <1>8, <1>9, <1>10, <1>11 DEF Next

\* No loop of a truncate passes its bound, and the FCBs and blocks hold what they should.
THEOREM TypeCorrect == Spec => []TypeOK
<1>1. Tipos => TypeOK
  BY DEF Tipos
<1> QED BY <1>1, TiposIniciales, TiposPaso, PTL DEF Spec

-----------------------------------------------------------------------------
(* What keeps blocks with one owner and files with their blocks.           *)

\* A set bit for each block in a place, and one place for each block.
SinDobles ==
  \A f \in Archivos, l \in Lugares :
    Bloque(f, l) # -1 =>
      /\ Bloque(f, l) \in bitmap
      /\ \A g \in Archivos, m \in Lugares : Bloque(g, m) = Bloque(f, l) => f = g /\ l = m

\* Blocks of data of a file, and of its saved FCB: those of its places but the block
\* of pointers.
Datos(f) == Cardinality({l \in Lugares \ {-1} : Bloque(f, l) # -1})
DatosFCB(f) == Cardinality({l \in Lugares \ {-1} : BloqueFCB(f, l) # -1})

\* Those it should have by now.
Quedan(f) ==
  LET h == hilo[f] IN
  IF h = Libre THEN Bloques(fcb[f].tam)
  ELSE IF h.pc \in {"bloque", "fcb", "tamanio"} THEN Bloques(h.cant)
  ELSE IF h.crece THEN Bloques(fcb[f].tam) + h.i
  ELSE Bloques(fcb[f].tam) - h.i

\* A thread holds a bit nobody else has, has written the pointers the FCB will
\* refer to, and until then what is saved is a part of what it has: what a restart
\* goes back to.
Guardado(f) ==
  LET h == hilo[f] IN
  /\ Datos(f) >= Quedan(f)
  /\ h.pc = "asignar" => h.j \notin bitmap
  /\ h.pc \in {"fcb", "tamanio"} /\ h.indirecto # 0 => disco[h.indirecto] = h.punteros
  /\ h # Libre /\ h.crece =>
       /\ DatosFCB(f) >= Bloques(fcb[f].tam)
       /\ \A l \in Lugares : BloqueFCB(f, l) \in {-1, BloqueDe(h, l)}
       /\ h.pc \notin {"probar", "asignar"} => h.directo # 0 \/ h.tam # 0

Sana == SinDobles /\ \A f \in Archivos : Guardado(f)
Exacta ==
  /\ \A b \in bitmap : \E f \in Archivos, l \in Lugares : Bloque(f, l) = b
  /\ \A f \in Archivos : Datos(f) = Quedan(f)
Invariante == Tipos /\ (sano => Sana) /\ (exacto => sano /\ Exacta)

\* What a step does to the places: nothing, fill one, empty some of a file.
SinMover == \A g \in Archivos, l \in Lugares : Bloque(g, l)' = Bloque(g, l)
Llena(f, l, b) ==
  /\ Bloque(f, l) = -1 /\ Bloque(f, l)' = b
  /\ \A g \in Archivos, m \in Lugares : <<g, m>> # <<f, l>> => Bloque(g, m)' = Bloque(g, m)
Vacia(f, Q) ==
  /\ \A m \in Q : Bloque(f, m) # -1 /\ Bloque(f, m)' = -1
  /\ \A g \in Archivos, m \in Lugares :
       g # f \/ m \notin Q => Bloque(g, m)' = Bloque(g, m)
  /\ bitmap' = bitmap \ {Bloque(f, m) : m \in Q}

LEMMA LugarEs ==
  ASSUME NEW l \in Lugares
  PROVE  l \in Int /\ (l = -2 \/ l = -1 \/ l \in 0 .. cpb - 1)
BY Constantes DEF Lugares

LEMMA LugaresFinitos ==
  ASSUME NEW S \in SUBSET Lugares
  PROVE  IsFiniteSet(S) /\ Cardinality(S) \in Nat
BY Constantes, FS_Subset, FS_CardinalityType

\* Blocks left out, and one block more.
LEMMA DoblesMenos ==
  ASSUME SinDobles,
         \A g \in Archivos, l \in Lugares : Bloque(g, l)' \in {-1, Bloque(g, l)},
         \A g \in Archivos, l \in Lugares : Bloque(g, l)' # -1 => Bloque(g, l) \in bitmap'
  PROVE  SinDobles'
<1> SUFFICES ASSUME NEW f \in Archivos, NEW l \in Lugares, Bloque(f, l)' # -1
             PROVE  /\ Bloque(f, l)' \in bitmap'
                    /\ \A g \in Archivos, m \in Lugares :
                         Bloque(g, m)' = Bloque(f, l)' => f = g /\ l = m
  BY DEF SinDobles
<1>1. Bloque(f, l)' = Bloque(f, l)
  OBVIOUS
<1>2. ASSUME NEW g \in Archivos, NEW m \in Lugares, Bloque(g, m)' = Bloque(f, l)'
      PROVE  f = g /\ l = m
  <2>1. Bloque(g, m) = Bloque(f, l)
    BY <1>1, <1>2
  <2> QED BY <1>1, <2>1 DEF SinDobles
<1> QED BY <1>1, <1>2

LEMMA DoblesMas ==
  ASSUME SinDobles, NEW b \in Nat, b \notin bitmap, bitmap' = bitmap \cup {b},
         NEW f \in Archivos, NEW l \in Lugares, Bloque(f, l)' = b,
         \A g \in Archivos, m \in Lugares : <<g, m>> # <<f, l>> => Bloque(g, m)' = Bloque(g, m)
  PROVE  SinDobles'
<1> SUFFICES ASSUME NEW g \in Archivos, NEW m \in Lugares, Bloque(g, m)' # -1
             PROVE  /\ Bloque(g, m)' \in bitmap'
                    /\ \A x \in Archivos, y \in Lugares :
                         Bloque(x, y)' = Bloque(g, m)' => g = x /\ m = y
  BY DEF SinDobles
<1>1. CASE <<g, m>> = <<f, l>>
  <2>1. ASSUME NEW x \in Archivos, NEW y \in Lugares, Bloque(x, y)' = b, <<x, y>> # <<f, l>>
        PROVE  FALSE
    <3>1. Bloque(x, y) = b /\ b # -1
      BY <2>1
    <3> QED BY <3>1 DEF SinDobles
  <2> QED BY <1>1, <2>1
<1>2. CASE <<g, m>> # <<f, l>>
  <2>1. Bloque(g, m)' = Bloque(g, m) /\ Bloque(g, m) \in bitmap
    BY <1>2 DEF SinDobles
  <2>2. ASSUME NEW x \in Archivos, NEW y \in Lugares, Bloque(x, y)' = Bloque(g, m)'
        PROVE  g = x /\ m = y
    <3>1. <<x, y>> # <<f, l>>
      BY <2>1, <2>2
    <3>2. Bloque(x, y) = Bloque(g, m)
      BY <2>1, <2>2, <3>1
    <3> QED BY <2>1, <3>2 DEF SinDobles
  <2> QED BY <2>1, <2>2
<1> QED BY <1>1, <1>2

\* A file whose thread and FCB do not change, nor the block of pointers they refer to.
LEMMA DeOtrosDisco ==
  ASSUME NEW g \in Archivos, hilo'[g] = hilo[g], fcb'[g] = fcb[g],
         (hilo[g] = Libre \/ hilo[g].crece) /\ fcb[g].indirecto # 0 =>
           disco'[fcb[g].indirecto] = disco[fcb[g].indirecto],
         hilo[g].pc \in {"fcb", "tamanio"} /\ hilo[g].indirecto # 0 =>
           disco'[hilo[g].indirecto] = disco[hilo[g].indirecto]
  PROVE  /\ \A l \in Lugares : Bloque(g, l)' = Bloque(g, l)
         /\ Datos(g)' = Datos(g) /\ Quedan(g)' = Quedan(g)
         /\ Guardado(g) /\ (bitmap' = bitmap \/ hilo[g].pc # "asignar") => Guardado(g)'
<1>1. hilo[g] = Libre \/ hilo[g].crece => \A l \in Lugares : BloqueFCB(g, l)' = BloqueFCB(g, l)
  BY DEF BloqueFCB, BloqueEn
<1>2. \A l \in Lugares : Bloque(g, l)' = Bloque(g, l)
  BY <1>1 DEF Bloque
<1>3. Datos(g)' = Datos(g)
  <2>1. {l \in Lugares \ {-1} : Bloque(g, l)' # -1} = {l \in Lugares \ {-1} : Bloque(g, l) # -1}
    BY <1>2
  <2> QED BY <2>1 DEF Datos
<1>4. hilo[g] = Libre \/ hilo[g].crece => DatosFCB(g)' = DatosFCB(g)
  <2> SUFFICES ASSUME hilo[g] = Libre \/ hilo[g].crece PROVE DatosFCB(g)' = DatosFCB(g)
    OBVIOUS
  <2>1. {l \in Lugares \ {-1} : BloqueFCB(g, l)' # -1}
          = {l \in Lugares \ {-1} : BloqueFCB(g, l) # -1}
    BY <1>1
  <2> QED BY <2>1 DEF DatosFCB
<1>5. Quedan(g)' = Quedan(g)
  BY DEF Quedan
<1>6. ASSUME Guardado(g), bitmap' = bitmap \/ hilo[g].pc # "asignar" PROVE Guardado(g)'
  <2>1. Datos(g)' >= Quedan(g)' /\ (hilo'[g].pc = "asignar" => hilo'[g].j \notin bitmap')
    BY <1>3, <1>5, <1>6 DEF Guardado
  <2>2. hilo'[g].pc \in {"fcb", "tamanio"} /\ hilo'[g].indirecto # 0
          => disco'[hilo'[g].indirecto] = hilo'[g].punteros
    BY <1>6, LibreNoEsHilo DEF Guardado
  <2>3. hilo'[g] # Libre /\ hilo'[g].crece =>
          /\ DatosFCB(g)' >= Bloques(fcb[g].tam)
          /\ \A l \in Lugares : BloqueFCB(g, l)' \in {-1, BloqueDe(hilo[g], l)}
          /\ hilo'[g].pc \notin {"probar", "asignar"} => hilo'[g].directo # 0 \/ hilo'[g].tam # 0
    BY <1>1, <1>4, <1>6 DEF Guardado
  <2> QED BY <2>1, <2>2, <2>3 DEF Guardado
<1> QED BY <1>2, <1>3, <1>5, <1>6

LEMMA DeOtros ==
  ASSUME NEW g \in Archivos, hilo'[g] = hilo[g], fcb'[g] = fcb[g], disco' = disco
  PROVE  /\ \A l \in Lugares : Bloque(g, l)' = Bloque(g, l)
         /\ Datos(g)' = Datos(g) /\ Quedan(g)' = Quedan(g)
         /\ Guardado(g) /\ (bitmap' = bitmap \/ hilo[g].pc # "asignar") => Guardado(g)'
BY DeOtrosDisco

\* A step of the truncate of f that leaves blocks out of its places, or none.
LEMMA Menos ==
  ASSUME Sana, NEW f \in Archivos, bitmap' \in SUBSET bitmap,
         \A g \in Archivos \ {f} : Guardado(g)' /\ Datos(g)' = Datos(g) /\ Quedan(g)' = Quedan(g)
                                   /\ \A l \in Lugares : Bloque(g, l)' = Bloque(g, l),
         Guardado(f)',
         \A l \in Lugares : Bloque(f, l)' \in {-1, Bloque(f, l)},
         NEW Q \in SUBSET Lugares,
         \A l \in Lugares : Bloque(f, l)' # -1 => l \notin Q,
         bitmap' = bitmap \ {Bloque(f, l) : l \in Q}
  PROVE  /\ Sana'
         /\ Exacta /\ (\A l \in Lugares \ Q : Bloque(f, l)' = Bloque(f, l))
              /\ Datos(f)' = Quedan(f)' => Exacta'
<1>1. \A g \in Archivos, l \in Lugares : Bloque(g, l)' \in {-1, Bloque(g, l)}
  OBVIOUS
<1>2. ASSUME NEW g \in Archivos, NEW l \in Lugares, Bloque(g, l)' # -1
      PROVE  Bloque(g, l) \in bitmap'
  <2>1. Bloque(g, l)' = Bloque(g, l) /\ Bloque(g, l) # -1 /\ Bloque(g, l) \in bitmap
    BY <1>1, <1>2 DEF Sana, SinDobles
  <2>2. ASSUME NEW m \in Q, Bloque(f, m) = Bloque(g, l) PROVE FALSE
    <3>1. g = f /\ l = m
      BY <2>1, <2>2 DEF Sana, SinDobles
    <3> QED BY <1>2, <3>1
  <2> QED BY <2>1, <2>2
<1>3. SinDobles'
  BY <1>1, <1>2, DoblesMenos DEF Sana
<1>4. Sana'
  BY <1>3 DEF Sana
<1>5. ASSUME Exacta, \A l \in Lugares \ Q : Bloque(f, l)' = Bloque(f, l), Datos(f)' = Quedan(f)'
      PROVE  Exacta'
  <2>1. ASSUME NEW b \in bitmap' PROVE \E g \in Archivos, l \in Lugares : Bloque(g, l)' = b
    <3>1. PICK g \in Archivos, l \in Lugares : Bloque(g, l) = b
      BY <1>5 DEF Exacta
    <3>2. CASE g = f
      BY <1>5, <3>1, <3>2
    <3>3. CASE g # f
      BY <3>1, <3>3
    <3> QED BY <3>2, <3>3
  <2>2. \A g \in Archivos : Datos(g)' = Quedan(g)'
    BY <1>5 DEF Exacta
  <2> QED BY <2>1, <2>2 DEF Exacta
<1> QED BY <1>4, <1>5

\* One that puts block b in place l.
LEMMA Mas ==
  ASSUME Sana, NEW f \in Archivos, NEW b \in Nat, b \notin bitmap, bitmap' = bitmap \cup {b},
         bitmap \subseteq Nat,
         \A g \in Archivos \ {f} : Guardado(g)' /\ Datos(g)' = Datos(g) /\ Quedan(g)' = Quedan(g)
                                   /\ \A l \in Lugares : Bloque(g, l)' = Bloque(g, l),
         Guardado(f)', NEW l \in Lugares, Bloque(f, l) = -1, Bloque(f, l)' = b,
         \A m \in Lugares : m # l => Bloque(f, m)' = Bloque(f, m)
  PROVE  Sana' /\ (Exacta /\ Datos(f)' = Quedan(f)' => Exacta')
<1>1. \A g \in Archivos, m \in Lugares : <<g, m>> # <<f, l>> => Bloque(g, m)' = Bloque(g, m)
  OBVIOUS
<1>2. Sana'
  BY <1>1, DoblesMas DEF Sana
<1>3. ASSUME Exacta, Datos(f)' = Quedan(f)' PROVE Exacta'
  <2>1. ASSUME NEW x \in bitmap' PROVE \E g \in Archivos, m \in Lugares : Bloque(g, m)' = x
    <3>1. CASE x = b
      BY <3>1
    <3>2. CASE x \in bitmap
      <4>1. PICK g \in Archivos, m \in Lugares : Bloque(g, m) = x
        BY <1>3, <3>2 DEF Exacta
      <4>2. x # -1
        BY <3>2
      <4> QED BY <1>1, <4>1, <4>2
    <3> QED BY <3>1, <3>2
  <2>2. \A g \in Archivos : Datos(g)' = Quedan(g)'
    BY <1>3 DEF Exacta
  <2> QED BY <2>1, <2>2 DEF Exacta
<1> QED BY <1>2, <1>3

-----------------------------------------------------------------------------
(* What each step does to the blocks in the places of its file.            *)

\* The block in each place, case by case.
LEMMA BloquesDeHilo ==
  ASSUME NEW h
  PROVE  /\ BloqueDe(h, -2) = IF (h.directo # 0 \/ h.tam # 0) /\ h.j # -1 THEN h.directo ELSE -1
         /\ BloqueDe(h, -1) = IF h.indirecto = 0 THEN -1 ELSE h.indirecto
         /\ \A t \in 0 .. cpb - 1 :
              BloqueDe(h, t) = IF h.indirecto = 0 THEN -1
                               ELSE IF h.punteros[t] = 0 THEN -1 ELSE h.punteros[t]
BY DEF BloqueDe, BloqueEn

LEMMA BloquesDeFCB ==
  ASSUME NEW f \in Archivos
  PROVE  LET c == fcb[f] IN
         /\ BloqueFCB(f, -2) = IF c.directo # 0 \/ c.tam # 0 THEN c.directo ELSE -1
         /\ BloqueFCB(f, -1) = IF c.indirecto = 0 THEN -1 ELSE c.indirecto
         /\ \A t \in 0 .. cpb - 1 :
              BloqueFCB(f, t) = IF c.indirecto = 0 THEN -1
                                ELSE IF disco[c.indirecto][t] = 0 THEN -1
                                ELSE disco[c.indirecto][t]
BY DEF BloqueFCB, BloqueEn

LEMMA MismosBloques ==
  ASSUME NEW h, NEW h1, h1.directo = h.directo, h1.tam = h.tam, h1.indirecto = h.indirecto,
         h1.punteros = h.punteros, h1.j # -1 <=> h.j # -1
  PROVE  \A l : BloqueDe(h1, l) = BloqueDe(h, l)
BY DEF BloqueDe, BloqueEn

\* A place filled or emptied counts one, unless it is that of the block of pointers.
LEMMA Cuenta ==
  ASSUME NEW S \in SUBSET (Lugares \ {-1}), NEW T \in SUBSET (Lugares \ {-1}), NEW l \in Lugares,
         l \notin S, T = IF l = -1 THEN S ELSE S \cup {l}
  PROVE  Cardinality(T) = Cardinality(S) + IF l = -1 THEN 0 ELSE 1
<1>1. IsFiniteSet(S) /\ Cardinality(S) \in Nat
  BY LugaresFinitos
<1>2. Cardinality(S \cup {l}) = Cardinality(S) + 1
  BY <1>1, FS_AddElement
<1> QED BY <1>1, <1>2

\* One place of f filled, from h to h1.
LEMMA DatosDe ==
  ASSUME NEW f \in Archivos, NEW h, h # Libre, NEW h1, h1 # Libre, hilo[f] = h, hilo'[f] = h1,
         NEW l \in Lugares, BloqueDe(h, l) = -1, BloqueDe(h1, l) # -1,
         \A m \in Lugares : m # l => BloqueDe(h1, m) = BloqueDe(h, m)
  PROVE  Datos(f)' = Datos(f) + IF l = -1 THEN 0 ELSE 1
<1> DEFINE S == {m \in Lugares \ {-1} : BloqueDe(h, m) # -1}
           T == {m \in Lugares \ {-1} : BloqueDe(h1, m) # -1}
<1>1. T = IF l = -1 THEN S ELSE S \cup {l}
  OBVIOUS
<1>2. l \notin S /\ S \in SUBSET (Lugares \ {-1}) /\ T \in SUBSET (Lugares \ {-1})
  OBVIOUS
<1>3. Datos(f) = Cardinality(S) /\ Datos(f)' = Cardinality(T)
  BY DEF Datos, Bloque
<1> HIDE DEF S, T
<1> QED BY <1>1, <1>2, <1>3, Cuenta

LEMMA DatosDeMenos ==
  ASSUME NEW f \in Archivos, NEW h, h # Libre, NEW h1, h1 # Libre, hilo[f] = h, hilo'[f] = h1,
         NEW l \in Lugares \ {-1}, BloqueDe(h, l) # -1, BloqueDe(h1, l) = -1,
         \A m \in Lugares \ {-1} : m # l => BloqueDe(h1, m) = BloqueDe(h, m)
  PROVE  Datos(f)' + 1 = Datos(f)
<1> DEFINE S == {m \in Lugares \ {-1} : BloqueDe(h, m) # -1}
           T == {m \in Lugares \ {-1} : BloqueDe(h1, m) # -1}
<1>1. S = IF l = -1 THEN T ELSE T \cup {l}
  OBVIOUS
<1>2. l \notin T /\ S \in SUBSET (Lugares \ {-1}) /\ T \in SUBSET (Lugares \ {-1}) /\ l # -1
      /\ l \in Lugares
  OBVIOUS
<1>3. Datos(f) = Cardinality(S) /\ Datos(f)' = Cardinality(T)
  BY DEF Datos, Bloque
<1> HIDE DEF S, T
<1>4. Cardinality(S) = Cardinality(T) + IF l = -1 THEN 0 ELSE 1
  BY <1>1, <1>2, Cuenta
<1> QED BY <1>2, <1>3, <1>4

LEMMA DatosIguales ==
  ASSUME NEW f \in Archivos, \A l \in Lugares : Bloque(f, l)' = Bloque(f, l)
  PROVE  Datos(f)' = Datos(f)
<1>1. {l \in Lugares \ {-1} : Bloque(f, l)' # -1} = {l \in Lugares \ {-1} : Bloque(f, l) # -1}
  OBVIOUS
<1> QED BY <1>1 DEF Datos

LEMMA DatosNat ==
  ASSUME NEW f \in Archivos
  PROVE  Datos(f) \in Nat /\ DatosFCB(f) \in Nat /\ Datos(f)' \in Nat /\ DatosFCB(f)' \in Nat
<1>1. /\ {l \in Lugares \ {-1} : Bloque(f, l) # -1} \in SUBSET Lugares
      /\ {l \in Lugares \ {-1} : BloqueFCB(f, l) # -1} \in SUBSET Lugares
      /\ {l \in Lugares \ {-1} : Bloque(f, l)' # -1} \in SUBSET Lugares
      /\ {l \in Lugares \ {-1} : BloqueFCB(f, l)' # -1} \in SUBSET Lugares
  OBVIOUS
<1> QED BY <1>1, LugaresFinitos DEF Datos, DatosFCB

\* A round of expand_block fills a place that was empty.
LEMMA LlenaUno ==
  ASSUME NEW h \in Hilos, NEW h1 \in Hilos, h.crece, h.j \in Nat, h1.j = h.j + 1,
         h.indirecto = 0 => h.punteros = SinPunteros,
         EnPrimero(h, h1) \/ ((EnIndirecto(h, h1) \/ EnPuntero(h, h1)) /\ h.j # 0)
  PROVE  \E l \in Lugares :
           /\ BloqueDe(h, l) = -1 /\ BloqueDe(h1, l) = h.j
           /\ \A m \in Lugares : m # l => BloqueDe(h1, m) = BloqueDe(h, m)
           /\ h1.i = h.i + (IF l = -1 THEN 0 ELSE 1)
           /\ h1.directo # 0 \/ h1.tam # 0
<1>1. /\ -2 \in Lugares /\ -1 \in Lugares /\ \A t \in 0 .. cpb - 1 : t \in Lugares /\ t # -1 /\ t # -2
      /\ h.i \in Nat /\ h.directo \in Nat /\ h.tam \in Nat /\ h.indirecto \in Nat
      /\ h.punteros \in Punteros /\ h.j # -1 /\ h1.j # -1
  BY Constantes, CamposDe DEF Lugares
<1>2. CASE EnPrimero(h, h1)
  <2>1. BloqueDe(h, -2) = -1 /\ BloqueDe(h1, -2) = h.j
    BY <1>1, <1>2, BloquesDeHilo DEF EnPrimero
  <2>2. ASSUME NEW m \in Lugares, m # -2 PROVE BloqueDe(h1, m) = BloqueDe(h, m)
    BY <1>2, <2>2 DEF EnPrimero, BloqueDe, BloqueEn
  <2> QED BY <1>1, <1>2, <2>1, <2>2 DEF EnPrimero
<1>3. CASE EnIndirecto(h, h1) /\ h.j # 0
  <2>1. BloqueDe(h, -1) = -1 /\ BloqueDe(h1, -1) = h.j
    BY <1>1, <1>3, BloquesDeHilo DEF EnIndirecto
  <2>2. ASSUME NEW m \in Lugares, m # -1 PROVE BloqueDe(h1, m) = BloqueDe(h, m)
    <3>1. CASE m = -2
      BY <1>1, <1>3, <3>1, BloquesDeHilo DEF EnIndirecto
    <3>2. CASE m \in 0 .. cpb - 1
      <4>1. SinPunteros[m] = 0
        BY <3>2 DEF SinPunteros
      <4> QED BY <1>3, <3>2, <4>1, BloquesDeHilo DEF EnIndirecto
    <3> QED BY <2>2, <3>1, <3>2, LugarEs
  <2> QED BY <1>1, <1>3, <2>1, <2>2 DEF EnIndirecto
<1>4. CASE EnPuntero(h, h1) /\ h.j # 0
  <2>1. PICK k \in 0 .. cpb - 1 :
          h.punteros[k] = 0 /\ h1.punteros = [h.punteros EXCEPT ![k] = h.j]
    BY <1>4 DEF EnPuntero
  <2>2. \A t \in 0 .. cpb - 1 : h1.punteros[t] = IF t = k THEN h.j ELSE h.punteros[t]
    BY <1>1, <2>1 DEF Punteros
  <2>3. BloqueDe(h, k) = -1 /\ BloqueDe(h1, k) = h.j
    BY <1>1, <1>4, <2>1, <2>2, BloquesDeHilo DEF EnPuntero
  <2>4. ASSUME NEW m \in Lugares, m # k PROVE BloqueDe(h1, m) = BloqueDe(h, m)
    <3>1. CASE m = -2
      BY <1>1, <1>4, <3>1, BloquesDeHilo DEF EnPuntero
    <3>2. CASE m = -1
      BY <1>1, <1>4, <3>2, BloquesDeHilo DEF EnPuntero
    <3>3. CASE m \in 0 .. cpb - 1
      <4>1. h1.punteros[m] = h.punteros[m] /\ h1.indirecto = h.indirecto
        BY <1>4, <2>2, <2>4, <3>3 DEF EnPuntero
      <4> QED BY <3>3, <4>1, BloquesDeHilo
    <3> QED BY <3>1, <3>2, <3>3, LugarEs
  <2> QED BY <1>1, <1>4, <2>3, <2>4 DEF EnPuntero
<1> QED BY <1>2, <1>3, <1>4

LEMMA SanaAsignar ==
  ASSUME Tipos, BloquesEnteros, Sana, NEW f \in Archivos, asignar(f), vivo, vivo' = vivo, sano'
  PROVE  Sana' /\ (Exacta => Exacta') /\ \E l \in Lugares : Llena(f, l, hilo[f].j)
<1> DEFINE h == hilo[f]
<1>1. PICK h1 \in Hilos :
           /\ hilo' = [hilo EXCEPT ![f] = h1] /\ FormaDe(h1, fcb[f])
           /\ h.pc = "asignar" /\ bitmap' = bitmap \cup {h.j}
           /\ h1.crece /\ h1.cant = h.cant /\ h1.n = h.n /\ h1.j = h.j + 1
           /\ h1.pc = Sigue(h1.i, h1.n, "probar")
           /\ EnPrimero(h, h1) \/ EnIndirecto(h, h1) \/ EnPuntero(h, h1)
           /\ EnPrimero(h, h1) \/ h.j # 0
  BY EfectoAsignar
<1>2. h \in Hilos /\ h # Libre /\ FormaDe(h, fcb[f]) /\ fcb[f] \in FCBs
  BY <1>1, DelHilo DEF Pasos
<1>3. h.crece /\ h.j \in Nat /\ h.i \in Nat /\ h.n \in Nat /\ (h.indirecto = 0 => h.punteros = SinPunteros)
      /\ h.cant \in Tamanios /\ h.n = Bloques(h.cant - fcb[f].tam) /\ h1.i \in Nat
  BY <1>1, <1>2, CamposDe DEF FormaDe
<1>4. h.j \notin bitmap /\ Datos(f) >= Quedan(f) /\ DatosFCB(f) >= Bloques(fcb[f].tam)
      /\ \A l \in Lugares : BloqueFCB(f, l) \in {-1, BloqueDe(h, l)}
  BY <1>1, <1>2, <1>3 DEF Sana, Guardado
<1>5. fcb' = fcb /\ disco' = disco /\ SinCarrera(f)
  BY <1>1 DEF asignar, Caer, vDisco, vCotas, Juzgar
<1>6. hilo'[f] = h1 /\ h1 # Libre /\ \A g \in Archivos \ {f} : hilo'[g] = hilo[g]
  BY <1>1, LibreNoEsHilo DEF Tipos, Formas
<1>7. \A g \in Archivos \ {f} : Guardado(g)' /\ Datos(g)' = Datos(g) /\ Quedan(g)' = Quedan(g)
        /\ \A l \in Lugares : Bloque(g, l)' = Bloque(g, l)
  <2>1. \A g \in Archivos \ {f} : hilo[g].pc # "asignar" /\ Guardado(g)
    BY <1>5 DEF SinCarrera, Sana
  <2> QED BY <1>5, <1>6, <2>1, DeOtros
<1>8. PICK l \in Lugares :
           /\ BloqueDe(h, l) = -1 /\ BloqueDe(h1, l) = h.j
           /\ \A m \in Lugares : m # l => BloqueDe(h1, m) = BloqueDe(h, m)
           /\ h1.i = h.i + (IF l = -1 THEN 0 ELSE 1)
           /\ h1.directo # 0 \/ h1.tam # 0
  <2> HIDE DEF h
  <2> QED BY <1>1, <1>2, <1>3, LlenaUno
<1>9. \A m \in Lugares : Bloque(f, m) = BloqueDe(h, m) /\ Bloque(f, m)' = BloqueDe(h1, m)
  BY <1>2, <1>6 DEF Bloque
<1>10. Datos(f)' = Datos(f) + IF l = -1 THEN 0 ELSE 1
  <2>1. BloqueDe(h1, l) # -1
    BY <1>3, <1>8
  <2> QED BY <1>2, <1>6, <1>8, <2>1, DatosDe
<1>11. Quedan(f) = Bloques(fcb[f].tam) + h.i
  BY <1>1, <1>2, <1>3 DEF Quedan
<1>12. Quedan(f)' = Bloques(fcb[f].tam) + h1.i
  <2>1. fcb[f].tam \in Tamanios \cup {0}
    BY <1>2, CamposFCB
  <2>2. Bloques(h.cant) = Bloques(fcb[f].tam) + h.n /\ Bloques(fcb[f].tam) \in Nat
        /\ Bloques(h.cant) \in Nat
    BY <1>3, <2>1, BloquesExactos
  <2>3. fcb'[f].tam = fcb[f].tam /\ hilo'[f] = h1
    BY <1>5, <1>6
  <2>4. CASE h1.i = h1.n
    BY <1>1, <1>6, <2>2, <2>3, <2>4 DEF Quedan, Sigue
  <2>5. CASE h1.i # h1.n
    BY <1>1, <1>6, <2>3, <2>5 DEF Quedan, Sigue
  <2> QED BY <2>4, <2>5
<1>13. Datos(f)' >= Quedan(f)' /\ (Datos(f) = Quedan(f) => Datos(f)' = Quedan(f)')
  <2>1. Bloques(fcb[f].tam) \in Nat
    <3>1. fcb[f].tam \in Nat
      BY <1>2, CamposFCB
    <3> QED BY <3>1, BloquesSon
  <2> QED BY <1>3, <1>4, <1>8, <1>10, <1>11, <1>12, <2>1, DatosNat
<1>14. Guardado(f)'
  <2>1. h1.pc \notin {"asignar", "fcb", "tamanio"}
    BY <1>1 DEF Sigue
  <2>2. \A m \in Lugares : BloqueFCB(f, m)' = BloqueFCB(f, m)
    BY <1>5 DEF BloqueFCB
  <2>3. DatosFCB(f)' = DatosFCB(f)
    <3>1. {m \in Lugares \ {-1} : BloqueFCB(f, m)' # -1}
            = {m \in Lugares \ {-1} : BloqueFCB(f, m) # -1}
      BY <2>2
    <3> QED BY <3>1 DEF DatosFCB
  <2>4. \A m \in Lugares : BloqueFCB(f, m)' \in {-1, BloqueDe(h1, m)}
    <3> HIDE DEF h
    <3> QED BY <1>4, <1>8, <2>2
  <2> QED BY <1>4, <1>5, <1>6, <1>8, <1>13, <2>1, <2>3, <2>4 DEF Guardado
<1>15. \A m \in Lugares : m # l => Bloque(f, m)' = Bloque(f, m)
  BY <1>8, <1>9
<1>16. Bloque(f, l) = -1 /\ Bloque(f, l)' = h.j /\ bitmap \subseteq Nat
  BY <1>8, <1>9 DEF Tipos, TypeOK
<1>17. bitmap' = bitmap \cup {h.j}
  BY <1>1
<1> HIDE DEF h
<1>18. Sana' /\ (Exacta /\ Datos(f)' = Quedan(f)' => Exacta')
  BY <1>3, <1>4, <1>7, <1>14, <1>15, <1>16, <1>17, Mas
<1>19. Llena(f, l, h.j)
  BY <1>7, <1>15, <1>16 DEF Llena
<1> QED BY <1>13, <1>18, <1>19 DEF Exacta, h

\* A round of reduce_block empties one place, and that of the block of pointers with
\* the last of them; their bits are cleared.
LEMMA VaciaUno ==
  ASSUME NEW h \in Hilos, NEW h1 \in Hilos, h.tam # 0, h1.tam = h.tam, h.j # -1,
         QuitaPrimero(h, h1) \/ \E k \in 0 .. cpb - 1 : QuitaPuntero(h, h1, k)
  PROVE  \E Q \in SUBSET Lugares, l \in Lugares \ {-1} :
           /\ l \in Q /\ \A m \in Q : BloqueDe(h, m) # -1 /\ BloqueDe(h1, m) = -1
           /\ \A m \in Lugares \ Q : BloqueDe(h1, m) = BloqueDe(h, m)
           /\ \A m \in Lugares \ {-1} : m # l => BloqueDe(h1, m) = BloqueDe(h, m)
           /\ bitmap' = bitmap \ {BloqueDe(h, m) : m \in Q}
<1>1. /\ -2 \in Lugares \ {-1} /\ -1 \in Lugares /\ \A t \in 0 .. cpb - 1 : t \in Lugares \ {-1}
      /\ h.directo \in Nat /\ h.tam \in Nat /\ h.indirecto \in Nat
      /\ h.punteros \in Punteros /\ \A t \in 0 .. cpb - 1 : t # -1 /\ t # -2 /\ h.punteros[t] \in Nat
  <2>1. h.punteros \in Punteros /\ h.directo \in Nat /\ h.tam \in Nat /\ h.indirecto \in Nat
    BY CamposDe
  <2>2. \A t \in 0 .. cpb - 1 : h.punteros[t] \in Nat
    BY <2>1 DEF Punteros
  <2> QED BY <2>1, <2>2, Constantes DEF Lugares
<1>2. CASE QuitaPrimero(h, h1)
  <2>1. BloqueDe(h, -2) = h.directo /\ BloqueDe(h1, -2) = -1 /\ h.directo # -1
    BY <1>1, <1>2, BloquesDeHilo DEF QuitaPrimero
  <2>2. ASSUME NEW m \in Lugares, m # -2 PROVE BloqueDe(h1, m) = BloqueDe(h, m)
    BY <1>2, <2>2 DEF QuitaPrimero, BloqueDe, BloqueEn
  <2>3. bitmap' = bitmap \ {BloqueDe(h, m) : m \in {-2}}
    BY <1>2, <2>1 DEF QuitaPrimero
  <2> QED BY <1>1, <2>1, <2>2, <2>3
<1>3. CASE \E k \in 0 .. cpb - 1 : QuitaPuntero(h, h1, k)
  <2>1. PICK k \in 0 .. cpb - 1 : QuitaPuntero(h, h1, k)
    BY <1>3
  <2> DEFINE Q == {k} \cup IF k = 0 THEN {-1} ELSE {}
  <2>2. /\ h.punteros[k] # 0 /\ h.indirecto # 0 /\ \A x \in 0 .. cpb - 1 : x > k => h.punteros[x] = 0
        /\ h1.punteros = [h.punteros EXCEPT ![k] = 0] /\ h1.j = k
        /\ h1.directo = h.directo /\ h1.indirecto = IF k = 0 THEN 0 ELSE h.indirecto
        /\ bitmap' = bitmap \ ({h.punteros[k]} \cup IF k = 0 THEN {h.indirecto} ELSE {})
    BY <2>1 DEF QuitaPuntero
  <2>3. \A t \in 0 .. cpb - 1 : h1.punteros[t] = IF t = k THEN 0 ELSE h.punteros[t]
    BY <1>1, <2>2 DEF Punteros
  <2>4. BloqueDe(h, k) = h.punteros[k] /\ BloqueDe(h, k) # -1 /\ BloqueDe(h1, k) = -1
    BY <1>1, <2>2, <2>3, BloquesDeHilo
  <2>5. BloqueDe(h, -1) = h.indirecto /\ (k = 0 => BloqueDe(h1, -1) = -1)
        /\ (k # 0 => BloqueDe(h1, -1) = BloqueDe(h, -1))
    BY <2>2, BloquesDeHilo
  <2>6. ASSUME NEW m \in Lugares, m # -1, m # k PROVE BloqueDe(h1, m) = BloqueDe(h, m)
    <3>1. CASE m = -2
      BY <1>1, <2>2, <3>1, BloquesDeHilo
    <3>2. CASE m \in 0 .. cpb - 1
      <4>1. h1.punteros[m] = h.punteros[m]
        BY <2>3, <2>6, <3>2
      <4>2. CASE k = 0
        <5>1. m > k
          BY <2>6, <3>2, <4>2, Constantes
        <5>2. h.punteros[m] = 0
          BY <2>2, <3>2, <5>1
        <5> QED BY <3>2, <4>1, <5>2, BloquesDeHilo
      <4>3. CASE k # 0
        <5>1. h1.indirecto = h.indirecto
          BY <2>2, <4>3
        <5> QED BY <3>2, <4>1, <5>1, BloquesDeHilo
      <4> QED BY <4>2, <4>3
    <3> QED BY <2>6, <3>1, <3>2, LugarEs
  <2>7. bitmap' = bitmap \ {BloqueDe(h, m) : m \in Q}
    <3>1. {BloqueDe(h, m) : m \in Q} = {h.punteros[k]} \cup IF k = 0 THEN {h.indirecto} ELSE {}
      BY <2>4, <2>5
    <3> QED BY <2>2, <3>1
  <2>8. \A m \in Q : BloqueDe(h, m) # -1 /\ BloqueDe(h1, m) = -1
    BY <1>1, <2>4, <2>5
  <2>9. \A m \in Lugares \ Q : BloqueDe(h1, m) = BloqueDe(h, m)
    BY <2>5, <2>6
  <2>10. \A m \in Lugares \ {-1} : m # k => BloqueDe(h1, m) = BloqueDe(h, m)
    BY <2>6
  <2>11. Q \in SUBSET Lugares /\ k \in Lugares \ {-1} /\ k \in Q
    BY <1>1
  <2> HIDE DEF Q
  <2> QED BY <2>4, <2>7, <2>8, <2>9, <2>10, <2>11
<1> QED BY <1>2, <1>3

LEMMA SanaReducir ==
  ASSUME Tipos, BloquesEnteros, Sana, NEW f \in Archivos, reducir(f), sano'
  PROVE  Sana' /\ (Exacta => Exacta') /\ \E Q \in SUBSET Lugares : Vacia(f, Q)
<1> DEFINE h == hilo[f]
<1>1. PICK h1 \in Hilos :
           /\ hilo' = [hilo EXCEPT ![f] = h1] /\ FormaDe(h1, fcb[f])
           /\ h.pc = "reducir" /\ ~h1.crece /\ h1.cant = h.cant /\ h1.n = h.n
           /\ h1.tam = h.tam
           /\ QuitaPrimero(h, h1) \/ \E k \in 0 .. cpb - 1 : QuitaPuntero(h, h1, k)
  BY EfectoReducir
<1>2. h \in Hilos /\ h # Libre /\ FormaDe(h, fcb[f]) /\ fcb[f] \in FCBs
  BY <1>1, DelHilo DEF Pasos
<1>3. /\ ~h.crece /\ h.j # -1 /\ h.i \in Nat /\ h.n \in Nat /\ h.i < h.n
      /\ h.cant \in Tamanios /\ h.n = Bloques(fcb[f].tam - h.cant) /\ h.tam = fcb[f].tam
      /\ h.cant < fcb[f].tam /\ fcb[f].tam \in Tamanios \cup {0} /\ fcb[f].tam \in Nat
  <2>1. fcb[f].tam \in Tamanios \cup {0} /\ fcb[f].tam \in Nat
    BY <1>2, CamposFCB
  <2> HIDE DEF h
  <2> QED BY <1>1, <1>2, <2>1, CamposDe, Constantes DEF FormaDe
<1>4. h.tam # 0
  <2>1. h.cant \in Nat
    BY <1>3, Constantes
  <2> HIDE DEF h
  <2> QED BY <1>3, <2>1
<1>5. Datos(f) >= Quedan(f) /\ fcb' = fcb /\ disco' = disco /\ SinCarrera(f)
  BY DEF reducir, vDisco, vCotas, Juzgar, Sana, Guardado
<1>6. hilo'[f] = h1 /\ h1 # Libre /\ \A g \in Archivos \ {f} : hilo'[g] = hilo[g]
  BY <1>1, LibreNoEsHilo DEF Tipos, Formas
<1>7. \A g \in Archivos \ {f} : Guardado(g)' /\ Datos(g)' = Datos(g) /\ Quedan(g)' = Quedan(g)
        /\ \A l \in Lugares : Bloque(g, l)' = Bloque(g, l)
  <2>1. \A g \in Archivos \ {f} : hilo[g].pc # "asignar" /\ Guardado(g)
    BY <1>5 DEF SinCarrera, Sana
  <2> QED BY <1>5, <1>6, <2>1, DeOtros
<1>8. PICK Q \in SUBSET Lugares, l \in Lugares \ {-1} :
           /\ l \in Q /\ \A m \in Q : BloqueDe(h, m) # -1 /\ BloqueDe(h1, m) = -1
           /\ \A m \in Lugares \ Q : BloqueDe(h1, m) = BloqueDe(h, m)
           /\ \A m \in Lugares \ {-1} : m # l => BloqueDe(h1, m) = BloqueDe(h, m)
           /\ bitmap' = bitmap \ {BloqueDe(h, m) : m \in Q}
  <2> HIDE DEF h
  <2> QED BY <1>1, <1>2, <1>3, <1>4, VaciaUno
<1>9. \A m \in Lugares : Bloque(f, m) = BloqueDe(h, m) /\ Bloque(f, m)' = BloqueDe(h1, m)
  BY <1>2, <1>6 DEF Bloque
<1>10. Datos(f)' + 1 = Datos(f)
  <2>1. BloqueDe(h1, l) = -1
    BY <1>8
  <2> QED BY <1>2, <1>6, <1>8, <2>1, DatosDeMenos
<1>11. Quedan(f) = Bloques(fcb[f].tam) - h.i
  BY <1>1, <1>3, LibreNoEsHilo DEF Quedan, Libre
<1>12. Bloques(h.cant) = Bloques(fcb[f].tam) - h.n /\ Bloques(fcb[f].tam) \in Nat
       /\ Bloques(h.cant) \in Nat
  <2>1. Bloques(h.cant) \in Nat /\ Bloques(fcb[f].tam) \in Nat
    <3>1. h.cant \in Nat
      BY <1>3, Constantes
    <3> QED BY <1>3, <3>1, BloquesSon
  <2>2. Bloques(fcb[f].tam - h.cant) = Bloques(fcb[f].tam) - Bloques(h.cant)
    BY <1>3, BloquesExactos
  <2> QED BY <1>3, <2>1, <2>2
<1>13. Datos(f)' >= Quedan(f)' /\ (Datos(f) = Quedan(f) => Datos(f)' = Quedan(f)')
  <2>1. CASE QuitaPrimero(h, h1)
    <3>1. h1.pc = "bloque" /\ h1.punteros = SinPunteros /\ h1.j = -1
      BY <2>1 DEF QuitaPrimero
    <3>2. Quedan(f)' = Bloques(h.cant)
      BY <1>1, <1>6, <3>1 DEF Quedan
    <3>3. \A m \in Lugares \ {-1} : BloqueDe(h1, m) = -1
      <4>1. \A m \in 0 .. cpb - 1 : h1.punteros[m] = 0
        BY <3>1 DEF SinPunteros
      <4> QED BY <3>1, <4>1, LugarEs, BloquesDeHilo
    <3>4. Datos(f)' = 0
      <4>1. {m \in Lugares \ {-1} : Bloque(f, m)' # -1} = {}
        BY <1>9, <3>3
      <4> QED BY <4>1, FS_EmptySet DEF Datos
    <3> QED BY <1>3, <1>5, <1>10, <1>11, <1>12, <3>2, <3>4, DatosNat
  <2>2. CASE \E k \in 0 .. cpb - 1 : QuitaPuntero(h, h1, k)
    <3>1. h1.i = h.i + 1 /\ h1.pc = Sigue(h1.i, h1.n, "reducir")
      BY <1>1, <2>2 DEF QuitaPuntero
    <3>2. Quedan(f)' = Bloques(fcb[f].tam) - h1.i
      <4>1. CASE h1.i = h1.n
        BY <1>1, <1>5, <1>6, <1>12, <3>1, <4>1 DEF Quedan, Sigue
      <4>2. CASE h1.i # h1.n
        BY <1>1, <1>5, <1>6, <3>1, <4>2 DEF Quedan, Sigue
      <4> QED BY <4>1, <4>2
    <3> QED BY <1>3, <1>5, <1>10, <1>11, <1>12, <3>1, <3>2, DatosNat
  <2> QED BY <1>1, <2>1, <2>2
<1>14. Guardado(f)'
  <2>1. h1.pc \notin {"asignar", "fcb", "tamanio"}
    BY <1>1 DEF Sigue, QuitaPrimero, QuitaPuntero
  <2> QED BY <1>1, <1>6, <1>13, <2>1 DEF Guardado
<1>15. /\ \A m \in Lugares : Bloque(f, m)' \in {-1, Bloque(f, m)}
       /\ \A m \in Lugares : Bloque(f, m)' # -1 => m \notin Q
       /\ \A m \in Lugares \ Q : Bloque(f, m)' = Bloque(f, m)
  BY <1>8, <1>9
<1>16. bitmap' = bitmap \ {Bloque(f, m) : m \in Q}
  <2>1. {Bloque(f, m) : m \in Q} = {BloqueDe(h, m) : m \in Q}
    BY <1>9
  <2> QED BY <1>8, <2>1
<1>17. bitmap' \in SUBSET bitmap
  BY <1>16
<1>18. Sana' /\ (Exacta /\ Datos(f)' = Quedan(f)' => Exacta')
  BY <1>7, <1>14, <1>15, <1>16, <1>17, Menos
<1>19. Vacia(f, Q)
  BY <1>7, <1>8, <1>9, <1>15, <1>16 DEF Vacia
<1> QED BY <1>13, <1>18, <1>19 DEF Exacta

\* The steps that leave every block where it is.
LEMMA Quietos ==
  ASSUME Sana, NEW f \in Archivos, bitmap' = bitmap,
         \A g \in Archivos \ {f} : Guardado(g)' /\ Datos(g)' = Datos(g) /\ Quedan(g)' = Quedan(g)
                                   /\ \A l \in Lugares : Bloque(g, l)' = Bloque(g, l),
         Guardado(f)', \A l \in Lugares : Bloque(f, l)' \in {-1, Bloque(f, l)}
  PROVE  /\ Sana'
         /\ Exacta /\ (\A l \in Lugares : Bloque(f, l)' = Bloque(f, l)) /\ Quedan(f)' = Quedan(f)
              => Exacta' /\ SinMover
<1> DEFINE Q == {}
<1>1. bitmap' = bitmap \ {Bloque(f, l) : l \in Q} /\ bitmap' \in SUBSET bitmap
      /\ \A l \in Lugares : Bloque(f, l)' # -1 => l \notin Q
  OBVIOUS
<1>2. Q \in SUBSET Lugares
  OBVIOUS
<1> HIDE DEF Q
<1>3. /\ Sana'
      /\ Exacta /\ (\A l \in Lugares \ Q : Bloque(f, l)' = Bloque(f, l))
              /\ Datos(f)' = Quedan(f)' => Exacta'
  BY <1>1, <1>2, Menos
<1>4. ASSUME Exacta, \A l \in Lugares : Bloque(f, l)' = Bloque(f, l), Quedan(f)' = Quedan(f)
      PROVE  Exacta' /\ SinMover
  <2>1. Datos(f)' = Quedan(f)'
    BY <1>4, DatosIguales DEF Exacta
  <2>2. SinMover
    BY <1>4 DEF SinMover
  <2> QED BY <1>3, <1>4, <2>1, <2>2
<1> QED BY <1>3, <1>4

LEMMA SanaTruncar ==
  ASSUME Tipos, BloquesEnteros, Sana, NEW f \in Archivos, truncate_archivo(f)
  PROVE  Sana' /\ (Exacta => Exacta' /\ SinMover)
<1>1. PICK h \in Hilos :
           /\ hilo' = [hilo EXCEPT ![f] = h] /\ hilo[f] = Libre
           /\ FormaDe(h, fcb[f]) /\ h.i = 0 /\ h.cant # fcb[f].tam
           /\ h.pc = Sigue(0, h.n, IF h.crece THEN "probar" ELSE "reducir")
           /\ h.tam = fcb[f].tam /\ h.directo = fcb[f].directo /\ h.j # -1
           /\ h.indirecto = fcb[f].indirecto
           /\ h.indirecto # 0 => h.punteros = disco[h.indirecto]
  BY EfectoTruncar
<1>2. fcb' = fcb /\ disco' = disco /\ bitmap' = bitmap
  BY DEF truncate_archivo, vDisco
<1>3. hilo'[f] = h /\ h # Libre /\ \A g \in Archivos \ {f} : hilo'[g] = hilo[g]
  BY <1>1, LibreNoEsHilo DEF Tipos, Formas
<1>4. \A g \in Archivos \ {f} : Guardado(g)' /\ Datos(g)' = Datos(g) /\ Quedan(g)' = Quedan(g)
        /\ \A l \in Lugares : Bloque(g, l)' = Bloque(g, l)
  BY <1>2, <1>3, DeOtros DEF Sana
<1>5. \A l \in Lugares : BloqueDe(h, l) = BloqueFCB(f, l)
  BY <1>1 DEF BloqueDe, BloqueFCB, BloqueEn
<1>6. \A l \in Lugares : Bloque(f, l) = BloqueFCB(f, l) /\ Bloque(f, l)' = BloqueDe(h, l)
        /\ BloqueFCB(f, l)' = BloqueFCB(f, l)
  BY <1>1, <1>2, <1>3 DEF Bloque, BloqueFCB
<1>7. h.n # 0 /\ Bloques(fcb[f].tam) \in Nat
  <2>1. fcb[f].tam \in Tamanios \cup {0} /\ h.cant \in Tamanios \cup {0}
    BY CamposDe, CamposFCB DEF Tipos, TypeOK, FCBs
  <2>2. h.n = Bloques(h.cant) - Bloques(fcb[f].tam) \/ h.n = Bloques(fcb[f].tam) - Bloques(h.cant)
    <3>1. h.crece \in BOOLEAN
      BY CamposDe
    <3> QED BY <1>1, <2>1, <3>1, BloquesExactos DEF FormaDe
  <2>3. h.cant # fcb[f].tam /\ h.cant \in Nat /\ fcb[f].tam \in Nat
    <3>1. \A x \in Tamanios \cup {0} : x \in Nat
      BY Constantes
    <3> QED BY <1>1, <2>1, <3>1
  <2>4. h.cant > fcb[f].tam \/ fcb[f].tam > h.cant
    BY <2>3
  <2>5. Bloques(h.cant) # Bloques(fcb[f].tam)
    <3>1. Bloques(h.cant) \in Nat /\ Bloques(fcb[f].tam) \in Nat
      BY <2>3, BloquesSon
    <3> QED BY <2>1, <2>4, <3>1, BloquesExactos
  <2> QED BY <2>2, <2>3, <2>5, BloquesSon
<1>8. h.pc = IF h.crece THEN "probar" ELSE "reducir"
  BY <1>1, <1>7 DEF Sigue
<1>9. Quedan(f) = Bloques(fcb[f].tam) /\ Quedan(f)' = Bloques(fcb[f].tam)
  BY <1>1, <1>2, <1>3, <1>7, <1>8 DEF Quedan
<1>10. Datos(f)' = Datos(f) /\ Datos(f) = DatosFCB(f) /\ DatosFCB(f)' = DatosFCB(f)
  <2>1. /\ {l \in Lugares \ {-1} : Bloque(f, l)' # -1} = {l \in Lugares \ {-1} : Bloque(f, l) # -1}
        /\ {l \in Lugares \ {-1} : BloqueFCB(f, l) # -1} = {l \in Lugares \ {-1} : Bloque(f, l) # -1}
        /\ {l \in Lugares \ {-1} : BloqueFCB(f, l)' # -1}
             = {l \in Lugares \ {-1} : BloqueFCB(f, l) # -1}
    BY <1>5, <1>6
  <2> QED BY <2>1 DEF Datos, DatosFCB
<1>11. Datos(f) >= Bloques(fcb[f].tam)
  BY <1>9 DEF Sana, Guardado
<1>12. Guardado(f)'
  BY <1>2, <1>3, <1>5, <1>6, <1>8, <1>9, <1>10, <1>11 DEF Guardado
<1>13. \A l \in Lugares : Bloque(f, l)' = Bloque(f, l)
  BY <1>5, <1>6
<1> QED BY <1>2, <1>4, <1>9, <1>12, <1>13, Quietos

LEMMA SanaProbar ==
  ASSUME Tipos, Sana, NEW f \in Archivos, bitarray_test_bit(f)
  PROVE  Sana' /\ (Exacta => Exacta' /\ SinMover)
<1> DEFINE h == hilo[f]
<1>1. PICK h1 \in Hilos :
           /\ hilo' = [hilo EXCEPT ![f] = h1] /\ FormaDe(h1, fcb[f])
           /\ h.pc = "probar" /\ h1.pc = "asignar"
           /\ h1.j >= h.j /\ h1.j \notin bitmap
           /\ h1 = [h EXCEPT !.pc = "asignar", !.j = h1.j]
  BY EfectoProbar
<1>2. h \in Hilos /\ h # Libre /\ FormaDe(h, fcb[f])
  BY <1>1, DelHilo DEF Pasos
<1>3. fcb' = fcb /\ disco' = disco /\ bitmap' = bitmap
  BY DEF bitarray_test_bit, vDisco
<1>4. hilo'[f] = h1 /\ h1 # Libre /\ \A g \in Archivos \ {f} : hilo'[g] = hilo[g]
  BY <1>1, LibreNoEsHilo DEF Tipos, Formas
<1>5. \A g \in Archivos \ {f} : Guardado(g)' /\ Datos(g)' = Datos(g) /\ Quedan(g)' = Quedan(g)
        /\ \A l \in Lugares : Bloque(g, l)' = Bloque(g, l)
  BY <1>3, <1>4, DeOtros DEF Sana
<1>6. /\ h1.crece = h.crece /\ h1.i = h.i /\ h1.tam = h.tam /\ h1.directo = h.directo
      /\ h1.indirecto = h.indirecto /\ h1.punteros = h.punteros
  <2> HIDE DEF h
  <2> QED BY <1>1, <1>2 DEF Hilos
<1>7. h.crece /\ h1.crece /\ h.j # -1 /\ h1.j # -1
  <2>1. h.crece /\ h1.crece /\ h.j \in Int /\ h.j >= 0 /\ h1.j \in Int
    <3> HIDE DEF h
    <3> QED BY <1>1, <1>2, CamposDe DEF FormaDe
  <2> HIDE DEF h
  <2> QED BY <1>1, <2>1
<1>8. \A l \in Lugares : BloqueDe(h1, l) = BloqueDe(h, l)
  BY <1>6, <1>7, MismosBloques
<1>9. \A l \in Lugares : Bloque(f, l)' = Bloque(f, l) /\ BloqueFCB(f, l)' = BloqueFCB(f, l)
  BY <1>2, <1>3, <1>4, <1>8 DEF Bloque, BloqueFCB
<1>10. Quedan(f)' = Quedan(f)
  <2>1. Quedan(f) = Bloques(fcb[f].tam) + h.i
    BY <1>1, <1>2, <1>7 DEF Quedan
  <2>2. Quedan(f)' = Bloques(fcb[f].tam) + h1.i
    BY <1>1, <1>3, <1>4, <1>7 DEF Quedan
  <2> QED BY <1>6, <2>1, <2>2
<1>11. Datos(f)' = Datos(f) /\ DatosFCB(f)' = DatosFCB(f)
  <2>1. {l \in Lugares \ {-1} : BloqueFCB(f, l)' # -1}
             = {l \in Lugares \ {-1} : BloqueFCB(f, l) # -1}
    BY <1>9
  <2> QED BY <1>9, <2>1, DatosIguales DEF DatosFCB
<1>12. /\ Datos(f) >= Quedan(f) /\ DatosFCB(f) >= Bloques(fcb[f].tam)
       /\ \A l \in Lugares : BloqueFCB(f, l) \in {-1, BloqueDe(h, l)}
  BY <1>2, <1>7 DEF Sana, Guardado
<1>13. \A l \in Lugares : BloqueFCB(f, l)' \in {-1, BloqueDe(h1, l)}
  <2> HIDE DEF h
  <2> QED BY <1>8, <1>9, <1>12
<1>14. Guardado(f)'
  BY <1>1, <1>3, <1>4, <1>10, <1>11, <1>12, <1>13 DEF Guardado
<1> QED BY <1>3, <1>5, <1>9, <1>10, <1>14, Quietos

\* The block the pointers are written to is nobody else's.
LEMMA BloqueDePunterosAjeno ==
  ASSUME Tipos, Sana, NEW f \in Archivos, hilo[f] # Libre, NEW p \in Nat, p # 0,
         p = hilo[f].indirecto \/ ~EsDePunterosDeOtro(f, p), NEW g \in Archivos \ {f}
  PROVE  /\ hilo[g] = Libre \/ hilo[g].crece => fcb[g].indirecto # p
         /\ hilo[g] # Libre => hilo[g].indirecto # p
<1>1. CASE ~EsDePunterosDeOtro(f, p)
  BY <1>1 DEF EsDePunterosDeOtro
<1>2. CASE p = hilo[f].indirecto
  <2>1. -1 \in Lugares
    BY Constantes DEF Lugares
  <2>2. Bloque(f, -1) = p /\ p # -1
    BY <1>2, BloquesDeHilo DEF Bloque
  <2>3. Bloque(g, -1) # p
    BY <2>1, <2>2 DEF Sana, SinDobles
  <2>4. hilo[g] # Libre => hilo[g].indirecto # p
    BY <2>3, BloquesDeHilo DEF Bloque
  <2>5. hilo[g] = Libre => fcb[g].indirecto # p
    BY <2>3, BloquesDeFCB DEF Bloque
  <2>6. hilo[g] # Libre /\ hilo[g].crece => fcb[g].indirecto # p
    <3> SUFFICES ASSUME hilo[g] # Libre, hilo[g].crece, fcb[g].indirecto = p PROVE FALSE
      OBVIOUS
    <3>1. BloqueFCB(g, -1) = p
      BY BloquesDeFCB
    <3>2. BloqueFCB(g, -1) \in {-1, BloqueDe(hilo[g], -1)}
      BY <2>1 DEF Sana, Guardado
    <3>3. Bloque(g, -1) = p
      BY <2>2, <3>1, <3>2 DEF Bloque
    <3> QED BY <2>3, <3>3
  <2> QED BY <2>4, <2>5, <2>6
<1> QED BY <1>1, <1>2

LEMMA SanaCopiar ==
  ASSUME Tipos, Sana, NEW f \in Archivos, copiar_punteros(f), vivo, vivo' = vivo, sano'
  PROVE  Sana' /\ (Exacta => Exacta' /\ SinMover)
<1> DEFINE h == hilo[f]
<1>1. PICK h1 \in Hilos :
           /\ hilo' = [hilo EXCEPT ![f] = h1] /\ FormaDe(h1, fcb[f])
           /\ h.pc = "bloque" /\ h1 = [h EXCEPT !.pc = "fcb"]
           /\ h1.puntero \in 0 .. cant_bloques - 1
           /\ disco' = IF h1.crece /\ h1.puntero = 0 THEN disco
                       ELSE [disco EXCEPT ![h1.puntero] = h1.punteros]
           /\ h1.crece \/ h1.puntero = h1.indirecto \/ ~EsDePunterosDeOtro(f, h1.puntero)
  BY EfectoCopiar
<1>2. h \in Hilos /\ h # Libre /\ FormaDe(h, fcb[f])
  BY <1>1, DelHilo DEF Pasos
<1>3. fcb' = fcb /\ bitmap' = bitmap
  BY <1>1 DEF copiar_punteros, Caer, vDisco
<1>4. hilo'[f] = h1 /\ h1 # Libre /\ \A g \in Archivos \ {f} : hilo'[g] = hilo[g]
  BY <1>1, LibreNoEsHilo DEF Tipos, Formas
<1>5. /\ h1.pc = "fcb" /\ h1.crece = h.crece /\ h1.cant = h.cant /\ h1.j = h.j /\ h1.tam = h.tam
      /\ h1.directo = h.directo /\ h1.indirecto = h.indirecto /\ h1.puntero = h.puntero
      /\ h1.punteros = h.punteros
  <2>1. "fcb" \in Pasos
    BY DEF Pasos
  <2> HIDE DEF h
  <2> QED BY <1>1, <1>2, <2>1, SoloPc
<1>6. /\ h.puntero \in Nat /\ h.indirecto \in Nat /\ h.crece \in BOOLEAN
      /\ h.puntero = h.indirecto \/ ~EsDePunterosDeOtro(f, h.puntero)
      /\ h.indirecto # 0 => h.puntero = h.indirecto
      /\ h.crece => h.puntero = h.indirecto
  <2> HIDE DEF h
  <2> QED BY <1>1, <1>2, <1>5, CamposDe DEF FormaDe
<1>7. disco \in [0 .. cant_bloques - 1 -> Punteros]
  BY DEF Tipos, TypeOK
<1>8. \A b \in 0 .. cant_bloques - 1 : b # h.puntero => disco'[b] = disco[b]
  BY <1>1, <1>5, <1>7
<1>9. h.puntero # 0 => disco'[h.puntero] = h.punteros
  BY <1>1, <1>5, <1>7
<1>10. ASSUME NEW g \in Archivos \ {f}
       PROVE  /\ Guardado(g)' /\ Datos(g)' = Datos(g) /\ Quedan(g)' = Quedan(g)
              /\ \A l \in Lugares : Bloque(g, l)' = Bloque(g, l)
  <2>1. fcb[g].indirecto \in 0 .. cant_bloques - 1
    <3>1. fcb[g] \in FCBs /\ fcb[g].indirecto < cant_bloques
      BY DEF Tipos, TypeOK, Formas, FCBs
    <3> QED BY <3>1, CamposFCB, Constantes
  <2>2. (hilo[g] = Libre \/ hilo[g].crece) /\ fcb[g].indirecto # 0 =>
          disco'[fcb[g].indirecto] = disco[fcb[g].indirecto]
    <3> SUFFICES ASSUME hilo[g] = Libre \/ hilo[g].crece, fcb[g].indirecto # 0
                 PROVE  fcb[g].indirecto # h.puntero
      BY <1>8, <2>1
    <3>1. CASE h.puntero = 0
      BY <3>1
    <3>2. CASE h.puntero # 0
      BY <1>2, <1>6, <3>2, BloqueDePunterosAjeno
    <3> QED BY <3>1, <3>2
  <2>3. hilo[g].pc \in {"fcb", "tamanio"} /\ hilo[g].indirecto # 0 =>
          disco'[hilo[g].indirecto] = disco[hilo[g].indirecto]
    <3> SUFFICES ASSUME hilo[g].pc \in {"fcb", "tamanio"}, hilo[g].indirecto # 0
                 PROVE  disco'[hilo[g].indirecto] = disco[hilo[g].indirecto]
      OBVIOUS
    <3>1. hilo[g].indirecto # h.puntero
      <4>1. CASE h.puntero = 0
        BY <4>1
      <4>2. CASE h.puntero # 0
        BY <1>2, <1>6, <4>2, LibreNoEsHilo, BloqueDePunterosAjeno DEF Pasos
      <4> QED BY <4>1, <4>2
    <3>2. disco' = disco \/ disco' = [disco EXCEPT ![h.puntero] = h.punteros]
      BY <1>1, <1>5
    <3>3. hilo[g] \in Hilos /\ FormaDe(hilo[g], fcb[g])
      BY DelHilo DEF Pasos
    <3>4. hilo[g].indirecto \in 0 .. cant_bloques - 1
      BY <3>3, CamposDe, Constantes DEF FormaDe
    <3> QED BY <1>7, <3>1, <3>2, <3>4
  <2>4. Guardado(g) /\ bitmap' = bitmap /\ hilo'[g] = hilo[g] /\ fcb'[g] = fcb[g]
    BY <1>3, <1>4 DEF Sana
  <2> QED BY <2>2, <2>3, <2>4, DeOtrosDisco
<1>11. \A l \in Lugares : BloqueDe(h1, l) = BloqueDe(h, l)
  BY <1>5, MismosBloques
<1>12. \A l \in Lugares : Bloque(f, l)' = Bloque(f, l) /\ Bloque(f, l) = BloqueDe(h, l)
  BY <1>2, <1>4, <1>11 DEF Bloque
<1>13. Quedan(f)' = Bloques(h.cant) /\ Quedan(f) = Bloques(h.cant)
  BY <1>1, <1>2, <1>4, <1>5 DEF Quedan
<1>14. Datos(f)' >= Quedan(f)'
  <2>1. Datos(f)' = Datos(f)
    BY <1>12, DatosIguales
  <2> QED BY <1>13, <2>1 DEF Sana, Guardado
<1>15. h.crece => /\ DatosFCB(f)' >= Bloques(fcb[f].tam)
                  /\ \A l \in Lugares : BloqueFCB(f, l)' \in {-1, BloqueDe(h1, l)}
                  /\ h1.directo # 0 \/ h1.tam # 0
  <2> SUFFICES ASSUME h.crece
               PROVE  /\ DatosFCB(f)' >= Bloques(fcb[f].tam)
                      /\ \A l \in Lugares : BloqueFCB(f, l)' \in {-1, BloqueDe(h1, l)}
                      /\ h1.directo # 0 \/ h1.tam # 0
    OBVIOUS
  <2>1. /\ DatosFCB(f) >= Bloques(fcb[f].tam)
        /\ \A l \in Lugares : BloqueFCB(f, l) \in {-1, BloqueDe(h, l)}
        /\ h.directo # 0 \/ h.tam # 0
    BY <1>1, <1>2 DEF Sana, Guardado
  <2>2. fcb[f].indirecto # 0 => fcb[f].indirecto = h.indirecto /\ h.indirecto = h.puntero
    <3>1. -1 \in Lugares
      BY Constantes DEF Lugares
    <3>2. BloqueFCB(f, -1) \in {-1, BloqueDe(h, -1)}
      BY <2>1, <3>1
    <3>3. fcb[f].indirecto \in Nat
      BY CamposFCB DEF Tipos, TypeOK, FCBs
    <3> HIDE DEF h
    <3> QED BY <1>6, <3>2, <3>3, BloquesDeHilo, BloquesDeFCB
  <2>3. ASSUME NEW l \in Lugares
        PROVE  /\ BloqueFCB(f, l)' = BloqueFCB(f, l) \/ BloqueFCB(f, l)' = BloqueDe(h, l)
               /\ BloqueFCB(f, l) # -1 => BloqueFCB(f, l)' # -1
    <3>1. CASE fcb[f].indirecto = 0
      BY <1>3, <3>1 DEF BloqueFCB, BloqueEn
    <3>2. CASE fcb[f].indirecto # 0
      <4>1. disco'[fcb[f].indirecto] = h.punteros /\ fcb'[f] = fcb[f]
        BY <1>3, <1>9, <2>2, <3>2
      <4>2. CASE l = -2 \/ l = -1
        BY <1>3, <4>2 DEF BloqueFCB, BloqueEn
      <4>3. CASE l \in 0 .. cpb - 1
        <5>1. l # -2 /\ l # -1
          BY <4>3, Constantes
        <5>2. BloqueFCB(f, l)' = BloqueDe(h, l)
          <6> HIDE DEF h
          <6> QED BY <2>2, <3>2, <4>1, <5>1 DEF BloqueFCB, BloqueDe, BloqueEn
        <5> QED BY <2>1, <5>2
      <4> QED BY <4>2, <4>3, LugarEs
    <3> QED BY <3>1, <3>2
  <2>4. DatosFCB(f)' >= DatosFCB(f)
    <3> DEFINE S == {l \in Lugares \ {-1} : BloqueFCB(f, l) # -1}
               T == {l \in Lugares \ {-1} : BloqueFCB(f, l)' # -1}
    <3>1. S \in SUBSET T
      BY <2>3
    <3>2. IsFiniteSet(T) /\ IsFiniteSet(S)
      BY LugaresFinitos
    <3>3. DatosFCB(f) = Cardinality(S) /\ DatosFCB(f)' = Cardinality(T)
      BY DEF DatosFCB
    <3> HIDE DEF S, T
    <3>4. Cardinality(S) <= Cardinality(T) /\ Cardinality(S) \in Nat /\ Cardinality(T) \in Nat
      BY <3>1, <3>2, FS_Subset, FS_CardinalityType
    <3> QED BY <3>3, <3>4
  <2>5. Bloques(fcb[f].tam) \in Nat
    <3>1. fcb[f].tam \in Nat
      BY CamposFCB DEF Tipos, TypeOK, FCBs
    <3> QED BY <3>1, BloquesSon
  <2>6. DatosFCB(f)' >= Bloques(fcb[f].tam)
    BY <2>1, <2>4, <2>5, DatosNat
  <2>7. \A l \in Lugares : BloqueFCB(f, l)' \in {-1, BloqueDe(h1, l)}
    <3> HIDE DEF h
    <3> QED BY <1>11, <2>1, <2>3
  <2>8. h1.directo # 0 \/ h1.tam # 0
    BY <1>5, <2>1
  <2> QED BY <2>6, <2>7, <2>8
<1>16. Guardado(f)'
  <2>1. h1.indirecto # 0 => disco'[h1.indirecto] = h1.punteros
    BY <1>5, <1>6, <1>9
  <2> QED BY <1>3, <1>4, <1>5, <1>14, <1>15, <2>1 DEF Guardado
<1>17. \A l \in Lugares : Bloque(f, l)' = Bloque(f, l)
  BY <1>12
<1>18. Quedan(f)' = Quedan(f)
  BY <1>13
<1> HIDE DEF h
<1> QED BY <1>3, <1>10, <1>16, <1>17, <1>18, Quietos

LEMMA SanaGuardar ==
  ASSUME Tipos, BloquesEnteros, Sana, NEW f \in Archivos, config_save(f)
  PROVE  Sana' /\ (Exacta => Exacta' /\ SinMover)
<1> DEFINE h == hilo[f]
<1>1. PICK h1 \in Hilos, c \in FCBs :
           /\ hilo' = [hilo EXCEPT ![f] = h1] /\ fcb' = [fcb EXCEPT ![f] = c]
           /\ FormaDe(h1, c) /\ c.indirecto < cant_bloques
           /\ h.pc = "fcb" /\ h1 = [h EXCEPT !.pc = "tamanio"]
           /\ c.tam = fcb[f].tam /\ c.directo = h1.directo /\ c.indirecto = h1.indirecto
  BY EfectoGuardar
<1>2. h \in Hilos /\ h # Libre /\ FormaDe(h, fcb[f])
  BY <1>1, DelHilo DEF Pasos
<1>3. disco' = disco /\ bitmap' = bitmap
  BY DEF config_save
<1>4. /\ hilo'[f] = h1 /\ h1 # Libre /\ fcb'[f] = c
      /\ \A g \in Archivos \ {f} : hilo'[g] = hilo[g] /\ fcb'[g] = fcb[g]
  BY <1>1, LibreNoEsHilo DEF Tipos, TypeOK, Formas
<1>5. /\ h1.pc = "tamanio" /\ h1.crece = h.crece /\ h1.cant = h.cant /\ h1.j = h.j
      /\ h1.tam = h.tam /\ h1.directo = h.directo /\ h1.indirecto = h.indirecto
      /\ h1.punteros = h.punteros
  <2>1. "tamanio" \in Pasos
    BY DEF Pasos
  <2> HIDE DEF h
  <2> QED BY <1>1, <1>2, <2>1, SoloPc
<1>6. \A g \in Archivos \ {f} : Guardado(g)' /\ Datos(g)' = Datos(g) /\ Quedan(g)' = Quedan(g)
        /\ \A l \in Lugares : Bloque(g, l)' = Bloque(g, l)
  BY <1>3, <1>4, DeOtros DEF Sana
<1>7. \A l \in Lugares : BloqueDe(h1, l) = BloqueDe(h, l)
  BY <1>5, MismosBloques
<1>8. \A l \in Lugares : Bloque(f, l)' = Bloque(f, l) /\ Bloque(f, l) = BloqueDe(h, l)
  BY <1>2, <1>4, <1>7 DEF Bloque
<1>9. Quedan(f)' = Bloques(h.cant) /\ Quedan(f) = Bloques(h.cant)
  BY <1>1, <1>2, <1>4, <1>5 DEF Quedan
<1>10. Datos(f)' = Datos(f) /\ Datos(f) >= Quedan(f)
  BY <1>8, DatosIguales DEF Sana, Guardado
<1>11. h.indirecto # 0 => disco[h.indirecto] = h.punteros
  BY <1>1, <1>2 DEF Sana, Guardado
<1>12. h.crece => /\ DatosFCB(f)' >= Bloques(c.tam)
                  /\ \A l \in Lugares : BloqueFCB(f, l)' \in {-1, BloqueDe(h1, l)}
                  /\ h1.directo # 0 \/ h1.tam # 0
  <2> SUFFICES ASSUME h.crece
               PROVE  /\ DatosFCB(f)' >= Bloques(c.tam)
                      /\ \A l \in Lugares : BloqueFCB(f, l)' \in {-1, BloqueDe(h1, l)}
                      /\ h1.directo # 0 \/ h1.tam # 0
    OBVIOUS
  <2>1. h.directo # 0 \/ h.tam # 0
    BY <1>1, <1>2 DEF Sana, Guardado
  <2>2. h.j # -1 /\ h.cant > c.tam /\ h.cant \in Tamanios
    <3>1. h.j \in Int /\ h.j >= 0 /\ h.cant > fcb[f].tam /\ h.cant \in Tamanios
      <4> HIDE DEF h
      <4> QED BY <1>2, CamposDe DEF FormaDe
    <3> QED BY <1>1, <3>1
  <2>3. ASSUME NEW l \in Lugares
        PROVE  /\ BloqueFCB(f, l)' \in {-1, BloqueDe(h, l)}
               /\ c.tam # 0 => BloqueFCB(f, l)' = BloqueDe(h, l)
    <3>1. CASE l = -2
      <4>1. BloqueFCB(f, l)' = IF c.directo # 0 \/ c.tam # 0 THEN c.directo ELSE -1
        BY <1>4, <3>1 DEF BloqueFCB, BloqueEn
      <4>2. BloqueDe(h, l) = h.directo
        BY <2>1, <2>2, <3>1, BloquesDeHilo
      <4> QED BY <1>1, <1>5, <4>1, <4>2
    <3>2. CASE l # -2
      <4>1. fcb'[f].indirecto = h.indirecto /\ (h.indirecto # 0 => disco'[h.indirecto] = h.punteros)
        BY <1>1, <1>3, <1>4, <1>5, <1>11
      <4>2. BloqueFCB(f, l)' = BloqueDe(h, l)
        <5> HIDE DEF h
        <5> QED BY <3>2, <4>1 DEF BloqueFCB, BloqueDe, BloqueEn
      <4> QED BY <4>2
    <3> QED BY <3>1, <3>2
  <2>4. DatosFCB(f)' >= Bloques(c.tam)
    <3>1. c.tam \in Tamanios \cup {0} /\ c.tam \in Nat
      BY <1>1, CamposFCB
    <3>2. CASE c.tam = 0
      <4>1. Bloques(0) = 0
        BY Constantes DEF Bloques
      <4> QED BY <3>2, <4>1, DatosNat
    <3>3. CASE c.tam # 0
      <4>1. {l \in Lugares \ {-1} : BloqueFCB(f, l)' # -1}
              = {l \in Lugares \ {-1} : Bloque(f, l) # -1}
        BY <1>8, <2>3, <3>3
      <4>2. DatosFCB(f)' = Datos(f)
        BY <4>1 DEF DatosFCB, Datos
      <4>3. Bloques(h.cant) > Bloques(c.tam) /\ Bloques(h.cant) \in Nat /\ Bloques(c.tam) \in Nat
        BY <2>2, <3>1, BloquesExactos
      <4> QED BY <1>9, <1>10, <4>2, <4>3, DatosNat
    <3> QED BY <3>2, <3>3
  <2>5. \A l \in Lugares : BloqueFCB(f, l)' \in {-1, BloqueDe(h1, l)}
    <3> HIDE DEF h
    <3> QED BY <1>7, <2>3
  <2> QED BY <1>5, <2>1, <2>4, <2>5
<1>13. Guardado(f)'
  <2>1. h1.indirecto # 0 => disco'[h1.indirecto] = h1.punteros
    BY <1>3, <1>5, <1>11
  <2> QED BY <1>3, <1>4, <1>5, <1>9, <1>10, <1>12, <2>1 DEF Guardado
<1>14. Quedan(f)' = Quedan(f) /\ \A l \in Lugares : Bloque(f, l)' = Bloque(f, l)
  BY <1>8, <1>9
<1> HIDE DEF h
<1> QED BY <1>3, <1>6, <1>13, <1>14, Quietos

LEMMA SanaTamanio ==
  ASSUME Tipos, BloquesEnteros, Sana, NEW f \in Archivos, guardar_tamanio(f)
  PROVE  Sana' /\ (Exacta => Exacta' /\ SinMover)
<1> DEFINE h == hilo[f]
<1>1. PICK c \in FCBs :
           /\ hilo' = [hilo EXCEPT ![f] = Libre] /\ fcb' = [fcb EXCEPT ![f] = c]
           /\ c.indirecto < cant_bloques /\ h.pc = "tamanio"
           /\ c.tam = h.cant /\ c.directo = fcb[f].directo /\ c.indirecto = fcb[f].indirecto
  BY EfectoTamanio
<1>2. h \in Hilos /\ h # Libre /\ FormaDe(h, fcb[f])
  BY <1>1, DelHilo DEF Pasos
<1>3. disco' = disco /\ bitmap' = bitmap
  BY DEF guardar_tamanio
<1>4. /\ hilo'[f] = Libre /\ fcb'[f] = c
      /\ \A g \in Archivos \ {f} : hilo'[g] = hilo[g] /\ fcb'[g] = fcb[g]
  BY <1>1 DEF Tipos, TypeOK, Formas
<1>5. \A g \in Archivos \ {f} : Guardado(g)' /\ Datos(g)' = Datos(g) /\ Quedan(g)' = Quedan(g)
        /\ \A l \in Lugares : Bloque(g, l)' = Bloque(g, l)
  BY <1>3, <1>4, DeOtros DEF Sana
<1>6. c.directo = h.directo /\ c.indirecto = h.indirecto
      /\ (h.indirecto # 0 => disco'[h.indirecto] = h.punteros)
  BY <1>1, <1>2, <1>3 DEF FormaDe, Sana, Guardado
<1>7. Quedan(f)' = Bloques(h.cant) /\ Quedan(f) = Bloques(h.cant) /\ Datos(f) >= Quedan(f)
  BY <1>1, <1>2, <1>4 DEF Quedan, Sana, Guardado
<1>8. h.cant \in Tamanios \cup {0} /\ h.cant \in Nat /\ h.j \in Int /\ fcb[f].tam \in Nat
      /\ h.tam \in Nat /\ h.directo \in Nat
  <2>1. h.cant \in Tamanios /\ fcb[f].tam \in Nat /\ h.j \in Int /\ h.tam \in Nat /\ h.directo \in Nat
    BY <1>2, CamposDe, CamposFCB DEF Tipos, TypeOK, FCBs
  <2> QED BY <2>1, Constantes
<1>9. \A l \in Lugares : Bloque(f, l) = BloqueDe(h, l)
  BY <1>2 DEF Bloque
<1>10. ASSUME NEW l \in Lugares, l # -2 PROVE Bloque(f, l)' = Bloque(f, l)
  <2>1. Bloque(f, l)' = BloqueFCB(f, l)'
    BY <1>4 DEF Bloque
  <2>2. BloqueFCB(f, l)' = BloqueDe(h, l)
    <3> HIDE DEF h
    <3> QED BY <1>4, <1>6, <1>10 DEF BloqueFCB, BloqueDe, BloqueEn
  <2> QED BY <1>9, <2>1, <2>2
<1>11. /\ Bloque(f, -2)' = IF h.directo # 0 \/ h.cant # 0 THEN h.directo ELSE -1
       /\ Bloque(f, -2) = IF (h.directo # 0 \/ h.tam # 0) /\ h.j # -1 THEN h.directo ELSE -1
       /\ -2 \in Lugares
  <2>1. -2 \in Lugares
    BY Constantes DEF Lugares
  <2>2. Bloque(f, -2)' = IF c.directo # 0 \/ c.tam # 0 THEN c.directo ELSE -1
    BY <1>4 DEF Bloque, BloqueFCB, BloqueEn
  <2> QED BY <1>1, <1>6, <1>9, <2>1, <2>2, BloquesDeHilo
\* Either nothing moves, or the file goes to size 0 without having lost block 0.
<1>12. \/ Bloque(f, -2)' = Bloque(f, -2)
       \/ h.cant = 0 /\ Bloque(f, -2)' = -1 /\ Bloque(f, -2) # -1
  <2>1. CASE h.crece
    <3>1. h.directo # 0 \/ h.tam # 0
      BY <1>1, <1>2, <2>1 DEF Sana, Guardado
    <3>2. h.cant # 0 /\ h.j # -1
      <4>1. h.cant > fcb[f].tam /\ h.j >= 0
        BY <1>2, <2>1 DEF FormaDe
      <4> HIDE DEF h
      <4> QED BY <1>8, <4>1
    <3> QED BY <1>11, <3>1, <3>2
  <2>2. CASE ~h.crece /\ h.j # -1
    <3>1. h.tam # 0
      <4>1. h.cant < h.tam
        BY <1>2, <2>2 DEF FormaDe
      <4> HIDE DEF h
      <4> QED BY <1>8, <4>1
    <3> QED BY <1>8, <1>11, <2>2, <3>1
  <2>3. CASE ~h.crece /\ h.j = -1
    <3>1. h.directo = 0 /\ \A x \in 0 .. cpb - 1 : x > h.j => h.punteros[x] = 0
      BY <1>2, <2>3 DEF FormaDe
    <3>2. ASSUME NEW l \in Lugares, l # -1 PROVE Bloque(f, l) = -1
      <4>1. CASE l = -2
        BY <1>11, <2>3, <4>1
      <4>2. CASE l \in 0 .. cpb - 1
        <5>1. h.punteros[l] = 0
          BY <2>3, <3>1, <4>2, Constantes
        <5> QED BY <1>9, <4>2, <5>1, BloquesDeHilo
      <4> QED BY <3>2, <4>1, <4>2, LugarEs
    <3>3. Datos(f) = 0
      <4>1. {l \in Lugares \ {-1} : Bloque(f, l) # -1} = {}
        BY <3>2
      <4> QED BY <4>1, FS_EmptySet DEF Datos
    <3>4. h.cant = 0
      <4>1. Bloques(h.cant) \in Nat /\ h.cant = tamanio_bloque * Bloques(h.cant)
        BY <1>8, BloquesExactos
      <4>2. Bloques(h.cant) = 0
        BY <1>7, <3>3, <4>1
      <4> QED BY <4>1, <4>2, Constantes
    <3> QED BY <1>11, <2>3, <3>1, <3>4
  <2> QED BY <2>1, <2>2, <2>3
<1>13. Datos(f)' >= Quedan(f)'
  <2>1. CASE Bloque(f, -2)' = Bloque(f, -2)
    <3>1. \A l \in Lugares : Bloque(f, l)' = Bloque(f, l)
      BY <1>10, <2>1
    <3> QED BY <1>7, <3>1, DatosIguales
  <2>2. CASE h.cant = 0
    <3>1. Bloques(h.cant) = 0
      BY <2>2, Constantes DEF Bloques
    <3> QED BY <1>7, <3>1, DatosNat
  <2> QED BY <1>12, <2>1, <2>2
<1>14. Guardado(f)'
  BY <1>4, <1>13, LibreNoEsHilo DEF Guardado, Libre
<1>15. \A l \in Lugares : Bloque(f, l)' \in {-1, Bloque(f, l)}
  BY <1>10, <1>12
<1>16. Exacta => \A l \in Lugares : Bloque(f, l)' = Bloque(f, l)
  <2> SUFFICES ASSUME Exacta, h.cant = 0, Bloque(f, -2) # -1 PROVE FALSE
    BY <1>10, <1>12
  <2> DEFINE S == {l \in Lugares \ {-1} : Bloque(f, l) # -1}
  <2>1. Bloques(h.cant) = 0
    BY Constantes DEF Bloques
  <2>2. Datos(f) = 0
    BY <1>7, <2>1 DEF Exacta
  <2>3. IsFiniteSet(S) /\ Cardinality(S) = 0
    BY <2>2, LugaresFinitos DEF Datos
  <2>4. -2 \in S
    BY <1>11
  <2> HIDE DEF S
  <2> QED BY <2>3, <2>4, FS_EmptySet
<1>17. Quedan(f)' = Quedan(f)
  BY <1>7
<1> HIDE DEF h
<1> QED BY <1>3, <1>5, <1>14, <1>15, <1>16, <1>17, Quietos

\* A restart goes back to what is saved, a part of what the threads had.
LEMMA SanaIniciar ==
  ASSUME Tipos, Sana, init_fileSystem, sano'
  PROVE  Sana'
<1>1. /\ fcb' = fcb /\ bitmap' = bitmap /\ disco' = disco
      /\ hilo' = [f \in Archivos |-> Libre]
      /\ \A f \in Archivos : hilo[f] # Libre => hilo[f].crece
  BY DEF init_fileSystem, vDisco
<1>2. \A f \in Archivos, l \in Lugares :
        Bloque(f, l)' = BloqueFCB(f, l) /\ BloqueFCB(f, l)' = BloqueFCB(f, l)
  BY <1>1 DEF Bloque, BloqueFCB
<1>3. ASSUME NEW f \in Archivos, NEW l \in Lugares PROVE Bloque(f, l)' \in {-1, Bloque(f, l)}
  BY <1>1, <1>2 DEF Bloque, Sana, Guardado
<1>4. SinDobles'
  <2>1. \A g \in Archivos, l \in Lugares : Bloque(g, l)' # -1 => Bloque(g, l) \in bitmap'
    BY <1>1, <1>3 DEF Sana, SinDobles
  <2> QED BY <1>3, <2>1, DoblesMenos DEF Sana
<1>5. ASSUME NEW f \in Archivos PROVE Guardado(f)'
  <2>1. DatosFCB(f) >= Bloques(fcb[f].tam)
    <3>1. CASE hilo[f] = Libre
      <4>1. {l \in Lugares \ {-1} : Bloque(f, l) # -1}
              = {l \in Lugares \ {-1} : BloqueFCB(f, l) # -1}
        BY <3>1 DEF Bloque
      <4>2. Datos(f) = DatosFCB(f)
        BY <4>1 DEF Datos, DatosFCB
      <4> QED BY <3>1, <4>2 DEF Sana, Guardado, Quedan
    <3>2. CASE hilo[f] # Libre
      BY <1>1, <3>2 DEF Sana, Guardado
    <3> QED BY <3>1, <3>2
  <2>2. Datos(f)' = DatosFCB(f)
    <3>1. {l \in Lugares \ {-1} : Bloque(f, l)' # -1}
            = {l \in Lugares \ {-1} : BloqueFCB(f, l) # -1}
      BY <1>2
    <3> QED BY <3>1 DEF Datos, DatosFCB
  <2>3. Quedan(f)' = Bloques(fcb[f].tam)
    BY <1>1 DEF Quedan
  <2> QED BY <1>1, <2>1, <2>2, <2>3, LibreNoEsHilo DEF Guardado, Libre
<1> QED BY <1>4, <1>5 DEF Sana

LEMMA SinCambios ==
  ASSUME hilo' = hilo, fcb' = fcb, disco' = disco, bitmap' = bitmap
  PROVE  (Sana => Sana') /\ (Exacta => Exacta')
<1>1. ASSUME NEW f \in Archivos
      PROVE  /\ \A l \in Lugares : Bloque(f, l)' = Bloque(f, l)
             /\ Datos(f)' = Datos(f) /\ Quedan(f)' = Quedan(f)
             /\ Guardado(f) => Guardado(f)'
  BY DeOtros
<1>2. Exacta => Exacta'
  BY <1>1 DEF Exacta
<1>3. SinDobles => SinDobles'
  BY <1>1 DEF SinDobles
<1> QED BY <1>1, <1>2, <1>3 DEF Sana

LEMMA InvarianteInicial == Init => Invariante
<1> SUFFICES ASSUME Init PROVE Invariante
  OBVIOUS
<1>1. ASSUME NEW f \in Archivos
      PROVE  /\ \A l \in Lugares : Bloque(f, l) = -1
             /\ Datos(f) = 0 /\ Quedan(f) = 0
  <2>1. \A l \in Lugares : Bloque(f, l) = -1
    BY <1>1 DEF Init, Bloque, BloqueFCB, BloqueEn
  <2>2. {l \in Lugares \ {-1} : Bloque(f, l) # -1} = {}
    BY <2>1
  <2>3. Datos(f) = 0
    BY <2>2, FS_EmptySet DEF Datos
  <2>4. Quedan(f) = 0
    <3>1. Bloques(0) = 0
      BY Constantes DEF Bloques
    <3> QED BY <3>1 DEF Init, Quedan
  <2> QED BY <2>1, <2>3, <2>4
<1>2. SinDobles
  BY <1>1 DEF SinDobles
<1>3. ASSUME NEW f \in Archivos PROVE Guardado(f)
  BY <1>1, LibreNoEsHilo DEF Init, Guardado, Libre
<1>4. Exacta
  BY <1>1 DEF Init, Exacta
<1> QED BY <1>2, <1>3, <1>4, TiposIniciales DEF Init, Invariante, Sana

LEMMA InvariantePaso ==
  ASSUME Invariante, BloquesEnteros, [Next]_vars PROVE Invariante'
<1>1. Tipos /\ Tipos'
  BY TiposPaso DEF Invariante
<1>2. sano' \in BOOLEAN /\ exacto' \in BOOLEAN /\ sano \in BOOLEAN /\ exacto \in BOOLEAN
  BY <1>1 DEF Tipos, TypeOK
\* What is sane was, and what is exact was, and no step but a restart changes that.
<1> DEFINE Bien == (sano' => sano /\ Sana') /\ (exacto' => exacto /\ sano') /\ (exacto' => Exacta')
<1> SUFFICES Bien
  BY <1>1 DEF Invariante
<1>3. ASSUME sano' = sano, exacto' = exacto, sano => Sana' /\ (Exacta => Exacta') PROVE Bien
  BY <1>3 DEF Invariante
<1>4. ASSUME NEW ok \in BOOLEAN, Juzgar(ok), sano' => Sana' /\ (Exacta => Exacta') PROVE Bien
  BY <1>4 DEF Juzgar, Invariante
<1>5. CASE UNCHANGED vars
  <2>1. (Sana => Sana') /\ (Exacta => Exacta') /\ sano' = sano /\ exacto' = exacto
    BY <1>5, SinCambios DEF vars, vDisco
  <2> QED BY <1>3, <2>1 DEF Invariante
<1>6. CASE Caer
  <2>1. (Sana => Sana') /\ (Exacta => Exacta') /\ sano' = sano /\ exacto' = exacto
    BY <1>6, SinCambios DEF Caer, vDisco
  <2> QED BY <1>3, <2>1 DEF Invariante
<1>7. ASSUME NEW f \in Archivos, verificar_existencia_archivo(f) PROVE Bien
  <2>1. (Sana => Sana') /\ (Exacta => Exacta') /\ sano' = sano /\ exacto' = exacto
    BY <1>7, SinCambios DEF verificar_existencia_archivo
  <2> QED BY <1>3, <2>1 DEF Invariante
<1>8. ASSUME NEW f \in Archivos, truncate_archivo(f) PROVE Bien
  <2>1. sano' = sano /\ exacto' = exacto
    BY <1>8 DEF truncate_archivo
  <2>2. sano => Sana' /\ (Exacta => Exacta')
    BY <1>1, <1>8, SanaTruncar DEF Invariante
  <2> QED BY <1>3, <2>1, <2>2
<1>9. ASSUME NEW f \in Archivos, bitarray_test_bit(f) PROVE Bien
  <2>1. sano' = sano /\ exacto' = exacto
    BY <1>9 DEF bitarray_test_bit
  <2>2. sano => Sana' /\ (Exacta => Exacta')
    BY <1>1, <1>9, SanaProbar DEF Invariante
  <2> QED BY <1>3, <2>1, <2>2
<1>10. ASSUME NEW f \in Archivos, asignar(f), ~Caer, vivo PROVE Bien
  <2>1. PICK ok \in BOOLEAN : Juzgar(ok)
    BY <1>10 DEF asignar, SinCarrera
  <2>2. vivo' = vivo /\ (sano' => sano)
    BY <1>10, <2>1 DEF asignar, Juzgar
  <2>3. sano' => Sana' /\ (Exacta => Exacta')
    BY <1>1, <1>10, <2>2, SanaAsignar DEF Invariante
  <2> QED BY <1>4, <2>1, <2>3
<1>11. ASSUME NEW f \in Archivos, reducir(f) PROVE Bien
  <2>1. PICK ok \in BOOLEAN : Juzgar(ok)
    BY <1>11 DEF reducir, SinCarrera
  <2>2. sano' => sano
    BY <2>1 DEF Juzgar
  <2>3. sano' => Sana' /\ (Exacta => Exacta')
    BY <1>1, <1>11, <2>2, SanaReducir DEF Invariante
  <2> QED BY <1>4, <2>1, <2>3
<1>12. ASSUME NEW f \in Archivos, copiar_punteros(f), ~Caer, vivo PROVE Bien
  <2>1. /\ Juzgar(hilo[f].crece \/ hilo[f].puntero = hilo[f].indirecto
                   \/ ~EsDePunterosDeOtro(f, hilo[f].puntero))
        /\ vivo' = vivo /\ hilo[f].pc = "bloque"
    BY <1>12 DEF copiar_punteros
  <2>2. hilo[f].crece \in BOOLEAN
    BY <1>1, <2>1, DelHilo, CamposDe DEF Pasos
  <2>3. PICK ok \in BOOLEAN : Juzgar(ok)
    BY <2>1, <2>2
  <2>4. sano' => sano
    BY <2>3 DEF Juzgar
  <2>5. sano' => Sana' /\ (Exacta => Exacta')
    BY <1>1, <1>12, <2>1, <2>4, SanaCopiar DEF Invariante
  <2> QED BY <1>4, <2>3, <2>5
<1>13. ASSUME NEW f \in Archivos, config_save(f) PROVE Bien
  <2>1. sano' = sano /\ exacto' = exacto
    BY <1>13 DEF config_save
  <2>2. sano => Sana' /\ (Exacta => Exacta')
    BY <1>1, <1>13, SanaGuardar DEF Invariante
  <2> QED BY <1>3, <2>1, <2>2
<1>14. ASSUME NEW f \in Archivos, guardar_tamanio(f) PROVE Bien
  <2>1. sano' = sano /\ exacto' = exacto
    BY <1>14 DEF guardar_tamanio
  <2>2. sano => Sana' /\ (Exacta => Exacta')
    BY <1>1, <1>14, SanaTamanio DEF Invariante
  <2> QED BY <1>3, <2>1, <2>2
<1>15. CASE init_fileSystem
  <2>1. exacto' = FALSE /\ (sano' => sano)
    BY <1>15 DEF init_fileSystem
  <2>2. sano' => Sana'
    BY <1>1, <1>15, <2>1, SanaIniciar DEF Invariante
  <2> QED BY <2>1, <2>2
<1> HIDE DEF Bien
<1> QED BY <1>5, <1>6, <1>7, <1>8, <1>9, <1>10, <1>11, <1>12, <1>13, <1>14, <1>15 DEF Next

-----------------------------------------------------------------------------
(* What the invariant says of the saved FCBs.                              *)

\* The uses of a block that a file counts are its places that hold it: one or none.
LEMMA UsosDeUno ==
  ASSUME Tipos, Sana, EnReposo, NEW f \in Archivos, NEW b \in Nat
  PROVE  /\ (\E l \in Lugares : Bloque(f, l) = b) => UsosDe(f, b) = 1
         /\ (\A l \in Lugares : Bloque(f, l) # b) => UsosDe(f, b) = 0
<1> DEFINE c == fcb[f]
           P == {t \in PosicionesUsadas(f) : disco[c.indirecto][t] = b}
           u1 == IF c.directo = b /\ (b # 0 \/ c.tam # 0) THEN 1 ELSE 0
           u2 == IF c.indirecto = b /\ b # 0 THEN 1 ELSE 0
<1>1. UsosDe(f, b) = u1 + u2 + Cardinality(P)
  BY DEF UsosDe
<1>2. /\ c.directo \in Nat /\ c.tam \in Nat /\ c.indirecto \in Nat
      /\ -2 \in Lugares /\ -1 \in Lugares /\ \A t \in 0 .. cpb - 1 : t \in Lugares
      /\ b # -1
  BY Constantes, CamposFCB DEF Tipos, TypeOK, FCBs, Lugares
<1>3. \A l \in Lugares : Bloque(f, l) = BloqueFCB(f, l)
  BY DEF EnReposo, Bloque
<1>4. u1 = IF Bloque(f, -2) = b THEN 1 ELSE 0
  <2> HIDE DEF c
  <2> QED BY <1>2, <1>3, BloquesDeFCB DEF c
<1>5. u2 = IF Bloque(f, -1) = b THEN 1 ELSE 0
  BY <1>2, <1>3, BloquesDeFCB
<1>6. P = {t \in 0 .. cpb - 1 : Bloque(f, t) = b}
  <2>1. ASSUME NEW t \in 0 .. cpb - 1 PROVE t \in P <=> Bloque(f, t) = b
    <3>1. Bloque(f, t) = IF c.indirecto = 0 THEN -1
                         ELSE IF disco[c.indirecto][t] = 0 THEN -1 ELSE disco[c.indirecto][t]
      BY <1>2, <1>3, BloquesDeFCB
    <3> QED BY <1>2, <3>1 DEF PosicionesUsadas
  <2>2. P \subseteq 0 .. cpb - 1
    BY DEF PosicionesUsadas
  <2> HIDE DEF P
  <2> QED BY <2>1, <2>2
<1> HIDE DEF c, P, u1, u2
<1>7. CASE \A l \in Lugares : Bloque(f, l) # b
  <2>1. P = {} /\ u1 = 0 /\ u2 = 0
    BY <1>2, <1>4, <1>5, <1>6, <1>7
  <2> QED BY <1>1, <1>7, <2>1, FS_EmptySet
<1>8. ASSUME NEW l \in Lugares, Bloque(f, l) = b PROVE UsosDe(f, b) = 1
  <2>1. \A m \in Lugares : Bloque(f, m) = b => m = l
    BY <1>2, <1>8 DEF Sana, SinDobles
  <2>2. CASE l = -2
    <3>1. Bloque(f, -1) # b /\ \A t \in 0 .. cpb - 1 : Bloque(f, t) # b
      BY <1>2, <2>1, <2>2, Constantes
    <3>2. P = {} /\ u1 = 1 /\ u2 = 0
      BY <1>4, <1>5, <1>6, <1>8, <2>2, <3>1
    <3> QED BY <1>1, <3>2, FS_EmptySet
  <2>3. CASE l = -1
    <3>1. Bloque(f, -2) # b /\ \A t \in 0 .. cpb - 1 : Bloque(f, t) # b
      BY <1>2, <2>1, <2>3, Constantes
    <3>2. P = {} /\ u1 = 0 /\ u2 = 1
      BY <1>4, <1>5, <1>6, <1>8, <2>3, <3>1
    <3> QED BY <1>1, <3>2, FS_EmptySet
  <2>4. CASE l \in 0 .. cpb - 1
    <3>1. Bloque(f, -2) # b /\ Bloque(f, -1) # b
      BY <1>2, <2>1, <2>4, Constantes
    <3>2. P = {l} /\ u1 = 0 /\ u2 = 0
      BY <1>2, <1>4, <1>5, <1>6, <1>8, <2>1, <2>4, <3>1
    <3>3. Cardinality(P) = 1
      BY <3>2, FS_Singleton
    <3> QED BY <1>1, <3>2, <3>3
  <2> QED BY <2>2, <2>3, <2>4, LugarEs
<1> QED BY <1>7, <1>8

\* Usos adds them up.
LEMMA UsosEsSuma ==
  ASSUME NEW b, NEW v, v = [f \in Archivos |-> UsosDe(f, b)], \A f \in Archivos : v[f] \in Int
  PROVE  Usos(b) = SumFunctionOnSet(v, Archivos)
<1> DEFINE S == Archivos
           Rec(h) == [T \in SUBSET S |->
                        IF T = {} THEN 0
                        ELSE UsosDe(CHOOSE x \in T : TRUE, b) + h[T \ {CHOOSE x \in T : TRUE}]]
           iter == CHOOSE h : h = Rec(h)
<1>1. IsFiniteSet(S)
  BY FileSystemAssumption
<1>2. PICK g : EsSuma(g, v, Elegir(S), S) /\ SumFunctionOnSet(v, S) = g[S]
  BY <1>1, SumaEsFold
<1>3. g = Rec(g)
  <2>1. \A T \in SUBSET S : g[T] = Rec(g)[T]
    BY <1>2 DEF EsSuma, Paso, Elegir
  <2>2. g = [T \in SUBSET S |-> g[T]]
    BY <1>2 DEF EsSuma
  <2>3. Rec(g) = [T \in SUBSET S |-> Rec(g)[T]]
    OBVIOUS
  <2> HIDE DEF Rec
  <2> QED BY <2>1, <2>2, <2>3
<1>4. iter = Rec(iter)
  <2> HIDE DEF Rec
  <2> QED BY <1>3
<1>5. Usos(b) = iter[S]
  BY DEF Usos, MapThenSumSet, MapThenFoldSet
<1>6. iter[S] = g[S]
  <2> HIDE DEF iter
  <2> DEFINE Malos == {X \in SUBSET S : iter[X] # g[X]}
  <2> SUFFICES ASSUME Malos # {} PROVE FALSE
    OBVIOUS
  <2>1. PICK m \in Malos : \A X \in SUBSET m : X # m => X \notin Malos
    <3>1. Malos \in SUBSET SUBSET S
      OBVIOUS
    <3> HIDE DEF Malos, S
    <3> QED BY <1>1, <3>1, MinimoConjuntos
  <2>2. iter[m] = Rec(iter)[m] /\ g[m] = Rec(g)[m]
    <3> HIDE DEF Rec
    <3> QED BY <1>3, <1>4
  <2>3. CASE m = {}
    BY <2>1, <2>2, <2>3
  <2>4. CASE m # {}
    <3> DEFINE x == CHOOSE x \in m : TRUE
    <3>1. x \in m
      BY <2>4
    <3>2. iter[m] = UsosDe(x, b) + iter[m \ {x}] /\ g[m] = UsosDe(x, b) + g[m \ {x}]
      BY <2>2, <2>4
    <3> HIDE DEF x
    <3>3. iter[m \ {x}] = g[m \ {x}]
      BY <2>1, <3>1
    <3> QED BY <2>1, <3>2, <3>3
  <2> QED BY <2>3, <2>4
<1> QED BY <1>2, <1>5, <1>6

\* So a block is used once or not at all.
LEMMA UsosUno ==
  ASSUME Tipos, Sana, EnReposo, NEW b \in Nat
  PROVE  /\ (\E f \in Archivos, l \in Lugares : Bloque(f, l) = b) => Usos(b) = 1
         /\ (\A f \in Archivos, l \in Lugares : Bloque(f, l) # b) => Usos(b) = 0
<1> DEFINE v == [f \in Archivos |-> UsosDe(f, b)]
<1>1. IsFiniteSet(Archivos)
  BY FileSystemAssumption
<1>2. \A f \in Archivos :
        v[f] = IF \E l \in Lugares : Bloque(f, l) = b THEN 1 ELSE 0
  BY UsosDeUno
<1>3. \A f \in Archivos : v[f] \in Int
  BY <1>2
<1>4. Usos(b) = SumFunctionOnSet(v, Archivos)
  <2> DEFINE w == v
  <2>1. w = [f \in Archivos |-> UsosDe(f, b)] /\ \A f \in Archivos : w[f] \in Int
    BY <1>3
  <2> HIDE DEF w
  <2>2. Usos(b) = SumFunctionOnSet(w, Archivos)
    BY <2>1, UsosEsSuma
  <2> QED BY <2>2 DEF w
<1> HIDE DEF v
<1>5. CASE \A f \in Archivos, l \in Lugares : Bloque(f, l) # b
  <2>1. \A f \in Archivos : v[f] = 0
    BY <1>2, <1>5
  <2> QED BY <1>1, <1>4, <1>5, <2>1, SumaCeros
<1>6. ASSUME NEW f \in Archivos, NEW l \in Lugares, Bloque(f, l) = b PROVE Usos(b) = 1
  <2>1. ASSUME NEW g \in Archivos \ {f} PROVE v[g] = 0
    <3>1. b # -1
      OBVIOUS
    <3>2. \A m \in Lugares : Bloque(g, m) # b
      BY <1>6, <3>1 DEF Sana, SinDobles
    <3> QED BY <1>2, <3>2
  <2>2. v[f] = 1
    BY <1>2, <1>6
  <2>3. SumFunctionOnSet(v, Archivos) = v[f] + SumFunctionOnSet(v, Archivos \ {f})
    BY <1>1, <1>3, SumaSacar
  <2>4. IsFiniteSet(Archivos \ {f})
    BY <1>1, FS_RemoveElement
  <2>5. SumFunctionOnSet(v, Archivos \ {f}) = 0
    BY <2>1, <2>4, SumaCeros
  <2> QED BY <1>4, <2>2, <2>3, <2>5
<1> QED BY <1>5, <1>6

LEMMA InvarianteDaSinCompartir == Invariante => SinCompartir
<1> SUFFICES ASSUME Invariante, sano, EnReposo, NEW b \in 0 .. cant_bloques - 1
             PROVE  Usos(b) <= 1 /\ (Usos(b) = 1 => b \in bitmap)
  BY DEF SinCompartir
<1>1. Tipos /\ Sana /\ b \in Nat /\ b # -1
  BY Constantes DEF Invariante
<1>2. CASE \A f \in Archivos, l \in Lugares : Bloque(f, l) # b
  BY <1>1, <1>2, UsosUno
<1>3. ASSUME NEW f \in Archivos, NEW l \in Lugares, Bloque(f, l) = b
      PROVE  Usos(b) <= 1 /\ b \in bitmap
  BY <1>1, <1>3, UsosUno DEF Sana, SinDobles
<1> QED BY <1>2, <1>3

LEMMA InvarianteDaSinFugas == Invariante => SinFugas
<1> SUFFICES ASSUME Invariante, exacto, EnReposo, NEW b \in bitmap PROVE Usos(b) = 1
  BY DEF SinFugas
<1>1. Tipos /\ Sana /\ Exacta /\ b \in Nat
  BY DEF Invariante, Tipos, TypeOK
<1> QED BY <1>1, UsosUno DEF Exacta

LEMMA InvarianteDaTamanio == Invariante /\ BloquesEnteros => TamanioCubierto
<1> SUFFICES ASSUME Invariante, BloquesEnteros, exacto, EnReposo, NEW f \in Archivos
             PROVE  (1 + Cardinality(PosicionesUsadas(f))) * tamanio_bloque >= fcb[f].tam
  BY DEF TamanioCubierto
<1>1. Tipos /\ Exacta /\ hilo[f] = Libre
  BY DEF Invariante, EnReposo
<1>2. fcb[f].tam \in Tamanios \cup {0}
  BY <1>1, CamposFCB DEF Tipos, TypeOK, FCBs
<1>3. Datos(f) = Bloques(fcb[f].tam)
  BY <1>1 DEF Exacta, Quedan
<1>4. fcb[f].tam = tamanio_bloque * Datos(f)
  BY <1>2, <1>3, BloquesExactos
<1> DEFINE S == {l \in Lugares \ {-1} : Bloque(f, l) # -1}
           P == PosicionesUsadas(f)
<1>5. S \subseteq P \cup {-2}
  <2>1. ASSUME NEW l \in S, l # -2 PROVE l \in P
    <3>1. l \in 0 .. cpb - 1 /\ BloqueFCB(f, l) # -1
      BY <1>1, <2>1, LugarEs DEF Bloque
    <3> QED BY <3>1, BloquesDeFCB DEF PosicionesUsadas
  <2> QED BY <2>1
<1>6. IsFiniteSet(P) /\ Cardinality(P) \in Nat
  <2>1. P \in SUBSET Lugares
    BY Constantes DEF PosicionesUsadas, Lugares
  <2> QED BY <2>1, LugaresFinitos
<1>7. Datos(f) = Cardinality(S)
  BY DEF Datos
<1> HIDE DEF S, P
<1>8. IsFiniteSet(P \cup {-2}) /\ Cardinality(P \cup {-2}) <= Cardinality(P) + 1
  <2>1. /\ IsFiniteSet(P \cup {-2})
        /\ Cardinality(P \cup {-2}) = IF -2 \in P THEN Cardinality(P) ELSE Cardinality(P) + 1
    BY <1>6, FS_AddElement
  <2> QED BY <1>6, <2>1
<1>9. Cardinality(S) <= Cardinality(P \cup {-2}) /\ Cardinality(P \cup {-2}) \in Nat
  BY <1>5, <1>8, FS_Subset, FS_CardinalityType
<1>10. Datos(f) <= 1 + Cardinality(P) /\ Datos(f) \in Nat
  BY <1>6, <1>7, <1>8, <1>9, DatosNat
<1>11. \A x, y, z \in Nat : x <= y => z * x <= y * z
  OBVIOUS
<1>12. 1 + Cardinality(P) \in Nat /\ tamanio_bloque \in Nat
  BY <1>6, Constantes
<1>13. fcb[f].tam <= (1 + Cardinality(P)) * tamanio_bloque
  BY <1>4, <1>10, <1>11, <1>12
<1>14. (1 + Cardinality(P)) * tamanio_bloque \in Int /\ fcb[f].tam \in Int
  <2>1. \A x, y \in Nat : x * y \in Int
    OBVIOUS
  <2> QED BY <1>4, <1>10, <1>12, <2>1
<1> QED BY <1>13, <1>14 DEF P

\* When the programs truncate to whole numbers of blocks, a block belongs to one file
\* and one place in it and has its bit set, through interleaved expansions of several
\* files and restarts in the middle of them.
THEOREM SinCompartirSiempre == ASSUME BloquesEnteros PROVE Spec => []SinCompartir
<1>1. Invariante /\ [Next]_vars => Invariante'
  BY InvariantePaso
<1> QED BY <1>1, InvarianteInicial, InvarianteDaSinCompartir, PTL DEF Spec

\* And no set bit is lost, as long as no restart cuts a truncate short.
THEOREM SinFugasSiempre == ASSUME BloquesEnteros PROVE Spec => []SinFugas
<1>1. Invariante /\ [Next]_vars => Invariante'
  BY InvariantePaso
<1> QED BY <1>1, InvarianteInicial, InvarianteDaSinFugas, PTL DEF Spec

\* Every byte of a saved size has a block.
THEOREM TamanioSiempreCubierto == ASSUME BloquesEnteros PROVE Spec => []TamanioCubierto
<1>1. Invariante /\ [Next]_vars => Invariante'
  BY InvariantePaso
<1>2. Invariante => TamanioCubierto
  BY InvarianteDaTamanio
<1> QED BY <1>1, <1>2, InvarianteInicial, PTL DEF Spec

-----------------------------------------------------------------------------
(* The search for a clear bit stays on a disk with room for every file at  *)
(* its largest. A thread does not go back to the bits it has passed, so    *)
(* what counts is that, up to any block, no more bits are clear than the   *)
(* threads that have not passed it may come to take, plus those that are   *)
(* left over when every file is full.                                      *)

Entra == Cardinality(Archivos) * (cpb + 2) <= cant_bloques
Sobran == cant_bloques - Cardinality(Archivos) * (cpb + 2)

Pasado(f, c) == hilo[f] # Libre /\ hilo[f].crece /\ hilo[f].j > c
Faltan(c) == {x \in Archivos \X Lugares : ~Pasado(x[1], c) /\ Bloque(x[1], x[2]) = -1}
Alcanza(c) == Cardinality((0 .. c) \ bitmap) <= Cardinality(Faltan(c)) + Sobran
Alcanzan == \A c \in 0 .. cant_bloques - 1 : Alcanza(c)

LEMMA LugaresDeTodos ==
  /\ IsFiniteSet(Archivos \X Lugares)
  /\ Cardinality(Archivos \X Lugares) = cant_bloques - Sobran /\ Sobran \in Int
  /\ \A S \in SUBSET (Archivos \X Lugares) :
       IsFiniteSet(S) /\ Cardinality(S) \in Nat
       /\ \A T \in SUBSET S : Cardinality(T) <= Cardinality(S)
<1>1. IsFiniteSet(Archivos) /\ Cardinality(Archivos) \in Nat
  BY FileSystemAssumption, FS_CardinalityType
<1>2. IsFiniteSet(Archivos \X Lugares)
      /\ Cardinality(Archivos \X Lugares) = Cardinality(Archivos) * (cpb + 2)
  BY <1>1, Constantes, FS_Product
<1>3. Cardinality(Archivos) * (cpb + 2) \in Int
  <2>1. \A x, y \in Nat : x * (y + 2) \in Int
    OBVIOUS
  <2> QED BY <1>1, <2>1, Constantes
<1>4. Cardinality(Archivos \X Lugares) = cant_bloques - Sobran /\ Sobran \in Int
  BY <1>2, <1>3, Constantes DEF Sobran
<1>5. ASSUME NEW S \in SUBSET (Archivos \X Lugares)
      PROVE  IsFiniteSet(S) /\ Cardinality(S) \in Nat
             /\ \A T \in SUBSET S : Cardinality(T) <= Cardinality(S)
  BY <1>2, FS_Subset, FS_CardinalityType
<1> QED BY <1>2, <1>4, <1>5

LEMMA Tramo ==
  ASSUME NEW c \in Nat, NEW B
  PROVE  IsFiniteSet((0 .. c) \ B) /\ Cardinality((0 .. c) \ B) \in Nat
         /\ Cardinality(0 .. c) = c + 1 /\ IsFiniteSet(0 .. c)
<1>1. IsFiniteSet(0 .. c) /\ Cardinality(0 .. c) = c + 1
  BY FS_Interval
<1>2. (0 .. c) \ B \in SUBSET (0 .. c)
  OBVIOUS
<1> DEFINE I == 0 .. c
           D == I \ B
<1>3. IsFiniteSet(I) /\ D \in SUBSET I
  BY <1>1
<1> HIDE DEF I, D
<1>4. IsFiniteSet(D) /\ Cardinality(D) \in Nat
  BY <1>3, FS_Subset, FS_CardinalityType
<1> QED BY <1>1, <1>4 DEF I, D

\* With every clear bit counted, no set bit can be beyond the end of the disk.
LEMMA AlcanzaAdentro ==
  ASSUME Tipos, Sana, Exacta, Alcanzan PROVE bitmap \subseteq 0 .. cant_bloques - 1
<1> DEFINE N == cant_bloques
           Todos == Archivos \X Lugares
           Ocupados == {x \in Todos : Bloque(x[1], x[2]) # -1}
           Vacios == {x \in Todos : Bloque(x[1], x[2]) = -1}
           D == 0 .. N - 1
<1> SUFFICES ASSUME NEW b \in bitmap, b \notin D PROVE FALSE
  OBVIOUS
<1>1. N \in Nat \ {0} /\ N - 1 \in D /\ N - 1 \in Nat /\ bitmap \subseteq Nat /\ IsFiniteSet(bitmap)
  BY Constantes DEF Tipos, TypeOK, Formas
<1>2. Cardinality(bitmap) <= Cardinality(Ocupados)
  <2> DEFINE F == [x \in Ocupados |-> Bloque(x[1], x[2])]
  <2>1. F \in [Ocupados -> bitmap]
    BY DEF Sana, SinDobles
  <2>2. ASSUME NEW y \in bitmap PROVE \E x \in Ocupados : F[x] = y
    <3>1. PICK f \in Archivos, l \in Lugares : Bloque(f, l) = y
      BY DEF Exacta
    <3>2. y # -1
      BY <1>1
    <3>3. <<f, l>> \in Ocupados
      BY <3>1, <3>2
    <3> QED BY <3>1, <3>3
  <2>3. IsFiniteSet(Ocupados)
    BY LugaresDeTodos
  <2> HIDE DEF F, Ocupados
  <2>4. F \in Surjection(Ocupados, bitmap)
    BY <2>1, <2>2 DEF Surjection
  <2> QED BY <2>3, <2>4, FS_Surjection
<1>3. Cardinality(Ocupados) + Cardinality(Vacios) = N - Sobran
  <2>1. IsFiniteSet(Ocupados) /\ IsFiniteSet(Vacios)
        /\ Cardinality(Ocupados) \in Nat /\ Cardinality(Vacios) \in Nat
    BY LugaresDeTodos
  <2>2. Ocupados \cup Vacios = Todos /\ Ocupados \cap Vacios = {}
    OBVIOUS
  <2> HIDE DEF Ocupados, Vacios, Todos
  <2>3. Cardinality(Todos) = Cardinality(Ocupados) + Cardinality(Vacios) - Cardinality({})
    BY <2>1, <2>2, FS_Union
  <2> QED BY <2>1, <2>3, FS_EmptySet, LugaresDeTodos DEF Todos
<1>4. Cardinality(Faltan(N - 1)) <= Cardinality(Vacios)
  <2>1. Faltan(N - 1) \in SUBSET Vacios /\ Vacios \in SUBSET Todos
    BY DEF Faltan
  <2> HIDE DEF Vacios
  <2> QED BY <2>1, LugaresDeTodos
<1>5. Cardinality(D \ bitmap) = N - Cardinality(D \cap bitmap)
  <2>1. IsFiniteSet(D) /\ Cardinality(D) = N
    <3>1. Cardinality(D) = (N - 1) + 1 /\ IsFiniteSet(D)
      BY <1>1, Tramo
    <3> HIDE DEF D
    <3> QED BY <1>1, <3>1
  <2> HIDE DEF D
  <2> QED BY <2>1, FS_Difference
<1>6. Cardinality(D \cap bitmap) <= Cardinality(bitmap) - 1 /\ Cardinality(D \cap bitmap) \in Nat
  <2>1. D \cap bitmap \in SUBSET (bitmap \ {b})
    OBVIOUS
  <2>2. IsFiniteSet(bitmap \ {b}) /\ Cardinality(bitmap \ {b}) = Cardinality(bitmap) - 1
    BY <1>1, FS_RemoveElement
  <2> HIDE DEF D
  <2>3. Cardinality(D \cap bitmap) <= Cardinality(bitmap \ {b})
    BY <2>1, <2>2, FS_Subset
  <2>4. IsFiniteSet(D \cap bitmap)
    BY <2>1, <2>2, FS_Subset
  <2>5. Cardinality(D \cap bitmap) \in Nat /\ Cardinality(bitmap) \in Nat
    BY <1>1, <2>4, FS_CardinalityType
  <2> QED BY <2>2, <2>3, <2>5
<1>7. Cardinality(D \ bitmap) <= Cardinality(Faltan(N - 1)) + Sobran
  <2>1. Alcanza(N - 1)
    BY <1>1 DEF Alcanzan
  <2> QED BY <2>1 DEF Alcanza
<1>8. Cardinality(Ocupados) \in Nat /\ Cardinality(Vacios) \in Nat /\ Sobran \in Int
      /\ Cardinality(Faltan(N - 1)) \in Nat /\ Cardinality(bitmap) \in Nat
  <2>1. Faltan(N - 1) \in SUBSET Todos
    BY DEF Faltan
  <2>2. Cardinality(bitmap) \in Nat
    BY <1>1, FS_CardinalityType
  <2>3. Ocupados \in SUBSET Todos /\ Vacios \in SUBSET Todos
    OBVIOUS
  <2> HIDE DEF Ocupados, Vacios
  <2> QED BY <2>1, <2>2, <2>3, LugaresDeTodos
<1> HIDE DEF Ocupados, Vacios, D, N
<1>9. N \in Nat
  BY <1>1
<1> QED BY <1>2, <1>3, <1>4, <1>5, <1>6, <1>7, <1>8, <1>9

\* Bits and places stay, and no thread passes a bit.
LEMMA AlcanzaQuieto ==
  ASSUME Alcanzan, bitmap' = bitmap, SinMover,
         NEW c \in 0 .. cant_bloques - 1,
         \A g \in Archivos : Pasado(g, c)' => Pasado(g, c)
  PROVE  Alcanza(c)'
<1>1. Faltan(c) \in SUBSET Faltan(c)' /\ Faltan(c)' \in SUBSET (Archivos \X Lugares)
  BY DEF Faltan, SinMover
<1>2. Cardinality(Faltan(c)) <= Cardinality(Faltan(c)')
      /\ Cardinality(Faltan(c)) \in Nat /\ Cardinality(Faltan(c)') \in Nat
  BY <1>1, LugaresDeTodos
<1>3. Cardinality((0 .. c) \ bitmap) \in Nat /\ Sobran \in Int
  <2>1. c \in Nat
    BY Constantes
  <2> QED BY <2>1, Tramo, LugaresDeTodos
<1>4. Cardinality((0 .. c) \ bitmap) <= Cardinality(Faltan(c)) + Sobran
  BY DEF Alcanzan, Alcanza
<1>5. Cardinality((0 .. c) \ bitmap) <= Cardinality(Faltan(c)') + Sobran
  BY <1>2, <1>3, <1>4
<1> QED BY <1>5 DEF Alcanza, Sobran

LEMMA SobranNat == ASSUME Entra PROVE Sobran \in Nat
<1>1. Cardinality(Archivos) * (cpb + 2) = cant_bloques - Sobran /\ Sobran \in Int
  <2>1. IsFiniteSet(Archivos)
    BY FileSystemAssumption
  <2> QED BY <2>1, Constantes, LugaresDeTodos, FS_Product
<1> QED BY <1>1, Constantes DEF Entra

\* A thread passes the bits from j to c: those that are clear are the ones before j.
LEMMA AlcanzaPasar ==
  ASSUME Entra, Alcanzan, NEW c \in 0 .. cant_bloques - 1, NEW j \in 0 .. c,
         (0 .. c) \ bitmap' = (0 .. j - 1) \ bitmap,
         j # 0 => Faltan(j - 1) \subseteq Faltan(c)'
  PROVE  Alcanza(c)'
<1>1. Faltan(c)' \in SUBSET (Archivos \X Lugares) /\ Cardinality(Faltan(c)') \in Nat
  <2>1. Faltan(c)' \in SUBSET (Archivos \X Lugares)
    BY DEF Faltan
  <2> QED BY <2>1, LugaresDeTodos
<1>2. CASE j = 0
  <2>1. (0 .. c) \ bitmap' = {}
    BY <1>2
  <2>2. Cardinality((0 .. c) \ bitmap') = 0
    BY <2>1, FS_EmptySet
  <2> QED BY <1>1, <2>2, SobranNat DEF Alcanza, Sobran
<1>3. CASE j # 0
  <2>1. j - 1 \in 0 .. cant_bloques - 1 /\ j - 1 \in Nat
    BY <1>3, Constantes
  <2>2. Faltan(j - 1) \in SUBSET Faltan(c)' /\ Faltan(j - 1) \in SUBSET (Archivos \X Lugares)
    BY <1>3 DEF Faltan
  <2>3. Cardinality(Faltan(j - 1)) <= Cardinality(Faltan(c)')
        /\ Cardinality(Faltan(j - 1)) \in Nat
    BY <1>1, <2>2, LugaresDeTodos
  <2>4. Cardinality((0 .. j - 1) \ bitmap) <= Cardinality(Faltan(j - 1)) + Sobran
    BY <2>1 DEF Alcanzan, Alcanza
  <2>5. Cardinality((0 .. j - 1) \ bitmap) \in Nat
    BY <2>1, Tramo
  <2>6. Cardinality((0 .. c) \ bitmap') = Cardinality((0 .. j - 1) \ bitmap)
    OBVIOUS
  <2>7. Cardinality((0 .. c) \ bitmap') <= Cardinality(Faltan(c)') + Sobran
    BY <1>1, <2>3, <2>4, <2>5, <2>6, SobranNat
  <2> QED BY <2>7 DEF Alcanza, Sobran
<1> QED BY <1>2, <1>3

LEMMA AlcanzaProbar ==
  ASSUME Tipos, Entra, Alcanzan, SinMover, NEW f \in Archivos, bitarray_test_bit(f),
         NEW c \in 0 .. cant_bloques - 1
  PROVE  Alcanza(c)'
<1>1. PICK h1 \in Hilos :
           /\ hilo' = [hilo EXCEPT ![f] = h1]
           /\ hilo[f].pc = "probar" /\ h1.j >= hilo[f].j /\ h1.j \notin bitmap
           /\ \A x \in hilo[f].j .. h1.j - 1 : x \in bitmap
  BY EfectoProbar
<1>2. bitmap' = bitmap
  BY DEF bitarray_test_bit, vDisco
<1>3. hilo'[f] = h1 /\ \A g \in Archivos \ {f} : hilo'[g] = hilo[g]
  BY <1>1 DEF Tipos, Formas
<1>4. hilo[f] \in Hilos /\ hilo[f] # Libre /\ hilo[f].crece
  BY <1>1, DelHilo DEF Pasos, FormaDe
<1> DEFINE j == hilo[f].j
<1>5. j \in Nat /\ h1.j \in Nat /\ c \in Nat
  <2>1. j \in Int /\ h1.j \in Int /\ j >= 0
    BY <1>1, <1>4, DelHilo, CamposDe DEF FormaDe, Pasos
  <2> HIDE DEF j
  <2> QED BY <1>1, <2>1, Constantes DEF j
<1>6. CASE j > c \/ h1.j <= c
  <2>1. ASSUME NEW g \in Archivos, Pasado(g, c)' PROVE Pasado(g, c)
    <3>1. CASE g = f
      BY <1>3, <1>4, <1>5, <1>6, <2>1, <3>1 DEF Pasado
    <3>2. CASE g # f
      BY <1>3, <2>1, <3>2 DEF Pasado
    <3> QED BY <3>1, <3>2
  <2> QED BY <1>2, <2>1, AlcanzaQuieto
<1>7. CASE j <= c /\ h1.j > c
  <2>1. \A x \in j .. c : x \in bitmap
    BY <1>1, <1>5, <1>7
  <2>2. (0 .. c) \ bitmap' = (0 .. j - 1) \ bitmap /\ j \in 0 .. c
    BY <1>2, <1>5, <1>7, <2>1
  <2>3. Faltan(j - 1) \subseteq Faltan(c)'
    <3>1. ASSUME NEW g \in Archivos, ~Pasado(g, j - 1) PROVE ~Pasado(g, c)'
      <4>1. g # f
        BY <1>4, <1>5, <3>1 DEF Pasado
      <4>2. hilo'[g] = hilo[g]
        BY <1>3, <4>1
      <4>3. hilo[g] # Libre => hilo[g].j \in Int
        BY CamposDe DEF Tipos, Formas
      <4> QED BY <1>5, <1>7, <3>1, <4>2, <4>3 DEF Pasado
    <3> HIDE DEF j
    <3> QED BY <3>1 DEF Faltan, SinMover
  <2> HIDE DEF j
  <2> QED BY <2>2, <2>3, AlcanzaPasar
<1> QED BY <1>5, <1>6, <1>7

\* The bit that is set was one of those counted, and the place it fills too.
LEMMA AlcanzaAsignar ==
  ASSUME Tipos, Sana, Entra, Alcanzan, NEW f \in Archivos, asignar(f), vivo, vivo' = vivo,
         NEW l \in Lugares, Llena(f, l, hilo[f].j), NEW c \in 0 .. cant_bloques - 1
  PROVE  Alcanza(c)'
<1> DEFINE j == hilo[f].j
<1>1. PICK h1 \in Hilos :
           /\ hilo' = [hilo EXCEPT ![f] = h1]
           /\ hilo[f].pc = "asignar" /\ bitmap' = bitmap \cup {j}
           /\ h1.crece /\ h1.j = j + 1
  BY EfectoAsignar
<1>2. hilo'[f] = h1 /\ h1 # Libre /\ \A g \in Archivos \ {f} : hilo'[g] = hilo[g]
  BY <1>1, LibreNoEsHilo DEF Tipos, Formas
<1>3. hilo[f] \in Hilos /\ hilo[f] # Libre /\ hilo[f].crece
  BY <1>1, DelHilo DEF Pasos, FormaDe
<1>4. j \in Nat /\ c \in Nat /\ j \notin bitmap
  <2>1. j \in Int /\ j >= 0 /\ j \notin bitmap
    BY <1>1, <1>3, DelHilo, CamposDe DEF FormaDe, Pasos, Sana, Guardado
  <2> HIDE DEF j
  <2> QED BY <2>1, Constantes
<1>5. \A g \in Archivos \ {f} : Pasado(g, c)' <=> Pasado(g, c)
  BY <1>2 DEF Pasado
<1>6. Pasado(f, c) <=> j > c
  BY <1>3 DEF Pasado
<1>7. Pasado(f, c)' <=> j + 1 > c
  BY <1>1, <1>2 DEF Pasado
<1>8. /\ \A m \in Lugares : m # l => Bloque(f, m)' = Bloque(f, m)
      /\ Bloque(f, l) = -1 /\ Bloque(f, l)' # -1
      /\ \A g \in Archivos \ {f}, m \in Lugares : Bloque(g, m)' = Bloque(g, m)
  <2>1. Bloque(f, l) = -1 /\ Bloque(f, l)' = j
    BY DEF Llena
  <2>2. Bloque(f, l)' # -1
    BY <1>4, <2>1
  <2> QED BY <2>1, <2>2 DEF Llena
<1>9. CASE c < j
  <2>1. (0 .. c) \ bitmap' = (0 .. c) \ bitmap
    BY <1>1, <1>4, <1>9
  <2>2. Faltan(c)' = Faltan(c)
    <3>1. Pasado(f, c) /\ Pasado(f, c)'
      BY <1>4, <1>6, <1>7, <1>9
    <3> QED BY <1>5, <1>8, <3>1 DEF Faltan
  <2>3. Alcanza(c)
    BY DEF Alcanzan
  <2>4. Cardinality((0 .. c) \ bitmap') <= Cardinality(Faltan(c)') + Sobran
    BY <2>1, <2>2, <2>3 DEF Alcanza
  <2> QED BY <2>4 DEF Alcanza, Sobran
<1>10. CASE c = j
  <2>1. (0 .. c) \ bitmap' = (0 .. j - 1) \ bitmap /\ j \in 0 .. c
    BY <1>1, <1>4, <1>10
  <2>2. Faltan(j - 1) \subseteq Faltan(c)'
    <3>1. ASSUME NEW g \in Archivos, ~Pasado(g, j - 1) PROVE g # f /\ ~Pasado(g, c)'
      <4>1. g # f
        BY <1>3, <1>4, <3>1 DEF Pasado
      <4>2. hilo'[g] = hilo[g]
        BY <1>2, <4>1
      <4>3. hilo[g] # Libre => hilo[g].j \in Int
        BY CamposDe DEF Tipos, Formas
      <4> QED BY <1>4, <1>10, <3>1, <4>1, <4>2, <4>3 DEF Pasado
    <3> HIDE DEF j
    <3> QED BY <1>8, <3>1 DEF Faltan
  <2> HIDE DEF j
  <2> QED BY <2>1, <2>2, AlcanzaPasar
<1>11. CASE c > j
  <2>1. (0 .. c) \ bitmap' = ((0 .. c) \ bitmap) \ {j} /\ j \in (0 .. c) \ bitmap
    BY <1>1, <1>4, <1>11
  <2>2. Faltan(c)' = Faltan(c) \ {<<f, l>>} /\ <<f, l>> \in Faltan(c)
    <3>1. ~Pasado(f, c) /\ ~Pasado(f, c)'
      BY <1>4, <1>6, <1>7, <1>11
    <3> QED BY <1>5, <1>8, <3>1 DEF Faltan
  <2>3. Cardinality((0 .. c) \ bitmap) <= Cardinality(Faltan(c)) + Sobran
    BY DEF Alcanzan, Alcanza
  <2>4. Cardinality((0 .. c) \ bitmap') = Cardinality((0 .. c) \ bitmap) - 1
        /\ Cardinality((0 .. c) \ bitmap) \in Nat
    <3> DEFINE D == (0 .. c) \ bitmap
    <3>1. IsFiniteSet(D) /\ Cardinality(D) \in Nat
      BY <1>4, Tramo
    <3>2. Cardinality(D \ {j}) = Cardinality(D) - 1
      <4>1. j \in D
        BY <2>1
      <4> HIDE DEF D, j
      <4> QED BY <3>1, <4>1, FS_RemoveElement
    <3> QED BY <2>1, <3>1, <3>2
  <2>5. Cardinality(Faltan(c)') = Cardinality(Faltan(c)) - 1 /\ Cardinality(Faltan(c)) \in Nat
    <3>1. Faltan(c) \in SUBSET (Archivos \X Lugares)
      BY DEF Faltan
    <3>2. IsFiniteSet(Faltan(c)) /\ Cardinality(Faltan(c)) \in Nat
      BY <3>1, LugaresDeTodos
    <3> QED BY <2>2, <3>2, FS_RemoveElement
  <2>6. Cardinality((0 .. c) \ bitmap') <= Cardinality(Faltan(c)') + Sobran
    BY <2>3, <2>4, <2>5, SobranNat
  <2> QED BY <2>6 DEF Alcanza, Sobran
<1> QED BY <1>4, <1>9, <1>10, <1>11

\* As many places come to be empty as bits are cleared, at least.
LEMMA AlcanzaReducir ==
  ASSUME Tipos, Entra, Alcanzan, NEW f \in Archivos, reducir(f),
         NEW Q \in SUBSET Lugares, Vacia(f, Q), NEW c \in 0 .. cant_bloques - 1
  PROVE  Alcanza(c)'
<1>1. PICK h1 \in Hilos :
        hilo' = [hilo EXCEPT ![f] = h1] /\ hilo[f].pc = "reducir" /\ ~h1.crece
  BY EfectoReducir
<1>2. hilo'[f] = h1 /\ h1 # Libre /\ \A g \in Archivos \ {f} : hilo'[g] = hilo[g]
  BY <1>1, LibreNoEsHilo DEF Tipos, Formas
<1>3. ~hilo[f].crece
  BY <1>1, DelHilo DEF Pasos, FormaDe
<1> DEFINE B == {Bloque(f, m) : m \in Q}
           P == {f} \X Q
           D == (0 .. c) \ bitmap
<1>4. Faltan(c)' = Faltan(c) \cup P /\ Faltan(c) \cap P = {}
  <2>1. \A g \in Archivos : Pasado(g, c)' <=> Pasado(g, c)
    BY <1>1, <1>2, <1>3 DEF Pasado
  <2>2. ~Pasado(f, c)
    BY <1>3 DEF Pasado
  <2>3. ASSUME NEW x \in Archivos \X Lugares
        PROVE  x \in Faltan(c)' <=> x \in Faltan(c) \/ x \in P
    <3>1. CASE x[1] = f /\ x[2] \in Q
      BY <2>1, <2>2, <3>1 DEF Faltan, Vacia
    <3>2. CASE ~(x[1] = f /\ x[2] \in Q)
      <4>1. Bloque(x[1], x[2])' = Bloque(x[1], x[2]) /\ x \notin P
        BY <3>2 DEF Vacia
      <4> HIDE DEF P
      <4> QED BY <2>1, <4>1 DEF Faltan
    <3> QED BY <3>1, <3>2
  <2>4. P \subseteq Archivos \X Lugares /\ Faltan(c) \subseteq Archivos \X Lugares
        /\ Faltan(c)' \subseteq Archivos \X Lugares
    BY DEF Faltan
  <2>5. \A x \in P : x \notin Faltan(c)
    BY DEF Faltan, Vacia
  <2> HIDE DEF P
  <2> QED BY <2>3, <2>4, <2>5
<1>5. IsFiniteSet(Q) /\ Cardinality(Q) \in Nat
  BY LugaresFinitos
<1>6. IsFiniteSet(P) /\ Cardinality(P) = Cardinality(Q)
  <2>1. IsFiniteSet({f}) /\ Cardinality({f}) = 1
    BY FS_Singleton
  <2>2. IsFiniteSet({f} \X Q) /\ Cardinality({f} \X Q) = 1 * Cardinality(Q)
    BY <1>5, <2>1, FS_Product
  <2> QED BY <1>5, <2>2
<1>7. IsFiniteSet(B) /\ Cardinality(B) <= Cardinality(Q) /\ Cardinality(B) \in Nat
  <2> DEFINE F == [m \in Q |-> Bloque(f, m)]
  <2>1. F \in Surjection(Q, B)
    BY DEF Surjection
  <2> HIDE DEF F, B
  <2>2. IsFiniteSet(B) /\ Cardinality(B) <= Cardinality(Q)
    BY <1>5, <2>1, FS_Surjection
  <2> QED BY <2>2, FS_CardinalityType
<1>8. Cardinality(Faltan(c)') = Cardinality(Faltan(c)) + Cardinality(Q)
      /\ Cardinality(Faltan(c)) \in Nat
  <2>1. Faltan(c) \in SUBSET (Archivos \X Lugares)
    BY DEF Faltan
  <2>2. IsFiniteSet(Faltan(c)) /\ Cardinality(Faltan(c)) \in Nat
    BY <2>1, LugaresDeTodos
  <2> HIDE DEF P
  <2>3. Cardinality(Faltan(c) \cup P)
          = Cardinality(Faltan(c)) + Cardinality(P) - Cardinality({})
    BY <1>4, <1>6, <2>2, FS_Union
  <2> QED BY <1>4, <1>5, <1>6, <2>2, <2>3, FS_EmptySet
<1>9. IsFiniteSet(D) /\ Cardinality(D) \in Nat
  <2>1. c \in Nat
    BY Constantes
  <2> QED BY <2>1, Tramo
<1>10. (0 .. c) \ bitmap' \in SUBSET (D \cup B)
  BY DEF Vacia
<1> DEFINE E == (0 .. c) \ bitmap'
<1>11. Cardinality(E) <= Cardinality(D) + Cardinality(Q) /\ Cardinality(E) \in Nat
  <2> HIDE DEF D, B, E
  <2>1. IsFiniteSet(D \cup B)
        /\ Cardinality(D \cup B) = Cardinality(D) + Cardinality(B) - Cardinality(D \cap B)
    BY <1>7, <1>9, FS_Union
  <2>2. Cardinality(D \cap B) \in Nat
    BY <1>9, FS_Intersection, FS_CardinalityType
  <2>3. E \in SUBSET (D \cup B)
    BY <1>10 DEF E
  <2>4. Cardinality(E) <= Cardinality(D \cup B) /\ Cardinality(E) \in Nat
    BY <2>1, <2>3, FS_Subset, FS_CardinalityType
  <2> QED BY <1>5, <1>7, <1>9, <2>1, <2>2, <2>4
<1>12. Cardinality(D) <= Cardinality(Faltan(c)) + Sobran
  BY DEF Alcanzan, Alcanza
<1> HIDE DEF D
<1>13. Cardinality(E) <= Cardinality(Faltan(c)') + Sobran
  <2> HIDE DEF E
  <2> QED BY <1>5, <1>8, <1>9, <1>11, <1>12, SobranNat
<1> QED BY <1>13 DEF Alcanza, Sobran

LEMMA AlcanzanInicial == ASSUME Init PROVE Alcanzan
<1> SUFFICES ASSUME NEW c \in 0 .. cant_bloques - 1 PROVE Alcanza(c)
  BY DEF Alcanzan
<1>1. Faltan(c) = Archivos \X Lugares
  <2>1. \A f \in Archivos : ~Pasado(f, c)
    BY DEF Init, Pasado
  <2>2. \A f \in Archivos, l \in Lugares : Bloque(f, l) = -1
    BY DEF Init, Bloque, BloqueFCB, BloqueEn
  <2> QED BY <2>1, <2>2 DEF Faltan
<1>2. c \in Nat /\ c + 1 <= cant_bloques /\ cant_bloques \in Nat
  BY Constantes
<1>3. Cardinality((0 .. c) \ bitmap) = c + 1
  <2>1. (0 .. c) \ bitmap = 0 .. c
    BY DEF Init
  <2> QED BY <1>2, <2>1, Tramo
<1> QED BY <1>1, <1>2, <1>3, LugaresDeTodos DEF Alcanza

\* Bits and places stay and every thread stays at its bit, starts at 0 or ends.
LEMMA AlcanzanQuietos ==
  ASSUME Alcanzan, bitmap' = bitmap, SinMover,
         \A g \in Archivos :
           hilo'[g] # Libre /\ hilo'[g].crece =>
             \/ hilo[g] # Libre /\ hilo[g].crece /\ hilo'[g].j = hilo[g].j
             \/ hilo'[g].j = 0
  PROVE  Alcanzan'
<1> SUFFICES ASSUME NEW c \in 0 .. cant_bloques - 1 PROVE Alcanza(c)'
  BY DEF Alcanzan
<1>1. ~(0 > c)
  BY Constantes
<1>2. \A g \in Archivos : Pasado(g, c)' => Pasado(g, c)
  BY <1>1 DEF Pasado
<1> QED BY <1>2, AlcanzaQuieto

LEMMA SinMoverNada ==
  ASSUME hilo' = hilo, fcb' = fcb, disco' = disco, bitmap' = bitmap
  PROVE  SinMover
<1> SUFFICES ASSUME NEW f \in Archivos PROVE \A l \in Lugares : Bloque(f, l)' = Bloque(f, l)
  BY DEF SinMover
<1> QED BY DeOtros

LEMMA AlcanzanPaso ==
  ASSUME Invariante, BloquesEnteros, Entra, exacto => Alcanzan, [Next]_vars
  PROVE  exacto' => Alcanzan'
<1> SUFFICES ASSUME exacto' PROVE Alcanzan'
  OBVIOUS
<1>1. Tipos /\ Tipos' /\ Invariante'
  BY TiposPaso, InvariantePaso DEF Invariante
<1>2. sano'
  BY <1>1 DEF Invariante
<1>3. exacto' = exacto \/ (\E ok : Juzgar(ok)) \/ init_fileSystem
  BY DEF vars, Next, Caer, verificar_existencia_archivo, truncate_archivo, bitarray_test_bit,
         asignar, reducir, copiar_punteros, config_save, guardar_tamanio
<1>4. exacto /\ ~init_fileSystem
  BY <1>3 DEF Juzgar, init_fileSystem
<1>5. Sana /\ Exacta /\ Alcanzan
  BY <1>4 DEF Invariante
<1>6. ASSUME hilo' = hilo, fcb' = fcb, disco' = disco, bitmap' = bitmap PROVE Alcanzan'
  BY <1>5, <1>6, SinMoverNada, AlcanzanQuietos
<1>7. CASE UNCHANGED vars
  BY <1>6, <1>7 DEF vars, vDisco
<1>8. CASE Caer
  BY <1>6, <1>8 DEF Caer, vDisco
<1>9. ASSUME NEW f \in Archivos, verificar_existencia_archivo(f) PROVE Alcanzan'
  BY <1>6, <1>9 DEF verificar_existencia_archivo
<1>10. ASSUME NEW f \in Archivos, truncate_archivo(f) PROVE Alcanzan'
  <2>1. PICK h \in Hilos : hilo' = [hilo EXCEPT ![f] = h] /\ (h.crece => h.j = 0)
    BY <1>1, <1>10, EfectoTruncar
  <2>2. hilo'[f] = h /\ \A g \in Archivos \ {f} : hilo'[g] = hilo[g]
    BY <1>1, <2>1 DEF Tipos, Formas
  <2>3. SinMover
    BY <1>1, <1>5, <1>10, SanaTruncar
  <2>4. bitmap' = bitmap
    BY <1>10 DEF truncate_archivo, vDisco
  <2> QED BY <1>5, <2>1, <2>2, <2>3, <2>4, AlcanzanQuietos
<1>11. ASSUME NEW f \in Archivos, bitarray_test_bit(f) PROVE Alcanzan'
  <2>1. SinMover
    BY <1>1, <1>5, <1>11, SanaProbar
  <2>2. \A c \in 0 .. cant_bloques - 1 : Alcanza(c)'
    BY <1>1, <1>5, <1>11, <2>1, AlcanzaProbar
  <2> QED BY <2>2 DEF Alcanzan
<1>12. ASSUME NEW f \in Archivos, asignar(f), ~Caer, vivo PROVE Alcanzan'
  <2>1. vivo' = vivo
    BY <1>12 DEF asignar
  <2>2. PICK l \in Lugares : Llena(f, l, hilo[f].j)
    BY <1>1, <1>2, <1>5, <1>12, <2>1, SanaAsignar
  <2>3. \A c \in 0 .. cant_bloques - 1 : Alcanza(c)'
    BY <1>1, <1>5, <1>12, <2>1, <2>2, AlcanzaAsignar
  <2> QED BY <2>3 DEF Alcanzan
<1>13. ASSUME NEW f \in Archivos, reducir(f) PROVE Alcanzan'
  <2>1. PICK Q \in SUBSET Lugares : Vacia(f, Q)
    BY <1>1, <1>2, <1>5, <1>13, SanaReducir
  <2>2. \A c \in 0 .. cant_bloques - 1 : Alcanza(c)'
    BY <1>1, <1>5, <1>13, <2>1, AlcanzaReducir
  <2> QED BY <2>2 DEF Alcanzan
<1>14. ASSUME NEW f \in Archivos, copiar_punteros(f), ~Caer, vivo PROVE Alcanzan'
  <2>1. vivo' = vivo /\ bitmap' = bitmap
    BY <1>14 DEF copiar_punteros
  <2>2. PICK h \in Hilos :
          hilo' = [hilo EXCEPT ![f] = h] /\ hilo[f].pc = "bloque" /\ h = [hilo[f] EXCEPT !.pc = "fcb"]
    BY <1>1, <1>14, <2>1, EfectoCopiar
  <2>3. hilo[f] \in Hilos /\ hilo[f] # Libre
    BY <1>1, <2>2, DelHilo DEF Pasos
  <2>4. h.crece = hilo[f].crece /\ h.j = hilo[f].j
    BY <2>2, <2>3, SoloPc DEF Pasos
  <2>5. hilo'[f] = h /\ \A g \in Archivos \ {f} : hilo'[g] = hilo[g]
    BY <1>1, <2>2 DEF Tipos, Formas
  <2>6. SinMover
    BY <1>1, <1>2, <1>5, <1>14, <2>1, SanaCopiar
  <2> QED BY <1>5, <2>1, <2>3, <2>4, <2>5, <2>6, AlcanzanQuietos
<1>15. ASSUME NEW f \in Archivos, config_save(f) PROVE Alcanzan'
  <2>1. PICK h \in Hilos :
          hilo' = [hilo EXCEPT ![f] = h] /\ hilo[f].pc = "fcb" /\ h = [hilo[f] EXCEPT !.pc = "tamanio"]
    BY <1>1, <1>15, EfectoGuardar
  <2>2. hilo[f] \in Hilos /\ hilo[f] # Libre
    BY <1>1, <2>1, DelHilo DEF Pasos
  <2>3. h.crece = hilo[f].crece /\ h.j = hilo[f].j
    BY <2>1, <2>2, SoloPc DEF Pasos
  <2>4. hilo'[f] = h /\ \A g \in Archivos \ {f} : hilo'[g] = hilo[g]
    BY <1>1, <2>1 DEF Tipos, Formas
  <2>5. SinMover
    BY <1>1, <1>5, <1>15, SanaGuardar
  <2>6. bitmap' = bitmap
    BY <1>15 DEF config_save
  <2> QED BY <1>5, <2>2, <2>3, <2>4, <2>5, <2>6, AlcanzanQuietos
<1>16. ASSUME NEW f \in Archivos, guardar_tamanio(f) PROVE Alcanzan'
  <2>1. hilo' = [hilo EXCEPT ![f] = Libre] /\ bitmap' = bitmap
    BY <1>16 DEF guardar_tamanio
  <2>2. hilo'[f] = Libre /\ \A g \in Archivos \ {f} : hilo'[g] = hilo[g]
    BY <1>1, <2>1 DEF Tipos, Formas
  <2>3. SinMover
    BY <1>1, <1>5, <1>16, SanaTamanio
  <2> QED BY <1>5, <2>1, <2>2, <2>3, AlcanzanQuietos
<1> HIDE DEF Alcanzan
<1> QED BY <1>4, <1>7, <1>8, <1>9, <1>10, <1>11, <1>12, <1>13, <1>14, <1>15, <1>16 DEF Next

\* A disk with room for every file at its largest size is never searched beyond its
\* end, whatever the order in which the threads look for their blocks.
THEOREM EntraSiempre == ASSUME BloquesEnteros PROVE Spec => []EntraEnDisco
<1> DEFINE Cabe == Invariante /\ (Entra /\ exacto => Alcanzan)
<1>1. Init => Cabe
  BY InvarianteInicial, AlcanzanInicial
<1>2. Cabe /\ [Next]_vars => Cabe'
  <2> SUFFICES ASSUME Cabe, [Next]_vars PROVE Cabe'
    OBVIOUS
  <2>1. Invariante'
    BY InvariantePaso
  <2>2. Entra' = Entra
    BY DEF Entra
  <2>3. ASSUME Entra, exacto' PROVE Alcanzan'
    <3>1. exacto => Alcanzan
      BY <2>3
    <3> QED BY <2>3, <3>1, AlcanzanPaso
  <2> QED BY <2>1, <2>2, <2>3
<1>3. Cabe => EntraEnDisco
  BY AlcanzaAdentro DEF Invariante, EntraEnDisco, Entra
<1> HIDE DEF Cabe
<1> QED BY <1>1, <1>2, <1>3, PTL DEF Spec

-----------------------------------------------------------------------------
(* The pointers of a file are the first positions of its block of pointers: *)
(* expand_block fills the first empty position from t on, and none before t *)
(* is empty; reduce_block empties the last one.                             *)

\* No position is empty before one that is not, nor before the one a thread looks from.
Seguidos(f) ==
  /\ \A t \in 0 .. cpb - 1 : \A s \in 0 .. t : Bloque(f, t) # -1 => Bloque(f, s) # -1
  /\ hilo[f] # Libre /\ hilo[f].crece =>
       \A s \in 0 .. cpb - 1 : s < hilo[f].t => Bloque(f, s) # -1
TodosSeguidos == \A f \in Archivos : Seguidos(f)

\* A pointer, and every one before it, is a place of a block.
LEMMA SonLugares == \A t \in 0 .. cpb - 1 : t \in Lugares /\ \A s \in 0 .. t : s \in 0 .. cpb - 1
BY Constantes DEF Lugares

\* Steps that move no block and take no thread further.
LEMMA SeguidosQuietos ==
  ASSUME TodosSeguidos, SinMover,
         \A g \in Archivos :
           hilo'[g] # Libre /\ hilo'[g].crece =>
             \/ hilo[g] # Libre /\ hilo[g].crece /\ hilo'[g].t = hilo[g].t
             \/ hilo'[g].t = 0
  PROVE  TodosSeguidos'
<1> SUFFICES ASSUME NEW g \in Archivos PROVE Seguidos(g)'
  BY DEF TodosSeguidos
<1>1. Seguidos(g) /\ \A l \in Lugares : Bloque(g, l)' = Bloque(g, l)
  BY DEF TodosSeguidos, SinMover
<1>2. \A t \in 0 .. cpb - 1 : \A s \in 0 .. t : Bloque(g, t)' # -1 => Bloque(g, s)' # -1
  BY <1>1, SonLugares DEF Seguidos
<1>3. ASSUME hilo'[g] # Libre, hilo'[g].crece, NEW s \in 0 .. cpb - 1, s < hilo'[g].t
      PROVE  Bloque(g, s)' # -1
  <2>1. hilo[g] # Libre /\ hilo[g].crece /\ hilo'[g].t = hilo[g].t
    BY <1>3
  <2> QED BY <1>1, <1>3, <2>1, SonLugares DEF Seguidos
<1> QED BY <1>2, <1>3 DEF Seguidos

\* A pointer goes to the first empty position from t on, and none is empty before t.
LEMMA SeguidosAsignar ==
  ASSUME Tipos, TodosSeguidos, NEW f \in Archivos, asignar(f), vivo, vivo' = vivo, sano',
         NEW l \in Lugares, Llena(f, l, hilo[f].j)
  PROVE  TodosSeguidos'
<1> DEFINE h == hilo[f]
<1>1. PICK h1 \in Hilos :
           /\ hilo' = [hilo EXCEPT ![f] = h1] /\ h.pc = "asignar"
           /\ EnPrimero(h, h1) \/ EnIndirecto(h, h1) \/ EnPuntero(h, h1)
           /\ EnPrimero(h, h1) \/ h.j # 0
  BY EfectoAsignar
<1>2. h \in Hilos /\ h # Libre /\ FormaDe(h, fcb[f]) /\ fcb[f] \in FCBs /\ h1 # Libre
  BY <1>1, DelHilo, LibreNoEsHilo DEF Pasos
<1>3. /\ h.crece /\ h.j \in Nat /\ h.t \in Nat /\ h.punteros \in Punteros
      /\ h.indirecto = 0 => h.punteros = SinPunteros
  BY <1>1, <1>2, CamposDe DEF FormaDe
<1>4. hilo'[f] = h1 /\ \A g \in Archivos \ {f} : hilo'[g] = hilo[g]
  BY <1>1 DEF Tipos, Formas
<1>5. ASSUME NEW g \in Archivos \ {f} PROVE Seguidos(g)'
  <2>1. \A m \in Lugares : Bloque(g, m)' = Bloque(g, m)
    BY DEF Llena
  <2>2. Seguidos(g) /\ hilo'[g] = hilo[g]
    BY <1>4 DEF TodosSeguidos
  <2> QED BY <2>1, <2>2, SonLugares DEF Seguidos
<1> DEFINE B(t) == BloqueDe(h, t)
           B1(t) == BloqueDe(h1, t)
<1>6. \A m : Bloque(f, m) = B(m) /\ Bloque(f, m)' = B1(m)
  BY <1>2, <1>4 DEF Bloque
<1>7. /\ \A t \in 0 .. cpb - 1 : \A s \in 0 .. t : B(t) # -1 => B(s) # -1
      /\ \A s \in 0 .. cpb - 1 : s < h.t => B(s) # -1
  <2>1. Seguidos(f)
    BY DEF TodosSeguidos
  <2> HIDE DEF B
  <2> QED BY <1>2, <1>3, <1>6, <2>1 DEF Seguidos
<1>8. \A t \in 0 .. cpb - 1 :
        /\ B(t) = IF h.indirecto = 0 THEN -1 ELSE IF h.punteros[t] = 0 THEN -1 ELSE h.punteros[t]
        /\ B1(t) = IF h1.indirecto = 0 THEN -1 ELSE IF h1.punteros[t] = 0 THEN -1 ELSE h1.punteros[t]
  BY BloquesDeHilo
<1> HIDE DEF h, B, B1
<1>9. /\ \A t \in 0 .. cpb - 1 : \A s \in 0 .. t : B1(t) # -1 => B1(s) # -1
      /\ \A s \in 0 .. cpb - 1 : s < h1.t => B1(s) # -1
  <2>1. CASE EnPrimero(h, h1)
    <3>1. h1.t = h.t /\ \A t \in 0 .. cpb - 1 : B1(t) = B(t)
      BY <1>8, <2>1 DEF EnPrimero
    <3> QED BY <1>7, <3>1, SonLugares
  <2>2. CASE EnIndirecto(h, h1)
    <3>1. \A t \in 0 .. cpb - 1 : SinPunteros[t] = 0
      BY DEF SinPunteros
    <3>2. h1.t = h.t /\ \A t \in 0 .. cpb - 1 : B1(t) = -1 /\ B(t) = -1
      BY <1>8, <2>2, <3>1 DEF EnIndirecto
    <3> QED BY <1>7, <3>2
  <2>3. CASE EnPuntero(h, h1) /\ h.j # 0
    <3>1. PICK k \in 0 .. cpb - 1 :
             /\ h.punteros[k] = 0 /\ h1.punteros = [h.punteros EXCEPT ![k] = h.j]
             /\ h1.t = k /\ \A s \in 0 .. k - 1 : s >= h.t => h.punteros[s] # 0
      BY <2>3 DEF EnPuntero
    <3>2. h.indirecto # 0 /\ h1.indirecto = h.indirecto
      BY <2>3 DEF EnPuntero
    <3>3. \A t \in 0 .. cpb - 1 : h1.punteros[t] = IF t = k THEN h.j ELSE h.punteros[t]
      BY <1>3, <3>1 DEF Punteros
    <3>4. \A t \in 0 .. cpb - 1 : B1(t) = IF t = k THEN h.j ELSE B(t)
      BY <1>8, <2>3, <3>2, <3>3
    <3>5. ASSUME NEW s \in 0 .. cpb - 1, s < k PROVE B(s) # -1
      <4>1. CASE s < h.t
        BY <1>7, <4>1
      <4>2. CASE s >= h.t
        <5>0. s \in 0 .. k - 1
          BY <3>5, Constantes
        <5>1. h.punteros[s] # 0 /\ h.punteros[s] \in Nat
          BY <1>3, <3>1, <4>2, <5>0 DEF Punteros
        <5> QED BY <1>8, <3>2, <5>1
      <4> QED BY <1>3, <4>1, <4>2
    <3>6. h.j # -1
      BY <1>3
    <3>7. ASSUME NEW t \in 0 .. cpb - 1, NEW s \in 0 .. t, B1(t) # -1 PROVE B1(s) # -1
      <4>1. s \in 0 .. cpb - 1 /\ s <= t /\ cpb \in Int
        BY SonLugares, Constantes
      <4>2. CASE t = k
        BY <3>4, <3>5, <3>6, <4>1, <4>2
      <4>3. CASE t # k
        <5>1. B(t) # -1
          BY <3>4, <3>7, <4>3
        <5>2. B(s) # -1
          BY <1>7, <5>1
        <5> QED BY <3>4, <3>6, <4>1, <5>2
      <4> QED BY <4>2, <4>3
    <3>8. ASSUME NEW s \in 0 .. cpb - 1, s < h1.t PROVE B1(s) # -1
      BY <3>1, <3>4, <3>5, <3>8
    <3> QED BY <3>7, <3>8
  <2> QED BY <1>1, <2>1, <2>2, <2>3
<1>10. Seguidos(f)'
  BY <1>4, <1>6, <1>9 DEF Seguidos
<1> QED BY <1>5, <1>10 DEF TodosSeguidos

\* A reduction empties the last pointer.
LEMMA SeguidosReducir ==
  ASSUME Tipos, TodosSeguidos, NEW f \in Archivos, reducir(f),
         NEW Q \in SUBSET Lugares, Vacia(f, Q)
  PROVE  TodosSeguidos'
<1> DEFINE h == hilo[f]
<1>1. PICK h1 \in Hilos :
           /\ hilo' = [hilo EXCEPT ![f] = h1] /\ h.pc = "reducir" /\ ~h1.crece
           /\ QuitaPrimero(h, h1) \/ \E k \in 0 .. cpb - 1 : QuitaPuntero(h, h1, k)
  BY EfectoReducir
<1>2. h \in Hilos /\ h # Libre /\ h1 # Libre
  BY <1>1, DelHilo, LibreNoEsHilo DEF Pasos
<1>3. h.punteros \in Punteros /\ h1.punteros \in Punteros
  BY <1>2, CamposDe
<1>4. hilo'[f] = h1 /\ \A g \in Archivos \ {f} : hilo'[g] = hilo[g]
  BY <1>1 DEF Tipos, Formas
<1>5. ASSUME NEW g \in Archivos \ {f} PROVE Seguidos(g)'
  <2>1. \A m \in Lugares : Bloque(g, m)' = Bloque(g, m)
    BY DEF Vacia
  <2>2. Seguidos(g) /\ hilo'[g] = hilo[g]
    BY <1>4 DEF TodosSeguidos
  <2> QED BY <2>1, <2>2, SonLugares DEF Seguidos
<1> DEFINE B(t) == BloqueDe(h, t)
           B1(t) == BloqueDe(h1, t)
<1>6. \A m : Bloque(f, m) = B(m) /\ Bloque(f, m)' = B1(m)
  BY <1>2, <1>4 DEF Bloque
<1>7. \A t \in 0 .. cpb - 1 : \A s \in 0 .. t : B(t) # -1 => B(s) # -1
  <2>1. Seguidos(f)
    BY DEF TodosSeguidos
  <2> HIDE DEF B
  <2> QED BY <1>6, <2>1 DEF Seguidos
<1>8. \A t \in 0 .. cpb - 1 :
        /\ B(t) = IF h.indirecto = 0 THEN -1 ELSE IF h.punteros[t] = 0 THEN -1 ELSE h.punteros[t]
        /\ B1(t) = IF h1.indirecto = 0 THEN -1 ELSE IF h1.punteros[t] = 0 THEN -1 ELSE h1.punteros[t]
  BY BloquesDeHilo
<1> HIDE DEF h, B, B1
<1>9. ASSUME NEW t \in 0 .. cpb - 1, NEW s \in 0 .. t, B1(t) # -1 PROVE B1(s) # -1
  <2>0. s \in 0 .. cpb - 1 /\ s <= t /\ cpb \in Int
    BY SonLugares, Constantes
  <2>1. CASE QuitaPrimero(h, h1)
    <3>1. SinPunteros[t] = 0
      BY DEF SinPunteros
    <3> QED BY <1>8, <1>9, <2>1, <3>1 DEF QuitaPrimero
  <2>2. ASSUME NEW k \in 0 .. cpb - 1, QuitaPuntero(h, h1, k) PROVE B1(s) # -1
    <3>1. h1.indirecto # 0 /\ h1.punteros[t] # 0
      BY <1>8, <1>9
    <3>2. \A x \in 0 .. cpb - 1 : h1.punteros[x] = IF x = k THEN 0 ELSE h.punteros[x]
      BY <1>3, <2>2 DEF QuitaPuntero, Punteros
    <3>3. h.indirecto # 0 /\ h1.indirecto = h.indirecto /\ ~(t > k) /\ t # k
      BY <2>2, <3>1, <3>2 DEF QuitaPuntero
    <3>4. B(t) # -1
      BY <1>8, <1>9, <3>2, <3>3
    <3>5. B(s) # -1
      BY <1>7, <3>4
    <3>6. s # k
      BY <2>0, <3>3
    <3> QED BY <1>8, <2>0, <3>2, <3>3, <3>5, <3>6
  <2> QED BY <1>1, <2>1, <2>2
<1>10. Seguidos(f)'
  BY <1>1, <1>4, <1>6, <1>9 DEF Seguidos
<1> QED BY <1>5, <1>10 DEF TodosSeguidos

\* A file starts without a block of pointers.
LEMMA SeguidosInicial == ASSUME Init PROVE TodosSeguidos
<1>1. \A f \in Archivos : hilo[f] = Libre /\ fcb[f].indirecto = 0
  BY DEF Init
<1>2. \A f \in Archivos, t \in 0 .. cpb - 1 : Bloque(f, t) = -1
  BY <1>1, BloquesDeFCB DEF Bloque
<1> QED BY <1>1, <1>2 DEF TodosSeguidos, Seguidos

\* No step leaves an empty position before one in use, whoever else is truncating.
LEMMA SeguidosPaso ==
  ASSUME Invariante, BloquesEnteros, exacto => TodosSeguidos, [Next]_vars
  PROVE  exacto' => TodosSeguidos'
<1> SUFFICES ASSUME exacto' PROVE TodosSeguidos'
  OBVIOUS
<1>1. Tipos /\ Tipos' /\ Invariante'
  BY TiposPaso, InvariantePaso DEF Invariante
<1>2. sano'
  BY <1>1 DEF Invariante
<1>3. exacto' = exacto \/ (\E ok : Juzgar(ok)) \/ init_fileSystem
  BY DEF vars, Next, Caer, verificar_existencia_archivo, truncate_archivo, bitarray_test_bit,
         asignar, reducir, copiar_punteros, config_save, guardar_tamanio
<1>4. exacto /\ ~init_fileSystem
  BY <1>3 DEF Juzgar, init_fileSystem
<1>5. Sana /\ Exacta /\ TodosSeguidos
  BY <1>4 DEF Invariante
<1>6. ASSUME hilo' = hilo, fcb' = fcb, disco' = disco, bitmap' = bitmap PROVE TodosSeguidos'
  BY <1>5, <1>6, SinMoverNada, SeguidosQuietos
\* Steps of a thread that leave its blocks, its direction and its position.
<1>7. ASSUME SinMover, NEW f \in Archivos, hilo[f].pc \in Pasos, NEW h \in Hilos,
             hilo' = [hilo EXCEPT ![f] = h], h.crece = hilo[f].crece, h.t = hilo[f].t
      PROVE  TodosSeguidos'
  <2>1. hilo[f] # Libre
    BY <1>1, <1>7, DelHilo
  <2>2. hilo'[f] = h /\ \A g \in Archivos \ {f} : hilo'[g] = hilo[g]
    BY <1>1, <1>7 DEF Tipos, Formas
  <2> QED BY <1>5, <1>7, <2>1, <2>2, SeguidosQuietos
<1>8. CASE UNCHANGED vars
  BY <1>6, <1>8 DEF vars, vDisco
<1>9. CASE Caer
  BY <1>6, <1>9 DEF Caer, vDisco
<1>10. ASSUME NEW f \in Archivos, verificar_existencia_archivo(f) PROVE TodosSeguidos'
  BY <1>6, <1>10 DEF verificar_existencia_archivo
<1>11. ASSUME NEW f \in Archivos, truncate_archivo(f) PROVE TodosSeguidos'
  <2>1. PICK h \in Hilos : hilo' = [hilo EXCEPT ![f] = h] /\ (h.crece => h.t = 0)
    BY <1>1, <1>11, EfectoTruncar
  <2>2. hilo'[f] = h /\ \A g \in Archivos \ {f} : hilo'[g] = hilo[g]
    BY <1>1, <2>1 DEF Tipos, Formas
  <2>3. SinMover
    BY <1>1, <1>5, <1>11, SanaTruncar
  <2> QED BY <1>5, <2>1, <2>2, <2>3, SeguidosQuietos
<1>12. ASSUME NEW f \in Archivos, bitarray_test_bit(f) PROVE TodosSeguidos'
  <2>1. SinMover
    BY <1>1, <1>5, <1>12, SanaProbar
  <2>2. PICK h \in Hilos :
          /\ hilo' = [hilo EXCEPT ![f] = h] /\ hilo[f].pc = "probar"
          /\ h = [hilo[f] EXCEPT !.pc = "asignar", !.j = h.j]
    BY <1>1, <1>12, EfectoProbar
  <2>3. hilo[f] \in Hilos /\ hilo[f].pc \in Pasos
    BY <1>1, <2>2, DelHilo DEF Pasos
  <2>4. h.crece = hilo[f].crece /\ h.t = hilo[f].t
    BY <2>2, <2>3 DEF Hilos
  <2> QED BY <1>7, <2>1, <2>2, <2>3, <2>4
<1>13. ASSUME NEW f \in Archivos, asignar(f), ~Caer, vivo PROVE TodosSeguidos'
  <2>1. vivo' = vivo
    BY <1>13 DEF asignar
  <2>2. PICK l \in Lugares : Llena(f, l, hilo[f].j)
    BY <1>1, <1>2, <1>5, <1>13, <2>1, SanaAsignar
  <2> QED BY <1>1, <1>2, <1>5, <1>13, <2>1, <2>2, SeguidosAsignar
<1>14. ASSUME NEW f \in Archivos, reducir(f) PROVE TodosSeguidos'
  <2>1. PICK Q \in SUBSET Lugares : Vacia(f, Q)
    BY <1>1, <1>2, <1>5, <1>14, SanaReducir
  <2> QED BY <1>1, <1>5, <1>14, <2>1, SeguidosReducir
<1>15. ASSUME NEW f \in Archivos, copiar_punteros(f), ~Caer, vivo PROVE TodosSeguidos'
  <2>1. vivo' = vivo
    BY <1>15 DEF copiar_punteros
  <2>2. PICK h \in Hilos :
          hilo' = [hilo EXCEPT ![f] = h] /\ hilo[f].pc = "bloque" /\ h = [hilo[f] EXCEPT !.pc = "fcb"]
    BY <1>1, <1>15, <2>1, EfectoCopiar
  <2>3. hilo[f] \in Hilos /\ hilo[f].pc \in Pasos
    BY <1>1, <2>2, DelHilo DEF Pasos
  <2>4. h.crece = hilo[f].crece /\ h.t = hilo[f].t
    BY <2>2, <2>3, SoloPc DEF Pasos
  <2>5. SinMover
    BY <1>1, <1>2, <1>5, <1>15, <2>1, SanaCopiar
  <2> QED BY <1>7, <2>2, <2>3, <2>4, <2>5
<1>16. ASSUME NEW f \in Archivos, config_save(f) PROVE TodosSeguidos'
  <2>1. PICK h \in Hilos :
          hilo' = [hilo EXCEPT ![f] = h] /\ hilo[f].pc = "fcb" /\ h = [hilo[f] EXCEPT !.pc = "tamanio"]
    BY <1>1, <1>16, EfectoGuardar
  <2>2. hilo[f] \in Hilos /\ hilo[f].pc \in Pasos
    BY <1>1, <2>1, DelHilo DEF Pasos
  <2>3. h.crece = hilo[f].crece /\ h.t = hilo[f].t
    BY <2>1, <2>2, SoloPc DEF Pasos
  <2>4. SinMover
    BY <1>1, <1>5, <1>16, SanaGuardar
  <2> QED BY <1>7, <2>1, <2>2, <2>3, <2>4
<1>17. ASSUME NEW f \in Archivos, guardar_tamanio(f) PROVE TodosSeguidos'
  <2>1. hilo' = [hilo EXCEPT ![f] = Libre]
    BY <1>17 DEF guardar_tamanio
  <2>2. hilo'[f] = Libre /\ \A g \in Archivos \ {f} : hilo'[g] = hilo[g]
    BY <1>1, <2>1 DEF Tipos, Formas
  <2>3. SinMover
    BY <1>1, <1>5, <1>17, SanaTamanio
  <2> QED BY <1>5, <2>2, <2>3, SeguidosQuietos
<1> HIDE DEF TodosSeguidos
<1> QED BY <1>4, <1>8, <1>9, <1>10, <1>11, <1>12, <1>13, <1>14, <1>15, <1>16, <1>17 DEF Next

-----------------------------------------------------------------------------
(* F_READ and F_WRITE: the rounds of the loop, and where each byte goes.    *)

\* Facts of division, and the larger and the smaller of two numbers.
LEMMA DivisionUnica ==
  ASSUME NEW b \in Nat \ {0}, NEW q \in Int, NEW r \in 0 .. b - 1
  PROVE  (b * q + r) \div b = q /\ (b * q + r) % b = r
OBVIOUS

LEMMA DivisionMonotona ==
  ASSUME NEW b \in Nat \ {0}, NEW x \in Nat, NEW y \in Nat, x <= y
  PROVE  x \div b <= y \div b
OBVIOUS

LEMMA DivisionMenor ==
  ASSUME NEW b \in Nat \ {0}, NEW x \in Nat, NEW q \in Int, x < b * q
  PROVE  x \div b < q
OBVIOUS

LEMMA DivisionCero ==
  ASSUME NEW b \in Nat \ {0}, NEW x \in Nat
  PROVE  /\ x < b => x \div b = 0 /\ x % b = x
         /\ x >= b => x \div b >= 1
         /\ x \div b = 0 => x < b
OBVIOUS

LEMMA MaximoDeDos ==
  ASSUME NEW a \in Int, NEW b \in Int PROVE Max({a, b}) = IF a >= b THEN a ELSE b
<1>1. \E x \in {a, b} : \A y \in {a, b} : x >= y
  OBVIOUS
<1>2. Max({a, b}) \in {a, b} /\ Max({a, b}) >= a /\ Max({a, b}) >= b
  BY <1>1 DEF Max
<1> QED BY <1>2

LEMMA MinimoDeDos ==
  ASSUME NEW a \in Int, NEW b \in Int PROVE Min({a, b}) = IF a <= b THEN a ELSE b
<1>1. \E x \in {a, b} : \A y \in {a, b} : x <= y
  OBVIOUS
<1>2. Min({a, b}) \in {a, b} /\ Min({a, b}) <= a /\ Min({a, b}) <= b
  BY <1>1 DEF Min
<1> QED BY <1>2

\* Rounds of a block each, from the start of a block: byte k of the buffer meets
\* byte k % tamanio_bloque of its block.
LEMMA SiguientesSon ==
  ASSUME NEW f, NEW indice \in Nat, NEW offset \in Nat, NEW bytes \in Nat,
         \A i \in Nat : puntero(f, i) \in Nat
  PROVE  Siguientes(f, indice, offset, 0, bytes)
           = {<<offset + k, puntero(f, indice + (k \div tamanio_bloque)) * tamanio_bloque
                              + (k % tamanio_bloque)>> : k \in 0 .. bytes - 1}
<1> DEFINE tb == tamanio_bloque
           p(r) == puntero(f, indice + r)
           R == (Max({bytes, 1}) - 1) \div tb
           n(r) == Min({tb, bytes - r * tb})
           M(r) == memcpy(offset + r * tb, p(r) * tb + 0, n(r))
           Par(k) == <<offset + k, p(k \div tb) * tb + (k % tb)>>
<1>1. tb \in Nat \ {0}
  BY Constantes
<1>2. Siguientes(f, indice, offset, 0, bytes) = UNION {M(r) : r \in 0 .. R}
  BY DEF Siguientes
<1>3. \A r \in Nat : p(r) \in Nat
  OBVIOUS
<1>4. \A x, y \in Nat : x * y \in Nat /\ x * y = y * x
  OBVIOUS
<1> HIDE DEF tb
<1>5. \A r \in Nat : n(r) \in Int /\ n(r) = IF tb <= bytes - r * tb THEN tb ELSE bytes - r * tb
  BY <1>1, <1>4, MinimoDeDos
<1>6. Max({bytes, 1}) = IF bytes >= 1 THEN bytes ELSE 1
  BY MaximoDeDos
<1>7. R \in Nat /\ \A k \in 0 .. bytes - 1 : k \div tb \in 0 .. R
  <2>1. Max({bytes, 1}) - 1 \in Nat
    BY <1>6
  <2>2. R \in Nat
    BY <1>1, <2>1, Division
  <2>3. ASSUME NEW k \in 0 .. bytes - 1 PROVE k \div tb \in 0 .. R
    <3>1. k \in Nat /\ k <= Max({bytes, 1}) - 1
      BY <1>6
    <3>2. k \div tb \in Nat /\ k \div tb <= R
      BY <1>1, <2>1, <3>1, Division, DivisionMonotona
    <3> QED BY <2>2, <3>2
  <2> QED BY <2>2, <2>3
<1> HIDE DEF n, R, p
<1>8. \A r \in Nat : \A x :
        x \in M(r) <=> \E j \in 0 .. n(r) - 1 : x = <<offset + r * tb + j, p(r) * tb + j>>
  <2> SUFFICES ASSUME NEW r \in Nat, NEW x
               PROVE  x \in M(r) <=>
                        \E j \in 0 .. n(r) - 1 : x = <<offset + r * tb + j, p(r) * tb + j>>
    OBVIOUS
  <2>1. p(r) * tb + 0 = p(r) * tb
    BY <1>1, <1>3, <1>4
  <2>2. M(r) = memcpy(offset + r * tb, p(r) * tb, n(r))
    BY <2>1
  <2> HIDE DEF M
  <2> QED BY <2>2 DEF memcpy
<1> HIDE DEF M
<1>9. ASSUME NEW x, x \in UNION {M(r) : r \in 0 .. R} PROVE \E k \in 0 .. bytes - 1 : x = Par(k)
  <2>1. PICK r \in 0 .. R : x \in M(r)
    BY <1>9
  <2>2. r \in Nat /\ r * tb = tb * r /\ r * tb \in Nat
    BY <1>1, <1>4, <1>7
  <2>3. PICK j \in 0 .. n(r) - 1 : x = <<offset + r * tb + j, p(r) * tb + j>>
    BY <1>8, <2>1, <2>2
  <2>4. j \in 0 .. tb - 1 /\ j + r * tb \in 0 .. bytes - 1
    <3> DEFINE y == r * tb
    <3>1. n(r) = IF tb <= bytes - y THEN tb ELSE bytes - y
      BY <1>5, <2>2
    <3>2. y \in Nat
      BY <2>2
    <3> HIDE DEF y
    <3>3. j \in 0 .. tb - 1 /\ j + y \in 0 .. bytes - 1
      BY <1>1, <3>1, <3>2
    <3> QED BY <3>3 DEF y
  <2> DEFINE k == tb * r + j
  <2>5. k \div tb = r /\ k % tb = j /\ k \in 0 .. bytes - 1
    <3>1. k \div tb = r /\ k % tb = j
      <4>1. r \in Int
        BY <2>2
      <4> QED BY <1>1, <2>4, <4>1, DivisionUnica, Zenon
    <3>2. k \in 0 .. bytes - 1
      BY <2>2, <2>4
    <3> QED BY <3>1, <3>2
  <2>6. offset + r * tb + j = offset + k
    BY <2>2, <2>4
  <2> HIDE DEF k
  <2>7. x = Par(k)
    BY <2>3, <2>5, <2>6
  <2> QED BY <2>5, <2>7
<1>10. ASSUME NEW k \in 0 .. bytes - 1 PROVE Par(k) \in UNION {M(r) : r \in 0 .. R}
  <2> DEFINE r == k \div tb
             j == k % tb
  <2>1. k \in Nat /\ r \in Nat /\ k = tb * r + j /\ j \in 0 .. tb - 1
    BY <1>1, Division
  <2>2. r \in 0 .. R
    BY <1>7
  <2> HIDE DEF r, j
  <2>3. r * tb = tb * r /\ r * tb \in Nat
    BY <1>1, <1>4, <2>1
  <2>4. j \in 0 .. n(r) - 1
    BY <1>1, <1>5, <2>1, <2>3
  <2>5. Par(k) = <<offset + r * tb + j, p(r) * tb + j>>
    <3>1. offset + k = offset + r * tb + j
      BY <1>1, <2>1, <2>3
    <3> QED BY <3>1 DEF r, j
  <2>6. Par(k) \in M(r)
    BY <1>8, <2>1, <2>4, <2>5
  <2> QED BY <2>2, <2>6
<1>11. UNION {M(r) : r \in 0 .. R} = {Par(k) : k \in 0 .. bytes - 1}
  BY <1>9, <1>10
<1> QED BY <1>2, <1>11 DEF p, tb

\* What fits a block takes a round.
LEMMA UnaRonda ==
  ASSUME NEW f, NEW indice \in Nat, NEW offset \in Nat, NEW d \in Nat,
         NEW bytes \in Nat, bytes <= tamanio_bloque
  PROVE  Siguientes(f, indice, offset, d, bytes)
           = memcpy(offset, puntero(f, indice) * tamanio_bloque + d, bytes)
<1>1. tamanio_bloque \in Nat \ {0}
  BY Constantes
<1>2. Max({bytes, 1}) = IF bytes >= 1 THEN bytes ELSE 1
  BY MaximoDeDos
<1>3. (Max({bytes, 1}) - 1) \div tamanio_bloque = 0
  <2>1. Max({bytes, 1}) - 1 \in Nat /\ Max({bytes, 1}) - 1 < tamanio_bloque
    BY <1>1, <1>2
  <2> QED BY <1>1, <2>1, DivisionCero
<1>4. Min({tamanio_bloque, bytes - 0 * tamanio_bloque}) = bytes
  <2>1. bytes - 0 * tamanio_bloque = bytes
    BY <1>1
  <2>2. Min({tamanio_bloque, bytes}) = IF tamanio_bloque <= bytes THEN tamanio_bloque ELSE bytes
    BY <1>1, MinimoDeDos
  <2> QED BY <1>1, <2>1, <2>2
<1>5. indice + 0 = indice /\ offset + 0 * tamanio_bloque = offset
  BY <1>1
<1>6. 0 .. (Max({bytes, 1}) - 1) \div tamanio_bloque = {0}
  BY <1>3
<1> DEFINE M(r) == memcpy(offset + r * tamanio_bloque,
                          puntero(f, indice + r) * tamanio_bloque + d,
                          Min({tamanio_bloque, bytes - r * tamanio_bloque}))
<1>7. M(0) = memcpy(offset, puntero(f, indice) * tamanio_bloque + d, bytes)
  BY <1>4, <1>5
<1>8. Siguientes(f, indice, offset, d, bytes)
        = UNION {M(r) : r \in 0 .. (Max({bytes, 1}) - 1) \div tamanio_bloque}
  BY DEF Siguientes
<1> HIDE DEF M
<1>9. Siguientes(f, indice, offset, d, bytes) = UNION {M(r) : r \in {0}}
  BY <1>6, <1>8
<1>10. UNION {M(r) : r \in {0}} = M(0)
  OBVIOUS
<1> QED BY <1>7, <1>9, <1>10

\* punteros[indice] is a number, past the end of the array too.
LEMMA PunteroNat ==
  ASSUME Tipos, NEW f \in Archivos
  PROVE  fcb[f].directo \in Nat /\ \A i \in Nat : puntero(f, i) \in Nat
<1>1. fcb[f].directo \in Nat /\ fcb[f].indirecto \in Nat /\ fcb[f].indirecto < cant_bloques
  BY CamposFCB DEF Tipos, TypeOK, Formas, FCBs
<1>2. cant_bloques \in Nat /\ cpb \in Nat /\ fcb[f].indirecto \in 0 .. cant_bloques - 1
  BY <1>1, Constantes
<1>3. disco[fcb[f].indirecto] \in Punteros
  BY <1>2 DEF Tipos, TypeOK
<1>4. ASSUME NEW i \in Nat PROVE puntero(f, i) \in Nat
  <2>1. i < cpb => i \in 0 .. cpb - 1
    BY <1>2
  <2> QED BY <1>2, <1>3, <2>1 DEF puntero, Punteros
<1> QED BY <1>1, <1>4

\* A range of a file, byte by byte, and the ranges a loop gets right.
Rango(f, pos, cantidad) == {<<k, Lugar(f, pos + k)>> : k \in 0 .. cantidad - 1}

Derecho(pos, cantidad, tras) ==
  \/ EnUnBloque(pos, cantidad)
  \/ pos >= tamanio_bloque /\ pos % tamanio_bloque = 0
  \/ pos < tamanio_bloque /\ cantidad >= tamanio_bloque /\ tras = 0
  \/ pos = 0 /\ tras = 0

\* Both loops, on the ranges they get right: byte k of the buffer is byte pos + k of
\* the file. What tras is does not matter unless they go on from the first block.
LEMMA RecorrerEs ==
  ASSUME Tipos, NEW f \in Archivos, NEW pos \in Nat, NEW cantidad \in Nat, NEW tras \in Nat,
         Derecho(pos, cantidad, tras)
  PROVE  Recorrer(f, pos, cantidad, tras) = Rango(f, pos, cantidad)
<1> DEFINE tb == tamanio_bloque
           bloque == pos \div tb
           d == pos % tb
           primero == fcb[f].directo * tb + d
           offset == tb - d
           Todos == {<<k, Lugar(f, pos + k)>> : k \in 0 .. cantidad - 1}
<1>0. fcb[f].directo \in Nat /\ \A i \in Nat : puntero(f, i) \in Nat
  BY PunteroNat
<1>1. tb \in Nat \ {0}
  BY Constantes
<1>2. /\ bloque \in Nat /\ d \in 0 .. tb - 1 /\ pos = tb * bloque + d
      /\ bloque = 0 <=> pos < tb
      /\ bloque = 0 => d = pos
  BY <1>1, Division, DivisionCero
<1>3. \A x, y \in Nat : x * y \in Nat /\ x * y = y * x
  OBVIOUS
<1>4. \A x \in Nat :
        Lugar(f, x) = IF x < tb THEN fcb[f].directo * tb + x
                      ELSE puntero(f, (x \div tb) - 1) * tb + (x % tb)
  <2> SUFFICES ASSUME NEW x \in Nat
               PROVE  Lugar(f, x) = IF x < tb THEN fcb[f].directo * tb + x
                                    ELSE puntero(f, (x \div tb) - 1) * tb + (x % tb)
    OBVIOUS
  <2>1. x < tb => x % tb = x
    BY <1>1, DivisionCero
  <2> QED BY <2>1 DEF Lugar
<1>5. Recorrer(f, pos, cantidad, tras) =
        IF bloque # 0 THEN Siguientes(f, bloque - 1, 0, d, cantidad)
        ELSE IF cantidad < tb THEN memcpy(0, primero, cantidad)
        ELSE memcpy(0, primero, offset) \cup Siguientes(f, tras, offset, 0, cantidad - offset)
  BY DEF Recorrer
<1> HIDE DEF tb
\* A place past the first block.
<1>6. ASSUME NEW q \in Nat, q >= 1, NEW r \in 0 .. tb - 1
      PROVE  tb * q + r \in Nat /\ Lugar(f, tb * q + r) = puntero(f, q - 1) * tb + r
  <2>1. tb * q + r \in Nat
    BY <1>1, <1>3
  <2>2. (tb * q + r) \div tb = q /\ (tb * q + r) % tb = r
    <3>1. q \in Int
      OBVIOUS
    <3> QED BY <1>1, <3>1, DivisionUnica, Zenon
  <2>3. ~(tb * q + r < tb)
    <3> DEFINE y == tb * q + r
    <3>1. y \in Nat /\ y \div tb = q
      BY <2>1, <2>2
    <3> HIDE DEF y
    <3>2. y < tb => y \div tb = 0
      BY <1>1, <3>1, DivisionCero
    <3>3. ~(y < tb)
      BY <1>6, <3>1, <3>2
    <3> QED BY <3>3 DEF y
  <2> QED BY <1>4, <2>1, <2>2, <2>3
<1>7. CASE bloque # 0 /\ EnUnBloque(pos, cantidad)
  <2>1. d + cantidad <= tb
    BY <1>7 DEF Derecho, EnUnBloque, tb
  <2>2. Siguientes(f, bloque - 1, 0, d, cantidad) = memcpy(0, puntero(f, bloque - 1) * tb + d, cantidad)
    <3>1. bloque - 1 \in Nat /\ d \in Nat /\ cantidad <= tb
      <4> HIDE DEF bloque, d
      <4> QED BY <1>1, <1>2, <1>7, <2>1
    <3> HIDE DEF bloque, d
    <3> QED BY <3>1, UnaRonda DEF tb
  <2> HIDE DEF bloque, d
  <2>3. ASSUME NEW k \in 0 .. cantidad - 1
        PROVE  <<0 + k, puntero(f, bloque - 1) * tb + d + k>> = <<k, Lugar(f, pos + k)>>
    <3>1. d + k \in 0 .. tb - 1 /\ bloque >= 1
      BY <1>1, <1>2, <1>7, <2>1
    <3>2. Lugar(f, tb * bloque + (d + k)) = puntero(f, bloque - 1) * tb + (d + k)
      BY <1>2, <1>6, <3>1
    <3>3. tb * bloque + (d + k) = pos + k
      BY <1>1, <1>2, <1>3
    <3>4. puntero(f, bloque - 1) * tb \in Nat
      BY <1>0, <1>1, <1>2, <1>3, <3>1
    <3>5. puntero(f, bloque - 1) * tb + (d + k) = puntero(f, bloque - 1) * tb + d + k
      BY <1>1, <1>2, <3>4
    <3> QED BY <3>2, <3>3, <3>5
  <2>4. memcpy(0, puntero(f, bloque - 1) * tb + d, cantidad)
          = {<<0 + k, puntero(f, bloque - 1) * tb + d + k>> : k \in 0 .. cantidad - 1}
    BY DEF memcpy
  <2>5. memcpy(0, puntero(f, bloque - 1) * tb + d, cantidad) = Todos
    BY <2>3, <2>4
  <2> HIDE DEF Todos
  <2>6. Recorrer(f, pos, cantidad, tras) = Todos
    BY <1>5, <1>7, <2>2, <2>5
  <2> QED BY <2>6 DEF Todos, Rango
<1>8. CASE bloque # 0 /\ d = 0
  <2> DEFINE Par(k) == <<0 + k, puntero(f, bloque - 1 + (k \div tb)) * tb + (k % tb)>>
  <2>1. Siguientes(f, bloque - 1, 0, 0, cantidad) = {Par(k) : k \in 0 .. cantidad - 1}
    <3>1. bloque - 1 \in Nat
      BY <1>2, <1>8
    <3> HIDE DEF bloque
    <3>2. Siguientes(f, bloque - 1, 0, 0, cantidad)
            = {<<0 + k, puntero(f, bloque - 1 + (k \div tamanio_bloque)) * tamanio_bloque
                          + (k % tamanio_bloque)>> : k \in 0 .. cantidad - 1}
      <4>1. ASSUME NEW i \in Nat, NEW o \in Nat
            PROVE  Siguientes(f, i, o, 0, cantidad)
                     = {<<o + k, puntero(f, i + (k \div tamanio_bloque)) * tamanio_bloque
                                   + (k % tamanio_bloque)>> : k \in 0 .. cantidad - 1}
        BY <1>0, SiguientesSon
      <4> DEFINE i == bloque - 1
      <4>2. i \in Nat /\ 0 \in Nat
        BY <3>1
      <4> HIDE DEF i
      <4>3. Siguientes(f, i, 0, 0, cantidad)
              = {<<0 + k, puntero(f, i + (k \div tamanio_bloque)) * tamanio_bloque
                            + (k % tamanio_bloque)>> : k \in 0 .. cantidad - 1}
        BY <4>1, <4>2
      <4> QED BY <4>3 DEF i
    <3> QED BY <3>2 DEF tb
  <2> HIDE DEF bloque, d
  <2>2. ASSUME NEW k \in 0 .. cantidad - 1 PROVE Par(k) = <<k, Lugar(f, pos + k)>>
    <3> DEFINE q == k \div tb
               r == k % tb
    <3>1. q \in Nat /\ r \in 0 .. tb - 1 /\ k = tb * q + r
      <4>1. k \in Nat
        OBVIOUS
      <4> QED BY <1>1, <4>1, Division, Zenon
    <3> HIDE DEF q, r
    <3>2. tb * (bloque + q) + r = pos + k
      BY <1>1, <1>2, <1>8, <3>1
    <3>3. bloque + q \in Nat /\ bloque + q >= 1
      BY <1>2, <1>8, <3>1
    <3>4. Lugar(f, pos + k) = puntero(f, (bloque + q) - 1) * tb + r
      <4> DEFINE z == bloque + q
      <4>1. z \in Nat /\ z >= 1
        BY <3>3
      <4> HIDE DEF z
      <4>2. Lugar(f, tb * z + r) = puntero(f, z - 1) * tb + r
        BY <1>6, <3>1, <4>1, Zenon
      <4> QED BY <3>2, <4>2 DEF z
    <3>5. (bloque + q) - 1 = bloque - 1 + q
      BY <1>2, <3>1
    <3> QED BY <3>4, <3>5 DEF q, r
  <2>3. {Par(k) : k \in 0 .. cantidad - 1} = Todos
    <3> HIDE DEF Par
    <3> QED BY <2>2
  <2> HIDE DEF Todos, Par
  <2>4. Recorrer(f, pos, cantidad, tras) = Todos
    BY <1>5, <1>8, <2>1, <2>3
  <2> QED BY <2>4 DEF Todos, Rango
<1>9. CASE bloque = 0
  <2>1. pos < tb /\ d = pos /\ fcb[f].directo * tb \in Nat
    BY <1>0, <1>1, <1>2, <1>3, <1>9
  <2>2. ASSUME NEW k \in Nat, pos + k < tb
        PROVE  <<0 + k, primero + k>> = <<k, Lugar(f, pos + k)>>
    <3>1. Lugar(f, pos + k) = fcb[f].directo * tb + (pos + k)
      BY <1>4, <2>2
    <3> HIDE DEF d
    <3>2. primero + k = fcb[f].directo * tb + (pos + k)
      BY <2>1
    <3> QED BY <3>1, <3>2
  <2>3. CASE cantidad < tb
    <3>1. ASSUME NEW k \in 0 .. cantidad - 1 PROVE pos + k < tb
      <4>1. pos + cantidad <= tb \/ pos = 0
        BY <1>1, <1>9, <2>1, <2>3 DEF Derecho, EnUnBloque, tb
      <4> QED BY <1>1, <2>3, <4>1
    <3>2. memcpy(0, primero, cantidad) = {<<0 + k, primero + k>> : k \in 0 .. cantidad - 1}
      BY DEF memcpy
    <3> HIDE DEF primero
    <3>3. memcpy(0, primero, cantidad) = Todos
      <4>1. \A k \in 0 .. cantidad - 1 : <<0 + k, primero + k>> = <<k, Lugar(f, pos + k)>>
        BY <2>2, <3>1
      <4> QED BY <3>2, <4>1
    <3> HIDE DEF Todos, bloque
    <3>4. Recorrer(f, pos, cantidad, tras) = Todos
      BY <1>5, <1>9, <2>3, <3>3
    <3> QED BY <3>4 DEF Todos, Rango
  <2>4. CASE cantidad >= tb
    <3> DEFINE resto == cantidad - offset
               Par(k) == <<offset + k, puntero(f, tras + (k \div tb)) * tb + (k % tb)>>
    <3>1. offset \in Nat /\ offset + pos = tb /\ resto \in Nat /\ resto + offset = cantidad
      <4> HIDE DEF d
      <4> QED BY <1>1, <2>1, <2>4
    <3>2. resto = 0 \/ tras = 0
      <4> HIDE DEF offset, resto
      <4>1. pos + cantidad <= tb \/ tras = 0
        BY <1>1, <1>9, <2>1 DEF Derecho, EnUnBloque, tb
      <4> QED BY <1>1, <2>4, <3>1, <4>1
    <3> HIDE DEF resto, offset
    <3>3. Siguientes(f, tras, offset, 0, resto) = {Par(k) : k \in 0 .. resto - 1}
      BY <3>1, <1>0, SiguientesSon DEF tb
    <3>4. ASSUME NEW k \in 0 .. resto - 1
          PROVE  Par(k) = <<offset + k, Lugar(f, pos + (offset + k))>>
      <4> DEFINE q == k \div tb
                 r == k % tb
      <4>1. q \in Nat /\ r \in 0 .. tb - 1 /\ k = tb * q + r /\ tras = 0
        <5>1. k \in Nat /\ tras = 0
          BY <3>1, <3>2
        <5> QED BY <1>1, <5>1, Division, Zenon
      <4> HIDE DEF q, r
      <4>2. tb * (q + 1) + r = pos + (offset + k)
        BY <1>1, <3>1, <4>1
      <4>3. q + 1 \in Nat /\ q + 1 >= 1 /\ (q + 1) - 1 = q /\ tras + q = q
        BY <4>1
      <4>4. Lugar(f, pos + (offset + k)) = puntero(f, q) * tb + r
        BY <1>6, <4>1, <4>2, <4>3
      <4> QED BY <4>3, <4>4 DEF q, r
    <3>5. memcpy(0, primero, offset) = {<<0 + k, primero + k>> : k \in 0 .. offset - 1}
      BY DEF memcpy
    <3> HIDE DEF primero, Par
    <3>6. memcpy(0, primero, offset) = {<<k, Lugar(f, pos + k)>> : k \in 0 .. offset - 1}
      <4>1. \A k \in 0 .. offset - 1 : k \in Nat /\ pos + k < tb
        BY <1>1, <3>1
      <4> QED BY <2>2, <3>5, <4>1
    <3>7. memcpy(0, primero, offset) \cup {Par(k) : k \in 0 .. resto - 1} = Todos
      <4>1. \A x : x \in {Par(k) : k \in 0 .. resto - 1}
                   <=> \E k \in offset .. cantidad - 1 : x = <<k, Lugar(f, pos + k)>>
        <5>1. ASSUME NEW k \in 0 .. resto - 1 PROVE offset + k \in offset .. cantidad - 1
          BY <3>1
        <5>2. ASSUME NEW k \in offset .. cantidad - 1
              PROVE  k - offset \in 0 .. resto - 1 /\ offset + (k - offset) = k
          BY <3>1
        <5> QED BY <3>4, <5>1, <5>2
      <4>2. \A k : k \in 0 .. cantidad - 1 <=> k \in 0 .. offset - 1 \/ k \in offset .. cantidad - 1
        BY <3>1
      <4> QED BY <3>6, <4>1, <4>2
    <3> HIDE DEF Todos, bloque
    <3>8. Recorrer(f, pos, cantidad, tras) = Todos
      BY <1>1, <1>5, <1>9, <2>4, <3>3, <3>7 DEF resto
    <3> QED BY <3>8 DEF Todos, Rango
  <2> QED BY <1>1, <2>3, <2>4
<1>10. bloque = 0 \/ EnUnBloque(pos, cantidad) \/ d = 0
  BY <1>1, <1>2 DEF Derecho, tb
<1> QED BY <1>7, <1>8, <1>9, <1>10

\* A file at rest has a first block when it has a size, and a pointer for every block
\* of its size but the first.
LEMMA PunterosSon ==
  ASSUME Tipos, BloquesEnteros, Exacta, TodosSeguidos, EnReposo, NEW f \in Archivos,
         NEW t \in Nat, t + 1 < Bloques(fcb[f].tam)
  PROVE  t \in 0 .. cpb - 1 /\ Bloque(f, t) # -1
<1> DEFINE n == Bloques(fcb[f].tam)
           S == {l \in Lugares \ {-1} : Bloque(f, l) # -1}
<1>1. cpb \in Nat \ {0} /\ tamanio_bloque \in Nat \ {0}
  BY Constantes
<1>2. fcb[f].tam \in Tamanios \cup {0} /\ fcb[f].tam \in Nat
  BY CamposFCB DEF Tipos, TypeOK, FCBs
<1>3. n \in Nat /\ fcb[f].tam = tamanio_bloque * n
  BY <1>2, BloquesExactos
<1>4. n <= cpb + 1
  <2>1. fcb[f].tam <= tamanio_bloque * (cpb + 1)
    <3>1. fcb[f].tam \in 0 .. (cpb + 1) * tamanio_bloque
      <4>1. 0 <= (cpb + 1) * tamanio_bloque /\ (cpb + 1) * tamanio_bloque \in Int
        <5>1. \A x, y \in Nat : x * y >= 0 /\ x * y \in Int
          OBVIOUS
        <5> QED BY <1>1, <5>1
      <4> QED BY <1>2, <4>1, FileSystemAssumption
    <3>2. (cpb + 1) * tamanio_bloque = tamanio_bloque * (cpb + 1)
      BY <1>1
    <3> QED BY <1>1, <3>1, <3>2
  <2>2. \A x, y, z \in Nat : x > 0 /\ x * y <= x * z => y <= z
    OBVIOUS
  <2>3. cpb + 1 \in Nat /\ tamanio_bloque > 0
    BY <1>1
  <2> HIDE DEF n
  <2> QED BY <1>1, <1>3, <2>1, <2>2, <2>3
<1>5. Cardinality(S) = n
  BY DEF Exacta, Quedan, EnReposo, Datos
<1> HIDE DEF n
<1>6. t \in 0 .. cpb - 1 /\ t + 1 < n
  BY <1>1, <1>3, <1>4 DEF n
<1>7. ASSUME Bloque(f, t) = -1 PROVE FALSE
  <2>1. \A l \in S : l \in {-2} \cup (0 .. t - 1)
    <3> SUFFICES ASSUME NEW l \in S, l # -2 PROVE l \in 0 .. t - 1
      OBVIOUS
    <3>1. l \in 0 .. cpb - 1 /\ Bloque(f, l) # -1
      BY LugarEs
    <3>2. ASSUME l >= t PROVE FALSE
      <4>1. t \in 0 .. l
        BY <3>1, <3>2, <1>1
      <4> QED BY <1>7, <3>1, <4>1 DEF TodosSeguidos, Seguidos
    <3> QED BY <1>1, <3>1, <3>2
  <2>2. /\ IsFiniteSet({-2} \cup (0 .. t - 1))
        /\ Cardinality({-2} \cup (0 .. t - 1)) = t + 1
    <3>1. IsFiniteSet(0 .. t - 1) /\ Cardinality(0 .. t - 1) = t
      <4> DEFINE u == t - 1
      <4>1. u \in Int /\ 0 \in Int /\ (0 > u <=> t = 0) /\ u - 0 + 1 = t
        OBVIOUS
      <4> HIDE DEF u
      <4>2. IsFiniteSet(0 .. u) /\ Cardinality(0 .. u) = IF 0 > u THEN 0 ELSE u - 0 + 1
        BY <4>1, FS_Interval
      <4>3. Cardinality(0 .. u) = t
        BY <4>1, <4>2
      <4> QED BY <4>2, <4>3 DEF u
    <3>2. -2 \notin 0 .. t - 1
      OBVIOUS
    <3> DEFINE I == 0 .. t - 1
    <3> HIDE DEF I
    <3>3. IsFiniteSet(I \cup {-2}) /\ Cardinality(I \cup {-2}) = t + 1
      BY <3>1, <3>2, FS_AddElement DEF I
    <3>4. I \cup {-2} = {-2} \cup (0 .. t - 1)
      BY DEF I
    <3> QED BY <3>3, <3>4
  <2> HIDE DEF S
  <2>3. Cardinality(S) <= t + 1
    <3>1. S \subseteq {-2} \cup (0 .. t - 1)
      BY <2>1
    <3> DEFINE I == {-2} \cup (0 .. t - 1)
    <3> HIDE DEF I
    <3>2. Cardinality(S) <= Cardinality(I)
      BY <2>2, <3>1, FS_Subset DEF I
    <3> QED BY <2>2, <3>2 DEF I
  <2> QED BY <1>3, <1>5, <1>6, <2>3
<1> QED BY <1>6, <1>7

\* The place of the block that byte x of a file is in: a byte of a file at rest has
\* its place in that block.
Casa(x) == IF x < tamanio_bloque THEN -2 ELSE (x \div tamanio_bloque) - 1

LEMMA LugarDeByte ==
  ASSUME Tipos, BloquesEnteros, Exacta, TodosSeguidos, EnReposo, NEW f \in Archivos,
         NEW x \in Nat, x < fcb[f].tam
  PROVE  /\ Casa(x) \in Lugares /\ Bloque(f, Casa(x)) # -1 /\ Bloque(f, Casa(x)) \in Nat
         /\ x % tamanio_bloque \in 0 .. tamanio_bloque - 1
         /\ Lugar(f, x) = tamanio_bloque * Bloque(f, Casa(x)) + (x % tamanio_bloque)
         /\ Lugar(f, x) \div tamanio_bloque = Bloque(f, Casa(x))
         /\ Lugar(f, x) % tamanio_bloque = x % tamanio_bloque
<1> DEFINE tb == tamanio_bloque
           t == (x \div tb) - 1
<1>1. tb \in Nat \ {0} /\ -2 \in Lugares
  BY Constantes DEF Lugares
<1>2. fcb[f] \in FCBs /\ fcb[f].tam \in Tamanios \cup {0} /\ fcb[f].tam \in Nat /\ fcb[f].directo \in Nat
      /\ fcb[f].indirecto \in Nat /\ fcb[f].indirecto < cant_bloques
  BY CamposFCB DEF Tipos, TypeOK, Formas, FCBs
<1>3. hilo[f] = Libre
  BY DEF EnReposo
<1>4. x \div tb \in Nat /\ x % tb \in 0 .. tb - 1 /\ (x >= tb => x \div tb >= 1)
  BY <1>1, Division, DivisionCero
<1>5. ASSUME NEW l, l = Casa(x), l \in Lugares, NEW c \in Nat, Bloque(f, l) = c,
             Lugar(f, x) = c * tb + (x % tb)
      PROVE  /\ Casa(x) \in Lugares /\ Bloque(f, Casa(x)) # -1 /\ Bloque(f, Casa(x)) \in Nat
             /\ x % tb \in 0 .. tb - 1
             /\ Lugar(f, x) = tb * Bloque(f, Casa(x)) + (x % tb)
             /\ Lugar(f, x) \div tb = Bloque(f, Casa(x)) /\ Lugar(f, x) % tb = x % tb
  <2>1. c * tb + (x % tb) = tb * c + (x % tb)
    BY <1>1, <1>4
  <2>2. (tb * c + (x % tb)) \div tb = c /\ (tb * c + (x % tb)) % tb = x % tb
    <3>1. c \in Int
      OBVIOUS
    <3> QED BY <1>1, <1>4, <3>1, DivisionUnica, Zenon
  <2>3. c # -1
    OBVIOUS
  <2> HIDE DEF tb
  <2> QED BY <1>4, <1>5, <2>1, <2>2, <2>3
<1>6. CASE x < tb
  <2>1. Lugar(f, x) = fcb[f].directo * tb + (x % tb) /\ Casa(x) = -2
    BY <1>6 DEF Lugar, Casa
  <2>2. Bloque(f, -2) = fcb[f].directo
    <3>1. fcb[f].tam # 0
      BY <1>2
    <3> QED BY <1>3, <3>1, BloquesDeFCB DEF Bloque
  <2> QED BY <1>1, <1>2, <1>5, <2>1, <2>2
<1>7. CASE x >= tb
  <2>1. t \in Nat /\ Casa(x) = t
    BY <1>1, <1>4, <1>7 DEF Casa
  <2>2. t + 1 < Bloques(fcb[f].tam)
    <3>1. Bloques(fcb[f].tam) \in Nat /\ x < tb * Bloques(fcb[f].tam)
      BY <1>2, BloquesExactos
    <3>2. x \div tb < Bloques(fcb[f].tam)
      BY <1>1, <3>1, DivisionMenor
    <3> QED BY <1>4, <3>2
  <2> HIDE DEF t
  <2>3. t \in 0 .. cpb - 1 /\ Bloque(f, t) # -1
    BY <2>1, <2>2, PunterosSon
  <2>4. t \in Lugares /\ t < cpb
    BY <2>3, Constantes, SonLugares
  <2>5. Bloque(f, t) = disco[fcb[f].indirecto][t]
    BY <1>3, <2>3, BloquesDeFCB DEF Bloque
  <2>6. disco[fcb[f].indirecto][t] \in Nat
    <3>1. fcb[f].indirecto \in 0 .. cant_bloques - 1
      BY <1>2, Constantes
    <3>2. disco[fcb[f].indirecto] \in Punteros
      BY <3>1 DEF Tipos, TypeOK
    <3> QED BY <2>3, <3>2 DEF Punteros
  <2>7. Lugar(f, x) = disco[fcb[f].indirecto][t] * tb + (x % tb)
    <3>1. ~(x < tb)
      BY <1>1, <1>7
    <3>2. Lugar(f, x) = puntero(f, t) * tb + (x % tb)
      BY <3>1 DEF Lugar, t
    <3> QED BY <2>4, <3>2 DEF puntero
  <2> QED BY <1>5, <2>1, <2>4, <2>5, <2>6, <2>7
<1> QED BY <1>1, <1>6, <1>7

\* That block is the file's, and no other's.
LEMMA ByteEnSuBloque ==
  ASSUME Tipos, BloquesEnteros, Sana, Exacta, TodosSeguidos, EnReposo, NEW f \in Archivos,
         NEW x \in Nat, x < fcb[f].tam, NEW b, b = Lugar(f, x) \div tamanio_bloque
  PROVE  b \in bitmap /\ UsosDe(f, b) = 1 /\ \A g \in Archivos \ {f} : UsosDe(g, b) = 0
<1> DEFINE l == Casa(x)
<1>1. l \in Lugares /\ b = Bloque(f, l) /\ b # -1 /\ b \in Nat
  BY LugarDeByte
<1> HIDE DEF l
<1>2. b \in bitmap /\ UsosDe(f, b) = 1
  BY <1>1, UsosDeUno DEF Sana, SinDobles
<1>3. ASSUME NEW g \in Archivos \ {f} PROVE UsosDe(g, b) = 0
  <2>1. \A m \in Lugares : Bloque(g, m) # b
    BY <1>1 DEF Sana, SinDobles
  <2> QED BY <1>1, <2>1, UsosDeUno
<1> QED BY <1>2, <1>3

\* No two bytes of a file share a place.
LEMMA LugaresDistintos ==
  ASSUME Tipos, BloquesEnteros, Sana, Exacta, TodosSeguidos, EnReposo, NEW f \in Archivos,
         NEW x \in Nat, x < fcb[f].tam, NEW y \in Nat, y < fcb[f].tam,
         Lugar(f, x) = Lugar(f, y)
  PROVE  x = y
<1> DEFINE tb == tamanio_bloque
<1>1. tb \in Nat \ {0}
  BY Constantes
<1>2. /\ Casa(x) \in Lugares /\ Bloque(f, Casa(x)) # -1
      /\ Lugar(f, x) \div tb = Bloque(f, Casa(x)) /\ Lugar(f, x) % tb = x % tb
  BY LugarDeByte
<1>3. /\ Casa(y) \in Lugares /\ Bloque(f, Casa(y)) # -1
      /\ Lugar(f, y) \div tb = Bloque(f, Casa(y)) /\ Lugar(f, y) % tb = y % tb
  BY LugarDeByte
<1>4. Casa(x) = Casa(y)
  BY <1>2, <1>3 DEF Sana, SinDobles
<1>5. /\ x \div tb \in Nat /\ x % tb \in Nat /\ x = tb * (x \div tb) + (x % tb)
      /\ y \div tb \in Nat /\ y % tb \in Nat /\ y = tb * (y \div tb) + (y % tb)
  <2>1. ASSUME NEW z \in Nat
        PROVE  z \div tb \in Nat /\ z % tb \in Nat /\ z = tb * (z \div tb) + (z % tb)
    <3>1. z \div tb \in Nat /\ z % tb \in 0 .. tb - 1 /\ z = tb * (z \div tb) + (z % tb)
      BY <1>1, Division
    <3> QED BY <3>1
  <2> QED BY <2>1
<1>6. (x < tb => x \div tb = 0) /\ (y < tb => y \div tb = 0)
  BY <1>1, DivisionCero
<1>7. x \div tb = y \div tb
  <2>1. ASSUME NEW z \in Nat
        PROVE  (Casa(z) = -2 /\ z \div tb = 0) \/ (Casa(z) # -2 /\ z \div tb = Casa(z) + 1)
    <3>1. z \div tb \in Nat /\ (z < tb => z \div tb = 0)
      BY <1>1, Division, DivisionCero
    <3>2. CASE z < tb
      BY <3>1, <3>2 DEF Casa
    <3>3. CASE ~(z < tb)
      <4> DEFINE q == z \div tb
      <4>1. Casa(z) = q - 1 /\ q \in Nat
        BY <3>1, <3>3 DEF Casa
      <4> HIDE DEF q
      <4>2. Casa(z) # -2 /\ q = Casa(z) + 1
        BY ONLY <4>1
      <4> QED BY <4>2 DEF q
    <3> QED BY <3>2, <3>3
  <2>2. ((Casa(x) = -2 /\ x \div tb = 0) \/ (Casa(x) # -2 /\ x \div tb = Casa(x) + 1))
        /\ ((Casa(y) = -2 /\ y \div tb = 0) \/ (Casa(y) # -2 /\ y \div tb = Casa(y) + 1))
    BY <2>1
  <2>3. ASSUME NEW c, NEW u, NEW v, (c = -2 /\ u = 0) \/ (c # -2 /\ u = c + 1),
               (c = -2 /\ v = 0) \/ (c # -2 /\ v = c + 1)
        PROVE  u = v
    BY <2>3
  <2> QED BY <1>4, <2>2, <2>3
<1> QED BY <1>2, <1>3, <1>5, <1>7

\* A range of a file, byte by byte.
LEMMA RangoEnSuLugar ==
  ASSUME Tipos, BloquesEnteros, Sana, Exacta, TodosSeguidos, EnReposo, NEW f \in Archivos,
         NEW pos \in Nat, NEW cantidad \in Nat, pos + cantidad <= fcb[f].tam, NEW pares,
         pares = Rango(f, pos, cantidad)
  PROVE  EnSuLugar(f, pares, pos, cantidad)
<1>1. fcb[f].tam \in Nat
  BY CamposFCB DEF Tipos, TypeOK, FCBs
<1>2. ASSUME NEW par \in pares, NEW b, b = par[2] \div tamanio_bloque
      PROVE  b \in bitmap /\ UsosDe(f, b) = 1 /\ \A g \in Archivos \ {f} : UsosDe(g, b) = 0
  <2>1. PICK k \in 0 .. cantidad - 1 : par = <<k, Lugar(f, pos + k)>>
    BY DEF Rango
  <2>2. par[2] = Lugar(f, pos + k)
    BY <2>1
  <2> DEFINE x == pos + k
  <2>3. x \in Nat /\ x < fcb[f].tam
    BY <1>1
  <2> HIDE DEF x
  <2>4. b = Lugar(f, x) \div tamanio_bloque
    BY <1>2, <2>2 DEF x
  <2> QED BY <2>3, <2>4, ByteEnSuBloque
<1> QED BY <1>2 DEF EnSuLugar, Rango

\* Positions and lengths are naturals.
LEMMA PalabrasNat == Palabras \subseteq Nat
<1>1. cpb * (cpb + 1) \in Int
  BY Constantes
<1> QED BY <1>1 DEF Palabras

\* The invariant gives what F_WRITE promises.
LEMMA EscrituraEs == Invariante /\ BloquesEnteros /\ (exacto => TodosSeguidos) => EscrituraFiel
<1> SUFFICES ASSUME Invariante, BloquesEnteros, exacto, EnReposo, TodosSeguidos,
                    NEW f \in Archivos, NEW pos \in Palabras, NEW cantidad \in Palabras,
                    Dentro(f, pos, cantidad),
                    \/ EnUnBloque(pos, cantidad)
                    \/ pos % tamanio_bloque = 0
                    \/ pos < tamanio_bloque /\ cantidad >= tamanio_bloque
             PROVE  EnSuLugar(f, write_archivo(f, pos, cantidad), pos, cantidad)
  BY DEF EscrituraFiel
<1>1. Tipos /\ Sana /\ Exacta /\ pos \in Nat /\ cantidad \in Nat /\ 0 \in Nat
  BY PalabrasNat DEF Invariante
<1>2. ASSUME NEW tras \in Nat, tras = 0
      PROVE  Recorrer(f, pos, cantidad, tras) = Rango(f, pos, cantidad)
  <2>1. Derecho(pos, cantidad, tras)
    BY <1>1, <1>2, Constantes, DivisionCero DEF Derecho
  <2> QED BY <1>1, <2>1, RecorrerEs
<1>3. write_archivo(f, pos, cantidad) = Rango(f, pos, cantidad)
  BY <1>1, <1>2 DEF write_archivo
<1> QED BY <1>1, <1>3, RangoEnSuLugar DEF Dentro

\* The invariant gives what F_READ promises.
LEMMA LecturaEs == Invariante /\ BloquesEnteros /\ (exacto => TodosSeguidos) => LecturaFiel
<1> SUFFICES ASSUME Invariante, BloquesEnteros, exacto, EnReposo, TodosSeguidos,
                    NEW f \in Archivos, NEW pos \in Palabras, NEW cantidad \in Palabras,
                    Dentro(f, pos, cantidad),
                    \/ EnUnBloque(pos, cantidad)
                    \/ pos >= tamanio_bloque /\ pos % tamanio_bloque = 0
             PROVE  EnSuLugar(f, read_archivo(f, pos, cantidad), pos, cantidad)
  BY DEF LecturaFiel
<1>1. Tipos /\ Sana /\ Exacta /\ pos \in Nat /\ cantidad \in Nat /\ 1 \in Nat
  BY PalabrasNat DEF Invariante
<1>2. ASSUME NEW tras \in Nat
      PROVE  Recorrer(f, pos, cantidad, tras) = Rango(f, pos, cantidad)
  <2>1. Derecho(pos, cantidad, tras)
    BY DEF Derecho
  <2> QED BY <1>1, <2>1, RecorrerEs
<1>3. read_archivo(f, pos, cantidad) = Rango(f, pos, cantidad)
  BY <1>1, <1>2 DEF read_archivo
<1> QED BY <1>1, <1>3, RangoEnSuLugar DEF Dentro

\* The invariant, with the pointers in order until a restart cuts a truncate short.
LEMMA OrdenSiempre ==
  ASSUME BloquesEnteros PROVE Spec => [](Invariante /\ (exacto => TodosSeguidos))
<1>1. Invariante /\ (exacto => TodosSeguidos) /\ [Next]_vars
        => (Invariante /\ (exacto => TodosSeguidos))'
  BY InvariantePaso, SeguidosPaso
<1>2. Init => Invariante /\ (exacto => TodosSeguidos)
  BY InvarianteInicial, SeguidosInicial
<1> QED BY <1>1, <1>2, PTL DEF Spec

\* F_WRITE of a range of a file that lies in a block, starts with one, or starts in
\* the first block and is at least a block long puts every byte in its place, in a
\* block no other file has, whatever truncates came before: write_archivo walks the
\* pointers that expand_block and reduce_block left, for any number of files.
THEOREM EscrituraSiempreFiel == ASSUME BloquesEnteros PROVE Spec => []EscrituraFiel
<1>1. Invariante /\ (exacto => TodosSeguidos) => EscrituraFiel
  BY EscrituraEs
<1> QED BY <1>1, OrdenSiempre, PTL

\* F_READ of a range of a file that lies in a block, or starts with one that is not
\* the first, reads every byte from its place, in a block no other file has:
\* read_archivo, through the same truncates.
THEOREM LecturaSiempreFiel == ASSUME BloquesEnteros PROVE Spec => []LecturaFiel
<1>1. Invariante /\ (exacto => TodosSeguidos) => LecturaFiel
  BY LecturaEs
<1> QED BY <1>1, OrdenSiempre, PTL
-----------------------------------------------------------------------------
(* The way of a value: strings, registers, memory.                          *)

\* The string in s ends before its first NUL.
LEMMA LargoDeCadena ==
  ASSUME NEW n \in Nat, NEW s \in [1 .. n -> Int], NEW j \in 0 .. n,
         \A k \in 1 .. j : s[k] # NUL, j < n => s[j + 1] = NUL
  PROVE  strlen(s) = j /\ Cadena(s) = [k \in 1 .. j |-> s[k]]
<1>1. DOMAIN s = 1 .. n /\ s \in Seq(Int) /\ Len(s) = n
  OBVIOUS
<1>2. ASSUME NEW k \in 1 .. n PROVE NUL \notin Range(SubSeq(s, 1, k)) <=> k <= j
  <2>1. Range(SubSeq(s, 1, k)) = {s[i] : i \in 1 .. k}
    <3>1. DOMAIN SubSeq(s, 1, k) = 1 .. k /\ \A i \in 1 .. k : SubSeq(s, 1, k)[i] = s[i]
      BY <1>1
    <3> QED BY <3>1 DEF Range
  <2>2. CASE k <= j
    <3>1. \A i \in 1 .. k : i \in 1 .. j
      BY <2>2
    <3> QED BY <2>1, <2>2, <3>1
  <2>3. CASE ~(k <= j)
    <3>1. j + 1 \in 1 .. k /\ j < n
      BY <2>3
    <3> QED BY <2>1, <2>3, <3>1
  <2> QED BY <2>2, <2>3
<1>3. {k \in DOMAIN s : NUL \notin Range(SubSeq(s, 1, k))} = 1 .. j
  <2>1. \A k \in 1 .. j : k \in 1 .. n /\ k <= j
    OBVIOUS
  <2>2. \A k \in 1 .. n : k <= j => k \in 1 .. j
    OBVIOUS
  <2> QED BY <1>1, <1>2, <2>1, <2>2
<1>4. Cardinality(1 .. j) = j
  <2>1. 1 \in Int /\ j \in Int /\ (1 > j <=> j = 0) /\ j - 1 + 1 = j
    OBVIOUS
  <2>2. Cardinality(1 .. j) = IF 1 > j THEN 0 ELSE j - 1 + 1
    BY <2>1, FS_Interval
  <2> QED BY <2>1, <2>2
<1>5. strlen(s) = j
  BY <1>3, <1>4 DEF strlen
<1>6. SubSeq(s, 1, j) = [k \in 1 .. j |-> s[k]]
  BY <1>1
<1> QED BY <1>5, <1>6 DEF Cadena

\* The registers, and the values the properties send.
Corto(n, k) == [i \in 1 .. n |-> IF i <= k THEN i ELSE NUL]

LEMMA Registros == \A n \in get_tamanio_registro : n \in Nat /\ n >= 1 /\ n <= 16
BY DEF get_tamanio_registro

LEMMA ValorEs ==
  ASSUME NEW n \in Nat
  PROVE  /\ Valor(n) \in [1 .. n -> Int] /\ Len(Valor(n)) = n
         /\ strlen(Valor(n)) = n /\ Cadena(Valor(n)) = Valor(n)
<1>1. Valor(n) \in [1 .. n -> Int] /\ \A k \in 1 .. n : Valor(n)[k] = k /\ Valor(n)[k] # NUL
  BY DEF Valor, NUL
<1>2. n \in 0 .. n /\ ~(n < n)
  OBVIOUS
<1>3. strlen(Valor(n)) = n /\ Cadena(Valor(n)) = [k \in 1 .. n |-> Valor(n)[k]]
  BY <1>1, <1>2, LargoDeCadena
<1>4. Len(Valor(n)) = n
  BY <1>1
<1> QED BY <1>1, <1>3, <1>4

\* A value shorter than its register is all of it that counts.
LEMMA CortoEs ==
  ASSUME NEW n \in Nat, NEW k \in 0 .. n
  PROVE  /\ Corto(n, k) \in [1 .. n -> Int] /\ Len(Corto(n, k)) = n
         /\ strlen(Corto(n, k)) = k /\ Cadena(Corto(n, k)) = Valor(k)
         /\ \A s : DOMAIN s = 1 .. n => guardar_en_reg(s, Valor(k)) = Corto(n, k)
<1>1. Corto(n, k) \in [1 .. n -> Int] /\ Len(Corto(n, k)) = n
  BY DEF Corto, NUL
<1>2. \A i \in 1 .. n : Corto(n, k)[i] = IF i <= k THEN i ELSE NUL
  BY DEF Corto
<1>3. (\A i \in 1 .. k : Corto(n, k)[i] = i /\ Corto(n, k)[i] # NUL)
      /\ (k < n => Corto(n, k)[k + 1] = NUL)
  BY <1>2 DEF NUL
<1>4. strlen(Corto(n, k)) = k /\ Cadena(Corto(n, k)) = [i \in 1 .. k |-> Corto(n, k)[i]]
  BY <1>1, <1>3, LargoDeCadena
<1>5. [i \in 1 .. k |-> Corto(n, k)[i]] = Valor(k)
  BY <1>3 DEF Valor
<1>6. ASSUME NEW s, DOMAIN s = 1 .. n PROVE guardar_en_reg(s, Valor(k)) = Corto(n, k)
  <2>1. strlen(Valor(k)) = k
    BY ValorEs
  <2>2. guardar_en_reg(s, Valor(k)) = [i \in 1 .. n |-> IF i <= k THEN Valor(k)[i] ELSE NUL]
    BY <1>6, <2>1 DEF guardar_en_reg
  <2>3. \A i \in 1 .. n : i <= k => Valor(k)[i] = i
    BY DEF Valor
  <2> QED BY <2>2, <2>3 DEF Corto
<1> QED BY <1>1, <1>4, <1>5, <1>6

\* A value of n bytes written at dir, and what is read there.
Direcciones == 0 .. 31
Memorias == [Direcciones -> Int]
CabeEn(dir, n) == dir + n <= 32
Byte(m, dir, k) == m[dir + k - 1]
Fuera(a, dir, n) == a \notin dir .. dir + n - 1

LEMMA EscribeValor ==
  ASSUME NEW m \in Memorias, NEW dir \in Nat, NEW n \in Nat, CabeEn(dir, n),
         NEW r, r = escribir_en_direccion_fisica(m, dir, Valor(n))
  PROVE  /\ r \in Memorias
         /\ \A k \in 1 .. n : Byte(r, dir, k) = k
         /\ \A a \in Direcciones : Fuera(a, dir, n) => r[a] = m[a]
<1>0. dir + n <= 32
  BY DEF CabeEn
<1>1. strlen(Valor(n)) = n
  BY ValorEs
<1>2. DOMAIN m = Direcciones
  BY DEF Memorias
<1>3. r = [a \in Direcciones |-> IF a - dir \in 0 .. n - 1 THEN Valor(n)[a - dir + 1] ELSE m[a]]
  BY <1>1, <1>2 DEF escribir_en_direccion_fisica
<1>4. ASSUME NEW a \in Direcciones, a - dir \in 0 .. n - 1
      PROVE  r[a] = a - dir + 1 /\ a - dir + 1 \in Int
  <2>1. r[a] = Valor(n)[a - dir + 1]
    BY <1>3, <1>4
  <2>2. a - dir + 1 \in 1 .. n
    BY <1>4 DEF Direcciones
  <2> QED BY <2>1, <2>2 DEF Valor
<1>5. ASSUME NEW a \in Direcciones, a - dir \notin 0 .. n - 1 PROVE r[a] = m[a] /\ m[a] \in Int
  BY <1>3, <1>5 DEF Memorias
<1>6. r \in Memorias
  <2>1. DOMAIN r = Direcciones /\ r = [a \in Direcciones |-> r[a]]
    BY <1>3
  <2>2. \A a \in Direcciones : r[a] \in Int
    BY <1>4, <1>5
  <2> QED BY <2>1, <2>2 DEF Memorias
<1>7. ASSUME NEW k \in 1 .. n PROVE Byte(r, dir, k) = k
  <2>1. dir + k - 1 \in Direcciones /\ (dir + k - 1) - dir \in 0 .. n - 1
        /\ (dir + k - 1) - dir + 1 = k
    BY <1>0 DEF Direcciones
  <2> QED BY <1>4, <2>1 DEF Byte
<1>8. ASSUME NEW a \in Direcciones, Fuera(a, dir, n) PROVE r[a] = m[a]
  <2>1. a - dir \notin 0 .. n - 1
    BY <1>8 DEF Direcciones, Fuera
  <2> QED BY <1>5, <2>1
<1> QED BY <1>6, <1>7, <1>8

\* Bytes with no NUL among them are all sent; those of a value at the start of a
\* register's worth, with NUL behind, are sent alone.
LEMMA EnviaTodo ==
  ASSUME NEW m \in Memorias, NEW dir \in Nat, NEW n \in Nat, CabeEn(dir, n),
         \A k \in 1 .. n : Byte(m, dir, k) # NUL
  PROVE  enviar_valor_leido(m, dir, n) = [k \in 1 .. n |-> Byte(m, dir, k)]
<1> DEFINE s == [k \in 1 .. n |-> Byte(m, dir, k)]
<1>1. \A k \in 1 .. n : dir + k - 1 \in Direcciones
  BY DEF Direcciones, CabeEn
<1>2. s \in [1 .. n -> Int] /\ \A k \in 1 .. n : s[k] # NUL
  BY <1>1 DEF Memorias, Byte
<1>3. n \in 0 .. n /\ ~(n < n)
  OBVIOUS
<1>4. leer_direccion_fisica(m, dir, n) = s
  BY DEF leer_direccion_fisica, Byte
<1>5. s = [k \in 1 .. n |-> s[k]]
  OBVIOUS
<1> HIDE DEF s
<1>6. Cadena(s) = s
  BY <1>2, <1>3, <1>5, LargoDeCadena
<1>7. enviar_valor_leido(m, dir, n) = s
  BY <1>4, <1>6 DEF enviar_valor_leido
<1> QED BY <1>7 DEF s

\* The n bytes from dir on are a value of k and NULs behind it.
Guarda(m, dir, n, k) == \A i \in 1 .. n : Byte(m, dir, i) = IF i <= k THEN i ELSE NUL

LEMMA EnviaCorto ==
  ASSUME NEW m, NEW dir \in Nat, NEW n \in Nat, NEW k \in 0 .. n, Guarda(m, dir, n, k)
  PROVE  leer_direccion_fisica(m, dir, n) = Corto(n, k) /\ enviar_valor_leido(m, dir, n) = Valor(k)
<1>1. leer_direccion_fisica(m, dir, n) = Corto(n, k)
  BY DEF leer_direccion_fisica, Corto, Byte, Guarda
<1> QED BY <1>1, CortoEs DEF enviar_valor_leido

-----------------------------------------------------------------------------
(* And the file.                                                            *)

\* The copy of a byte is found by its place and by its place in the buffer.
ParDelDisco(pares, x) == CHOOSE p \in pares : p[2] = x
ParDelBuffer(pares, k) == CHOOSE p \in pares : p[1] = k

LEMMA ParDe ==
  ASSUME Tipos, BloquesEnteros, Sana, Exacta, TodosSeguidos, EnReposo, NEW f \in Archivos,
         NEW pos \in Nat, NEW n \in Nat, pos + n <= fcb[f].tam, NEW k \in 0 .. n - 1,
         NEW pares, pares = Rango(f, pos, n)
  PROVE  LET par == <<k, Lugar(f, pos + k)>> IN
         /\ par \in pares
         /\ ParDelDisco(pares, Lugar(f, pos + k)) = par
         /\ ParDelBuffer(pares, k) = par
<1> DEFINE par == <<k, Lugar(f, pos + k)>>
<1>1. par \in pares /\ par[1] = k /\ par[2] = Lugar(f, pos + k)
  BY DEF Rango
<1>2. ASSUME NEW p \in pares PROVE (p[1] = k => p = par) /\ (p[2] = Lugar(f, pos + k) => p = par)
  <2>1. PICK j \in 0 .. n - 1 : p = <<j, Lugar(f, pos + j)>>
    BY DEF Rango
  <2>2. p[1] = j /\ p[2] = Lugar(f, pos + j)
    BY <2>1
  <2>3. fcb[f].tam \in Nat
    BY CamposFCB DEF Tipos, TypeOK, FCBs
  <2>4. pos + j \in Nat /\ pos + k \in Nat /\ pos + j < fcb[f].tam /\ pos + k < fcb[f].tam
    BY <2>3
  <2>5. Lugar(f, pos + j) = Lugar(f, pos + k) => pos + j = pos + k
    <3> DEFINE x == pos + j
               y == pos + k
    <3>1. x \in Nat /\ y \in Nat /\ x < fcb[f].tam /\ y < fcb[f].tam
      BY <2>4
    <3> HIDE DEF x, y
    <3>2. Lugar(f, x) = Lugar(f, y) => x = y
      BY <3>1, LugaresDistintos
    <3> QED BY <3>2 DEF x, y
  <2>6. pos + j = pos + k => j = k
    OBVIOUS
  <2> QED BY <2>1, <2>2, <2>5, <2>6
<1> HIDE DEF par
<1>3. ParDelDisco(pares, Lugar(f, pos + k)) = par
  BY <1>1, <1>2 DEF ParDelDisco
<1>4. ParDelBuffer(pares, k) = par
  BY <1>1, <1>2 DEF ParDelBuffer
<1> QED BY <1>1, <1>3, <1>4 DEF par

\* When no block is beyond the end of the disk, every byte of a file is on it.
LEMMA EnElDisco ==
  ASSUME Tipos, BloquesEnteros, Sana, Exacta, TodosSeguidos, EnReposo, NEW f \in Archivos,
         bitmap \subseteq 0 .. cant_bloques - 1, NEW x \in Nat, x < fcb[f].tam
  PROVE  Lugar(f, x) \in DOMAIN DiscoViejo
<1> DEFINE tb == tamanio_bloque
           b == Bloque(f, Casa(x))
           r == x % tamanio_bloque
<1>1. tb \in Nat \ {0} /\ cant_bloques \in Nat
  BY Constantes
<1>2. /\ Casa(x) \in Lugares /\ b # -1 /\ b \in Nat /\ r \in 0 .. tb - 1
      /\ Lugar(f, x) = tb * b + r
  BY LugarDeByte
<1>3. b \in bitmap
  BY <1>2 DEF Sana, SinDobles
<1>4. b \in 0 .. cant_bloques - 1
  BY <1>3, Zenon
<1> HIDE DEF b, r
<1>5. tb * b + r \in 0 .. (cant_bloques + 1) * tb - 1
  <2>1. \A u, v, w \in Nat : v < w => u * v + u <= u * w
    OBVIOUS
  <2>2. tb * b + tb <= tb * cant_bloques
    <3>1. b \in Nat /\ b < cant_bloques
      BY <1>1, <1>4
    <3> QED BY <1>1, <2>1, <3>1
  <2>3. \A u, v \in Nat : u * v \in Nat /\ (v + 1) * u = u * v + u
    OBVIOUS
  <2>4. tb * b \in Nat /\ tb * cant_bloques \in Nat /\ (cant_bloques + 1) * tb = tb * cant_bloques + tb
    BY <1>1, <1>4, <2>3
  <2> DEFINE u == tb * b
             v == tb * cant_bloques
             w == (cant_bloques + 1) * tb
  <2>5. u \in Nat /\ v \in Nat /\ w = v + tb /\ u + tb <= v
    BY <2>2, <2>4
  <2> HIDE DEF u, v, w, tb
  <2>6. u + r \in 0 .. w - 1
    BY <1>1, <1>2, <2>5
  <2> QED BY <2>6 DEF u, w, tb
<1> QED BY <1>2, <1>5 DEF DiscoViejo

\* Where a range is, both loops copy it byte by byte.
LEMMA EnOrden ==
  ASSUME Tipos, NEW f \in Archivos, NEW n \in Nat, NEW pos \in Derechos(f, n)
  PROVE  /\ pos \in Nat /\ pos + n <= fcb[f].tam
         /\ write_archivo(f, pos, n) = Rango(f, pos, n)
         /\ read_archivo(f, pos, n) = Rango(f, pos, n)
<1>1. pos \in Nat /\ pos + n <= fcb[f].tam
  BY PalabrasNat DEF Derechos, Dentro
<1>2. ASSUME NEW tras \in Nat PROVE Recorrer(f, pos, n, tras) = Rango(f, pos, n)
  <2>1. Derecho(pos, n, tras)
    BY DEF Derechos, Derecho
  <2> QED BY <1>1, <2>1, RecorrerEs
<1> QED BY <1>1, <1>2 DEF write_archivo, read_archivo

\* F_WRITE leaves byte k of its buffer in the place of byte pos + k of the file, and
\* F_READ puts in memory what it finds there.
LEMMA EscribeEnArchivo ==
  ASSUME Tipos, BloquesEnteros, Sana, Exacta, TodosSeguidos, EnReposo, NEW f \in Archivos,
         bitmap \subseteq 0 .. cant_bloques - 1,
         NEW n \in Nat, NEW pos \in Derechos(f, n), NEW m, NEW dir, NEW k \in 0 .. n - 1
  PROVE  F_WRITE(DiscoViejo, f, pos, n, m, dir)[Lugar(f, pos + k)]
           = Buffer(enviar_valor_leido(m, dir, n), n)[k + 1]
<1> DEFINE buffer == Buffer(enviar_valor_leido(m, dir, n), n)
           pares == write_archivo(f, pos, n)
           x == Lugar(f, pos + k)
<1>1. pos \in Nat /\ pos + n <= fcb[f].tam /\ pares = Rango(f, pos, n) /\ fcb[f].tam \in Nat
  BY EnOrden, CamposFCB DEF Tipos, TypeOK, FCBs
<1>2. <<k, x>> \in pares /\ ParDelDisco(pares, x) = <<k, x>>
  BY <1>1, ParDe
<1>3. x \in DOMAIN DiscoViejo
  <2> DEFINE y == pos + k
  <2>1. y \in Nat /\ y < fcb[f].tam
    BY <1>1
  <2> HIDE DEF y
  <2>2. Lugar(f, y) \in DOMAIN DiscoViejo
    BY <2>1, EnElDisco
  <2> QED BY <2>2 DEF y
<1> HIDE DEF x
<1>4. \E par \in pares : par[2] = x
  BY <1>2
<1>5. F_WRITE(DiscoViejo, f, pos, n, m, dir)[x] = buffer[ParDelDisco(pares, x)[1] + 1]
  BY <1>3, <1>4 DEF F_WRITE, ParDelDisco
<1> HIDE DEF pares, buffer
<1>6. F_WRITE(DiscoViejo, f, pos, n, m, dir)[x] = buffer[k + 1]
  BY <1>2, <1>5
<1> QED BY <1>6 DEF x, buffer

LEMMA LeeDeArchivo ==
  ASSUME Tipos, BloquesEnteros, Sana, Exacta, TodosSeguidos, EnReposo, NEW f \in Archivos,
         NEW n \in Nat, NEW pos \in Derechos(f, n), NEW m, NEW dir, NEW d, NEW v,
         v = [k \in 1 .. n |-> d[Lugar(f, pos + (k - 1))]]
  PROVE  F_READ(m, dir, d, f, pos, n) = escribir_en_direccion_fisica(m, dir, v)
<1> DEFINE pares == read_archivo(f, pos, n)
<1>1. pos \in Nat /\ pos + n <= fcb[f].tam /\ pares = Rango(f, pos, n)
  BY EnOrden
<1>2. ASSUME NEW k \in 1 .. n
      PROVE  ParDelBuffer(pares, k - 1)[2] = Lugar(f, pos + (k - 1))
  <2> DEFINE i == k - 1
  <2>1. i \in 0 .. n - 1
    OBVIOUS
  <2> HIDE DEF i, pares
  <2>2. ParDelBuffer(pares, i) = <<i, Lugar(f, pos + i)>>
    BY <1>1, <2>1, ParDe
  <2>3. ParDelBuffer(pares, i)[2] = Lugar(f, pos + i)
    BY <2>2
  <2> QED BY <2>3 DEF i
<1> HIDE DEF pares
<1>3. [k \in 1 .. n |-> d[ParDelBuffer(pares, k - 1)[2]]] = v
  BY <1>2
<1> QED BY <1>3 DEF F_READ, pares, ParDelBuffer

-----------------------------------------------------------------------------
(* Both ways.                                                               *)

LEMMA MemoriasSon ==
  /\ MemoriaVieja \in Memorias /\ \A a \in Direcciones : MemoriaVieja[a] = 100 + a
  /\ MemoriaVacia \in Memorias /\ \A a \in Direcciones : MemoriaVacia[a] = NUL
BY DEF MemoriaVieja, MemoriaVacia, Memorias, Direcciones, NUL

LEMMA ViejoEs ==
  ASSUME NEW n \in Nat PROVE DOMAIN Viejo(n) = 1 .. n /\ Len(Viejo(n)) = n
BY DEF Viejo

LEMMA BufferDe ==
  ASSUME NEW n \in Nat, NEW k \in 0 .. n, NEW i \in 1 .. k
  PROVE  Buffer(Valor(k), n)[i] = i
<1>1. Len(Valor(k)) = k
  BY ValorEs
<1> QED BY <1>1 DEF Buffer, Valor

\* A register that is full, from memory to the file and back to other bytes of memory.
LEMMA LlegaEntero ==
  ASSUME Tipos, BloquesEnteros, Sana, Exacta, TodosSeguidos, EnReposo, NEW f \in Archivos,
         bitmap \subseteq 0 .. cant_bloques - 1,
         NEW n \in get_tamanio_registro, NEW pos \in Derechos(f, n),
         NEW m, m = execute_movout(MemoriaVieja, 0, Valor(n)),
         NEW d, d = F_WRITE(DiscoViejo, f, pos, n, m, 0),
         NEW r, r = F_READ(m, 16, d, f, pos, n)
  PROVE  /\ execute_movin(r, 16, Viejo(n)) = Valor(n)
         /\ \A a \in DOMAIN r \ (16 .. 15 + n) : r[a] = m[a]
<1>1. n \in Nat /\ n <= 16 /\ CabeEn(0, n) /\ CabeEn(16, n) /\ n \in 0 .. n
  BY Registros DEF CabeEn
<1>2. m = escribir_en_direccion_fisica(MemoriaVieja, 0, Valor(n))
  BY <1>1, ValorEs DEF execute_movout, get_reg_value
<1>3. m \in Memorias /\ \A i \in 1 .. n : Byte(m, 0, i) = i
  BY <1>1, <1>2, MemoriasSon, EscribeValor
<1>4. enviar_valor_leido(m, 0, n) = Valor(n)
  <2>1. Guarda(m, 0, n, n)
    BY <1>1, <1>3 DEF Guarda
  <2> QED BY <1>1, <2>1, EnviaCorto
<1>5. ASSUME NEW k \in 0 .. n - 1 PROVE d[Lugar(f, pos + k)] = k + 1
  <2>1. d[Lugar(f, pos + k)] = Buffer(Valor(n), n)[k + 1]
    BY <1>1, <1>4, EscribeEnArchivo
  <2>2. k + 1 \in 1 .. n
    BY <1>1
  <2> QED BY <1>1, <2>1, <2>2, BufferDe
<1>6. r = escribir_en_direccion_fisica(m, 16, Valor(n))
  <2> DEFINE v == [k \in 1 .. n |-> d[Lugar(f, pos + (k - 1))]]
  <2>1. ASSUME NEW k \in 1 .. n PROVE d[Lugar(f, pos + (k - 1))] = k
    <3>1. k - 1 \in 0 .. n - 1 /\ (k - 1) + 1 = k
      BY <1>1
    <3> QED BY <1>5, <3>1
  <2>2. v = Valor(n)
    BY <2>1 DEF Valor
  <2>3. r = escribir_en_direccion_fisica(m, 16, v)
    <3> HIDE DEF v
    <3>1. v = [k \in 1 .. n |-> d[Lugar(f, pos + (k - 1))]]
      BY DEF v
    <3> QED BY <1>1, <3>1, LeeDeArchivo, SMTT(30)
  <2> QED BY <2>2, <2>3
<1>7. /\ r \in Memorias /\ \A i \in 1 .. n : Byte(r, 16, i) = i
      /\ \A a \in Direcciones : Fuera(a, 16, n) => r[a] = m[a]
  BY <1>1, <1>3, <1>6, EscribeValor
<1>8. enviar_valor_leido(r, 16, n) = Valor(n)
  <2>1. Guarda(r, 16, n, n)
    BY <1>1, <1>7 DEF Guarda
  <2> QED BY <1>1, <2>1, EnviaCorto
<1>9. execute_movin(r, 16, Viejo(n)) = Corto(n, n)
  <2>1. DOMAIN Viejo(n) = 1 .. n /\ Len(Viejo(n)) = n
    BY <1>1, ViejoEs
  <2>2. guardar_en_reg(Viejo(n), Valor(n)) = Corto(n, n)
    BY <1>1, <2>1, CortoEs
  <2> QED BY <1>8, <2>1, <2>2 DEF execute_movin
<1>10. Corto(n, n) = Valor(n)
  BY <1>1 DEF Corto, Valor
<1>11. ASSUME NEW a \in DOMAIN r \ (16 .. 15 + n) PROVE r[a] = m[a]
  <2>1. DOMAIN r = Direcciones
    BY <1>7 DEF Memorias
  <2>2. Fuera(a, 16, n)
    BY <1>1 DEF Fuera
  <2> QED BY <1>7, <2>1, <2>2
<1> QED BY <1>9, <1>10, <1>11

LEMMA Pegadas ==
  ASSUME NEW n \in Nat, NEW k \in 0 .. n, NEW v \in Seq(Int), Len(v) = k,
         NEW c \in Seq(Int), Len(c) = n - k
  PROVE  v \o c = [i \in 1 .. n |-> IF i <= k THEN v[i] ELSE c[i - k]]
<1>1. v \o c \in Seq(Int) /\ Len(v \o c) = n
  <2>1. k + (n - k) = n
    OBVIOUS
  <2> QED BY <2>1
<1>2. v \o c = [i \in 1 .. n |-> (v \o c)[i]]
  <2> DEFINE junta == v \o c
  <2>1. junta \in Seq(Int) /\ Len(junta) = n
    BY <1>1
  <2> HIDE DEF junta
  <2>2. junta = [i \in 1 .. n |-> junta[i]]
    BY <2>1
  <2> QED BY <2>2 DEF junta
<1>3. ASSUME NEW i \in 1 .. n PROVE (v \o c)[i] = IF i <= k THEN v[i] ELSE c[i - k]
  <2>1. CASE i <= k
    <3>1. i \in 1 .. Len(v)
      BY <2>1
    <3> QED BY <2>1, <3>1
  <2>2. CASE ~(i <= k)
    <3>1. i \in Len(v) + 1 .. Len(v) + Len(c) /\ i - Len(v) = i - k
      BY <2>2
    <3>2. (v \o c)[i] = c[i - Len(v)]
      BY <3>1
    <3> QED BY <2>2, <3>1, <3>2
  <2> QED BY <2>1, <2>2
<1> QED BY <1>2, <1>3

\* A value that is shorter than its register.
LEMMA LlegaCorto ==
  ASSUME Tipos, BloquesEnteros, Sana, Exacta, TodosSeguidos, EnReposo, NEW f \in Archivos,
         bitmap \subseteq 0 .. cant_bloques - 1,
         NEW n \in get_tamanio_registro, NEW pos \in Derechos(f, n), NEW k \in 0 .. n - 1
  PROVE  LET reg == execute_set(Viejo(n), Valor(k))
             vacia == execute_movout(MemoriaVacia, 0, reg)
             vieja == execute_movout(MemoriaVieja, 0, reg)
             viejos == leer_direccion_fisica(MemoriaVieja, 0, n)
             d == F_WRITE(DiscoViejo, f, pos, n, vacia, 0)
         IN /\ execute_movin(vacia, 0, Viejo(n)) = reg
            /\ execute_movin(vieja, 0, Viejo(n)) = Valor(k) \o SubSeq(viejos, k + 1, n)
            /\ \A i \in 1 .. k : d[Lugar(f, pos + i - 1)] = i
<1> DEFINE reg == execute_set(Viejo(n), Valor(k))
           vacia == execute_movout(MemoriaVacia, 0, reg)
           vieja == execute_movout(MemoriaVieja, 0, reg)
           viejos == leer_direccion_fisica(MemoriaVieja, 0, n)
           d == F_WRITE(DiscoViejo, f, pos, n, vacia, 0)
<1>0. /\ reg = execute_set(Viejo(n), Valor(k)) /\ d = F_WRITE(DiscoViejo, f, pos, n, vacia, 0)
      /\ vacia = execute_movout(MemoriaVacia, 0, reg)
      /\ vieja = execute_movout(MemoriaVieja, 0, reg)
      /\ viejos = leer_direccion_fisica(MemoriaVieja, 0, n)
  OBVIOUS
<1> HIDE DEF reg, vacia, vieja, viejos, d
<1>1. n \in Nat /\ n <= 16 /\ k \in Nat /\ k < n /\ k \in 0 .. n /\ CabeEn(0, k) /\ CabeEn(0, n)
  BY Registros DEF CabeEn
<1>2. DOMAIN Viejo(n) = 1 .. n /\ Len(Viejo(n)) = n
  BY <1>1, ViejoEs
<1>3. reg = Corto(n, k) /\ Cadena(reg) = Valor(k)
  BY <1>0, <1>1, <1>2, CortoEs DEF execute_set
<1>4. /\ vacia = escribir_en_direccion_fisica(MemoriaVacia, 0, Valor(k))
      /\ vieja = escribir_en_direccion_fisica(MemoriaVieja, 0, Valor(k))
  BY <1>0, <1>3 DEF execute_movout, get_reg_value
<1>5. /\ vacia \in Memorias /\ \A i \in 1 .. k : Byte(vacia, 0, i) = i
      /\ \A a \in Direcciones : Fuera(a, 0, k) => vacia[a] = MemoriaVacia[a]
  BY <1>1, <1>4, MemoriasSon, EscribeValor
<1>6. /\ vieja \in Memorias /\ \A i \in 1 .. k : Byte(vieja, 0, i) = i
      /\ \A a \in Direcciones : Fuera(a, 0, k) => vieja[a] = MemoriaVieja[a]
  BY <1>1, <1>4, MemoriasSon, EscribeValor
<1>7. ASSUME NEW i \in 1 .. n, i > k
      PROVE  /\ i - 1 \in Direcciones /\ Fuera(i - 1, 0, k)
             /\ \A m : Byte(m, 0, i) = m[i - 1]
  BY <1>1, <1>7 DEF Direcciones, Fuera, Byte
<1>8. Guarda(vacia, 0, n, k)
  <2> SUFFICES ASSUME NEW i \in 1 .. n
               PROVE  Byte(vacia, 0, i) = IF i <= k THEN i ELSE NUL
    BY DEF Guarda
  <2>1. CASE i <= k
    BY <1>1, <1>5, <2>1
  <2>2. CASE ~(i <= k)
    <3>1. i > k
      BY <1>1, <2>2
    <3> QED BY <1>5, <1>7, <2>2, <3>1, MemoriasSon
  <2> QED BY <2>1, <2>2
<1>9. enviar_valor_leido(vacia, 0, n) = Valor(k)
  BY <1>1, <1>8, EnviaCorto
<1>10. execute_movin(vacia, 0, Viejo(n)) = reg
  <2>1. guardar_en_reg(Viejo(n), Valor(k)) = Corto(n, k)
    BY <1>1, <1>2, CortoEs
  <2> QED BY <1>2, <1>3, <1>9, <2>1 DEF execute_movin
<1>11. ASSUME NEW i \in 1 .. n PROVE Byte(vieja, 0, i) = IF i <= k THEN i ELSE 99 + i
  <2>1. CASE i <= k
    BY <1>1, <1>6, <2>1
  <2>2. CASE ~(i <= k)
    <3>1. i > k
      BY <1>1, <2>2
    <3>2. Byte(vieja, 0, i) = 100 + (i - 1)
      BY <1>6, <1>7, <3>1, MemoriasSon
    <3> QED BY <2>2, <3>2
  <2> QED BY <2>1, <2>2
<1> DEFINE junto == [i \in 1 .. n |-> IF i <= k THEN i ELSE 99 + i]
<1>12. enviar_valor_leido(vieja, 0, n) = junto
  <2>1. ASSUME NEW i \in 1 .. n PROVE Byte(vieja, 0, i) # NUL
    <3>1. Byte(vieja, 0, i) = IF i <= k THEN i ELSE 99 + i
      BY <1>11
    <3> QED BY <1>1, <3>1 DEF NUL
  <2>2. enviar_valor_leido(vieja, 0, n) = [i \in 1 .. n |-> Byte(vieja, 0, i)]
    BY <1>1, <1>6, <2>1, EnviaTodo
  <2> QED BY <1>11, <2>2
<1>13. strlen(junto) = n
  <2>1. junto \in [1 .. n -> Int] /\ \A i \in 1 .. n : junto[i] # NUL
    BY <1>1 DEF NUL
  <2>2. n \in 0 .. n /\ ~(n < n)
    BY <1>1
  <2> HIDE DEF junto
  <2> QED BY <1>1, <2>1, <2>2, LargoDeCadena
<1>14. guardar_en_reg(Viejo(n), junto) = junto
  <2>1. guardar_en_reg(Viejo(n), junto) = [i \in 1 .. n |-> IF i <= n THEN junto[i] ELSE NUL]
    <3> HIDE DEF junto
    <3> QED BY <1>2, <1>13 DEF guardar_en_reg
  <2> QED BY <1>1, <2>1
<1>15. Valor(k) \o SubSeq(viejos, k + 1, n) = junto
  <2> DEFINE cola == SubSeq(viejos, k + 1, n)
  <2>1. viejos \in [1 .. n -> Int] /\ \A i \in 1 .. n : viejos[i] = 99 + i
    <3>1. viejos = [i \in 1 .. n |-> Byte(MemoriaVieja, 0, i)]
      BY <1>0 DEF leer_direccion_fisica, Byte
    <3>2. ASSUME NEW i \in 1 .. n PROVE Byte(MemoriaVieja, 0, i) = 99 + i
      <4>1. Byte(MemoriaVieja, 0, i) = MemoriaVieja[i - 1] /\ i - 1 \in Direcciones
        BY <1>1 DEF Direcciones, Byte
      <4>2. MemoriaVieja[i - 1] = 100 + (i - 1)
        BY <4>1, MemoriasSon
      <4> QED BY <4>1, <4>2
    <3>3. \A i \in 1 .. n : viejos[i] = 99 + i
      BY <3>1, <3>2
    <3>4. \A i \in 1 .. n : 99 + i \in Int
      OBVIOUS
    <3> QED BY <3>1, <3>3, <3>4
  <2>2. viejos \in Seq(Int) /\ Len(viejos) = n
    BY <1>1, <2>1
  <2>3. cola \in Seq(Int) /\ Len(cola) = n - k /\ \A j \in 1 .. n - k : cola[j] = viejos[k + j]
    BY <1>1, <2>2
  <2>4. Valor(k) \in Seq(Int) /\ Len(Valor(k)) = k /\ \A i \in 1 .. k : Valor(k)[i] = i
    BY <1>1 DEF Valor
  <2>5. ASSUME NEW j \in 1 .. n - k PROVE cola[j] = 99 + (k + j)
    <3>1. k + j \in 1 .. n
      BY <1>1
    <3> QED BY <2>1, <2>3, <3>1
  <2> HIDE DEF cola
  <2>6. Valor(k) \o cola = [i \in 1 .. n |-> IF i <= k THEN Valor(k)[i] ELSE cola[i - k]]
    BY <1>1, <2>3, <2>4, Pegadas, SMTT(30)
  <2>7. ASSUME NEW i \in 1 .. n
        PROVE  (IF i <= k THEN Valor(k)[i] ELSE cola[i - k]) = IF i <= k THEN i ELSE 99 + i
    <3>1. CASE i <= k
      BY <1>1, <2>4, <3>1
    <3>2. CASE ~(i <= k)
      <4> DEFINE j == i - k
      <4>1. j \in 1 .. n - k /\ k + j = i
        BY <1>1, <3>2
      <4> HIDE DEF j
      <4>2. cola[j] = 99 + i
        BY <2>5, <4>1
      <4> QED BY <3>2, <4>2 DEF j
    <3> QED BY <3>1, <3>2
  <2> QED BY <2>6, <2>7 DEF cola
<1>16. execute_movin(vieja, 0, Viejo(n)) = Valor(k) \o SubSeq(viejos, k + 1, n)
  <2> HIDE DEF junto
  <2> QED BY <1>2, <1>12, <1>14, <1>15 DEF execute_movin
<1>17. ASSUME NEW i \in 1 .. k PROVE d[Lugar(f, pos + i - 1)] = i
  <2> DEFINE j == i - 1
  <2>1. j \in 0 .. n - 1 /\ j + 1 = i /\ i \in 1 .. k
    BY <1>1
  <2>2. pos + i - 1 = pos + j
    <3>1. pos \in Nat
      BY <1>1, EnOrden
    <3> QED BY <1>1, <3>1
  <2> HIDE DEF j
  <2>3. d[Lugar(f, pos + j)] = Buffer(Valor(k), n)[j + 1]
    BY <1>0, <1>1, <1>9, <2>1, EscribeEnArchivo
  <2>4. Buffer(Valor(k), n)[i] = i
    BY <1>1, BufferDe
  <2> QED BY <2>1, <2>2, <2>3, <2>4
<1> QED BY <1>10, <1>16, <1>17 DEF reg, vacia, vieja, viejos, d

LEMMA ViajeEs == Invariante /\ BloquesEnteros /\ (exacto => TodosSeguidos) /\ EntraEnDisco /\ Entra
                 => ViajeFiel /\ ViajeCorto
<1> SUFFICES ASSUME Invariante, BloquesEnteros, exacto, EnReposo, TodosSeguidos, EntraEnDisco, Entra
             PROVE  ViajeFiel /\ ViajeCorto
  BY DEF ViajeFiel, ViajeCorto
<1>1. Tipos /\ Sana /\ Exacta /\ bitmap \subseteq 0 .. cant_bloques - 1
  BY DEF Invariante, EntraEnDisco, Entra
<1>2. ViajeFiel
  BY <1>1, LlegaEntero DEF ViajeFiel
<1>3. ViajeCorto
  BY <1>1, LlegaCorto, Zenon DEF ViajeCorto
<1> QED BY <1>2, <1>3

\* A value that fills its register is the same after MOV_OUT, F_WRITE, F_READ and
\* MOV_IN, alone in its bytes of memory, whatever truncates the files went through:
\* for any number of files and size of blocks, on a disk with room for every file.
\* Where there is none, a block beyond the end of the disk keeps nothing.
THEOREM ViajeSiempreFiel == ASSUME BloquesEnteros, Entra PROVE Spec => []ViajeFiel
<1>1. Invariante /\ (exacto => TodosSeguidos) /\ EntraEnDisco => ViajeFiel
  BY ViajeEs
<1> QED BY <1>1, OrdenSiempre, EntraSiempre, PTL

\* A value shorter than its register: SET pads it, so MOV_IN of what MOV_OUT wrote
\* over nothing gives it back alone, and over another value with the end of that one;
\* and F_WRITE puts each of its bytes in its place in the file, under the same
\* conditions.
THEOREM ViajeCortoSiempre == ASSUME BloquesEnteros, Entra PROVE Spec => []ViajeCorto
<1>1. Invariante /\ (exacto => TodosSeguidos) /\ EntraEnDisco => ViajeCorto
  BY ViajeEs
<1> QED BY <1>1, OrdenSiempre, EntraSiempre, PTL
=============================================================================
