----------------------------- MODULE FileSystemMC -----------------------------
(***************************************************************************)
(* Instances of Valores for TLC: blocks of 8 bytes, so that a block of     *)
(* pointers holds two and a file has at most three blocks. The programs in *)
(* src/consola/config truncate to whole numbers of blocks (64, 256).       *)
(***************************************************************************)
EXTENDS Valores, TLC

Enteros == {b * tamanio_bloque : b \in 0 .. cpb + 1}

\* Files differ in their names only.
Nombres == Permutations(Archivos)

\* Nothing but TypeOK is said of the states that follow one that is not sano.
Sano == sano

\* Truncates one after the other.
UnoPorVez == Cardinality({f \in Archivos : hilo[f] # Libre}) <= 1

\* A block and a half.
UnoYMedio == {tamanio_bloque + tamanio_bloque \div 2}

\* The hypothesis of the theorems: true of the programs, not of a size in bytes.
ASSUME Tamanios = Enteros => BloquesEnteros
ASSUME Tamanios = UnoYMedio => ~BloquesEnteros
=============================================================================
