------------------------------- MODULE Accesos --------------------------------
(***************************************************************************)
(* F_READ and F_WRITE: the bytes of the blocks that read_archivo and       *)
(* write_archivo (fileSystem.c) copy to and from their buffer, as pairs of *)
(* a byte of the buffer and a byte of the disk, against the place each     *)
(* byte of a file has. Neither changes the FCB, the bitmap or, when it     *)
(* stays in its file, a block of pointers; what the bytes are is left out. *)
(***************************************************************************)
EXTENDS FileSystem

\* memcpy of n bytes between offset of the buffer and a byte of the disk.
memcpy(offset, byte, n) == {<<offset + k, byte + k>> : k \in 0 .. n - 1}

\* punteros[indice], copied from the block of pointers. Past its end the stack is
\* read: some number, here one no block has.
puntero(f, indice) ==
  IF indice < cpb THEN disco[fcb[f].indirecto][indice] ELSE cant_bloques

\* The blocks after the first round, from punteros[indice] on, whole but for the
\* last one. The displacement in the first of them stays for all.
Siguientes(f, indice, offset, desplazamiento, bytes) ==
  UNION {memcpy(offset + r * tamanio_bloque,
                puntero(f, indice + r) * tamanio_bloque + desplazamiento,
                Min({tamanio_bloque, bytes - r * tamanio_bloque}))
         : r \in 0 .. (Max({bytes, 1}) - 1) \div tamanio_bloque}

\* The loop of both: what comes after the block of the direct pointer starts at
\* punteros[tras], with the displacement gone.
Recorrer(f, pos, cantidad, tras) ==
  LET bloque == pos \div tamanio_bloque
      desplazamiento == pos % tamanio_bloque
      primero == fcb[f].directo * tamanio_bloque + desplazamiento
      offset == tamanio_bloque - desplazamiento IN
  IF bloque # 0 THEN Siguientes(f, bloque - 1, 0, desplazamiento, cantidad)
  ELSE IF cantidad < tamanio_bloque THEN memcpy(0, primero, cantidad)
  ELSE memcpy(0, primero, offset) \cup Siguientes(f, tras, offset, 0, cantidad - offset)

\* Mutant: the first pointer is passed over, as read_archivo does.
write_archivo_salteando(f, pos, cantidad) == Recorrer(f, pos, cantidad, 1)
write_archivo(f, pos, cantidad) == Recorrer(f, pos, cantidad, 0)

\* Mutant: the index of the block of the file is used as the index of its pointer.
read_archivo_corrido(f, pos, cantidad) ==
  IF pos < tamanio_bloque THEN Recorrer(f, pos, cantidad, 1)
  ELSE Siguientes(f, pos \div tamanio_bloque, 0, pos % tamanio_bloque, cantidad)
\* indice++ after the block of the direct pointer has set it to 0.
read_archivo(f, pos, cantidad) == Recorrer(f, pos, cantidad, 1)

-----------------------------------------------------------------------------
(* Properties. *)

\* Where byte x of a file is.
Lugar(f, x) ==
  (IF x < tamanio_bloque THEN fcb[f].directo ELSE puntero(f, x \div tamanio_bloque - 1))
    * tamanio_bloque + (x % tamanio_bloque)

\* Bytes pos .. pos + cantidad - 1 of the file, in order, in blocks that are this
\* file's only.
EnSuLugar(f, pares, pos, cantidad) ==
  /\ pares = {<<k, Lugar(f, pos + k)>> : k \in 0 .. cantidad - 1}
  /\ \A par \in pares :
       LET b == par[2] \div tamanio_bloque IN
       b \in bitmap /\ UsosDe(f, b) = 1 /\ \A g \in Archivos \ {f} : UsosDe(g, b) = 0

\* Accesses that stay in the file, in words of 4 bytes.
Palabras == {4 * k : k \in 0 .. cpb * (cpb + 1)}
Dentro(f, pos, cantidad) == pos + cantidad <= fcb[f].tam

EnUnBloque(pos, cantidad) == (pos % tamanio_bloque) + cantidad <= tamanio_bloque

\* F_WRITE of a range of the file puts every byte in its place and touches no other
\* file, through any truncates before it, as long as the range lies in a block,
\* starts with one, or starts in the first block and is at least a block long. The
\* others spill into whatever block is next on the disk.
EscrituraFiel ==
  exacto /\ EnReposo =>
    \A f \in Archivos, pos \in Palabras, cantidad \in Palabras :
      /\ Dentro(f, pos, cantidad)
      /\ \/ EnUnBloque(pos, cantidad)
         \/ pos % tamanio_bloque = 0
         \/ pos < tamanio_bloque /\ cantidad >= tamanio_bloque
      => EnSuLugar(f, write_archivo(f, pos, cantidad), pos, cantidad)

\* F_READ of a range gives its bytes when the range lies in a block or starts with
\* a block that is not the first. One that leaves the first block skips the second.
LecturaFiel ==
  exacto /\ EnReposo =>
    \A f \in Archivos, pos \in Palabras, cantidad \in Palabras :
      /\ Dentro(f, pos, cantidad)
      /\ \/ EnUnBloque(pos, cantidad)
         \/ pos >= tamanio_bloque /\ pos % tamanio_bloque = 0
      => EnSuLugar(f, read_archivo(f, pos, cantidad), pos, cantidad)
=============================================================================
