------------------------------- MODULE Valores -------------------------------
(***************************************************************************)
(* The way of a value: a register of the CPU, the bytes of memory, the     *)
(* blocks of a file, and back: FS_1.pseudo writes what FS_3.pseudo reads.  *)
(* CPU and memory take values for strings and stop at the first NUL; the   *)
(* file system counts bytes. Registers, memory and the contents of blocks  *)
(* are values here; which bytes of the disk an access uses is in Accesos,  *)
(* and the check of the address in Tablas.                                 *)
(***************************************************************************)
EXTENDS Accesos, SequencesExt

NUL == 0

\* The bytes of a C string that count. Every buffer has a NUL behind its end.
strlen(s) == Cardinality({k \in DOMAIN s : NUL \notin Range(SubSeq(s, 1, k))})
Cadena(s) == SubSeq(s, 1, strlen(s))

-----------------------------------------------------------------------------
(* The CPU. *)

\* AX .. DX, EAX .. EDX, RAX .. RDX.
get_tamanio_registro == {4, 8, 16}

\* Mutant: what is behind the end of the string stays.
guardar_sin_rellenar(reg, contenido) ==
  [k \in DOMAIN reg |-> IF k <= strlen(contenido) THEN contenido[k] ELSE reg[k]]
\* strncpy fills the rest of the register with NUL.
guardar_en_reg(reg, contenido) ==
  [k \in DOMAIN reg |-> IF k <= strlen(contenido) THEN contenido[k] ELSE NUL]
get_reg_value(reg) == Cadena(reg)
execute_set(reg, valor) == guardar_en_reg(reg, valor)

-----------------------------------------------------------------------------
(* Memory: a function from its addresses to bytes. *)

leer_direccion_fisica(m, dir, n) == [k \in 1 .. n |-> m[dir + k - 1]]

\* Mutant: the NUL at the end is written too.
escribir_con_nul(m, dir, valor) ==
  [a \in DOMAIN m |-> IF a - dir \in 0 .. strlen(valor) - 1 THEN valor[a - dir + 1]
                      ELSE IF a - dir = strlen(valor) THEN NUL ELSE m[a]]
escribir_en_direccion_fisica(m, dir, valor) ==
  [a \in DOMAIN m |-> IF a - dir \in 0 .. strlen(valor) - 1 THEN valor[a - dir + 1] ELSE m[a]]

\* What a read is answered with, to the CPU and to the file system.
enviar_valor_leido(m, dir, n) == Cadena(leer_direccion_fisica(m, dir, n))

execute_movin(m, dir, reg) == guardar_en_reg(reg, enviar_valor_leido(m, dir, Len(reg)))
execute_movout(m, dir, reg) == escribir_en_direccion_fisica(m, dir, get_reg_value(reg))

-----------------------------------------------------------------------------
(* The file system: a function from the bytes of the disk to bytes. *)

\* The buffer has cantidad bytes whatever memory sent: those behind come from
\* beyond what was received.
BASURA == -1
Buffer(recibido, cantidad) ==
  [k \in 1 .. cantidad |-> IF k <= Len(recibido) THEN recibido[k] ELSE BASURA]

F_WRITE(d, f, pos, cantidad, m, dir) ==
  LET buffer == Buffer(enviar_valor_leido(m, dir, cantidad), cantidad)
      pares == write_archivo(f, pos, cantidad)
  IN [x \in DOMAIN d |->
       IF \E par \in pares : par[2] = x
       THEN buffer[(CHOOSE par \in pares : par[2] = x)[1] + 1]
       ELSE d[x]]

F_READ(m, dir, d, f, pos, cantidad) ==
  LET pares == read_archivo(f, pos, cantidad)
      buffer == [k \in 1 .. cantidad |-> d[(CHOOSE par \in pares : par[1] = k - 1)[2]]]
  IN escribir_en_direccion_fisica(m, dir, buffer)

-----------------------------------------------------------------------------
(* Properties. *)

Valor(n) == [k \in 1 .. n |-> k]
Viejo(n) == [k \in 1 .. n |-> 100 + k]
DiscoViejo == [x \in 0 .. (cant_bloques + 1) * tamanio_bloque - 1 |-> 200]
MemoriaVieja == [a \in 0 .. 31 |-> 100 + a]
MemoriaVacia == [a \in 0 .. 31 |-> NUL]

\* Ranges that both F_WRITE and F_READ put in their place.
Derechos(f, n) ==
  {pos \in Palabras : /\ Dentro(f, pos, n)
                      /\ EnUnBloque(pos, n) \/ (pos >= tamanio_bloque /\ pos % tamanio_bloque = 0)}

\* A value that fills its register survives the way through memory, a file and
\* memory again, whatever the files went through before, and nothing else changes
\* in memory: a value is never joined with what was there.
ViajeFiel ==
  exacto /\ EnReposo =>
    \A f \in Archivos, n \in get_tamanio_registro : \A pos \in Derechos(f, n) :
      LET m == execute_movout(MemoriaVieja, 0, Valor(n))
          d == F_WRITE(DiscoViejo, f, pos, n, m, 0)
          r == F_READ(m, 16, d, f, pos, n)
      IN /\ execute_movin(r, 16, Viejo(n)) = Valor(n)
         /\ \A a \in DOMAIN r \ (16 .. 15 + n) : r[a] = m[a]

\* A shorter value that a SET puts over a longer one leaves no remains in the
\* register, and none of it is lost on its way to the file; in memory it leaves
\* those of what was there, and comes back alone only where there was nothing.
ViajeCorto ==
  exacto /\ EnReposo =>
    \A f \in Archivos, n \in get_tamanio_registro : \A pos \in Derechos(f, n), k \in 0 .. n - 1 :
      LET reg == execute_set(Viejo(n), Valor(k))
          vacia == execute_movout(MemoriaVacia, 0, reg)
          vieja == execute_movout(MemoriaVieja, 0, reg)
          viejos == leer_direccion_fisica(MemoriaVieja, 0, n)
          d == F_WRITE(DiscoViejo, f, pos, n, vacia, 0)
      IN /\ execute_movin(vacia, 0, Viejo(n)) = reg
         /\ execute_movin(vieja, 0, Viejo(n)) = Valor(k) \o SubSeq(viejos, k + 1, n)
         /\ \A i \in 1 .. k : d[Lugar(f, pos + i - 1)] = i
=============================================================================
