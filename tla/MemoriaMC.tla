------------------------------ MODULE MemoriaMC ------------------------------
(***************************************************************************)
(* Instances of Memoria for TLC. A unit is 128 bytes, the size of segment  *)
(* 0 and of the segments in src/consola/config/COMPACTACION.pseudo and     *)
(* ERROR_4.pseudo.                                                         *)
(***************************************************************************)
EXTENDS Memoria

\* Segments of 128, 256 and 384 bytes.
TamaniosChicos == 1 .. 3

\* One small and one large request.
TamaniosDos == {1, 3}
=============================================================================
