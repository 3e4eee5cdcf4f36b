------------------------------ MODULE TablasMC -------------------------------
(***************************************************************************)
(* Instance of Tablas for TLC. A unit is 128 bytes, as in MemoriaMC.       *)
(***************************************************************************)
EXTENDS Tablas

\* Segments of 128 and 256 bytes.
TamaniosDos == {1, 2}
=============================================================================
