---------------------------- MODULE ColaListosMC -----------------------------
(***************************************************************************)
(* Instance of ColaListos for TLC: bursts of one unit, which take          *)
(* processes that were expected to take one or two.                        *)
(***************************************************************************)
EXTENDS ColaListos
=============================================================================
