---------------------------- MODULE MCRegistrar ----------------------------
(***************************************************************************)
(* Registrar for TLC.  The configurations Registrar*.cfg choose the        *)
(* database mode, how contacts are matched, which queries may fail and the *)
(* bounds; UL_EXPIRED_TIME lies before every reading of the clock.         *)
(***************************************************************************)
EXTENDS Registrar

ASSUME MaxNow > UL_EXPIRED_TIME
=============================================================================
