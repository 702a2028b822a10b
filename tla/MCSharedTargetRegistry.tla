----------------------- MODULE MCSharedTargetRegistry -----------------------
(***************************************************************************)
(* A small instance of SharedTargetRegistry: three assignments and three   *)
(* vehicles, so that a provisional, a weaker and a stronger claim meet on  *)
(* one target, and passing time.                                           *)
(***************************************************************************)
EXTENDS SharedTargetRegistry

CONSTANT x1
OneTarget == {x1}
=============================================================================
