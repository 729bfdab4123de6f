------------------------------- MODULE MCSaga -------------------------------
(***************************************************************************)
(* An instance of the saga engine for TLC: two steps with compensations    *)
(* side by side, one of which may fail after its effect, then a stage with *)
(* nothing to undo, then a last stage.                                     *)
(***************************************************************************)
EXTENDS Saga, TLC

CONSTANTS reserve, notify, charge, ship

MCStep == {reserve, notify, charge, ship}
MCStageOf == (reserve :> 1) @@ (charge :> 1) @@ (notify :> 2) @@ (ship :> 3)
MCCompensated == {reserve, charge, ship}
MCDirty == {charge}
=============================================================================
