------------------------------ MODULE TaskBusMC ------------------------------
(* The ends of the chain RRC, L2, L1 of the engine, for TLC: L2 only passes   *)
(* messages on, as RRC does.                                               *)
EXTENDS TaskBus

Chain == <<"RRC", "L1">>
NextBelow == [t \in {"RRC", "L1"} |-> IF t = "RRC" THEN "L1" ELSE None]
UplinkTargets == {"RRC"}
=============================================================================
