----------------------------- MODULE DiagnosisMC -----------------------------
(* Every fault, at both exchanges, for TLC. *)
EXTENDS Diagnosis

EveryFault == AllFaults
=============================================================================
