--------------------------- MODULE NasExchangeMC ---------------------------
EXTENDS NasExchange

\* Faults that leave something behind in the peer or in the tasks.
FewFaults ==
  { f \in PossibleFaults : \/ f = NoFault
                           \/ f.stage = "security_mode" /\ f.what \in {"wrong", "tampered"}
                           \/ f.stage = "mib_sib_read" /\ f.what = "dropped" }
OnlyClean == {NoFault}
=============================================================================
