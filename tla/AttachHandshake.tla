-------------------------- MODULE AttachHandshake --------------------------
(***************************************************************************)
(* What the exchange of NAS and RRC messages promises, whatever is lost,   *)
(* late, altered or cancelled: UE and network go through the eight         *)
(* exchanges of an Attach in lockstep.  The network accepts the next       *)
(* message only of a UE that has finished every exchange before it, the UE *)
(* goes on only when the network has accepted, and a UE is attached only   *)
(* when both have been through all of them.                                *)
(***************************************************************************)
EXTENDS Integers

CONSTANTS Tx,        \* the Attach transactions
          Exchanges  \* the number of exchanges in one

VARIABLES network,   \* network[t]: how many messages of t it has accepted
          ue,        \* ue[t]: how many exchanges the UE has finished
          status     \* status[t]

vars == << network, ue, status >>

TypeOK ==
  /\ network \in [Tx -> 0..Exchanges]
  /\ ue \in [Tx -> 0..Exchanges]
  /\ status \in [Tx -> {"idle", "running", "attached", "stopped"}]

Init ==
  /\ network = [t \in Tx |-> 0]
  /\ ue = [t \in Tx |-> 0]
  /\ status = [t \in Tx |-> "idle"]

Begin(t) ==
  /\ status[t] = "idle"
  /\ status' = [status EXCEPT ![t] = "running"]
  /\ UNCHANGED << network, ue >>

\* A message still under way is served after the UE has given up, too.
Accept(t) ==
  /\ status[t] # "idle" /\ network[t] = ue[t] /\ network[t] < Exchanges
  /\ network' = [network EXCEPT ![t] = @ + 1]
  /\ UNCHANGED << ue, status >>

\* The last exchange attaches the UE.
Advance(t) ==
  /\ status[t] = "running" /\ ue[t] < network[t]
  /\ ue' = [ue EXCEPT ![t] = @ + 1]
  /\ status' = [status EXCEPT ![t] = IF ue[t] + 1 = Exchanges THEN "attached" ELSE @]
  /\ UNCHANGED network

Stop(t) ==
  /\ status[t] \in {"idle", "running"}
  /\ status' = [status EXCEPT ![t] = "stopped"]
  /\ UNCHANGED << network, ue >>

Next == \E t \in Tx : Begin(t) \/ Accept(t) \/ Advance(t) \/ Stop(t)

Spec == Init /\ [][Next]_vars
=============================================================================
