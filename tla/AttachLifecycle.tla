-------------------------- MODULE AttachLifecycle --------------------------
(***************************************************************************)
(* What the Attach engine promises about its transactions, seen from the   *)
(* operator's side: they are opened one at a time, one may be cancelled    *)
(* while it is open, each is closed for good, and each enters the run      *)
(* history at most once and only before it is closed.  AttachEngine        *)
(* implements this (AttachEngine!Lifecycle).                               *)
(***************************************************************************)
EXTENDS Sequences, Naturals

CONSTANT Tx

VARIABLES state,    \* state[t]: new, open, cancelled or closed
          history   \* the results recorded, in order

LifecycleInit ==
  /\ state = [t \in Tx |-> "new"]
  /\ history = << >>

Open(t) ==
  /\ state[t] = "new"
  /\ \A u \in Tx : state[u] # "open"
  /\ state' = [state EXCEPT ![t] = "open"]
  /\ UNCHANGED history

Cancel(t) ==
  /\ state[t] = "open"
  /\ state' = [state EXCEPT ![t] = "cancelled"]
  /\ UNCHANGED history

Close(t) ==
  /\ state[t] \in {"open", "cancelled"}
  /\ state' = [state EXCEPT ![t] = "closed"]
  /\ UNCHANGED history

\* A cancelled transaction may still record the outcome it had reached.
RecordResult(t, result) ==
  /\ state[t] \in {"open", "cancelled"}
  /\ \A i \in 1..Len(history) : history[i].tx # t
  /\ history' = Append(history, [tx |-> t, result |-> result])
  /\ UNCHANGED state

LifecycleNext ==
  \E t \in Tx : \/ Open(t) \/ Cancel(t) \/ Close(t)
                \/ \E r \in {"SUCCESS", "FAILED"} : RecordResult(t, r)

LifecycleSpec == LifecycleInit /\ [][LifecycleNext]_<< state, history >>
=============================================================================
