------------------------- MODULE NasExchangeProofs -------------------------
(***************************************************************************)
(* UE and peer go through an Attach in lockstep, for any number of         *)
(* transactions and cancelling operations, any set of faults and any       *)
(* capacity of the peer.                                                   *)
(***************************************************************************)
EXTENDS NasExchange, ReplayWindowProofs, FiniteSetTheorems

\* The message of t waits for the RRC task, or the tasks are busy with it.
Queued(t) == \E i \in 1..Len(uplink) : uplink[i] = t
InL1(t) == l1.at # "idle" /\ l1.tx = t

\* The threads whose deliver thread may still be at work.
Gone == {"waiting", "failed", "cancelled"}

\* How far a thread is, and what its exchange has come to.
ThreadsInv ==
  /\ \A t \in Tx : phase[t] = "none" <=> t > made
  /\ \A t \in Tx : phase[t] = "attached" <=> done[t] = 8
  /\ \A t \in Tx : phase[t] \in {"none", "starting", "aborted"} =>
       done[t] = 0 /\ answer[t] = "none"
  /\ \A t \in Tx : phase[t] = "ready" => answer[t] \in {"none", "good"}

\* An exchange is in one place of the tasks at most, and open while it is.
TasksInv ==
  /\ \A t \in Tx : Queued(t) \/ InL1(t) => phase[t] \in Gone /\ answer[t] = "none"
  /\ \A i, j \in 1..Len(uplink) : uplink[i] = uplink[j] => i = j
  /\ l1.at # "idle" => l1.tx \in Tx /\ ~Queued(l1.tx)

\* What is in the L1 task's hands belongs to the exchange it serves.
PduInv ==
  /\ l1.at \in {"idle", "protecting"} => l1.pdu = None
  /\ l1.at = "protecting" => StageOf(l1.tx) \in Protected
  /\ l1.at # "idle" /\ StageOf(l1.tx) \notin Protected => l1.pdu = None
  /\ l1.at \in {"sending", "sent"} /\ StageOf(l1.tx) \in Protected =>
       /\ l1.pdu \in PduSet
       /\ l1.pdu.tx = l1.tx /\ l1.pdu.kind = StageOf(l1.tx)
       /\ l1.pdu.dir = "up" /\ l1.pdu.genuine
  /\ l1.at # "sent" => l1.reply = None

FlightInv == TypeOK /\ ThreadsInv /\ TasksInv /\ PduInv

USE MaxTxAssumption, MaxRequestsAssumption, CapacityAssumption, SerialAssumption,
    FaultsAssumption, NoneAssumption

-----------------------------------------------------------------------------
(* The pieces the actions are made of.                                     *)

\* The eight stages, each once.
LEMMA StagesAre ==
  /\ \A i \in 1..8 : Stages[i] \in StageNames
  /\ \A i, j \in 1..8 : Stages[i] = Stages[j] => i = j
  /\ StageNames = {"mib_sib_read", "random_access", "rrc_connection", "rrc_complete",
                   "nas_attach_request", "authentication", "security_mode", "attach_complete"}
BY DEF Stages, StageNames

\* An exchange that is not the last but one has a stage.
LEMMA StageOfIs ==
  ASSUME NEW t \in Tx, done[t] \in 0..7
  PROVE  StageOf(t) \in StageNames /\ StageOf(t) = Stages[done[t] + 1]
BY StagesAre DEF StageOf

\* commit keeps the shape of a NAS window.
LEMMA NasCommitType ==
  ASSUME NEW w \in Windows(NasWidth), NEW n \in Nat, ~Rejects(w, NasWidth, n)
  PROVE  Commit(w, NasWidth, n) \in Windows(NasWidth)
BY CommitRemembers DEF NasWidth

\* A new window.
LEMMA EmptyWindowType == EmptyWindow \in Windows(NasWidth)
BY DEF EmptyWindow, Windows, NasWidth

\* A new context.
LEMMA NewContextType == NewContext \in ContextSet
BY DEF NewContext, ContextSet

\* prepare_nas_context makes a context.
LEMMA UeContextType ==
  ASSUME TypeOK, NEW t \in Tx
  PROVE  UeContext(t) \in UeNasSet /\ UeContext(t).tx = t
BY EmptyWindowType DEF TypeOK, UeContext, UeNasSet

LEMMA UplinkPduType ==
  ASSUME TypeOK, NEW t \in Tx, StageOf(t) \in StageNames
  PROVE  UplinkPdu(t) \in PduSet
BY UeContextType DEF UplinkPdu, PduSet, UeNasSet

\* The context after the check of a PDU.
LEMMA AfterVerifyType ==
  ASSUME NEW c \in ContextSet, NEW m \in MessageSet
  PROVE  /\ AfterVerify(c, m) \in ContextSet
         /\ m.type \in Protected /\ Verified(c, m) => AfterVerify(c, m).nas # None
<1>1. CASE m.type \in Protected /\ Verified(c, m)
  <2>1. c.nas \in PeerNasSet /\ c.nas # None
    BY <1>1 DEF Verified, ContextSet
  <2>2. m.pdu \in PduSet /\ ~Rejects(c.nas.up, NasWidth, m.pdu.count)
    BY <1>1 DEF Verified, Opens, MessageSet
  <2>3. Commit(c.nas.up, NasWidth, m.pdu.count) \in Windows(NasWidth)
    BY <2>1, <2>2, NasCommitType DEF PeerNasSet, PduSet
  <2>4. [c.nas EXCEPT !.up = Commit(@, NasWidth, m.pdu.count)] \in PeerNasSet
    BY <2>1, <2>3 DEF PeerNasSet
  <2>5. AfterVerify(c, m) = [c EXCEPT !.nas = [c.nas EXCEPT !.up = Commit(@, NasWidth, m.pdu.count)]]
    BY <1>1 DEF AfterVerify
  <2> QED BY <2>4, <2>5 DEF ContextSet
<1>2. CASE ~(m.type \in Protected /\ Verified(c, m))
  BY <1>2 DEF AfterVerify
<1> QED BY <1>1, <1>2

\* The decision leaves a context, and has made the PDU of a response its own.
LEMMA DecidedType ==
  ASSUME NEW c \in ContextSet, NEW m \in MessageSet
  PROVE  /\ Decided(c, m) \in ContextSet
         /\ Acceptable(c, m) /\ m.type \in {"authentication", "security_mode"} =>
              Decided(c, m).nas # None /\ Decided(c, m).nas.down \in Nat \ {0}
<1> DEFINE v == AfterVerify(c, m)
<1>1. v \in ContextSet
  BY AfterVerifyType
<1>2. CASE Acceptable(c, m) /\ m.type = "authentication"
  <2> DEFINE n == [down |-> 1, up |-> EmptyWindow]
  <2>1. n \in PeerNasSet /\ n.down \in Nat \ {0}
    BY EmptyWindowType DEF PeerNasSet
  <2>2. Decided(c, m) = [v EXCEPT !.auth = "AUTHENTICATED", !.sec = "COMMAND_SENT", !.nas = n]
    BY <1>2 DEF Decided, Granted
  <2> HIDE DEF n
  <2>3. Decided(c, m) \in ContextSet /\ Decided(c, m).nas = n
    BY <1>1, <2>1, <2>2 DEF ContextSet
  <2> QED BY <2>1, <2>3
<1>3. CASE Acceptable(c, m) /\ m.type = "security_mode"
  <2> DEFINE n == [v.nas EXCEPT !.down = @ + 1]
  <2>1. v.nas \in PeerNasSet
    BY <1>1, <1>3, AfterVerifyType DEF Acceptable, Protected, ContextSet
  <2>2. n \in PeerNasSet /\ n.down \in Nat \ {0}
    BY <2>1 DEF PeerNasSet
  <2>3. Decided(c, m) = [v EXCEPT !.sec = "ACTIVE", !.attach = "ACCEPTED", !.nas = n]
    BY <1>3 DEF Decided, Granted
  <2> HIDE DEF n
  <2>4. Decided(c, m) \in ContextSet /\ Decided(c, m).nas = n
    BY <1>1, <2>2, <2>3 DEF ContextSet
  <2> QED BY <2>2, <2>4
<1>4. CASE Acceptable(c, m) /\ m.type \notin {"authentication", "security_mode"}
  <2>1. m.type \in StageNames
    BY <1>4 DEF Acceptable, MessageSet
  <2> QED BY <1>1, <1>4, <2>1, StagesAre DEF Decided, Granted, ContextSet
<1>5. CASE ~Acceptable(c, m)
  <2>1. m.type \in StageNames => Rejected(v, m.type) \in ContextSet
    BY <1>1, StagesAre DEF Rejected, ContextSet
  <2> QED BY <1>1, <1>5, <2>1 DEF Decided, MessageSet
<1> QED BY <1>2, <1>3, <1>4, <1>5

LEMMA ResponseType ==
  ASSUME NEW c \in ContextSet, NEW m \in MessageSet
  PROVE  Response(c, m) \in ResponseSet
<1>1. DownlinkPdu(c, m) \in PduSet \cup {None}
  <2>1. CASE Acceptable(c, m) /\ m.type \in {"authentication", "security_mode"}
    <3>1. Decided(c, m).nas.down - 1 \in Nat
      BY <2>1, DecidedType
    <3> QED BY <2>1, <3>1, StagesAre DEF DownlinkPdu, PduSet, MessageSet
  <2>2. CASE ~(Acceptable(c, m) /\ m.type \in {"authentication", "security_mode"})
    BY <2>2 DEF DownlinkPdu
  <2> QED BY <2>1, <2>2
<1> QED BY <1>1 DEF Response, ResponseSet, MessageSet

-----------------------------------------------------------------------------
(* FlightInv is inductive.                                                 *)

LEMMA FlightInit == Init => FlightInv
<1> SUFFICES ASSUME Init PROVE FlightInv
  OBVIOUS
<1>1. TypeOK
  BY DEF Init, TypeOK, IdleL1, NoFault, PossibleFaults, Phases
<1>2. ThreadsInv
  BY DEF Init, ThreadsInv, Tx
<1>3. TasksInv
  BY DEF Init, TasksInv, Queued, InL1, IdleL1
<1>4. PduInv
  BY DEF Init, PduInv, IdleL1
<1> QED BY <1>1, <1>2, <1>3, <1>4 DEF FlightInv

LEMMA FlightStart ==
  ASSUME FlightInv, Start
  PROVE  FlightInv'
<1>1. TypeOK'
  BY DEF FlightInv, TypeOK, Phases, Tx, Start, ctxVars, threadVars, taskVars, peerVars, ghostVars
<1>2. ThreadsInv'
  BY DEF FlightInv, TypeOK, ThreadsInv, TasksInv, Gone, Tx, Start, ctxVars, threadVars, taskVars, peerVars, ghostVars
<1>3. TasksInv'
  BY DEF FlightInv, TypeOK, ThreadsInv, TasksInv, Queued, InL1, Gone, Start, ctxVars, threadVars, taskVars, peerVars, ghostVars
<1>4. PduInv'
  BY DEF FlightInv, TypeOK, ThreadsInv, TasksInv, PduInv, StageOf, InL1, Gone, Start, ctxVars, threadVars, taskVars, peerVars, ghostVars
<1> QED BY <1>1, <1>2, <1>3, <1>4 DEF FlightInv

LEMMA FlightLaunch ==
  ASSUME FlightInv, NEW t \in Tx, Launch(t)
  PROVE  FlightInv'
<1>1. TypeOK'
  BY DEF FlightInv, TypeOK, ThreadsInv, Phases, Ended, Launch, ctxVars, threadVars, taskVars, peerVars, ghostVars
<1>2. ThreadsInv'
  BY DEF FlightInv, TypeOK, ThreadsInv, TasksInv, Gone, Tx, Launch, ctxVars, threadVars, taskVars, peerVars, ghostVars
<1>3. TasksInv'
  BY DEF FlightInv, TypeOK, ThreadsInv, TasksInv, Queued, InL1, Gone, Launch, ctxVars, threadVars, taskVars, peerVars, ghostVars
<1>4. PduInv'
  BY DEF FlightInv, TypeOK, ThreadsInv, TasksInv, PduInv, StageOf, InL1, Gone, Launch, ctxVars, threadVars, taskVars, peerVars, ghostVars
<1> QED BY <1>1, <1>2, <1>3, <1>4 DEF FlightInv

LEMMA FlightRequest ==
  ASSUME FlightInv, Request
  PROVE  FlightInv'
<1>1. TypeOK'
  BY DEF FlightInv, TypeOK, Request, threadVars, taskVars, peerVars, ghostVars
<1>2. ThreadsInv'
  BY DEF FlightInv, TypeOK, ThreadsInv, TasksInv, Gone, Tx, Request, threadVars, taskVars, peerVars, ghostVars
<1>3. TasksInv'
  BY DEF FlightInv, TypeOK, ThreadsInv, TasksInv, Queued, InL1, Gone, Request, threadVars, taskVars, peerVars, ghostVars
<1>4. PduInv'
  BY DEF FlightInv, TypeOK, ThreadsInv, TasksInv, PduInv, StageOf, InL1, Gone, Request, threadVars, taskVars, peerVars, ghostVars
<1> QED BY <1>1, <1>2, <1>3, <1>4 DEF FlightInv

LEMMA FlightDisable ==
  ASSUME FlightInv, Disable
  PROVE  FlightInv'
<1>1. TypeOK'
  BY DEF FlightInv, TypeOK, Disable, threadVars, taskVars, peerVars, ghostVars
<1>2. ThreadsInv'
  BY DEF FlightInv, TypeOK, ThreadsInv, TasksInv, Gone, Tx, Disable, threadVars, taskVars, peerVars, ghostVars
<1>3. TasksInv'
  BY DEF FlightInv, TypeOK, ThreadsInv, TasksInv, Queued, InL1, Gone, Disable, threadVars, taskVars, peerVars, ghostVars
<1>4. PduInv'
  BY DEF FlightInv, TypeOK, ThreadsInv, TasksInv, PduInv, StageOf, InL1, Gone, Disable, threadVars, taskVars, peerVars, ghostVars
<1> QED BY <1>1, <1>2, <1>3, <1>4 DEF FlightInv

LEMMA FlightBeginExchange ==
  ASSUME FlightInv, NEW t \in Tx, BeginExchange(t)
  PROVE  FlightInv'
<1>1. TypeOK'
  BY DEF FlightInv, TypeOK, ThreadsInv, Phases, Ended, BeginExchange, ctxVars, peerVars, ghostVars
<1>2. ThreadsInv'
  BY DEF FlightInv, TypeOK, ThreadsInv, TasksInv, Gone, Tx, BeginExchange, ctxVars, peerVars, ghostVars
<1>3. TasksInv'
  <2>1. /\ uplink \in Seq(Tx) /\ uplink' = Append(uplink, t) /\ l1' = l1
        /\ phase' = [phase EXCEPT ![t] = "waiting"] /\ phase \in [Tx -> Phases]
        /\ answer' = [answer EXCEPT ![t] = "none"] /\ DOMAIN answer = Tx
        /\ phase[t] \notin Gone
    BY DEF FlightInv, TypeOK, BeginExchange, Gone
  <2>2. ~Queued(t) /\ ~InL1(t)
    BY <2>1 DEF FlightInv, TasksInv
  <2>3. \A u \in Tx : Queued(u)' <=> u = t \/ Queued(u)
    BY <2>1 DEF Queued
  <2>4. \A i, j \in 1..Len(uplink') : uplink'[i] = uplink'[j] => i = j
    BY <2>1, <2>2 DEF FlightInv, TasksInv, Queued
  <2> QED BY <2>1, <2>2, <2>3, <2>4 DEF FlightInv, TasksInv, InL1, Gone
<1>4. PduInv'
  BY DEF FlightInv, TypeOK, ThreadsInv, TasksInv, PduInv, StageOf, InL1, Gone, BeginExchange, ctxVars, peerVars, ghostVars
<1> QED BY <1>1, <1>2, <1>3, <1>4 DEF FlightInv

LEMMA FlightAdvance ==
  ASSUME FlightInv, NEW t \in Tx, Advance(t)
  PROVE  FlightInv'
<1>1. TypeOK'
  <2>1. done[t] \in 0..7
    BY DEF FlightInv, TypeOK, ThreadsInv, Advance
  <2>2. done' \in [Tx -> 0..8] /\ phase' \in [Tx -> Phases]
    BY <2>1 DEF FlightInv, TypeOK, Phases, Ended, Advance
  <2> QED BY <2>2 DEF FlightInv, TypeOK, Advance, ctxVars, taskVars, peerVars, ghostVars
<1>2. ThreadsInv'
  BY DEF FlightInv, TypeOK, ThreadsInv, TasksInv, Gone, Tx, Advance, ctxVars, taskVars, peerVars, ghostVars
<1>3. TasksInv'
  BY DEF FlightInv, TypeOK, ThreadsInv, TasksInv, Queued, InL1, Gone, Advance, ctxVars, taskVars, peerVars, ghostVars
<1>4. PduInv'
  BY DEF FlightInv, TypeOK, ThreadsInv, TasksInv, PduInv, StageOf, InL1, Gone, Advance, ctxVars, taskVars, peerVars, ghostVars
<1> QED BY <1>1, <1>2, <1>3, <1>4 DEF FlightInv

LEMMA FlightFail ==
  ASSUME FlightInv, NEW t \in Tx, Fail(t)
  PROVE  FlightInv'
<1>1. TypeOK'
  BY DEF FlightInv, TypeOK, ThreadsInv, Phases, Ended, Fail, ctxVars, taskVars, peerVars, ghostVars
<1>2. ThreadsInv'
  BY DEF FlightInv, TypeOK, ThreadsInv, TasksInv, Gone, Tx, Fail, ctxVars, taskVars, peerVars, ghostVars
<1>3. TasksInv'
  BY DEF FlightInv, TypeOK, ThreadsInv, TasksInv, Queued, InL1, Gone, Fail, ctxVars, taskVars, peerVars, ghostVars
<1>4. PduInv'
  BY DEF FlightInv, TypeOK, ThreadsInv, TasksInv, PduInv, StageOf, InL1, Gone, Fail, ctxVars, taskVars, peerVars, ghostVars
<1> QED BY <1>1, <1>2, <1>3, <1>4 DEF FlightInv

LEMMA FlightExpire ==
  ASSUME FlightInv, NEW t \in Tx, Expire(t)
  PROVE  FlightInv'
<1>1. TypeOK'
  BY DEF FlightInv, TypeOK, ThreadsInv, Phases, Ended, Expire, ctxVars, taskVars, peerVars
<1>2. ThreadsInv'
  BY DEF FlightInv, TypeOK, ThreadsInv, TasksInv, Gone, Tx, Expire, ctxVars, taskVars, peerVars
<1>3. TasksInv'
  BY DEF FlightInv, TypeOK, ThreadsInv, TasksInv, Queued, InL1, Gone, Expire, ctxVars, taskVars, peerVars
<1>4. PduInv'
  BY DEF FlightInv, TypeOK, ThreadsInv, TasksInv, PduInv, StageOf, InL1, Gone, Expire, ctxVars, taskVars, peerVars
<1> QED BY <1>1, <1>2, <1>3, <1>4 DEF FlightInv

LEMMA FlightAbandon ==
  ASSUME FlightInv, NEW t \in Tx, Abandon(t)
  PROVE  FlightInv'
<1>1. TypeOK'
  BY DEF FlightInv, TypeOK, ThreadsInv, Phases, Ended, Abandon, ctxVars, taskVars, peerVars, ghostVars
<1>2. ThreadsInv'
  BY DEF FlightInv, TypeOK, ThreadsInv, TasksInv, Gone, Tx, Abandon, ctxVars, taskVars, peerVars, ghostVars
<1>3. TasksInv'
  BY DEF FlightInv, TypeOK, ThreadsInv, TasksInv, Queued, InL1, Gone, Abandon, ctxVars, taskVars, peerVars, ghostVars
<1>4. PduInv'
  BY DEF FlightInv, TypeOK, ThreadsInv, TasksInv, PduInv, StageOf, InL1, Gone, Abandon, ctxVars, taskVars, peerVars, ghostVars
<1> QED BY <1>1, <1>2, <1>3, <1>4 DEF FlightInv

LEMMA FlightExit ==
  ASSUME FlightInv, NEW t \in Tx, Exit(t)
  PROVE  FlightInv'
<1>1. TypeOK'
  BY DEF FlightInv, TypeOK, Exit, threadVars, taskVars, peerVars, ghostVars
<1>2. ThreadsInv'
  BY DEF FlightInv, TypeOK, ThreadsInv, TasksInv, Gone, Tx, Exit, threadVars, taskVars, peerVars, ghostVars
<1>3. TasksInv'
  BY DEF FlightInv, TypeOK, ThreadsInv, TasksInv, Queued, InL1, Gone, Exit, threadVars, taskVars, peerVars, ghostVars
<1>4. PduInv'
  BY DEF FlightInv, TypeOK, ThreadsInv, TasksInv, PduInv, StageOf, InL1, Gone, Exit, threadVars, taskVars, peerVars, ghostVars
<1> QED BY <1>1, <1>2, <1>3, <1>4 DEF FlightInv

LEMMA FlightConsume ==
  ASSUME FlightInv, NEW t \in Tx, Consume(t)
  PROVE  FlightInv'
<1>1. TypeOK'
  BY DEF FlightInv, TypeOK, Consume, ctxVars, taskVars, peerVars, ghostVars
<1>2. ThreadsInv'
  BY DEF FlightInv, TypeOK, ThreadsInv, TasksInv, Gone, Tx, Consume, ctxVars, taskVars, peerVars, ghostVars
<1>3. TasksInv'
  BY DEF FlightInv, TypeOK, ThreadsInv, TasksInv, Queued, InL1, Gone, Consume, ctxVars, taskVars, peerVars, ghostVars
<1>4. PduInv'
  BY DEF FlightInv, TypeOK, ThreadsInv, TasksInv, PduInv, StageOf, InL1, Gone, Consume, ctxVars, taskVars, peerVars, ghostVars
<1> QED BY <1>1, <1>2, <1>3, <1>4 DEF FlightInv

LEMMA FlightL1Take ==
  ASSUME FlightInv, L1Take
  PROVE  FlightInv'
<1>0. uplink \in Seq(Tx) /\ uplink # << >> /\ uplink' = Tail(uplink) /\ l1.at = "idle"
  BY DEF FlightInv, TypeOK, L1Take
<1> PICK t \in Tx : t = Head(uplink)
  BY <1>0
<1>1. /\ l1.pdu = None /\ l1.reply = None
      /\ Queued(t) /\ phase[t] \in Gone /\ answer[t] = "none"
  <2>1. Queued(t)
    BY <1>0 DEF Queued
  <2> QED BY <1>0, <2>1 DEF FlightInv, TasksInv, PduInv
<1>2. /\ ~Queued(t)'
      /\ \A u \in Tx : Queued(u)' => Queued(u)
      /\ \A i, j \in 1..Len(uplink') : uplink'[i] = uplink'[j] => i = j
      /\ uplink' \in Seq(Tx)
  <2>1. /\ uplink' \in Seq(Tx) /\ Len(uplink') = Len(uplink) - 1
        /\ \A i \in 1..Len(uplink') : i + 1 \in 1..Len(uplink) /\ uplink'[i] = uplink[i + 1]
    BY <1>0
  <2>2. \A i, j \in 1..Len(uplink) : uplink[i] = uplink[j] => i = j
    BY DEF FlightInv, TasksInv
  <2>3. ~Queued(t)'
    BY <1>0, <2>1, <2>2 DEF Queued
  <2>4. \A u \in Tx : Queued(u)' => Queued(u)
    BY <2>1 DEF Queued
  <2>5. \A i, j \in 1..Len(uplink') : uplink'[i] = uplink'[j] => i = j
    BY <2>1, <2>2
  <2> QED BY <2>1, <2>3, <2>4, <2>5
<1>3. CASE Alive(t)
  <2>1. /\ l1' = [at |-> IF StageOf(t) \in Protected THEN "protecting" ELSE "sending",
                  tx |-> t, pdu |-> None, reply |-> None]
        /\ UNCHANGED << ctxVars, threadVars, ueNas, peerVars, ghostVars >>
    BY <1>0, <1>3 DEF L1Take, IdleL1, threadVars
  <2>2. StageOf(t)' = StageOf(t)
    BY <2>1 DEF StageOf, threadVars
  <2>3. TypeOK'
    BY <1>1, <1>2, <2>1
    DEF FlightInv, TypeOK, ctxVars, threadVars, peerVars, ghostVars
  <2>4. ThreadsInv'
    BY <2>1 DEF FlightInv, ThreadsInv, ctxVars, threadVars
  <2>5. TasksInv'
    BY <1>1, <1>2, <2>1 DEF FlightInv, TasksInv, InL1, threadVars
  <2>6. PduInv'
    BY <1>1, <2>1, <2>2 DEF PduInv
  <2> QED BY <2>3, <2>4, <2>5, <2>6 DEF FlightInv
<1>4. CASE ~Alive(t)
  <2>1. /\ l1' = l1 /\ answer' = [answer EXCEPT ![t] = "gone"]
        /\ UNCHANGED << ctxVars, phase, done, fault, ueNas, peerVars, ghostVars >>
    BY <1>0, <1>4 DEF L1Take
  <2>2. TypeOK'
    BY <1>1, <1>2, <2>1 DEF FlightInv, TypeOK, ctxVars, peerVars, ghostVars
  <2>3. ThreadsInv'
    BY <1>1, <2>1 DEF FlightInv, TypeOK, ThreadsInv, ctxVars, Gone
  <2>4. TasksInv'
    BY <1>0, <1>1, <1>2, <2>1 DEF FlightInv, TypeOK, TasksInv, InL1
  <2>5. PduInv'
    BY <1>0, <1>1, <2>1 DEF FlightInv, PduInv
  <2> QED BY <2>2, <2>3, <2>4, <2>5 DEF FlightInv
<1> QED BY <1>3, <1>4

LEMMA FlightL1Protect ==
  ASSUME FlightInv, L1Protect
  PROVE  FlightInv'
<1> DEFINE t == l1.tx
<1>1. /\ t \in Tx /\ l1.at = "protecting" /\ l1.reply = None
      /\ InL1(t) /\ phase[t] \in Gone /\ done[t] \in 0..7
      /\ StageOf(t) \in Protected
      /\ l1' = [l1 EXCEPT !.at = "sending", !.pdu = UplinkPdu(t)]
      /\ ueNas' = [UeContext(t) EXCEPT !.up = @ + 1]
      /\ UNCHANGED << ctxVars, threadVars, uplink, peerVars, ghostVars >>
  BY DEF FlightInv, TypeOK, ThreadsInv, TasksInv, PduInv, InL1, Gone, L1Protect
<1>2. UplinkPdu(t) \in PduSet /\ ueNas' \in UeNasSet
  BY <1>1, StageOfIs, UplinkPduType, UeContextType DEF FlightInv, UeNasSet
<1>3. TypeOK'
  BY <1>1, <1>2 DEF FlightInv, TypeOK, ctxVars, threadVars, peerVars, ghostVars
<1>4. ThreadsInv'
  BY <1>1 DEF FlightInv, ThreadsInv, ctxVars, threadVars
<1>5. TasksInv'
  BY <1>1 DEF FlightInv, TypeOK, TasksInv, InL1, Queued, threadVars
<1>6. PduInv'
  <2>1. l1'.at = "sending" /\ l1'.tx = t /\ l1'.pdu = UplinkPdu(t) /\ l1'.reply = None
    BY <1>1 DEF FlightInv, TypeOK
  <2>2. StageOf(t)' = StageOf(t)
    BY <1>1, <2>1 DEF StageOf, threadVars
  <2> QED BY <1>1, <1>2, <2>1, <2>2 DEF PduInv, UplinkPdu
<1> QED BY <1>3, <1>4, <1>5, <1>6 DEF FlightInv

\* The tasks are done with an exchange, or go on with it, and the exchange of
\* nobody else changes.
LEMMA FlightL1Step ==
  ASSUME FlightInv, l1.at # "idle",
         UNCHANGED << ctxVars, phase, done, fault, uplink, mme, order, accepted >>,
         \/ /\ l1' = IdleL1
            /\ \E a \in {"matching", "other", "gone", "bad"} :
                 answer' = [answer EXCEPT ![l1.tx] = a]
         \/ /\ l1' \in {[l1 EXCEPT !.at = "silent"], [l1 EXCEPT !.at = "sent"]}
            /\ l1.at = "sending" /\ answer' = answer,
         wire' \subseteq MessageSet, sent' \subseteq PduSet, late' \subseteq Tx,
         ueNas' \in UeNasSet \cup {None}
  PROVE  FlightInv'
<1> PICK t \in Tx : t = l1.tx
  BY DEF FlightInv, TasksInv
<1>1. InL1(t) /\ phase[t] \in Gone
  BY DEF FlightInv, TasksInv, InL1
<1>2. CASE l1' = IdleL1
  <2>1. PICK a \in {"matching", "other", "gone", "bad"} :
          answer' = [answer EXCEPT ![t] = a]
    BY <1>2 DEF FlightInv, TypeOK, IdleL1
  <2>2. TypeOK'
    BY <1>2, <2>1 DEF FlightInv, TypeOK, IdleL1, ctxVars
  <2>3. ThreadsInv'
    BY <1>1, <2>1 DEF FlightInv, TypeOK, ThreadsInv, Gone, ctxVars
  <2>4. TasksInv'
    BY <1>1, <1>2, <2>1 DEF FlightInv, TypeOK, TasksInv, InL1, Queued, IdleL1
  <2>5. PduInv'
    BY <1>2 DEF PduInv, IdleL1
  <2> QED BY <2>2, <2>3, <2>4, <2>5 DEF FlightInv
<1>3. CASE /\ l1' \in {[l1 EXCEPT !.at = "silent"], [l1 EXCEPT !.at = "sent"]}
           /\ l1.at = "sending" /\ answer' = answer
  <2>1. PICK at \in {"silent", "sent"} : l1' = [l1 EXCEPT !.at = at]
    BY <1>3
  <2>2. TypeOK'
    BY <1>3, <2>1 DEF FlightInv, TypeOK, ctxVars
  <2>3. ThreadsInv'
    BY <1>3 DEF FlightInv, ThreadsInv, ctxVars
  <2>4. l1'.tx = t /\ l1'.at = at /\ l1'.pdu = l1.pdu /\ l1'.reply = l1.reply
    BY <2>1 DEF FlightInv, TypeOK
  <2>5. TasksInv'
    BY <1>1, <1>3, <2>1, <2>4 DEF FlightInv, TasksInv, InL1, Queued
  <2>6. PduInv'
    BY <1>3, <2>1, <2>4 DEF FlightInv, PduInv, StageOf
  <2> QED BY <2>2, <2>3, <2>5, <2>6 DEF FlightInv
<1> QED BY <1>2, <1>3

\* What the L1 task is about to send is a message.
LEMMA MessageType ==
  ASSUME FlightInv, l1.at = "sending"
  PROVE  Message(l1.tx, l1.pdu) \in MessageSet
<1> DEFINE t == l1.tx
<1>1. t \in Tx /\ InL1(t) /\ done[t] \in 0..7 /\ fault[t] \in PossibleFaults
  <2>1. t \in Tx /\ InL1(t)
    BY DEF FlightInv, TasksInv, InL1
  <2>2. phase[t] \in Gone
    BY <2>1 DEF FlightInv, TasksInv
  <2> QED BY <2>1, <2>2 DEF FlightInv, TypeOK, ThreadsInv, Gone
<1>2. StageOf(t) \in StageNames
  BY <1>1, StageOfIs
<1>3. WireType(t) \in StageNames \cup {"unknown"}
  BY <1>2 DEF WireType
<1>4. l1.pdu \in PduSet \cup {None}
  BY DEF FlightInv, TypeOK
<1>5. Hit(t, "tampered") => l1.pdu \in PduSet
  <2>1. Hit(t, "tampered") => fault[t].what = "tampered" /\ fault[t].stage = StageOf(t)
    BY DEF Hit
  <2>2. Hit(t, "tampered") => StageOf(t) \in Protected
    BY <1>1, <2>1 DEF PossibleFaults, NoFault
  <2> QED BY <2>2 DEF FlightInv, PduInv
<1>6. l1.pdu \in PduSet => [l1.pdu EXCEPT !.genuine = FALSE] \in PduSet
  BY DEF PduSet
<1> QED BY <1>1, <1>2, <1>3, <1>4, <1>5, <1>6 DEF Message, MessageSet

LEMMA FlightL1Send ==
  ASSUME FlightInv, L1Send
  PROVE  FlightInv'
<1> DEFINE t == l1.tx
           m == Message(t, l1.pdu)
<1>1. m \in MessageSet /\ l1.tx \in Tx
  BY MessageType DEF L1Send, FlightInv, TasksInv
<1>2. m.pdu \in PduSet \cup {None}
  BY <1>1 DEF MessageSet
<1>3. wire \subseteq MessageSet /\ sent \subseteq PduSet /\ late \subseteq Tx
      /\ ueNas \in UeNasSet \cup {None}
  BY DEF FlightInv, TypeOK
<1>4. wire' \in {wire, wire \cup {m}} /\ sent' \in {sent, sent \cup {m.pdu}}
      /\ (m.pdu = None => sent' = sent)
  BY DEF L1Send
<1>5. wire' \subseteq MessageSet /\ sent' \subseteq PduSet
  BY <1>1, <1>2, <1>3, <1>4
<1>6. late' = late /\ ueNas' = ueNas /\ l1.at = "sending"
      /\ UNCHANGED << ctxVars, phase, done, fault, uplink, mme, order, accepted >>
  BY DEF L1Send
<1>7. \/ l1' = IdleL1 /\ answer' = [answer EXCEPT ![l1.tx] = "gone"]
      \/ l1' \in {[l1 EXCEPT !.at = "silent"], [l1 EXCEPT !.at = "sent"]} /\ answer' = answer
  BY DEF L1Send
<1> QED BY <1>3, <1>5, <1>6, <1>7, FlightL1Step

LEMMA FlightL1Wake ==
  ASSUME FlightInv, L1Wake
  PROVE  FlightInv'
BY FlightL1Step DEF FlightInv, TypeOK, L1Wake, peerVars, ghostVars

LEMMA FlightL1Timeout ==
  ASSUME FlightInv, L1Timeout
  PROVE  FlightInv'
BY FlightL1Step DEF FlightInv, TypeOK, TasksInv, L1Timeout, peerVars

LEMMA FlightL1Receive ==
  ASSUME FlightInv, L1Receive
  PROVE  FlightInv'
<1> DEFINE t == l1.tx
           p == l1.reply.pdu
           c == UeContext(t)
<1>1. t \in Tx /\ l1.at = "sent" /\ l1.reply \in ResponseSet /\ c \in UeNasSet
  BY UeContextType DEF L1Receive, FlightInv, TypeOK, TasksInv
<1>2. ueNas' \in {ueNas, c, [c EXCEPT !.down = Commit(@, NasWidth, p.count)]}
      /\ (ueNas' \in {ueNas, c} \/ Opens(c.down, p, t, "down", l1.reply.type))
  BY DEF L1Receive
<1>3. ueNas' \in UeNasSet \cup {None}
  <2>1. CASE Opens(c.down, p, t, "down", l1.reply.type)
    <3>1. p \in PduSet /\ ~Rejects(c.down, NasWidth, p.count)
      BY <1>1, <2>1 DEF Opens, ResponseSet
    <3>2. Commit(c.down, NasWidth, p.count) \in Windows(NasWidth)
      BY <1>1, <3>1, NasCommitType DEF UeNasSet, PduSet
    <3>3. [c EXCEPT !.down = Commit(@, NasWidth, p.count)] \in UeNasSet
      BY <1>1, <3>2 DEF UeNasSet
    <3> HIDE DEF c
    <3> QED BY <1>1, <1>2, <3>3 DEF FlightInv, TypeOK
  <2> QED BY <1>1, <1>2, <2>1 DEF FlightInv, TypeOK
<1>4. Arrived(t, l1.reply) \in {"matching", "other"}
  BY DEF Arrived
<1>5. /\ l1' = IdleL1
      /\ \E a \in {"matching", "other", "gone", "bad"} :
           answer' = [answer EXCEPT ![l1.tx] = a]
  BY <1>4 DEF L1Receive
<1>6. UNCHANGED << ctxVars, phase, done, fault, uplink, mme, order, accepted, wire, sent, late >>
  BY DEF L1Receive, peerVars, ghostVars
<1> QED BY <1>1, <1>3, <1>5, <1>6, FlightL1Step DEF FlightInv, TypeOK

\* The context a request meets.
Before(t) == IF mme[t] = None THEN NewContext ELSE mme[t]

\* What serving a request changes.
LEMMA ServeIs ==
  ASSUME FlightInv, NEW m \in wire, Serve(m)
  PROVE  /\ m \in MessageSet /\ m.tx \in Tx
         /\ Before(m.tx) \in ContextSet /\ Decided(Before(m.tx), m) \in ContextSet
         /\ Store(m.tx, Decided(Before(m.tx), m))
         /\ accepted' = IF Acceptable(Before(m.tx), m)
                        THEN [accepted EXCEPT ![m.tx] = Append(@, m.type)] ELSE accepted
         /\ l1' = IF l1.at = "sent" /\ l1.tx = m.tx /\ StageOf(m.tx) = m.stage
                  THEN [l1 EXCEPT !.reply = Response(Before(m.tx), m)] ELSE l1
         /\ Response(Before(m.tx), m) \in ResponseSet
<1>1. m \in MessageSet /\ m.tx \in Tx
  BY DEF FlightInv, TypeOK, MessageSet
<1>2. Before(m.tx) \in ContextSet
  BY <1>1, NewContextType DEF FlightInv, TypeOK, Before
<1>3. Decided(Before(m.tx), m) \in ContextSet /\ Response(Before(m.tx), m) \in ResponseSet
  BY <1>1, <1>2, DecidedType, ResponseType
<1> QED BY <1>1, <1>2, <1>3 DEF Serve, Before

LEMMA StoreType ==
  ASSUME TypeOK, NEW t \in Tx, NEW d \in ContextSet, Store(t, d)
  PROVE  mme' \in [Tx -> ContextSet \cup {None}] /\ order' \in Seq(Tx)
<1>1. Append(order, t) \in Seq(Tx) /\ Append(order, t) # << >>
  <2>1. order \in Seq(Tx)
    BY DEF TypeOK
  <2> QED BY <2>1
<1>2. Tail(Append(order, t)) \in Seq(Tx)
  BY <1>1
<1>3. mme \in [Tx -> ContextSet \cup {None}] /\ order \in Seq(Tx)
  BY DEF TypeOK
<1> QED BY <1>1, <1>2, <1>3 DEF Store

LEMMA FlightServe ==
  ASSUME FlightInv, NEW m \in wire, Serve(m)
  PROVE  FlightInv'
<1>1. accepted' \in [Tx -> Seq(StageNames)]
  <2>1. Acceptable(Before(m.tx), m) => m.type \in StageNames
    BY ServeIs DEF Acceptable, MessageSet
  <2>2. accepted \in [Tx -> Seq(StageNames)] /\ m.tx \in Tx
    BY ServeIs DEF FlightInv, TypeOK
  <2>3. Acceptable(Before(m.tx), m) => Append(accepted[m.tx], m.type) \in Seq(StageNames)
    BY <2>1, <2>2
  <2> QED BY <2>2, <2>3, ServeIs
<1>2. /\ UNCHANGED << ctxVars, threadVars, uplink, ueNas, sent, late >>
      /\ wire' \subseteq wire
  BY DEF Serve
<1>3. \/ l1' = l1
      \/ /\ l1.at = "sent"
         /\ \E r \in ResponseSet : l1' = [l1 EXCEPT !.reply = r]
  BY ServeIs
<1>4. /\ l1'.at = l1.at /\ l1'.tx = l1.tx /\ l1'.pdu = l1.pdu
      /\ l1.at # "sent" => l1'.reply = l1.reply
  BY <1>3 DEF FlightInv, TypeOK
<1>5. TypeOK'
  BY <1>1, <1>2, <1>3, ServeIs, StoreType
  DEF FlightInv, TypeOK, ctxVars, threadVars
<1>6. ThreadsInv'
  BY <1>2 DEF FlightInv, ThreadsInv, ctxVars, threadVars
<1>7. TasksInv'
  BY <1>2, <1>4 DEF FlightInv, TasksInv, InL1, Queued, threadVars
<1>8. PduInv'
  BY <1>2, <1>4 DEF FlightInv, PduInv, StageOf, threadVars
<1> QED BY <1>5, <1>6, <1>7, <1>8 DEF FlightInv

LEMMA FlightStep ==
  FlightInv /\ [Next]_vars => FlightInv'
<1> SUFFICES ASSUME FlightInv, [Next]_vars PROVE FlightInv'
  OBVIOUS
<1>1. CASE \E t \in Tx : ThreadStep(t)
  BY <1>1, FlightLaunch, FlightBeginExchange, FlightAdvance, FlightFail, FlightExpire,
     FlightAbandon, FlightExit, FlightConsume
  DEF ThreadStep
<1>2. CASE TaskStep
  BY <1>2, FlightL1Take, FlightL1Protect, FlightL1Send, FlightL1Wake, FlightL1Timeout,
     FlightL1Receive
  DEF TaskStep
<1>3. CASE UNCHANGED vars
  BY <1>3 DEF FlightInv, TypeOK, ThreadsInv, TasksInv, PduInv, Queued, InL1, StageOf,
              vars, ctxVars, threadVars, taskVars, peerVars, ghostVars
<1> QED BY <1>1, <1>2, <1>3, FlightStart, FlightRequest, FlightDisable, FlightServe DEF Next

\* An exchange that waits or was given up is not the last one.
LEMMA OpenDone ==
  ASSUME FlightInv, NEW t \in Tx, phase[t] \in Gone
  PROVE  done[t] \in 0..7
<1>1. done[t] \in 0..8
  BY DEF FlightInv, TypeOK
<1>2. done[t] # 8
  BY DEF FlightInv, ThreadsInv, Gone
<1> QED BY <1>1, <1>2

-----------------------------------------------------------------------------
(* The peer's table and its order of eviction.                             *)

\* _order lists each transaction with a context once.
OrderInv ==
  /\ \A t \in Tx : mme[t] # None <=> \E i \in 1..Len(order) : order[i] = t
  /\ \A i, j \in 1..Len(order) : order[i] = order[j] => i = j
  /\ Len(order) <= Capacity

\* A list without repetitions has as many members as places.
LEMMA ImageCardinality ==
  ASSUME NEW n \in Nat, NEW f, \A i, j \in 1..n : f[i] = f[j] => i = j
  PROVE  Cardinality({ f[i] : i \in 1..n }) = n
<1> DEFINE T == { f[i] : i \in 1..n }
           g == [i \in 1..n |-> f[i]]
<1>1. g \in Bijection(1..n, T)
  BY DEF Bijection, Injection, Surjection, IsInjective
<1>2. ExistsBijection(1..n, T)
  BY <1>1 DEF ExistsBijection
<1>3. IsFiniteSet(1..n) /\ Cardinality(1..n) = n
  BY FS_Interval
<1> QED BY <1>2, <1>3, FS_Bijection

LEMMA StoreOrder ==
  ASSUME TypeOK, OrderInv, NEW t \in Tx, NEW d \in ContextSet, Store(t, d)
  PROVE  OrderInv'
<1>1. /\ order \in Seq(Tx) /\ mme \in [Tx -> ContextSet \cup {None}] /\ d # None
  BY DEF TypeOK
<1>2. CASE mme[t] # None
  BY <1>1, <1>2 DEF Store, OrderInv
<1>3. CASE mme[t] = None /\ ~Full(Len(Append(order, t)))
  <2>1. order' = Append(order, t) /\ mme' = [mme EXCEPT ![t] = d]
    BY <1>3 DEF Store
  <2>2. /\ Len(order') = Len(order) + 1 /\ order'[Len(order')] = t
        /\ \A i \in 1..Len(order) : order'[i] = order[i]
    BY <1>1, <2>1
  <2>3. \A i \in 1..Len(order) : order[i] # t
    BY <1>3 DEF OrderInv
  <2>4. Len(order') <= Capacity
    BY <1>3, <1>1, <2>1 DEF Full
  <2> QED BY <1>1, <2>1, <2>2, <2>3, <2>4 DEF OrderInv
<1>4. CASE mme[t] = None /\ Full(Len(Append(order, t)))
  <2> DEFINE h == Head(Append(order, t))
  <2>1. order' = Tail(Append(order, t)) /\ mme' = [mme EXCEPT ![t] = d, ![h] = None]
    BY <1>4 DEF Store
  <2>2. Len(order) = Capacity /\ Len(order) >= 2
    BY <1>1, <1>4 DEF Full, OrderInv
  <2>3. /\ Len(order') = Len(order) /\ order'[Len(order)] = t /\ h = order[1]
        /\ \A i \in 1..(Len(order) - 1) : order'[i] = order[i + 1]
    BY <1>1, <2>1, <2>2
  <2>4. /\ h \in Tx /\ h # t
        /\ \A i \in 1..Len(order) : order[i] # t
    BY <1>1, <1>4, <2>2, <2>3 DEF OrderInv
  <2>5. mme'[t] # None /\ mme'[h] = None /\ \A u \in Tx \ {t, h} : mme'[u] = mme[u]
    BY <1>1, <2>1, <2>4
  <2> HIDE DEF h
  <2>6. \A i, j \in 1..Len(order') : order'[i] = order'[j] => i = j
    BY <2>2, <2>3, <2>4 DEF OrderInv
  <2>7. ASSUME NEW u \in Tx
        PROVE  mme'[u] # None <=> \E i \in 1..Len(order') : order'[i] = u
    <3>1. CASE u = t
      BY <3>1, <2>2, <2>3, <2>5
    <3>2. CASE u = h
      BY <3>2, <2>2, <2>3, <2>4, <2>5 DEF OrderInv
    <3>3. CASE u # t /\ u # h
      <4>1. ASSUME NEW i \in 1..Len(order), order[i] = u
            PROVE  i - 1 \in 1..Len(order') /\ order'[i - 1] = u
        BY <4>1, <3>3, <2>2, <2>3
      <4>2. ASSUME NEW i \in 1..Len(order'), order'[i] = u
            PROVE  i + 1 \in 1..Len(order) /\ order[i + 1] = u
        BY <4>2, <3>3, <2>2, <2>3
      <4> QED BY <3>3, <2>5, <4>1, <4>2 DEF OrderInv
    <3> QED BY <3>1, <3>2, <3>3
  <2> QED BY <2>2, <2>3, <2>6, <2>7 DEF OrderInv
<1> QED BY <1>2, <1>3, <1>4

\* No other step touches the table.
LEMMA OnlyServeStores ==
  ASSUME [Next]_vars, \A m \in wire : ~Serve(m)
  PROVE  UNCHANGED << mme, order, accepted >>
BY DEF Next, ThreadStep, TaskStep, vars, peerVars, ghostVars, Start, Request, Disable,
       Launch, BeginExchange, Advance, Fail, Expire, Abandon, Exit, Consume,
       L1Take, L1Protect, L1Send, L1Wake, L1Timeout, L1Receive

LEMMA OrderStep ==
  FlightInv /\ OrderInv /\ [Next]_vars => OrderInv'
<1> SUFFICES ASSUME FlightInv, OrderInv, [Next]_vars PROVE OrderInv'
  OBVIOUS
<1>1. CASE \A m \in wire : ~Serve(m)
  BY <1>1, OnlyServeStores DEF OrderInv
<1>2. ASSUME NEW m \in wire, Serve(m)
      PROVE  OrderInv'
  BY <1>2, ServeIs, StoreOrder DEF FlightInv
<1> QED BY <1>1, <1>2

LEMMA OrderMatches ==
  FlightInv /\ OrderInv => ContextsInv
<1> SUFFICES ASSUME FlightInv, OrderInv PROVE ContextsInv
  OBVIOUS
<1>1. order \in Seq(Tx) /\ Len(order) \in Nat
  BY DEF FlightInv, TypeOK
<1>2. { order[i] : i \in 1..Len(order) } = { t \in Tx : mme[t] # None }
  BY <1>1 DEF OrderInv
<1>3. Cardinality({ order[i] : i \in 1..Len(order) }) = Len(order)
  BY <1>1, ImageCardinality DEF OrderInv
<1> QED BY <1>2, <1>3 DEF ContextsInv, FlightInv, OrderMatchesContexts, OrderInv

\* However many transactions come, however many are cancelled and whenever
\* their last requests reach the peer, its table of contexts and its order of
\* eviction name the same transactions, and no more than it may keep (locked
\* in network.py).
THEOREM TableIsBounded == Spec => []ContextsInv
<1>1. Init => FlightInv /\ OrderInv
  BY FlightInit DEF Init, OrderInv
<1>2. FlightInv /\ OrderInv /\ [Next]_vars => (FlightInv /\ OrderInv)'
  BY FlightStep, OrderStep
<1> QED BY <1>1, <1>2, OrderMatches, PTL DEF Spec

-----------------------------------------------------------------------------
(* What is on the wire.                                                    *)

Is(t, stage, what) == fault[t] = [stage |-> stage, what |-> what]

\* The fault of its transaction is in a message if it is one of its stage.
Carries(m) ==
  /\ Is(m.tx, m.stage, "wrong") => ~m.valid
  /\ Is(m.tx, m.stage, "tampered") => m.pdu # None /\ ~m.pdu.genuine
  /\ \A what \in StageNames \cup {"unknown"} : Is(m.tx, m.stage, what) => m.type = what
  /\ ~Is(m.tx, m.stage, "dropped")

\* The L1 task waits for the answer, or the exchange is at its end without one.
Pending(m) ==
  \/ l1.at = "sent" /\ l1.tx = m.tx /\ l1.reply = None
  \/ phase[m.tx] \in Gone /\ answer[m.tx] \in {"bad", "gone"}

\* A message belongs to the exchange its transaction is in.
WireInv ==
  /\ \A m \in wire :
       /\ m.pdu # None => m.pdu \in sent
       /\ Carries(m) /\ Pending(m)
       /\ done[m.tx] < 8 /\ m.stage = StageOf(m.tx)
  /\ \A m, q \in wire : m.tx = q.tx => m = q

\* What the RRC task's taking a message changes.
LEMMA TakeIs ==
  ASSUME FlightInv, L1Take
  PROVE  \E t \in Tx :
           /\ Queued(t) /\ ~InL1(t) /\ l1.at = "idle"
           /\ \A u \in Tx : Queued(u)' => Queued(u) /\ u # t
           /\ UNCHANGED << ctxVars, phase, done, fault, ueNas, peerVars, ghostVars >>
           /\ \/ /\ Alive(t) /\ answer' = answer
                 /\ l1'.at \in {"protecting", "sending"}
                 /\ l1'.tx = t /\ l1'.reply = None
              \/ /\ ~Alive(t) /\ l1' = l1 /\ answer' = [answer EXCEPT ![t] = "gone"]
<1>1. uplink \in Seq(Tx) /\ uplink # << >> /\ uplink' = Tail(uplink) /\ l1.at = "idle"
  BY DEF FlightInv, TypeOK, L1Take
<1> PICK t \in Tx : t = Head(uplink)
  BY <1>1
<1>2. Queued(t) /\ ~InL1(t)
  BY <1>1 DEF Queued, InL1
<1>3. ASSUME NEW u \in Tx, Queued(u)'
      PROVE  Queued(u) /\ u # t
  <2>1. /\ Len(uplink') = Len(uplink) - 1
        /\ \A i \in 1..Len(uplink') : i + 1 \in 1..Len(uplink) /\ uplink'[i] = uplink[i + 1]
    BY <1>1
  <2>2. PICK i \in 1..Len(uplink') : uplink'[i] = u
    BY <1>3 DEF Queued
  <2>3. i + 1 \in 1..Len(uplink) /\ uplink[i + 1] = u /\ 1 \in 1..Len(uplink) /\ uplink[1] = t
    BY <1>1, <2>1, <2>2
  <2> QED BY <2>3 DEF Queued, FlightInv, TasksInv
<1>4. /\ UNCHANGED << ctxVars, phase, done, fault, ueNas, peerVars, ghostVars >>
      /\ \/ /\ Alive(t) /\ answer' = answer
            /\ l1'.at \in {"protecting", "sending"}
            /\ l1'.tx = t /\ l1'.reply = None
         \/ /\ ~Alive(t) /\ l1' = l1 /\ answer' = [answer EXCEPT ![t] = "gone"]
  BY <1>1 DEF L1Take, IdleL1
<1> QED BY <1>1, <1>2, <1>3, <1>4

\* What a step of the L1 task changes when it is the last for its exchange.
LEMMA L1Ends ==
  ASSUME FlightInv, L1Wake \/ L1Timeout \/ L1Receive
  PROVE  \E t \in Tx :
           /\ InL1(t) /\ t = l1.tx /\ l1' = IdleL1
           /\ UNCHANGED << ctxVars, phase, done, fault, uplink, peerVars, sent, accepted >>
           /\ \E a \in {"matching", "other", "gone", "bad"} :
                /\ answer' = [answer EXCEPT ![t] = a]
                /\ (l1.at = "sent" /\ l1.reply # None) \/ a \in {"gone", "bad"}
                /\ a = "matching" =>
                     l1.at = "sent" /\ l1.reply # None /\ Matches(t, l1.reply)
<1> PICK t \in Tx : t = l1.tx /\ InL1(t)
  BY DEF FlightInv, TasksInv, InL1, L1Wake, L1Timeout, L1Receive
<1>1. CASE L1Wake
  BY <1>1 DEF L1Wake, ghostVars
<1>2. CASE L1Timeout
  BY <1>2 DEF L1Timeout
<1>3. CASE L1Receive
  <2>1. /\ l1' = IdleL1 /\ l1.at = "sent" /\ l1.reply # None
        /\ \/ answer' = [answer EXCEPT ![t] = "gone"]
           \/ answer' = [answer EXCEPT ![t] = Arrived(t, l1.reply)]
           \/ answer' = [answer EXCEPT ![t] = "bad"]
    BY <1>3 DEF L1Receive
  <2> QED BY <1>3, <2>1 DEF Arrived, L1Receive, ghostVars
<1> QED BY <1>1, <1>2, <1>3

\* The message the L1 task sends carries the fault of its transaction.
LEMMA SendCarries ==
  ASSUME FlightInv, l1.at = "sending", ~Hit(l1.tx, "dropped")
  PROVE  Carries(Message(l1.tx, l1.pdu))
<1> DEFINE t == l1.tx
           m == Message(t, l1.pdu)
<1>1. t \in Tx /\ InL1(t) /\ fault[t] \in PossibleFaults
  BY DEF FlightInv, TypeOK, TasksInv, InL1
<1>2. m.tx = t /\ m.stage = StageOf(t) /\ m.type = WireType(t)
  BY DEF Message
<1>3. Is(t, StageOf(t), "wrong") => ~m.valid
  BY DEF Is, Hit, Message
<1>4. Is(t, StageOf(t), "tampered") => m.pdu # None /\ ~m.pdu.genuine
  <2> SUFFICES ASSUME Is(t, StageOf(t), "tampered")
               PROVE  m.pdu # None /\ ~m.pdu.genuine
    OBVIOUS
  <2>1. Hit(t, "tampered") /\ StageOf(t) \in Protected
    BY <1>1 DEF Is, Hit, PossibleFaults, NoFault
  <2>2. l1.pdu \in PduSet
    BY <2>1 DEF FlightInv, PduInv
  <2>3. m.pdu = [l1.pdu EXCEPT !.genuine = FALSE]
    BY <2>1 DEF Message
  <2>4. m.pdu \in PduSet /\ ~m.pdu.genuine
    BY <2>2, <2>3 DEF PduSet
  <2> QED BY <2>4
<1>5. \A what \in StageNames \cup {"unknown"} : Is(t, StageOf(t), what) => m.type = what
  BY <1>2 DEF Is, WireType
<1> QED BY <1>2, <1>3, <1>4, <1>5 DEF Carries, Is, Hit

\* The exchange of a message on the wire is still the current one.
LEMMA WireOpen ==
  ASSUME FlightInv, WireInv, NEW m \in wire
  PROVE  /\ m.tx \in Tx /\ phase[m.tx] \in Gone /\ done[m.tx] \in 0..7
         /\ answer[m.tx] \in {"none", "bad", "gone"}
         /\ ~Queued(m.tx) /\ (InL1(m.tx) => l1.at = "sent" /\ l1.reply = None)
<1>1. m.tx \in Tx /\ done[m.tx] \in 0..7
  BY DEF FlightInv, TypeOK, MessageSet, WireInv
<1> QED BY <1>1 DEF FlightInv, TasksInv, InL1, Gone, WireInv, Pending

\* Steps that send nothing keep WireInv if the open exchanges stay open.
LEMMA WireKept ==
  ASSUME WireInv, wire' \subseteq wire, sent' = sent,
         \A m \in wire' : /\ fault'[m.tx] = fault[m.tx] /\ done'[m.tx] = done[m.tx]
                          /\ Pending(m)'
  PROVE  WireInv'
BY DEF WireInv, Carries, Is, StageOf

LEMMA WireThread ==
  ASSUME FlightInv, WireInv, NEW t \in Tx, ThreadStep(t)
  PROVE  WireInv'
<1>1. /\ wire' = wire /\ sent' = sent /\ fault' = fault
      /\ t \notin { m.tx : m \in wire } \/ UNCHANGED << done, answer >>
      /\ UNCHANGED l1
  BY WireOpen DEF ThreadStep, Launch, BeginExchange, Advance, Fail, Expire, Abandon, Exit,
                  Consume, Gone, threadVars, taskVars, peerVars, ghostVars
<1>2. /\ \A u \in Tx \ {t} : done'[u] = done[u] /\ phase'[u] = phase[u] /\ answer'[u] = answer[u]
      /\ phase[t] \in Gone => phase'[t] \in Gone \/ answer[t] = "good"
  BY DEF ThreadStep, Launch, BeginExchange, Advance, Fail, Expire, Abandon, Exit,
         Consume, Gone, threadVars, FlightInv, TypeOK
<1>3. \A m \in wire : m.tx \in Tx /\ done'[m.tx] = done[m.tx] /\ Pending(m)'
  BY <1>1, <1>2, WireOpen DEF WireInv, Pending
<1> QED BY <1>1, <1>3, WireKept

LEMMA WireSend ==
  ASSUME FlightInv, WireInv, L1Send
  PROVE  WireInv'
<1> PICK t \in Tx : t = l1.tx /\ InL1(t) /\ l1.at = "sending"
  BY DEF L1Send, FlightInv, TasksInv, InL1
<1>1. \A m \in wire : m.tx # t
  BY WireOpen DEF InL1
<1>2. CASE UNCHANGED << wire, sent >>
  <2>1. /\ UNCHANGED << phase, done, fault >>
        /\ \A u \in Tx \ {t} : answer'[u] = answer[u]
    BY <1>2 DEF L1Send, FlightInv, TypeOK
  <2>2. \A m \in wire : m.tx \in Tx /\ Pending(m)'
    BY <1>1, <2>1, WireOpen DEF WireInv, Pending
  <2> QED BY <1>2, <2>1, <2>2, WireKept
<1>3. CASE ~UNCHANGED << wire, sent >>
  <2> PICK m : m = Message(t, l1.pdu)
    OBVIOUS
  <2>1. /\ wire' = wire \cup {m}
        /\ sent' = IF m.pdu = None THEN sent ELSE sent \cup {m.pdu}
        /\ l1' = [l1 EXCEPT !.at = "sent"] /\ ~Hit(t, "dropped")
        /\ UNCHANGED << phase, done, fault, answer >>
    BY <1>3 DEF L1Send
  <2>2. Carries(m) /\ m.tx = t /\ m.stage = StageOf(t)
    BY <2>1, SendCarries DEF Message
  <2>3. done[t] < 8 /\ t \in Tx
    <3>1. t \in Tx /\ phase[t] \in Gone
      BY DEF FlightInv, TasksInv, InL1
    <3> QED BY <3>1, OpenDone
  <2>4. l1'.at = "sent" /\ l1'.tx = t /\ l1'.reply = None
    BY <2>1 DEF FlightInv, TypeOK, PduInv
  <2>5. Pending(m)'
    BY <2>2, <2>4 DEF Pending
  <2>6. \A q \in wire : Pending(q)'
    <3>1. \A q \in wire : phase[q.tx] \in Gone /\ answer[q.tx] \in {"bad", "gone"}
      BY DEF WireInv, Pending
    <3> QED BY <2>1, <3>1 DEF Pending
  <2>7. \A q \in wire' : q.pdu # None => q.pdu \in sent'
    BY <2>1 DEF WireInv
  <2>8. \A q \in wire' : q = m \/ (q \in wire /\ q.tx # m.tx)
    <3>1. wire' = wire \cup {m} /\ m.tx = t
      BY <2>1, <2>2
    <3> QED BY <1>1, <3>1
  <2>9. \A q \in wire' : Carries(q)' /\ done'[q.tx] < 8 /\ q.stage = StageOf(q.tx)'
    BY <2>1, <2>2, <2>3 DEF WireInv, Carries, Is, StageOf
  <2> QED BY <2>5, <2>6, <2>7, <2>8, <2>9 DEF WireInv
<1> QED BY <1>2, <1>3

LEMMA WireStep ==
  FlightInv /\ WireInv /\ [Next]_vars => WireInv'
<1> SUFFICES ASSUME FlightInv, WireInv, [Next]_vars PROVE WireInv'
  OBVIOUS
<1>1. CASE Start
  <2>1. \A m \in wire : m.tx # made + 1 /\ m.tx \in Tx
    <3>1. \A m \in wire : m.tx \in Tx /\ phase[m.tx] # "none"
      BY WireOpen DEF Gone
    <3>2. made \in Nat
      BY DEF FlightInv, TypeOK
    <3> QED BY <3>1, <3>2 DEF FlightInv, ThreadsInv, Tx
  <2>2. \A m \in wire : fault'[m.tx] = fault[m.tx] /\ phase'[m.tx] = phase[m.tx]
    BY <1>1, <2>1 DEF Start, FlightInv, TypeOK
  <2>3. UNCHANGED << wire, sent, done, answer, l1 >>
    BY <1>1 DEF Start, taskVars, peerVars, ghostVars
  <2> QED BY <2>2, <2>3, WireKept DEF WireInv, Pending
<1>2. CASE Request \/ Disable \/ L1Protect \/ UNCHANGED vars
  <2>1. UNCHANGED << wire, sent, phase, done, fault, answer >>
    BY <1>2 DEF Request, Disable, L1Protect, vars, threadVars, peerVars, ghostVars
  <2>2. l1.at = "sent" => l1' = l1
    BY <1>2 DEF Request, Disable, L1Protect, vars, taskVars
  <2> QED BY <2>1, <2>2, WireKept DEF WireInv, Pending
<1>3. CASE L1Take
  <2>1. PICK t \in Tx :
          /\ Queued(t) /\ l1.at = "idle" /\ answer' \in {answer, [answer EXCEPT ![t] = "gone"]}
          /\ UNCHANGED << phase, done, fault, wire, sent >>
    BY <1>3, TakeIs DEF peerVars, ghostVars
  <2>2. \A m \in wire : m.tx \in Tx /\ Pending(m)'
    BY <2>1, WireOpen DEF WireInv, Pending, FlightInv, TypeOK
  <2> QED BY <2>1, <2>2, WireKept
<1>4. CASE L1Wake \/ L1Timeout \/ L1Receive
  <2>1. PICK t \in Tx :
          /\ InL1(t) /\ t = l1.tx
          /\ \E a \in {"matching", "other", "gone", "bad"} :
               /\ answer' = [answer EXCEPT ![t] = a]
               /\ (l1.at = "sent" /\ l1.reply # None) \/ a \in {"gone", "bad"}
          /\ UNCHANGED << phase, done, fault, wire, sent >>
    BY <1>4, L1Ends DEF peerVars
  <2>2. \A m \in wire : m.tx \in Tx /\ Pending(m)'
    BY <2>1, WireOpen DEF WireInv, Pending, FlightInv, TypeOK
  <2> QED BY <2>1, <2>2, WireKept
<1>5. ASSUME NEW m \in wire, Serve(m)
      PROVE  WireInv'
  <2>1. /\ wire' = wire \ {m}
        /\ UNCHANGED << phase, done, fault, answer, sent >>
    BY <1>5 DEF Serve, threadVars
  <2>2. l1.tx # m.tx => l1' = l1
    BY <1>5, ServeIs
  <2>3. \A q \in wire' : q \in wire /\ q.tx # m.tx
    BY <2>1 DEF WireInv
  <2> QED BY <2>1, <2>2, <2>3, WireKept DEF WireInv, Pending
<1> QED
  BY <1>1, <1>2, <1>3, <1>4, <1>5, WireThread, WireSend DEF Next, TaskStep

-----------------------------------------------------------------------------
(* What serving a request does to the peer's contexts.                     *)

\* The context of the transaction served, and of no other unless it goes.
LEMMA StoreIs ==
  ASSUME TypeOK, OrderInv, NEW t \in Tx, NEW d \in ContextSet, Store(t, d)
  PROVE  /\ mme'[t] = d /\ d # None
         /\ \A u \in Tx \ {t} : mme'[u] = mme[u] \/ mme'[u] = None
<1>1. /\ order \in Seq(Tx) /\ mme \in [Tx -> ContextSet \cup {None}] /\ d # None
  BY DEF TypeOK
<1>2. CASE mme[t] # None \/ ~Full(Len(Append(order, t)))
  BY <1>1, <1>2 DEF Store
<1>3. CASE mme[t] = None /\ Full(Len(Append(order, t)))
  <2> DEFINE h == Head(Append(order, t))
  <2>1. mme' = [mme EXCEPT ![t] = d, ![h] = None]
    BY <1>3 DEF Store
  <2>2. Len(order) >= 2 /\ h = order[1] /\ h \in Tx
    BY <1>1, <1>3 DEF Full
  <2>3. h # t
    BY <1>3, <2>2 DEF OrderInv
  <2> HIDE DEF h
  <2> QED BY <1>1, <2>1, <2>3
<1> QED BY <1>2, <1>3

\* commit adds the COUNT to those received.
LEMMA CommitReceived ==
  ASSUME NEW w \in Windows(NasWidth), NEW n \in Nat
  PROVE  Received(Commit(w, NasWidth, n)) \subseteq Received(w) \cup {n}
<1>1. CASE n > w.highest
  <2>1. Commit(w, NasWidth, n)
          = [highest |-> n, bits |-> {0} \cup Shifted(w, NasWidth, n - w.highest)]
    BY <1>1 DEF Commit
  <2>2. \A e \in Shifted(w, NasWidth, n - w.highest) :
          \E d \in w.bits : n - e = w.highest - d
    BY DEF Shifted, Windows, NasWidth
  <2> QED BY <2>1, <2>2 DEF Received
<1>2. CASE ~(n > w.highest)
  <2>1. Commit(w, NasWidth, n)
          = [highest |-> w.highest, bits |-> w.bits \cup { w.highest - n }]
    BY <1>2 DEF Commit, Windows
  <2> QED BY <2>1 DEF Received, Windows
<1> QED BY <1>1, <1>2

\* The check of a PDU changes nothing but the window, and that only for a PDU
\* it accepts.
LEMMA AfterVerifyIs ==
  ASSUME NEW c \in ContextSet, NEW m \in MessageSet
  PROVE  \/ AfterVerify(c, m) = c
         \/ /\ Verified(c, m) /\ c.nas \in PeerNasSet
            /\ AfterVerify(c, m) =
                 [c EXCEPT !.nas = [c.nas EXCEPT !.up = Commit(c.nas.up, NasWidth, m.pdu.count)]]
            /\ m.pdu \in PduSet
BY DEF AfterVerify, Verified, Opens, ContextSet, MessageSet

\* The window of the context decided on.
LEMMA DecidedWindow ==
  ASSUME NEW c \in ContextSet, NEW m \in MessageSet,
         Decided(c, m).nas # None, NEW n \in Received(Decided(c, m).nas.up)
  PROVE  \/ c.nas # None /\ n \in Received(c.nas.up)
         \/ Verified(c, m) /\ n = m.pdu.count
<1> DEFINE v == AfterVerify(c, m)
<1>1. v \in ContextSet
  BY AfterVerifyType
<1>2. ASSUME v.nas # None, n \in Received(v.nas.up)
      PROVE  \/ c.nas # None /\ n \in Received(c.nas.up)
             \/ Verified(c, m) /\ n = m.pdu.count
  <2>1. CASE v = c
    BY <1>2, <2>1
  <2>2. CASE v # c
    <3>1. /\ Verified(c, m) /\ c.nas \in PeerNasSet /\ m.pdu \in PduSet
          /\ v = [c EXCEPT !.nas = [c.nas EXCEPT !.up = Commit(c.nas.up, NasWidth, m.pdu.count)]]
      BY <2>2, AfterVerifyIs
    <3>2. v.nas.up = Commit(c.nas.up, NasWidth, m.pdu.count)
      BY <3>1 DEF ContextSet, PeerNasSet
    <3>3. Received(v.nas.up) \subseteq Received(c.nas.up) \cup {m.pdu.count}
      BY <3>1, <3>2, CommitReceived DEF PeerNasSet, PduSet
    <3> QED BY <1>2, <3>1, <3>3
  <2> QED BY <2>1, <2>2
<1>3. CASE Acceptable(c, m) /\ m.type = "authentication"
  <2>1. Decided(c, m) =
          [v EXCEPT !.auth = "AUTHENTICATED", !.sec = "COMMAND_SENT",
                    !.nas = [down |-> 1, up |-> EmptyWindow]]
    BY <1>3 DEF Decided, Granted
  <2>2. Decided(c, m).nas = [down |-> 1, up |-> EmptyWindow]
    BY <1>1, <2>1 DEF ContextSet
  <2> QED BY <2>2 DEF Received, EmptyWindow
<1>4. CASE Acceptable(c, m) /\ m.type = "security_mode"
  <2>1. v.nas # None /\ v.nas \in PeerNasSet
    BY <1>1, <1>4, AfterVerifyType DEF Acceptable, Protected, ContextSet
  <2>2. Decided(c, m) =
          [v EXCEPT !.sec = "ACTIVE", !.attach = "ACCEPTED", !.nas = [v.nas EXCEPT !.down = @ + 1]]
    BY <1>4 DEF Decided, Granted
  <2>3. Decided(c, m).nas = [v.nas EXCEPT !.down = @ + 1]
    BY <1>1, <2>2 DEF ContextSet
  <2>4. Decided(c, m).nas.up = v.nas.up
    BY <2>1, <2>3 DEF PeerNasSet
  <2> QED BY <1>2, <2>1, <2>4
<1>5. CASE Acceptable(c, m) /\ m.type \notin {"authentication", "security_mode"}
  <2>1. m.type \in StageNames
    BY <1>5 DEF Acceptable, MessageSet
  <2>2. Decided(c, m).nas = v.nas
    BY <1>1, <1>5, <2>1, StagesAre DEF Decided, Granted, ContextSet
  <2> QED BY <1>2, <2>2
<1>6. CASE ~Acceptable(c, m)
  <2>1. m.type \in StageNames => Rejected(v, m.type).nas = v.nas
    BY <1>1, StagesAre DEF Rejected, ContextSet
  <2>2. Decided(c, m).nas = v.nas
    BY <1>6, <2>1 DEF Decided, MessageSet
  <2> QED BY <1>2, <2>2
<1> QED BY <1>3, <1>4, <1>5, <1>6

LEMMA GenuineStep ==
  FlightInv /\ OrderInv /\ WireInv /\ OnlyGenuineCommitted /\ [Next]_vars
    => OnlyGenuineCommitted'
<1> SUFFICES ASSUME FlightInv, OrderInv, WireInv, OnlyGenuineCommitted, [Next]_vars
             PROVE  OnlyGenuineCommitted'
  OBVIOUS
<1>1. sent \subseteq sent'
  BY DEF Next, ThreadStep, TaskStep, vars, peerVars, ghostVars, Start, Request, Disable,
         Launch, BeginExchange, Advance, Fail, Expire, Abandon, Exit, Consume,
         L1Take, L1Protect, L1Send, L1Wake, L1Timeout, L1Receive, Serve
<1>2. CASE \A m \in wire : ~Serve(m)
  BY <1>1, <1>2, OnlyServeStores DEF OnlyGenuineCommitted
<1>3. ASSUME NEW m \in wire, Serve(m)
      PROVE  OnlyGenuineCommitted'
  <2> DEFINE c == Before(m.tx)
             d == Decided(c, m)
  <2>1. /\ m \in MessageSet /\ m.tx \in Tx /\ c \in ContextSet /\ d \in ContextSet
        /\ Store(m.tx, d)
    BY <1>3, ServeIs
  <2>2. mme'[m.tx] = d /\ \A u \in Tx \ {m.tx} : mme'[u] = mme[u] \/ mme'[u] = None
    BY <2>1, StoreIs DEF FlightInv
  <2>3. ASSUME d.nas # None, NEW n \in Received(d.nas.up)
        PROVE  \E p \in sent : p.tx = m.tx /\ p.count = n /\ p.genuine
    <3>1. CASE c.nas # None /\ n \in Received(c.nas.up)
      <4>1. mme[m.tx] # None /\ mme[m.tx] = c
        BY <3>1 DEF Before, NewContext
      <4> QED BY <2>1, <3>1, <4>1 DEF OnlyGenuineCommitted
    <3>2. CASE Verified(c, m) /\ n = m.pdu.count
      <4>1. m.pdu # None /\ m.pdu.tx = m.tx /\ m.pdu.genuine
        BY <3>2 DEF Verified, Opens
      <4>2. m.pdu \in sent
        BY <4>1 DEF WireInv
      <4> QED BY <3>2, <4>1, <4>2
    <3> QED BY <2>1, <2>3, <3>1, <3>2, DecidedWindow
  <2> HIDE DEF d, c
  <2> QED BY <1>1, <2>1, <2>2, <2>3 DEF OnlyGenuineCommitted
<1> QED BY <1>2, <1>3

\* Whatever is altered, repeated, late or sent for another transaction: what
\* the peer's window holds was sent by the UE in this transaction, and is as
\* it was sent.
THEOREM OnlyGenuineIsCommitted == Spec => []OnlyGenuineCommitted
<1> DEFINE Inv == FlightInv /\ OrderInv /\ WireInv /\ OnlyGenuineCommitted
<1>1. Init => Inv
  BY FlightInit DEF Init, OrderInv, WireInv, OnlyGenuineCommitted
<1>2. Inv /\ [Next]_vars => Inv'
  BY FlightStep, OrderStep, WireStep, GenuineStep
<1> QED BY <1>1, <1>2, PTL DEF Spec

-----------------------------------------------------------------------------
(* The COUNTs the UE uses.                                                 *)

\* The message of the exchange has not been protected yet.
Fresh(t) ==
  \/ phase[t] \in {"none", "starting", "aborted", "ready"}
  \/ Queued(t)
  \/ InL1(t) /\ l1.at = "protecting"

\* How many messages of t have been protected at most.
UpBound(t) ==
  IF done[t] <= 5 THEN 0 ELSE IF done[t] = 8 THEN 2
  ELSE IF Fresh(t) THEN done[t] - 6 ELSE done[t] - 5

\* No Security Mode Complete goes out with another COUNT than 0, and no Attach
\* Complete with one above 1, since each exchange protects one message.
CountsInv ==
  /\ \A t \in Tx : ueNas # None /\ ueNas.tx = t => ueNas.up <= UpBound(t)
  /\ l1.pdu # None => l1.pdu.count <= done[l1.tx] - 6
  /\ \A p \in sent :
       p.kind \in Protected /\ p.count <= IF p.kind = "security_mode" THEN 0 ELSE 1

\* The two exchanges with a protected message.
LEMMA ProtectedStages ==
  ASSUME NEW t \in Tx, done[t] \in 0..7
  PROVE  /\ StageOf(t) \in Protected <=> done[t] \in {6, 7}
         /\ StageOf(t) = "security_mode" <=> done[t] = 6
BY DEF StageOf, Stages, Protected

\* Steps that protect nothing and send nothing keep CountsInv.
LEMMA CountsKept ==
  ASSUME FlightInv, CountsInv, done' = done, sent' = sent,
         \/ ueNas' \in {ueNas, None}
         \/ \E t \in Tx : ueNas' # None /\ ueNas'.up = UeContext(t).up /\ ueNas'.tx = t,
         \A t \in Tx : Fresh(t)' => Fresh(t),
         l1'.pdu # None => l1'.pdu = l1.pdu /\ l1'.tx = l1.tx
  PROVE  CountsInv'
<1>0. \A t \in Tx : done[t] \in 0..8
  BY DEF FlightInv, TypeOK
<1>1. ASSUME NEW t \in Tx, NEW k \in Nat, k <= UpBound(t)
      PROVE  k <= UpBound(t)'
  <2>1. done'[t] = done[t] /\ done[t] \in 0..8 /\ (Fresh(t)' => Fresh(t))
    BY <1>0
  <2> QED BY <1>1, <2>1 DEF UpBound
<1>2. ASSUME NEW t \in Tx
      PROVE  UpBound(t) >= 0
  BY <1>0 DEF UpBound
<1>3. \A t \in Tx : UeContext(t).up \in Nat /\ UeContext(t).up <= UpBound(t)
  BY <1>2, UeContextType DEF CountsInv, UeContext, FlightInv, UeNasSet
<1>4. ueNas # None => ueNas.up \in Nat
  BY DEF FlightInv, TypeOK, UeNasSet
<1>5. ASSUME NEW t \in Tx, ueNas' # None, ueNas'.tx = t
      PROVE  ueNas'.up <= UpBound(t)'
  BY <1>1, <1>3, <1>4, <1>5 DEF CountsInv
<1> QED BY <1>5 DEF CountsInv

LEMMA CountsThread ==
  ASSUME FlightInv, CountsInv, NEW t \in Tx, ThreadStep(t)
  PROVE  CountsInv'
<1>1. /\ UNCHANGED << l1, sent >> /\ ueNas' \in {ueNas, None}
  BY DEF ThreadStep, Launch, BeginExchange, Advance, Fail, Expire, Abandon, Exit, Consume,
         taskVars, ghostVars
<1>2. CASE Advance(t)
  <2>1. /\ phase[t] = "waiting" /\ answer[t] = "good" /\ done' = [done EXCEPT ![t] = @ + 1]
        /\ phase' = [phase EXCEPT ![t] = IF done[t] + 1 = 8 THEN "attached" ELSE "ready"]
        /\ uplink' = uplink
    BY <1>2 DEF Advance, taskVars
  <2>2. done \in [Tx -> 0..8] /\ phase \in [Tx -> Phases] /\ done[t] \in 0..7
    BY <2>1, OpenDone DEF FlightInv, TypeOK, Gone
  <2>3. ~InL1(t)
    BY <2>1 DEF FlightInv, TasksInv
  <2>4. ASSUME NEW u \in Tx, NEW k \in Nat, k <= UpBound(u)
        PROVE  k <= UpBound(u)'
    <3>1. CASE u = t
      BY <2>1, <2>2, <2>4, <3>1 DEF UpBound, Fresh
    <3>2. CASE u # t
      BY <1>1, <2>1, <2>2, <2>4, <3>2 DEF UpBound, Fresh, Queued, InL1
    <3> QED BY <3>1, <3>2
  <2>5. ueNas' = ueNas /\ (ueNas # None => ueNas.up \in Nat /\ ueNas.tx \in Tx)
    BY <1>2 DEF Advance, FlightInv, TypeOK, UeNasSet
  <2>6. l1.pdu # None => l1.tx \in Tx \ {t}
    BY <2>3 DEF FlightInv, TasksInv, PduInv, InL1
  <2> QED BY <1>1, <2>1, <2>2, <2>4, <2>5, <2>6 DEF CountsInv
<1>3. CASE ~Advance(t)
  <2>1. done' = done
    BY <1>3 DEF ThreadStep, Launch, BeginExchange, Fail, Expire, Abandon, Exit, Consume, threadVars
  <2>2. ASSUME NEW u \in Tx, Fresh(u)'
        PROVE  Fresh(u)
    <3>1. CASE BeginExchange(t)
      <4>1. /\ phase[t] = "ready" /\ uplink \in Seq(Tx) /\ uplink' = Append(uplink, t)
            /\ \A w \in Tx \ {t} : phase'[w] = phase[w]
        BY <3>1 DEF BeginExchange, FlightInv, TypeOK
      <4>2. Queued(u)' => Queued(u) \/ u = t
        BY <4>1 DEF Queued
      <4> QED BY <1>1, <2>2, <4>1, <4>2 DEF Fresh, InL1
    <3>2. CASE ~BeginExchange(t)
      <4>1. /\ uplink' = uplink
            /\ \A w \in Tx : \/ phase'[w] = phase[w] \/ phase[w] = "starting"
                             \/ phase'[w] \in {"failed", "cancelled"}
        BY <1>3, <3>2 DEF ThreadStep, Launch, Fail, Expire, Abandon, Exit, Consume,
                          FlightInv, TypeOK, threadVars, taskVars
      <4> QED BY <1>1, <2>2, <4>1 DEF Fresh, InL1, Queued
    <3> QED BY <3>1, <3>2
  <2> QED BY <1>1, <2>1, <2>2, CountsKept
<1> QED BY <1>2, <1>3

LEMMA CountsProtect ==
  ASSUME FlightInv, CountsInv, L1Protect
  PROVE  CountsInv'
<1> PICK t \in Tx : t = l1.tx
  BY DEF FlightInv, TasksInv, L1Protect
<1>1. /\ l1.at = "protecting" /\ l1'.at = "sending" /\ l1'.tx = t /\ l1'.pdu = UplinkPdu(t)
      /\ ueNas' = [UeContext(t) EXCEPT !.up = @ + 1]
      /\ UNCHANGED << phase, done, uplink, sent >>
  BY DEF L1Protect, FlightInv, TypeOK, threadVars, ghostVars
<1>2. InL1(t) /\ Fresh(t) /\ done[t] \in {6, 7}
  <2>1. InL1(t) /\ StageOf(t) \in Protected
    BY <1>1 DEF InL1, FlightInv, PduInv
  <2>2. done[t] \in 0..7
    BY <2>1, OpenDone DEF FlightInv, TasksInv
  <2> QED BY <1>1, <2>1, <2>2, ProtectedStages DEF Fresh
<1>3. UeContext(t).up \in Nat /\ UeContext(t).up <= done[t] - 6 /\ UeContext(t) \in UeNasSet
  BY <1>2, UeContextType DEF CountsInv, UpBound, UeContext, FlightInv, UeNasSet
<1>4. ~Fresh(t)'
  <2>1. ~Queued(t) /\ phase[t] \in Gone
    BY <1>2 DEF FlightInv, TasksInv, InL1
  <2> QED BY <1>1, <2>1 DEF Fresh, Queued, InL1, Gone
<1>5. ueNas'.tx = t /\ ueNas'.up = UeContext(t).up + 1
  BY <1>1, <1>3, UeContextType DEF FlightInv, UeNasSet
<1>6. UpBound(t)' = done[t] - 5
  BY <1>1, <1>2, <1>4 DEF UpBound
<1>7. UplinkPdu(t).count <= done[t] - 6
  BY <1>3 DEF UplinkPdu
<1> QED BY <1>1, <1>2, <1>3, <1>5, <1>6, <1>7 DEF CountsInv

LEMMA CountsSend ==
  ASSUME FlightInv, CountsInv, L1Send
  PROVE  CountsInv'
<1> PICK t \in Tx : t = l1.tx /\ InL1(t) /\ l1.at = "sending"
  BY DEF L1Send, FlightInv, TasksInv, InL1
<1> PICK m : m = Message(t, l1.pdu)
  OBVIOUS
<1>1. /\ UNCHANGED << phase, done, uplink, ueNas >>
      /\ sent' = sent \/ (m.pdu # None /\ sent' = sent \cup {m.pdu})
      /\ \/ l1' = IdleL1
         \/ l1'.pdu = l1.pdu /\ l1'.tx = t /\ l1'.at # "protecting"
  BY DEF L1Send, FlightInv, TypeOK
<1>2. \A u \in Tx : Fresh(u)' => Fresh(u)
  BY <1>1 DEF Fresh, InL1, Queued, IdleL1
<1>3. m.pdu # None => /\ m.pdu.kind \in Protected
                      /\ m.pdu.count <= IF m.pdu.kind = "security_mode" THEN 0 ELSE 1
  <2> SUFFICES ASSUME m.pdu # None
               PROVE  /\ m.pdu.kind \in Protected
                      /\ m.pdu.count <= IF m.pdu.kind = "security_mode" THEN 0 ELSE 1
    OBVIOUS
  <2>1. done[t] \in 0..7
    BY OpenDone DEF FlightInv, TasksInv
  <2>2. StageOf(t) \in Protected /\ l1.pdu \in PduSet /\ l1.pdu.kind = StageOf(t)
    <3>1. Hit(t, "tampered") => StageOf(t) \in Protected
      <4>1. fault[t] \in PossibleFaults
        BY DEF FlightInv, TypeOK
      <4> QED BY <4>1 DEF Hit, PossibleFaults, NoFault
    <3>2. l1.pdu # None \/ Hit(t, "tampered")
      BY DEF Message
    <3> QED BY <3>1, <3>2 DEF FlightInv, PduInv
  <2>3. m.pdu.kind = l1.pdu.kind /\ m.pdu.count = l1.pdu.count
    BY <2>2 DEF Message, PduSet
  <2>4. l1.pdu.count <= done[t] - 6 /\ l1.pdu.count \in Nat
    BY <2>2 DEF CountsInv, PduSet
  <2> QED BY <2>1, <2>2, <2>3, <2>4, ProtectedStages
<1>4. CASE sent' = sent
  BY <1>1, <1>2, <1>4, CountsKept DEF IdleL1
<1>5. CASE sent' # sent
  <2>1. ASSUME NEW k \in Nat, NEW u \in Tx, k <= UpBound(u)
        PROVE  k <= UpBound(u)'
    <3>1. done'[u] = done[u] /\ done[u] \in 0..8 /\ (Fresh(u)' => Fresh(u))
      BY <1>1, <1>2 DEF FlightInv, TypeOK
    <3> QED BY <2>1, <3>1 DEF UpBound
  <2>2. ueNas # None => ueNas.up \in Nat
    BY DEF FlightInv, TypeOK, UeNasSet
  <2> QED BY <1>1, <1>3, <1>5, <2>1, <2>2 DEF CountsInv, IdleL1
<1> QED BY <1>4, <1>5

\* Reading a response changes no uplink COUNT.
LEMMA ReceiveKeeps ==
  ASSUME FlightInv, L1Receive
  PROVE  \/ ueNas' = ueNas
         \/ ueNas' # None /\ ueNas'.tx = l1.tx /\ ueNas'.up = UeContext(l1.tx).up
<1> DEFINE c == UeContext(l1.tx)
           p == l1.reply.pdu
<1>1. c \in UeNasSet /\ c.tx = l1.tx /\ l1.reply \in ResponseSet
  BY UeContextType DEF L1Receive, FlightInv, TypeOK, TasksInv
<1>2. \/ ueNas' = ueNas \/ ueNas' = c
      \/ /\ ueNas' = [c EXCEPT !.down = Commit(@, NasWidth, p.count)]
         /\ Opens(c.down, p, l1.tx, "down", l1.reply.type)
  BY DEF L1Receive
<1>3. ASSUME NEW w \in Windows(NasWidth)
      PROVE  /\ [c EXCEPT !.down = w] \in UeNasSet
             /\ [c EXCEPT !.down = w].tx = c.tx /\ [c EXCEPT !.down = w].up = c.up
  BY <1>1 DEF UeNasSet
<1>4. c = UeContext(l1.tx)
  OBVIOUS
<1>5. CASE Opens(c.down, p, l1.tx, "down", l1.reply.type)
  <2>1. p \in PduSet /\ ~Rejects(c.down, NasWidth, p.count)
    BY <1>1, <1>5 DEF Opens, ResponseSet
  <2>2. Commit(c.down, NasWidth, p.count) \in Windows(NasWidth)
    BY <1>1, <2>1, NasCommitType DEF UeNasSet, PduSet
  <2> DEFINE w == Commit(c.down, NasWidth, p.count)
             d == [c EXCEPT !.down = w]
  <2>3. d \in UeNasSet /\ d.tx = c.tx /\ d.up = c.up
    BY <1>3, <2>2
  <2>4. ueNas' = ueNas \/ ueNas' = c \/ ueNas' = d
    BY <1>2
  <2> HIDE DEF c, d
  <2>5. c # None /\ d # None
    BY <1>1, <2>3, NoneAssumption
  <2> QED BY <1>4, <1>1, <2>3, <2>4, <2>5
<1>6. CASE ~Opens(c.down, p, l1.tx, "down", l1.reply.type)
  <2>1. ueNas' = ueNas \/ ueNas' = c
    BY <1>2, <1>6
  <2> HIDE DEF c
  <2>2. c # None
    BY <1>1, NoneAssumption
  <2> QED BY <1>4, <1>1, <2>1, <2>2
<1> QED BY <1>5, <1>6

LEMMA CountsStep ==
  FlightInv /\ CountsInv /\ [Next]_vars => CountsInv'
<1> SUFFICES ASSUME FlightInv, CountsInv, [Next]_vars PROVE CountsInv'
  OBVIOUS
<1>1. CASE Start
  <2>1. UNCHANGED << done, sent, ueNas, l1, uplink >>
    BY <1>1 DEF Start, taskVars, ghostVars
  <2>2. \A u \in Tx : phase'[u] = phase[u] \/ phase[u] = "none"
    BY <1>1 DEF Start, FlightInv, TypeOK, ThreadsInv, Tx
  <2>3. \A u \in Tx : Fresh(u)' => Fresh(u)
    BY <2>1, <2>2 DEF Fresh, Queued, InL1
  <2> QED BY <2>1, <2>3, CountsKept
<1>2. CASE Request \/ Disable \/ UNCHANGED vars
  <2>1. UNCHANGED << phase, done, sent, l1, uplink >> /\ ueNas' \in {ueNas, None}
    BY <1>2 DEF Request, Disable, vars, threadVars, taskVars, ghostVars
  <2> QED BY <2>1, CountsKept DEF Fresh, Queued, InL1
<1>3. CASE L1Take
  <2>1. PICK t \in Tx :
          /\ Queued(t) /\ l1.at = "idle"
          /\ UNCHANGED << phase, done, ueNas, sent >>
          /\ \A u \in Tx : Queued(u)' => Queued(u)
          /\ l1' = l1 \/ l1'.tx = t
    BY <1>3, TakeIs DEF ghostVars
  <2>2. l1'.pdu = None
    <3>1. l1.pdu = None
      BY <2>1 DEF FlightInv, PduInv
    <3> QED BY <1>3, <3>1 DEF L1Take, IdleL1
  <2>3. \A u \in Tx : Fresh(u)' => Fresh(u)
    BY <2>1 DEF Fresh, InL1
  <2> QED BY <2>1, <2>2, <2>3, CountsKept
<1>4. CASE L1Wake \/ L1Timeout
  <2>1. UNCHANGED << phase, done, sent, uplink, ueNas >> /\ l1' = IdleL1
    BY <1>4 DEF L1Wake, L1Timeout, ghostVars
  <2> QED BY <2>1, CountsKept DEF Fresh, Queued, InL1, IdleL1
<1>5. CASE L1Receive
  <2> PICK t \in Tx : t = l1.tx
    BY <1>5 DEF L1Receive, FlightInv, TasksInv
  <2>1. UNCHANGED << phase, done, sent, uplink >> /\ l1' = IdleL1
    BY <1>5 DEF L1Receive, ghostVars
  <2>2. \/ ueNas' = ueNas
        \/ ueNas' # None /\ ueNas'.tx = t /\ ueNas'.up = UeContext(t).up
    BY <1>5, ReceiveKeeps
  <2> QED BY <2>1, <2>2, CountsKept DEF Fresh, Queued, InL1, IdleL1
<1>6. ASSUME NEW m \in wire, Serve(m)
      PROVE  CountsInv'
  <2>1. UNCHANGED << phase, done, sent, uplink, ueNas >>
    BY <1>6 DEF Serve, threadVars
  <2>2. l1'.at = l1.at /\ l1'.tx = l1.tx /\ l1'.pdu = l1.pdu
    BY <1>6, ServeIs DEF FlightInv, TypeOK
  <2> QED BY <2>1, <2>2, CountsKept DEF Fresh, Queued, InL1
<1> QED
  BY <1>1, <1>2, <1>3, <1>4, <1>5, <1>6, CountsThread, CountsProtect, CountsSend
  DEF Next, TaskStep

-----------------------------------------------------------------------------
(* UE and peer in lockstep.                                                *)

First(n) == { Stages[i] : i \in 1..n }
Types(t) == { accepted[t][i] : i \in 1..Len(accepted[t]) }

\* The context of a peer that has accepted the first n messages and no other.
InOrder(c, n) ==
  /\ c.cell = IF n >= 1 THEN "CAMPED" ELSE "IDLE"
  /\ c.ra = IF n >= 2 THEN "COMPLETE" ELSE "IDLE"
  /\ c.rrc = IF n >= 4 THEN "CONNECTED" ELSE IF n = 3 THEN "SETUP_SENT" ELSE "IDLE"
  /\ c.attach = IF n = 8 THEN "ATTACHED" ELSE IF n = 7 THEN "ACCEPTED"
                ELSE IF n >= 5 THEN "ATTACHING" ELSE "IDLE"
  /\ c.auth = IF n >= 6 THEN "AUTHENTICATED" ELSE IF n = 5 THEN "CHALLENGE_SENT" ELSE "IDLE"
  /\ c.sec = IF n >= 7 THEN "ACTIVE" ELSE IF n = 6 THEN "COMMAND_SENT" ELSE "IDLE"
  /\ c.nas # None <=> n >= 6
  /\ n >= 6 => c.nas.down = IF n = 6 THEN 1 ELSE 2

\* Its window when it has accepted n messages, two of which may be protected.
UpWindow(n) ==
  IF n = 6 THEN EmptyWindow
  ELSE IF n = 7 THEN [highest |-> 0, bits |-> {0}] ELSE [highest |-> 1, bits |-> {0, 1}]

InStep(c, n) == InOrder(c, n) /\ (n >= 6 => c.nas.up = UpWindow(n))

Agrees(t, n) == Types(t) = First(n) /\ (mme[t] = None \/ InStep(mme[t], n))

\* The message of the exchange has not reached the peer yet.
Unserved(t) ==
  \/ phase[t] \in {"none", "starting", "aborted", "ready", "attached"}
  \/ Queued(t)
  \/ InL1(t) /\ l1.reply = None
  \/ \E m \in wire : m.tx = t

\* The peer has accepted it, and no fault it can see has hit it.
Passed(t) ==
  /\ done[t] < 8 /\ Agrees(t, done[t] + 1)
  /\ fault[t].stage = StageOf(t) => fault[t].what \in PrimitiveFaults

\* Before the peer sees a message it is where the UE is; when the UE has the
\* right answer in its hands it is one exchange ahead, and no fault was met.
ExchangeOk(t) ==
  /\ \A i \in 1..done[t] : fault[t].stage # Stages[i]
  /\ Types(t) = First(done[t]) \/ (done[t] < 8 /\ Types(t) = First(done[t] + 1))
  /\ Unserved(t) => Agrees(t, done[t])
  /\ InL1(t) /\ l1.reply # None /\ Matches(t, l1.reply) => Passed(t)
  /\ answer[t] = "matching" => Passed(t)
  /\ answer[t] = "good" /\ phase[t] = "waiting" =>
       Passed(t) /\ fault[t].stage # StageOf(t)

ExchangeInv == \A t \in Tx : ExchangeOk(t)

\* A context in which the peer has accepted n messages accepts no message but
\* one of these and the next.
LEMMA ReadyInOrder ==
  ASSUME NEW c, NEW n \in 0..7, InOrder(c, n), NEW j \in 1..8, Ready(c, Stages[j])
  PROVE  j <= n + 1
<1>1. CASE j = 1
  BY <1>1
<1>2. CASE j = 2
  BY <1>2 DEF InOrder, Ready, Stages
<1>3. CASE j = 3
  BY <1>3 DEF InOrder, Ready, Stages
<1>4. CASE j = 4
  BY <1>4 DEF InOrder, Ready, Stages
<1>5. CASE j = 5
  BY <1>5 DEF InOrder, Ready, Stages
<1>6. CASE j = 6
  BY <1>6 DEF InOrder, Ready, Stages
<1>7. CASE j = 7
  BY <1>7 DEF InOrder, Ready, Stages
<1>8. CASE j = 8
  BY <1>8 DEF InOrder, Ready, Stages
<1> QED BY <1>1, <1>2, <1>3, <1>4, <1>5, <1>6, <1>7, <1>8

\* The next message takes it one step on.
LEMMA GrantedInOrder ==
  ASSUME NEW c \in ContextSet, NEW n \in 0..7, InOrder(c, n)
  PROVE  InOrder(Granted(c, Stages[n + 1]), n + 1)
<1>1. CASE n = 5
  <2>1. Granted(c, Stages[n + 1])
          = [c EXCEPT !.auth = "AUTHENTICATED", !.sec = "COMMAND_SENT",
                      !.nas = [down |-> 1, up |-> EmptyWindow]]
    BY <1>1 DEF Granted, Stages
  <2>2. [down |-> 1, up |-> EmptyWindow] \in PeerNasSet
    BY EmptyWindowType DEF PeerNasSet
  <2> QED BY <1>1, <2>1, <2>2 DEF InOrder, ContextSet
<1>2. CASE n = 6
  <2> DEFINE w == [c.nas EXCEPT !.down = @ + 1]
  <2>1. Granted(c, Stages[n + 1]) = [c EXCEPT !.sec = "ACTIVE", !.attach = "ACCEPTED", !.nas = w]
    BY <1>2 DEF Granted, Stages
  <2>2. c.nas \in PeerNasSet /\ c.nas.down = 1
    BY <1>2 DEF InOrder, ContextSet
  <2>3. w \in PeerNasSet /\ w.down = 2
    BY <2>2 DEF PeerNasSet
  <2> HIDE DEF w
  <2> QED BY <1>2, <2>1, <2>3 DEF InOrder, ContextSet
<1>3. CASE n \in {0, 1, 2, 3, 4, 7}
  BY <1>3 DEF Granted, Stages, InOrder, ContextSet
<1> QED BY <1>1, <1>2, <1>3

\* The check of a PDU leaves the order as it is.
LEMMA AfterVerifyInOrder ==
  ASSUME NEW c \in ContextSet, NEW m \in MessageSet, NEW n \in 0..8, InOrder(c, n)
  PROVE  InOrder(AfterVerify(c, m), n)
<1>1. CASE AfterVerify(c, m) # c
  <2> DEFINE w == [c.nas EXCEPT !.up = Commit(c.nas.up, NasWidth, m.pdu.count)]
  <2>1. c.nas \in PeerNasSet /\ AfterVerify(c, m) = [c EXCEPT !.nas = w]
    BY <1>1, AfterVerifyIs
  <2>2. w.down = c.nas.down
    BY <2>1 DEF PeerNasSet
  <2>3. /\ AfterVerify(c, m).nas = w /\ AfterVerify(c, m).cell = c.cell
        /\ AfterVerify(c, m).ra = c.ra /\ AfterVerify(c, m).rrc = c.rrc
        /\ AfterVerify(c, m).attach = c.attach /\ AfterVerify(c, m).auth = c.auth
        /\ AfterVerify(c, m).sec = c.sec
    BY <2>1 DEF ContextSet
  <2>4. c.nas # None /\ AfterVerify(c, m).nas # None
    BY <2>1, AfterVerifyType, <1>1 DEF AfterVerify
  <2> HIDE DEF w
  <2> QED BY <2>2, <2>3, <2>4 DEF InOrder
<1> QED BY <1>1

\* The windows after a PDU with the next COUNT.
LEMMA NextWindows ==
  /\ Commit(UpWindow(6), NasWidth, 0) = UpWindow(7)
  /\ Commit(UpWindow(7), NasWidth, 1) = UpWindow(8)
<1>1. Shifted(EmptyWindow, NasWidth, 1) = {}
  BY DEF Shifted, EmptyWindow
<1>2. Shifted(UpWindow(7), NasWidth, 1) = {1}
  BY DEF Shifted, UpWindow, NasWidth
<1> QED BY <1>1, <1>2 DEF Commit, UpWindow, EmptyWindow

\* The next message leaves the window of the next step: the COUNTs left to a
\* Security Mode Complete and an Attach Complete that is new are 0 and 1.
LEMMA GrantedWindow ==
  ASSUME WireInv, CountsInv, NEW m \in wire, m \in MessageSet, NEW c \in ContextSet,
         NEW n \in 5..7, InStep(c, n), Acceptable(c, m), m.type = Stages[n + 1]
  PROVE  Decided(c, m).nas.up = UpWindow(n + 1)
<1> DEFINE v == AfterVerify(c, m)
<1>1. v \in ContextSet /\ Decided(c, m) = Granted(v, m.type)
  BY AfterVerifyType DEF Decided
<1>2. CASE n = 5
  <2>1. m.type = "authentication"
    BY <1>2 DEF Stages
  <2>2. Decided(c, m) =
          [v EXCEPT !.auth = "AUTHENTICATED", !.sec = "COMMAND_SENT",
                    !.nas = [down |-> 1, up |-> EmptyWindow]]
    BY <1>1, <2>1 DEF Granted
  <2>3. Decided(c, m).nas = [down |-> 1, up |-> EmptyWindow]
    BY <1>1, <2>2 DEF ContextSet
  <2> QED BY <1>2, <2>3 DEF UpWindow
<1>3. CASE n \in {6, 7}
  <2>1. m.type = (IF n = 6 THEN "security_mode" ELSE "attach_complete") /\ m.type \in Protected
    BY <1>3 DEF Stages, Protected
  <2>2. Verified(c, m) /\ m.pdu.kind = m.type /\ m.pdu.genuine /\ m.pdu # None
        /\ ~Rejects(c.nas.up, NasWidth, m.pdu.count)
    BY <2>1 DEF Acceptable, Verified, Opens
  <2>3. m.pdu \in sent /\ m.pdu \in PduSet
    BY <2>2 DEF WireInv, MessageSet
  <2>4. m.pdu.count \in Nat /\ m.pdu.count <= n - 6
    BY <1>3, <2>1, <2>2, <2>3 DEF CountsInv, PduSet
  <2>5. m.pdu.count = n - 6
    <3>1. n = 7 => ~Rejects(UpWindow(7), NasWidth, m.pdu.count)
      BY <2>2 DEF InStep
    <3>2. Rejects(UpWindow(7), NasWidth, 0)
      BY DEF Rejects, UpWindow, NasWidth
    <3> QED BY <1>3, <2>4, <3>1, <3>2
  <2>6. c.nas \in PeerNasSet /\ c.nas.up = UpWindow(n)
    BY <1>3, <2>2 DEF InStep, Verified, ContextSet
  <2>7. v = [c EXCEPT !.nas = [c.nas EXCEPT !.up = UpWindow(n + 1)]]
    <3>1. v = [c EXCEPT !.nas = [c.nas EXCEPT !.up = Commit(@, NasWidth, m.pdu.count)]]
      BY <2>1, <2>2 DEF AfterVerify
    <3> QED BY <1>3, <2>5, <2>6, <3>1, NextWindows
  <2>8. v.nas \in PeerNasSet /\ v.nas.up = UpWindow(n + 1)
    <3>1. v.nas = [c.nas EXCEPT !.up = UpWindow(n + 1)]
      BY <2>7 DEF ContextSet
    <3>2. v.nas.up = UpWindow(n + 1)
      BY <2>6, <3>1 DEF PeerNasSet
    <3>3. UpWindow(n + 1) \in Windows(NasWidth)
      BY <1>3 DEF UpWindow, Windows, NasWidth
    <3> QED BY <2>6, <3>1, <3>2, <3>3 DEF PeerNasSet
  <2>9. Decided(c, m).nas.up = v.nas.up
    <3>1. CASE n = 6
      <4>1. Decided(c, m) =
              [v EXCEPT !.sec = "ACTIVE", !.attach = "ACCEPTED",
                        !.nas = [v.nas EXCEPT !.down = @ + 1]]
        BY <1>1, <2>1, <3>1 DEF Granted
      <4>2. Decided(c, m).nas = [v.nas EXCEPT !.down = @ + 1]
        BY <1>1, <4>1 DEF ContextSet
      <4> QED BY <2>8, <4>2 DEF PeerNasSet
    <3>2. CASE n = 7
      BY <1>1, <2>1, <3>2 DEF Granted, ContextSet
    <3> QED BY <1>3, <3>1, <3>2
  <2> QED BY <2>8, <2>9
<1> QED BY <1>2, <1>3

\* The values in a sequence.
Elements(s) == { s[i] : i \in 1..Len(s) }

\* What a sequence contains once something is appended.
LEMMA AppendRange ==
  ASSUME NEW s \in Seq(StageNames), NEW x
  PROVE  Elements(Append(s, x)) = Elements(s) \cup {x}
<1>1. Len(Append(s, x)) = Len(s) + 1 /\ Len(s) \in Nat
  OBVIOUS
<1>2. Append(s, x)[Len(s) + 1] = x /\ \A i \in 1..Len(s) : Append(s, x)[i] = s[i]
  OBVIOUS
<1> QED BY <1>1, <1>2 DEF Elements

\* Serving the message of an exchange the peer has not seen yet.
LEMMA ServeNext ==
  ASSUME FlightInv, OrderInv, WireInv, CountsInv, NEW m \in wire, Serve(m), NEW n \in 0..7, Agrees(m.tx, n)
  PROVE  /\ Types(m.tx)' \in {First(n), First(n + 1)}
         /\ Acceptable(Before(m.tx), m) /\ m.type = Stages[n + 1] => Agrees(m.tx, n + 1)'
<1> DEFINE c == Before(m.tx)
<1> PICK t \in Tx : t = m.tx
  BY ServeIs
<1>1. /\ c \in ContextSet /\ m \in MessageSet
      /\ Store(t, Decided(c, m)) /\ Decided(c, m) \in ContextSet
  BY ServeIs
<1>2. InStep(c, n) \/ InStep(c, 0)
  BY DEF Agrees, Before, InStep, InOrder, NewContext
<1>3. Acceptable(c, m) => \E j \in 1..(n + 1) : m.type = Stages[j]
  <2> SUFFICES ASSUME Acceptable(c, m) PROVE \E j \in 1..(n + 1) : m.type = Stages[j]
    OBVIOUS
  <2>1. m.type \in StageNames
    BY <1>1 DEF Acceptable, MessageSet
  <2>2. PICK j \in 1..8 : m.type = Stages[j]
    BY <2>1 DEF StageNames
  <2>3. Ready(c, Stages[j])
    BY <2>2 DEF Acceptable
  <2>4. j <= n + 1
    BY <1>2, <2>3, ReadyInOrder DEF InStep
  <2> QED BY <2>2, <2>4
<1>4. Types(t)' = IF Acceptable(c, m) THEN Types(t) \cup {m.type} ELSE Types(t)
  <2>1. accepted \in [Tx -> Seq(StageNames)]
    BY DEF FlightInv, TypeOK
  <2>2. Acceptable(c, m) => accepted'[t] = Append(accepted[t], m.type)
    BY <2>1, ServeIs
  <2>3. ~Acceptable(c, m) => accepted'[t] = accepted[t]
    BY <2>1, ServeIs
  <2>4. accepted[t] \in Seq(StageNames)
    BY <2>1
  <2>5. Acceptable(c, m) => Types(t)' = Types(t) \cup {m.type}
    <3> PICK s \in Seq(StageNames) : s = accepted[t]
      BY <2>4
    <3> PICK x : x = m.type
      OBVIOUS
    <3>1. Elements(Append(s, x)) = Elements(s) \cup {x}
      BY AppendRange
    <3>2. Types(t) = Elements(s)
      BY DEF Types, Elements
    <3>3. accepted'[t] = Append(s, x) => Types(t)' = Elements(Append(s, x))
      BY DEF Types, Elements
    <3> QED BY <2>2, <3>1, <3>2, <3>3
  <2>6. ~Acceptable(c, m) => Types(t)' = Types(t)
    BY <2>3 DEF Types
  <2> QED BY <2>5, <2>6
<1>5. Types(t) = First(n)
  BY DEF Agrees
<1>6. Types(t)' \in {First(n), First(n + 1)}
  BY <1>3, <1>4, <1>5 DEF First
<1>7. ASSUME Acceptable(c, m), m.type = Stages[n + 1]
      PROVE  Agrees(t, n + 1)'
  <2>1. Types(t)' = First(n + 1)
    BY <1>4, <1>5, <1>7 DEF First
  <2>2. InStep(c, n)
    BY <1>2, <1>7, ReadyInOrder DEF Acceptable, InStep
  <2>3. InStep(Decided(c, m), n + 1)
    <3>1. AfterVerify(c, m) \in ContextSet /\ InOrder(AfterVerify(c, m), n)
      BY <1>1, <2>2, AfterVerifyType, AfterVerifyInOrder DEF InStep
    <3>2. InOrder(Decided(c, m), n + 1)
      BY <1>7, <3>1, GrantedInOrder DEF Decided
    <3>3. n \in 5..7 => Decided(c, m).nas.up = UpWindow(n + 1)
      BY <1>1, <1>7, <2>2, GrantedWindow
    <3> QED BY <3>2, <3>3 DEF InStep
  <2>4. mme'[t] = Decided(c, m)
    BY <1>1, StoreIs DEF FlightInv
  <2> HIDE DEF c
  <2> QED BY <2>1, <2>3, <2>4 DEF Agrees
<1> QED BY <1>6, <1>7

\* Steps that bring an exchange no further, and no new message of it into the
\* tasks, leave ExchangeOk alone.
LEMMA ExchangeKept ==
  ASSUME NEW t \in Tx, ExchangeOk(t),
         done'[t] = done[t], fault'[t] = fault[t], accepted'[t] = accepted[t],
         mme'[t] = mme[t] \/ mme'[t] = None,
         Unserved(t)' => Unserved(t),
         InL1(t)' /\ l1'.reply # None => l1' = l1,
         \/ answer'[t] = answer[t] /\ (phase'[t] = "waiting" => phase[t] = "waiting")
         \/ answer'[t] \notin {"matching", "good"}
  PROVE  ExchangeOk(t)'
<1>1. StageOf(t)' = StageOf(t) /\ Types(t)' = Types(t)
  BY DEF StageOf, Types
<1>2. \A n : Agrees(t, n) => Agrees(t, n)'
  BY <1>1 DEF Agrees
<1>3. Passed(t) => Passed(t)'
  BY <1>1, <1>2 DEF Passed
<1>4. InL1(t)' /\ l1'.reply # None => InL1(t) /\ l1.reply # None
  BY DEF InL1
<1>5. Matches(t, l1.reply)' /\ l1' = l1 => Matches(t, l1.reply)
  BY <1>1 DEF Matches
<1> QED BY <1>1, <1>2, <1>3, <1>4, <1>5 DEF ExchangeOk

LEMMA ExchangeStart ==
  ASSUME FlightInv, ExchangeInv, Start
  PROVE  ExchangeInv'
<1> PICK n \in Tx : n = made + 1
  BY DEF Start, FlightInv, TypeOK, Tx
<1>1. /\ phase[n] = "none" /\ phase'[n] = "starting" /\ done[n] = 0 /\ answer[n] = "none"
      /\ \A u \in Tx \ {n} : phase'[u] = phase[u] /\ fault'[u] = fault[u]
      /\ UNCHANGED << done, answer, uplink, l1, wire, mme, accepted >>
  BY DEF Start, FlightInv, TypeOK, ThreadsInv, Tx, taskVars, peerVars, ghostVars
<1>2. ASSUME NEW u \in Tx, u # n
      PROVE  ExchangeOk(u)'
  BY <1>1, <1>2, ExchangeKept DEF ExchangeInv, Unserved, Queued, InL1
<1>3. ExchangeOk(n)'
  <2>1. Types(n) = First(0) /\ (mme[n] = None \/ InStep(mme[n], 0))
    BY <1>1 DEF ExchangeInv, ExchangeOk, Unserved, Agrees
  <2>2. Types(n)' = First(0) /\ Agrees(n, 0)'
    BY <1>1, <2>1 DEF Agrees, Types
  <2>3. ~InL1(n)'
    BY <1>1 DEF FlightInv, TasksInv, InL1, Gone
  <2> QED BY <1>1, <2>2, <2>3 DEF ExchangeOk
<1> QED BY <1>2, <1>3 DEF ExchangeInv

LEMMA ExchangeAdvance ==
  ASSUME FlightInv, ExchangeInv, NEW t \in Tx, Advance(t)
  PROVE  ExchangeInv'
<1>1. /\ phase[t] = "waiting" /\ answer[t] = "good" /\ done'[t] = done[t] + 1
      /\ phase'[t] \in {"ready", "attached"} /\ done[t] \in 0..7
      /\ \A u \in Tx \ {t} : done'[u] = done[u] /\ phase'[u] = phase[u]
      /\ UNCHANGED << fault, answer, uplink, l1, wire, mme, accepted >>
  BY OpenDone DEF Advance, FlightInv, TypeOK, Gone, taskVars, peerVars, ghostVars
<1>2. ASSUME NEW u \in Tx, u # t
      PROVE  ExchangeOk(u)'
  BY <1>1, <1>2, ExchangeKept DEF ExchangeInv, Unserved, Queued, InL1
<1>3. ExchangeOk(t)'
  <2> PICK k \in 1..8 : k = done[t] + 1
    BY <1>1
  <2>1. Agrees(t, k) /\ fault[t].stage # StageOf(t)
    BY <1>1 DEF ExchangeInv, ExchangeOk, Passed
  <2>2. Agrees(t, k)' /\ Types(t)' = First(k) /\ done'[t] = k
    BY <1>1, <2>1 DEF Agrees, Types
  <2>3. \A i \in 1..done'[t] : fault'[t].stage # Stages[i]
    BY <1>1, <2>1 DEF ExchangeInv, ExchangeOk, StageOf
  <2>4. ~InL1(t)'
    BY <1>1 DEF FlightInv, TasksInv, InL1
  <2> QED BY <1>1, <2>2, <2>3, <2>4 DEF ExchangeOk, Agrees
<1> QED BY <1>2, <1>3 DEF ExchangeInv

LEMMA ExchangeConsume ==
  ASSUME FlightInv, ExchangeInv, NEW t \in Tx, Consume(t)
  PROVE  ExchangeInv'
<1>1. /\ UNCHANGED << phase, done, fault, uplink, l1, wire, mme, accepted >>
      /\ \A u \in Tx \ {t} : answer'[u] = answer[u]
      /\ answer'[t] \in {"gone", "never", "bad", "good"}
      /\ answer'[t] = "good" =>
           answer[t] = "matching" /\ ~Hit(t, "withheld") /\ ~Hit(t, "spoiled") /\ ~Hit(t, "duplicated")
  BY DEF Consume, FlightInv, TypeOK, taskVars, peerVars, ghostVars
<1>2. ASSUME NEW u \in Tx, u # t \/ answer'[t] # "good"
      PROVE  ExchangeOk(u)'
  BY <1>1, <1>2, ExchangeKept DEF ExchangeInv, Unserved, Queued, InL1
<1>3. ASSUME answer'[t] = "good"
      PROVE  ExchangeOk(t)'
  <2>1. Passed(t)
    BY <1>1, <1>3 DEF ExchangeInv, ExchangeOk
  <2>2. fault[t].stage # StageOf(t)
    <3> SUFFICES ASSUME fault[t].stage = StageOf(t) PROVE FALSE
      OBVIOUS
    <3>1. fault[t].what \in PrimitiveFaults
      BY <2>1 DEF Passed
    <3>2. fault[t] = [stage |-> StageOf(t), what |-> fault[t].what]
      BY DEF FlightInv, TypeOK, PossibleFaults, NoFault
    <3> QED BY <1>1, <1>3, <3>1, <3>2 DEF Hit, PrimitiveFaults
  <2>3. StageOf(t)' = StageOf(t) /\ Types(t)' = Types(t) /\ Passed(t)'
    BY <1>1, <2>1 DEF StageOf, Types, Passed, Agrees
  <2>4. (Unserved(t)' <=> Unserved(t)) /\ \A n : Agrees(t, n)' <=> Agrees(t, n)
    BY <1>1, <2>3 DEF Unserved, Queued, InL1, Agrees
  <2>5. ExchangeOk(t)
    BY DEF ExchangeInv
  <2> QED BY <1>1, <2>2, <2>3, <2>4, <2>5 DEF ExchangeOk
<1> QED BY <1>2, <1>3 DEF ExchangeInv

LEMMA ExchangeThread ==
  ASSUME FlightInv, ExchangeInv, NEW t \in Tx,
         \/ Launch(t) \/ BeginExchange(t) \/ Fail(t) \/ Expire(t) \/ Abandon(t) \/ Exit(t)
  PROVE  ExchangeInv'
<1>1. /\ UNCHANGED << done, fault, l1, wire, mme, accepted >>
      /\ \A u \in Tx \ {t} : phase'[u] = phase[u] /\ answer'[u] = answer[u]
      /\ answer'[t] = "none" \/ (answer'[t] = answer[t] /\ phase'[t] # "waiting")
         \/ UNCHANGED << phase, answer >>
  BY DEF Launch, BeginExchange, Fail, Expire, Abandon, Exit, FlightInv, TypeOK, Ended,
         threadVars, taskVars, peerVars, ghostVars
<1>2. ASSUME NEW u \in Tx, Unserved(u)'
      PROVE  Unserved(u)
  <2>1. CASE BeginExchange(t)
    <3>1. phase[t] = "ready" /\ uplink \in Seq(Tx) /\ uplink' = Append(uplink, t)
      BY <2>1 DEF BeginExchange, FlightInv, TypeOK
    <3>2. Queued(u)' => Queued(u) \/ u = t
      BY <3>1 DEF Queued
    <3> QED BY <1>1, <1>2, <3>1, <3>2 DEF Unserved, InL1
  <2>2. CASE ~BeginExchange(t)
    <3>1. /\ uplink' = uplink
          /\ phase' = phase \/ phase[t] = "starting" \/ phase'[t] \in {"failed", "cancelled"}
      BY <2>2 DEF Launch, Fail, Expire, Abandon, Exit, FlightInv, TypeOK,
                  threadVars, taskVars
    <3> QED BY <1>1, <1>2, <3>1 DEF Unserved, Queued, InL1
  <2> QED BY <2>1, <2>2
<1>3. ASSUME NEW u \in Tx
      PROVE  ExchangeOk(u)'
  BY <1>1, <1>2, ExchangeKept DEF ExchangeInv
<1> QED BY <1>3 DEF ExchangeInv

LEMMA ExchangeTask ==
  ASSUME FlightInv, ExchangeInv, TaskStep
  PROVE  ExchangeInv'
<1>1. /\ UNCHANGED << phase, done, fault, mme, accepted >>
  BY DEF TaskStep, L1Take, L1Protect, L1Send, L1Wake, L1Timeout, L1Receive,
         threadVars, peerVars, ghostVars
<1>2. CASE L1Take
  <2>1. PICK t \in Tx :
          /\ Queued(t) /\ l1.at = "idle" /\ answer' \in {answer, [answer EXCEPT ![t] = "gone"]}
          /\ \A u \in Tx : Queued(u)' => Queued(u)
          /\ l1' = l1 \/ (l1'.tx = t /\ l1'.reply = None)
          /\ wire' = wire
    BY <1>2, TakeIs DEF peerVars
  <2>2. ASSUME NEW u \in Tx
        PROVE  /\ Unserved(u)' => Unserved(u)
               /\ InL1(u)' /\ l1'.reply # None => l1' = l1
               /\ answer'[u] = answer[u] \/ answer'[u] = "gone"
    BY <1>1, <2>1 DEF Unserved, InL1, FlightInv, TypeOK
  <2> QED BY <1>1, <2>2, ExchangeKept DEF ExchangeInv
<1>3. CASE L1Protect
  <2>1. /\ l1'.tx = l1.tx /\ l1.at # "idle" /\ l1'.reply = l1.reply /\ l1.reply = None
        /\ UNCHANGED << uplink, wire, answer >>
    BY <1>3 DEF L1Protect, FlightInv, TypeOK, PduInv, peerVars, threadVars
  <2>2. ASSUME NEW u \in Tx
        PROVE  /\ Unserved(u)' => Unserved(u)
               /\ InL1(u)' /\ l1'.reply # None => l1' = l1
    BY <1>1, <2>1 DEF Unserved, Queued, InL1
  <2> QED BY <1>1, <2>1, <2>2, ExchangeKept DEF ExchangeInv
<1>4. CASE L1Send
  <2> PICK t \in Tx : t = l1.tx /\ l1.at = "sending"
    BY <1>4 DEF L1Send, FlightInv, TasksInv
  <2>1. /\ l1.reply = None /\ uplink' = uplink
        /\ answer' = answer \/ answer' = [answer EXCEPT ![t] = "gone"]
        /\ wire' = wire \/ wire' = wire \cup {Message(t, l1.pdu)}
        /\ \/ l1' = IdleL1
           \/ l1'.tx = t /\ l1'.reply = None
    BY <1>4 DEF L1Send, FlightInv, TypeOK, PduInv
  <2>2. Message(t, l1.pdu).tx = t
    BY DEF Message
  <2>3. ASSUME NEW u \in Tx
        PROVE  /\ Unserved(u)' => Unserved(u)
               /\ ~(InL1(u)' /\ l1'.reply # None)
               /\ answer'[u] = answer[u] \/ answer'[u] = "gone"
    BY <1>1, <2>1, <2>2 DEF Unserved, Queued, InL1, IdleL1, FlightInv, TypeOK
  <2> QED BY <1>1, <2>3, ExchangeKept DEF ExchangeInv
<1>5. CASE L1Wake \/ L1Timeout \/ L1Receive
  <2>1. PICK t \in Tx :
          /\ InL1(t) /\ t = l1.tx /\ l1' = IdleL1
          /\ UNCHANGED << uplink, wire >>
          /\ \E a \in {"matching", "other", "gone", "bad"} :
               /\ answer' = [answer EXCEPT ![t] = a]
               /\ a = "matching" =>
                    l1.at = "sent" /\ l1.reply # None /\ Matches(t, l1.reply)
    BY <1>5, L1Ends DEF peerVars
  <2>2. PICK a \in {"matching", "other", "gone", "bad"} :
          /\ answer' = [answer EXCEPT ![t] = a]
          /\ a = "matching" => l1.at = "sent" /\ l1.reply # None /\ Matches(t, l1.reply)
    BY <2>1
  <2>3. ASSUME NEW u \in Tx
        PROVE  (Unserved(u)' => Unserved(u)) /\ ~InL1(u)'
    BY <1>1, <2>1 DEF Unserved, Queued, InL1, IdleL1
  <2>4. ASSUME NEW u \in Tx, u # t \/ a # "matching"
        PROVE  ExchangeOk(u)'
    <3>1. answer'[u] = answer[u] \/ answer'[u] \notin {"matching", "good"}
      BY <2>2, <2>4 DEF FlightInv, TypeOK
    <3> QED BY <1>1, <2>3, <3>1, ExchangeKept DEF ExchangeInv
  <2>5. ASSUME a = "matching"
        PROVE  ExchangeOk(t)'
    <3>1. ExchangeOk(t) /\ Passed(t) /\ answer'[t] = "matching"
      BY <2>1, <2>2, <2>5 DEF ExchangeInv, ExchangeOk, FlightInv, TypeOK
    <3>2. StageOf(t)' = StageOf(t) /\ Types(t)' = Types(t) /\ Passed(t)'
          /\ \A n : Agrees(t, n)' <=> Agrees(t, n)
      BY <1>1, <3>1 DEF StageOf, Types, Passed, Agrees
    <3> QED BY <1>1, <2>3, <3>1, <3>2 DEF ExchangeOk
  <2> QED BY <2>4, <2>5 DEF ExchangeInv
<1> QED BY <1>2, <1>3, <1>4, <1>5 DEF TaskStep

\* A message that is answered as the UE expects has not been hit by a fault.
LEMMA AnsweredUnhurt ==
  ASSUME FlightInv, WireInv, NEW m \in wire, Acceptable(Before(m.tx), m), m.type = m.stage,
         fault[m.tx].stage = m.stage
  PROVE  fault[m.tx].what \in PrimitiveFaults
<1> PICK t \in Tx : t = m.tx
  BY WireOpen
<1> DEFINE what == fault[t].what
<1>1. fault[t] \in PossibleFaults /\ m.type \in StageNames
  BY DEF FlightInv, TypeOK, Acceptable, MessageSet
<1>2. fault[t] # NoFault
  BY <1>1, StagesAre DEF NoFault
<1>3. /\ fault[t] = [stage |-> m.stage, what |-> what]
      /\ what \in SocketFaults \cup PrimitiveFaults /\ what # m.stage
      /\ what = "tampered" => m.stage \in Protected
  BY <1>1, <1>2 DEF PossibleFaults
<1>4. Carries(m)
  BY DEF WireInv
<1>5. what # "wrong" /\ what # "dropped"
  BY <1>3, <1>4 DEF Carries, Is, Acceptable
<1>6. what # "tampered"
  BY <1>3, <1>4 DEF Carries, Is, Acceptable, Verified, Opens
<1>7. what \notin StageNames \cup {"unknown"}
  BY <1>1, <1>3, <1>4 DEF Carries, Is, Acceptable
<1> QED BY <1>3, <1>5, <1>6, <1>7 DEF SocketFaults

LEMMA ExchangeServe ==
  ASSUME FlightInv, OrderInv, WireInv, CountsInv, ExchangeInv, NEW m \in wire, Serve(m)
  PROVE  ExchangeInv'
<1> PICK t \in Tx : t = m.tx
  BY WireOpen
<1> DEFINE c == Before(t)
<1>1. /\ UNCHANGED << phase, done, fault, answer, uplink >> /\ wire' = wire \ {m}
      /\ Store(t, Decided(c, m)) /\ Decided(c, m) \in ContextSet
      /\ accepted' = IF Acceptable(c, m)
                     THEN [accepted EXCEPT ![t] = Append(@, m.type)] ELSE accepted
      /\ l1' = IF l1.at = "sent" /\ l1.tx = t /\ StageOf(t) = m.stage
               THEN [l1 EXCEPT !.reply = Response(c, m)] ELSE l1
      /\ Response(c, m) \in ResponseSet
  BY ServeIs DEF Serve, threadVars
<1>2. ASSUME NEW u \in Tx, u # t
      PROVE  ExchangeOk(u)'
  <2>1. mme'[u] = mme[u] \/ mme'[u] = None
    BY <1>1, <1>2, StoreIs DEF FlightInv
  <2>2. accepted'[u] = accepted[u]
    BY <1>1, <1>2 DEF FlightInv, TypeOK
  <2>3. l1'.tx = l1.tx /\ l1'.at = l1.at /\ (l1.tx = u => l1' = l1)
    BY <1>1, <1>2 DEF FlightInv, TypeOK
  <2>4. Unserved(u)' => Unserved(u)
    BY <1>1, <2>3 DEF Unserved, Queued, InL1
  <2>5. InL1(u)' /\ l1'.reply # None => l1' = l1
    BY <2>3 DEF InL1
  <2> QED BY <1>1, <2>1, <2>2, <2>4, <2>5, ExchangeKept DEF ExchangeInv
<1>3. ExchangeOk(t)'
  <2> PICK n \in 0..7 : n = done[t]
    BY WireOpen
  <2>1. /\ phase[t] \in Gone /\ answer[t] \in {"none", "bad", "gone"} /\ ~Queued(t)
        /\ InL1(t) => l1.at = "sent" /\ l1.reply = None
        /\ m.stage = StageOf(t) /\ StageOf(t) = Stages[n + 1]
    BY WireOpen DEF WireInv, StageOf
  <2>2. ExchangeOk(t) /\ Agrees(t, n)
    BY DEF ExchangeInv, ExchangeOk, Unserved
  <2>3. /\ Types(t)' \in {First(n), First(n + 1)}
        /\ Acceptable(c, m) /\ m.type = Stages[n + 1] => Agrees(t, n + 1)'
    BY <2>2, ServeNext
  <2>4. /\ InL1(t)' => InL1(t)
        /\ InL1(t) => l1'.reply = Response(c, m) /\ l1'.reply # None
    BY <1>1, <2>1 DEF InL1, FlightInv, TypeOK
  <2>5. ~Unserved(t)'
    <3>1. \A q \in wire' : q.tx # t
      BY <1>1 DEF WireInv
    <3>2. ~Queued(t)' /\ phase'[t] \in Gone
      BY <1>1, <2>1 DEF Queued
    <3> QED BY <2>4, <3>1, <3>2 DEF Unserved, Gone
  <2>6. StageOf(t)' = StageOf(t)
    BY <1>1 DEF StageOf
  <2>7. ASSUME InL1(t)', Matches(t, l1.reply)'
        PROVE  Passed(t)'
    <3>1. Acceptable(c, m) /\ m.type = StageOf(t)
      BY <2>4, <2>6, <2>7 DEF Matches, Response
    <3>2. Agrees(t, n + 1)'
      BY <2>1, <2>3, <3>1
    <3>3. fault[t].stage = StageOf(t) => fault[t].what \in PrimitiveFaults
      BY <2>1, <3>1, AnsweredUnhurt
    <3> QED BY <1>1, <2>6, <3>2, <3>3 DEF Passed
  <2> QED BY <1>1, <2>1, <2>2, <2>3, <2>5, <2>6, <2>7 DEF ExchangeOk
<1> QED BY <1>2, <1>3 DEF ExchangeInv

LEMMA ExchangeStep ==
  FlightInv /\ OrderInv /\ WireInv /\ CountsInv /\ ExchangeInv /\ [Next]_vars
    => ExchangeInv'
<1> SUFFICES ASSUME FlightInv, OrderInv, WireInv, CountsInv, ExchangeInv, [Next]_vars
             PROVE  ExchangeInv'
  OBVIOUS
<1>1. CASE Request \/ Disable \/ UNCHANGED vars
  <2>1. UNCHANGED << phase, done, fault, answer, uplink, l1, wire, mme, accepted >>
    BY <1>1 DEF Request, Disable, vars, threadVars, taskVars, peerVars, ghostVars
  <2>2. ASSUME NEW u \in Tx
        PROVE  ExchangeOk(u)'
    BY <2>1, ExchangeKept DEF ExchangeInv, Unserved, Queued, InL1
  <2> QED BY <2>2 DEF ExchangeInv
<1> QED
  BY <1>1, ExchangeStart, ExchangeThread, ExchangeAdvance, ExchangeConsume, ExchangeTask,
     ExchangeServe
  DEF Next, ThreadStep

\* The inductive invariant.
NasInv == FlightInv /\ OrderInv /\ WireInv /\ CountsInv /\ ExchangeInv

LEMMA NasInvInit == Init => NasInv
<1> SUFFICES ASSUME Init PROVE NasInv
  OBVIOUS
<1>1. WireInv
  BY DEF Init, WireInv
<1>2. OrderInv /\ CountsInv
  BY DEF Init, OrderInv, CountsInv, IdleL1
<1>3. ASSUME NEW t \in Tx
      PROVE  ExchangeOk(t)
  <2>1. Types(t) = {} /\ First(0) = {}
    BY DEF Init, Types, First
  <2> QED BY <2>1 DEF Init, ExchangeOk, Agrees, InL1, IdleL1
<1> QED BY <1>1, <1>2, <1>3, FlightInit DEF NasInv, ExchangeInv

LEMMA NasInvStep == NasInv /\ [Next]_vars => NasInv'
BY FlightStep, OrderStep, WireStep, CountsStep, ExchangeStep DEF NasInv

LEMMA NasInvHolds == Spec => []NasInv
BY NasInvInit, NasInvStep, PTL DEF Spec

-----------------------------------------------------------------------------
(* What follows for faults and contexts.                                   *)

LEMMA VisibleFault == NasInv => VisibleFaultNeverAttaches
<1> SUFFICES ASSUME NasInv, NEW t \in Tx, phase[t] = "attached" PROVE fault[t] = NoFault
  BY DEF VisibleFaultNeverAttaches
<1>1. done[t] = 8 /\ fault[t] \in PossibleFaults
  BY DEF NasInv, FlightInv, TypeOK, ThreadsInv
<1>2. \A i \in 1..8 : fault[t].stage # Stages[i]
  BY <1>1 DEF NasInv, ExchangeInv, ExchangeOk
<1> QED BY <1>1, <1>2 DEF PossibleFaults, StageNames

\* An Attach ends in success only when no fault was configured that UE or
\* network can see, for every set of faults and whatever else goes on.
THEOREM FaultsAreSeen == Spec => []VisibleFaultNeverAttaches
BY NasInvHolds, VisibleFault, PTL

LEMMA AttachedAtThePeer == NasInv => AttachedAgree
<1> SUFFICES ASSUME NasInv, NEW t \in Tx, phase[t] = "attached", mme[t] # None
             PROVE  /\ mme[t].attach = "ATTACHED" /\ mme[t].sec = "ACTIVE"
                    /\ mme[t].nas.down = 2 /\ Received(mme[t].nas.up) = {0, 1}
  BY DEF AttachedAgree
<1>1. done[t] = 8
  BY DEF NasInv, FlightInv, ThreadsInv
<1>2. InStep(mme[t], 8)
  BY <1>1 DEF NasInv, ExchangeInv, ExchangeOk, Unserved, Agrees
<1>3. Received([highest |-> 1, bits |-> {0, 1}]) = {0, 1}
  BY DEF Received
<1> QED BY <1>2, <1>3 DEF InStep, InOrder, UpWindow

\* A UE that is attached is attached at the peer, too, which has received both
\* protected messages of this transaction, each once: also when operations of
\* several threads interleave and reset the security context in between.
THEOREM UeAndPeerAgree == Spec => []AttachedAgree
BY NasInvHolds, AttachedAtThePeer, PTL

\* The peer attaches a context only from the last step of the order.
LEMMA AttachedInOrder ==
  ASSUME NEW c \in ContextSet, NEW m \in MessageSet, NEW n \in 0..7, InOrder(c, n),
         Decided(c, m).attach = "ATTACHED"
  PROVE  InOrder(Decided(c, m), 8)
<1> DEFINE v == AfterVerify(c, m)
<1>1. v \in ContextSet /\ InOrder(v, n)
  BY AfterVerifyType, AfterVerifyInOrder
<1>2. v.attach # "ATTACHED"
  BY <1>1 DEF InOrder
<1>3. Acceptable(c, m)
  <2>1. m.type \in StageNames => Rejected(v, m.type).attach # "ATTACHED"
    BY <1>1, <1>2, StagesAre DEF Rejected, ContextSet
  <2> QED BY <1>2, <2>1 DEF Decided, MessageSet
<1>4. m.type = "attach_complete"
  <2>1. m.type \in StageNames
    BY <1>3 DEF Acceptable, MessageSet
  <2> QED BY <1>1, <1>2, <1>3, <2>1, StagesAre DEF Decided, Granted, ContextSet
<1>5. n = 7
  BY <1>3, <1>4 DEF Acceptable, Ready, InOrder
<1>6. Stages[8] = "attach_complete"
  BY DEF Stages
<1>7. InOrder(Granted(v, Stages[n + 1]), n + 1)
  BY <1>1, GrantedInOrder
<1> QED BY <1>3, <1>4, <1>5, <1>6, <1>7 DEF Decided

LEMMA AttachedContextStep ==
  NasInv /\ AttachedContextComplete /\ [Next]_vars => AttachedContextComplete'
<1> SUFFICES ASSUME NasInv, AttachedContextComplete, [Next]_vars
             PROVE  AttachedContextComplete'
  OBVIOUS
<1>1. CASE \A m \in wire : ~Serve(m)
  BY <1>1, OnlyServeStores DEF AttachedContextComplete
<1>2. ASSUME NEW m \in wire, Serve(m)
      PROVE  AttachedContextComplete'
  <2> PICK t \in Tx : t = m.tx
    BY WireOpen DEF NasInv
  <2> PICK d : d = Decided(Before(t), m)
    OBVIOUS
  <2>1. /\ Before(t) \in ContextSet /\ m \in MessageSet
        /\ mme'[t] = d /\ \A u \in Tx \ {t} : mme'[u] = mme[u] \/ mme'[u] = None
    BY <1>2, ServeIs, StoreIs DEF NasInv, FlightInv
  <2>2. Agrees(t, done[t]) /\ done[t] \in 0..7
    BY WireOpen DEF NasInv, ExchangeInv, ExchangeOk, Unserved
  <2>3. \E n \in 0..7 : InOrder(Before(t), n)
    BY <2>2 DEF Agrees, Before, InStep, InOrder, NewContext
  <2>4. d.attach = "ATTACHED" => InOrder(d, 8)
    BY <2>1, <2>3, AttachedInOrder
  <2> QED BY <2>1, <2>4 DEF AttachedContextComplete, InOrder
<1> QED BY <1>1, <1>2

\* A context that is ATTACHED went through every procedure, for any capacity
\* of the peer and whatever it evicted before.
THEOREM AttachedContextsAreComplete == Spec => []AttachedContextComplete
<1>1. Init => AttachedContextComplete
  BY DEF Init, AttachedContextComplete
<1> QED BY <1>1, NasInvHolds, AttachedContextStep, PTL DEF Spec

-----------------------------------------------------------------------------
(* The exchanges implement AttachHandshake.                                *)

\* Eight stages have eight names.
LEMMA FirstCardinality ==
  ASSUME NEW n \in 0..8
  PROVE  Cardinality(First(n)) = n
<1>1. \A i, j \in 1..n : Stages[i] = Stages[j] => i = j
  BY StagesAre
<1> QED BY <1>1, ImageCardinality DEF First

\* How many messages the peer has accepted.
Count(t) == Cardinality(Types(t))

LEMMA CountIs ==
  ASSUME NasInv, NEW t \in Tx
  PROVE  /\ done[t] \in 0..8 /\ Count(t) \in {done[t], done[t] + 1}
         /\ \A n \in 0..8 : Agrees(t, n) => Count(t) = n
<1>1. done[t] \in 0..8
  BY DEF NasInv, FlightInv, TypeOK
<1> QED BY <1>1, FirstCardinality DEF NasInv, ExchangeInv, ExchangeOk, Count, Agrees

LEMMA HandshakeInit == Init => Handshake!Init
<1> SUFFICES ASSUME Init PROVE Handshake!Init
  OBVIOUS
<1>1. \A t \in Tx : { accepted[t][i] : i \in 1..Len(accepted[t]) } = {}
  BY DEF Init
<1>2. Cardinality({}) = 0
  BY FS_EmptySet
<1> QED BY <1>1, <1>2 DEF Init, Handshake!Init, HandshakeStatus

\* A step that neither finishes an exchange nor accepts a message.
LEMMA StatusMoves ==
  ASSUME NEW t \in Tx, UNCHANGED << done, accepted >>,
         \A u \in Tx \ {t} : phase'[u] = phase[u],
         \/ HandshakeStatus(t)' = HandshakeStatus(t)
         \/ HandshakeStatus(t) = "idle" /\ HandshakeStatus(t)' = "running"
         \/ HandshakeStatus(t) \in {"idle", "running"} /\ HandshakeStatus(t)' = "stopped"
  PROVE  [Handshake!Next]_(Handshake!vars)
<1>1. \A u \in Tx \ {t} : HandshakeStatus(u)' = HandshakeStatus(u)
  BY DEF HandshakeStatus
<1>2. CASE HandshakeStatus(t)' = HandshakeStatus(t)
  <2>1. \A u \in Tx : HandshakeStatus(u)' = HandshakeStatus(u)
    BY <1>1, <1>2
  <2> QED BY <2>1 DEF Handshake!vars
<1>3. [u \in Tx |-> HandshakeStatus(u)]'
        = [[u \in Tx |-> HandshakeStatus(u)] EXCEPT ![t] = HandshakeStatus(t)']
  BY <1>1
<1>4. CASE HandshakeStatus(t) = "idle" /\ HandshakeStatus(t)' = "running"
  <2>1. Handshake!Begin(t)
    BY <1>3, <1>4 DEF Handshake!Begin
  <2> QED BY <2>1 DEF Handshake!Next
<1>5. CASE HandshakeStatus(t) \in {"idle", "running"} /\ HandshakeStatus(t)' = "stopped"
  <2>1. Handshake!Stop(t)
    BY <1>3, <1>5 DEF Handshake!Stop
  <2> QED BY <2>1 DEF Handshake!Next
<1> QED BY <1>2, <1>4, <1>5

LEMMA HandshakeAdvance ==
  ASSUME NasInv, NEW t \in Tx, Advance(t)
  PROVE  [Handshake!Next]_(Handshake!vars)
<1>1. /\ phase[t] = "waiting" /\ answer[t] = "good" /\ accepted' = accepted
      /\ done' = [done EXCEPT ![t] = @ + 1]
      /\ phase' = [phase EXCEPT ![t] = IF done[t] + 1 = 8 THEN "attached" ELSE "ready"]
      /\ phase \in [Tx -> Phases]
  BY DEF Advance, ghostVars, NasInv, FlightInv, TypeOK
<1>2. Passed(t)
  BY <1>1 DEF NasInv, ExchangeInv, ExchangeOk
<1>3. Count(t) = done[t] + 1 /\ done[t] \in 0..7
  BY <1>2, CountIs DEF Passed
<1>4. /\ HandshakeStatus(t) = "running"
      /\ HandshakeStatus(t)' = IF done[t] + 1 = 8 THEN "attached" ELSE "running"
      /\ \A u \in Tx \ {t} : HandshakeStatus(u)' = HandshakeStatus(u)
  BY <1>1 DEF HandshakeStatus
<1>5. [u \in Tx |-> HandshakeStatus(u)]'
        = [[u \in Tx |-> HandshakeStatus(u)] EXCEPT ![t] = IF done[t] + 1 = 8 THEN "attached" ELSE @]
  BY <1>4
<1>6. Handshake!Advance(t)
  BY <1>1, <1>3, <1>4, <1>5 DEF Handshake!Advance, Count, Types
<1> QED BY <1>6 DEF Handshake!Next

LEMMA HandshakeServe ==
  ASSUME NasInv, NEW m \in wire, Serve(m)
  PROVE  [Handshake!Next]_(Handshake!vars)
<1> PICK t \in Tx : t = m.tx
  BY WireOpen DEF NasInv
<1>1. /\ UNCHANGED << phase, done >>
      /\ \A u \in Tx \ {t} : accepted'[u] = accepted[u]
  BY ServeIs DEF NasInv, FlightInv, TypeOK, Serve, threadVars
<1>2. /\ phase[t] \in Gone /\ done[t] \in 0..7 /\ Count(t) = done[t]
  BY WireOpen, CountIs DEF NasInv, ExchangeInv, ExchangeOk, Unserved
<1>3. Count(t)' \in {done[t], done[t] + 1}
  <2> PICK n \in 0..7 : n = done[t]
    BY <1>2
  <2>1. Agrees(t, n)
    BY DEF NasInv, ExchangeInv, ExchangeOk, Unserved
  <2>2. Types(t)' \in {First(n), First(n + 1)}
    BY <2>1, ServeNext DEF NasInv
  <2> QED BY <2>2, FirstCardinality DEF Count
<1>4. \A u \in Tx \ {t} : Count(u)' = Count(u)
  BY <1>1 DEF Count, Types
<1>5. [u \in Tx |-> HandshakeStatus(u)]' = [u \in Tx |-> HandshakeStatus(u)]
  BY <1>1 DEF HandshakeStatus
<1>6. CASE Count(t)' = done[t]
  <2>1. \A u \in Tx : Count(u)' = Count(u)
    BY <1>2, <1>4, <1>6
  <2>2. [u \in Tx |-> Count(u)]' = [u \in Tx |-> Count(u)]
    BY <2>1
  <2> QED BY <1>1, <1>5, <2>2 DEF Handshake!vars, Count, Types
<1>7. CASE Count(t)' = done[t] + 1
  <2>1. [u \in Tx |-> Count(u)]' = [[u \in Tx |-> Count(u)] EXCEPT ![t] = @ + 1]
    BY <1>2, <1>4, <1>7
  <2>2. HandshakeStatus(t) # "idle"
    BY <1>2 DEF HandshakeStatus, Gone
  <2>3. Handshake!Accept(t)
    <3> DEFINE net == [u \in Tx |-> Cardinality({ accepted[u][i] : i \in 1..Len(accepted[u]) })]
    <3>1. net = [u \in Tx |-> Count(u)] /\ net' = [u \in Tx |-> Count(u)]'
      BY DEF Count, Types
    <3>2. net' = [net EXCEPT ![t] = @ + 1]
      BY <2>1, <3>1
    <3>3. net[t] = done[t] /\ net[t] < 8
      BY <1>2, <3>1
    <3> QED BY <1>1, <1>5, <2>2, <3>2, <3>3 DEF Handshake!Accept
  <2> QED BY <2>3 DEF Handshake!Next
<1> QED BY <1>3, <1>6, <1>7

LEMMA HandshakeStep ==
  NasInv /\ [Next]_vars => [Handshake!Next]_(Handshake!vars)
<1> SUFFICES ASSUME NasInv, [Next]_vars
             PROVE  [Handshake!Next]_(Handshake!vars)
  OBVIOUS
<1>1. CASE Start
  <2> PICK t \in Tx : t = made + 1
    BY <1>1 DEF Start, NasInv, FlightInv, TypeOK, Tx
  <2>1. /\ phase[t] = "none" /\ phase' = [phase EXCEPT ![t] = "starting"]
        /\ UNCHANGED << done, accepted >> /\ phase \in [Tx -> Phases]
    BY <1>1 DEF Start, NasInv, FlightInv, TypeOK, ThreadsInv, ghostVars
  <2> QED BY <2>1, StatusMoves DEF HandshakeStatus
<1>2. ASSUME NEW t \in Tx,
             Launch(t) \/ BeginExchange(t) \/ Fail(t) \/ Expire(t) \/ Abandon(t)
      PROVE  [Handshake!Next]_(Handshake!vars)
  <2>1. /\ phase[t] \in {"starting", "ready", "waiting"}
        /\ phase'[t] \in {"ready", "waiting", "aborted", "failed", "cancelled"}
        /\ UNCHANGED << done, accepted >>
        /\ \A u \in Tx \ {t} : phase'[u] = phase[u]
    BY <1>2 DEF Launch, BeginExchange, Fail, Expire, Abandon, NasInv, FlightInv, TypeOK, ghostVars
  <2> QED BY <2>1, StatusMoves DEF HandshakeStatus
<1>3. CASE UNCHANGED << phase, done, accepted >>
  BY <1>3 DEF Handshake!vars, HandshakeStatus
<1>4. CASE Request \/ Disable \/ TaskStep \/ (\E t \in Tx : Exit(t) \/ Consume(t)) \/ UNCHANGED vars
  BY <1>3, <1>4 DEF Request, Disable, TaskStep, L1Take, L1Protect, L1Send, L1Wake, L1Timeout,
    L1Receive, Exit, Consume, vars, threadVars, ghostVars
<1> QED BY <1>1, <1>2, <1>4, HandshakeAdvance, HandshakeServe DEF Next, ThreadStep

\* Whatever is lost, late, altered or cancelled, for any number of transactions
\* and any capacity of the peer, every behaviour of the tasks and the peer is a
\* behaviour of AttachHandshake: UE and network are never more than one
\* message apart, and the UE is never ahead.
THEOREM ExchangesImplementHandshake == Spec => ImplementsHandshake
BY NasInvHolds, HandshakeInit, HandshakeStep, PTL
DEF Spec, ImplementsHandshake, Handshake!Spec

-----------------------------------------------------------------------------
(* One request thread at a time.                                           *)

\* No reset is under way while an Attach goes on, and none is cancelled while
\* it is being started.
RequestsInv ==
  /\ cancelled \subseteq 1..made /\ (current # None => current \in 1..made)
  /\ \A t \in Tx : Alive(t) => clearing = 0
  /\ \A t \in Tx : phase[t] = "starting" => Alive(t)

\* The tasks have got rid of what other transactions left in them once the
\* first message of an Attach has been taken.
TasksClear ==
  \A t \in Tx : Alive(t) /\ (done[t] >= 1 \/ (phase[t] = "waiting" /\ ~Queued(t))) =>
    (l1.at # "idle" => l1.tx = t)

\* The Security Mode Complete has taken COUNT 0, and nobody gives it back.
CountTaken ==
  /\ \A t \in Tx : /\ Alive(t) /\ phase[t] \in {"ready", "waiting"}
                   /\ done[t] = 7 \/ (done[t] = 6 /\ ~Fresh(t))
       => ueNas # None /\ ueNas.tx = t /\ ueNas.up >= 1
  /\ l1.pdu # None /\ MaySend(l1.tx) /\ done[l1.tx] = 7 => l1.pdu.count >= 1
  /\ \A p \in sent : p.kind = "attach_complete" => p.count >= 1

SerialInv == RequestsInv /\ TasksClear /\ CountTaken

\* A thread that is still in an exchange was not stopped.
LEMMA AliveWaits ==
  ASSUME FlightInv, NEW t \in Tx, MaySend(t), phase[t] \in Gone
  PROVE  phase[t] = "waiting"
BY DEF MaySend, Stopped, Ended, Gone

LEMMA RequestsStep ==
  ASSUME Serial
  PROVE  FlightInv /\ RequestsInv /\ [Next]_vars => RequestsInv'
<1> SUFFICES ASSUME FlightInv, RequestsInv, [Next]_vars PROVE RequestsInv'
  OBVIOUS
<1>0. made \in Nat /\ None \notin Nat
  BY DEF FlightInv, TypeOK
<1>1. CASE Start
  <2>1. /\ made' = made + 1 /\ current' = made + 1 /\ cancelled' = cancelled
        /\ clearing' = clearing /\ clearing = 0
        /\ \A u \in Tx : phase[u] # "starting" /\ (phase'[u] = phase[u] \/ u = made + 1)
    BY <1>1 DEF Start, RequestsIdle, FlightInv, TypeOK
  <2> QED BY <1>0, <2>1 DEF RequestsInv, Alive
<1>2. CASE Request
  <2>1. /\ made' = made /\ current' = current /\ phase' = phase
        /\ cancelled' = IF current = None THEN cancelled ELSE cancelled \cup {current}
        /\ \A u \in Tx : phase[u] # "starting"
    BY <1>2 DEF Request, RequestsIdle, threadVars
  <2>2. \A u \in Tx : ~Alive(u)'
    BY <1>0, <2>1 DEF Alive, Tx
  <2>3. cancelled' \subseteq 1..made
    BY <2>1 DEF RequestsInv
  <2> QED BY <2>1, <2>2, <2>3 DEF RequestsInv
<1>3. CASE Disable
  <2>1. /\ UNCHANGED << made, current, phase, cancelled >> /\ clearing # 0
    BY <1>3 DEF Disable, threadVars, FlightInv, TypeOK
  <2> QED BY <2>1 DEF RequestsInv, Alive
<1>4. ASSUME NEW t \in Tx, ThreadStep(t)
      PROVE  RequestsInv'
  <2>1. /\ UNCHANGED << made, cancelled, clearing >>
        /\ current' = current \/ (current = t /\ phase[t] \in Ended /\ current' = None)
        /\ \A u \in Tx : phase'[u] = "starting" => phase[u] = "starting"
    BY <1>4 DEF ThreadStep, Launch, BeginExchange, Advance, Fail, Expire, Abandon, Exit, Consume,
                ctxVars, threadVars, FlightInv, TypeOK
  <2>2. \A u \in Tx : Alive(u)' => Alive(u)
    BY <1>0, <2>1 DEF Alive, Tx
  <2>3. ASSUME NEW u \in Tx, phase'[u] = "starting"
        PROVE  Alive(u)'
    <3>1. phase[u] = "starting" /\ Alive(u)
      BY <2>1, <2>3 DEF RequestsInv
    <3> QED BY <2>1, <3>1 DEF Alive, Ended
  <2> QED BY <2>1, <2>2, <2>3 DEF RequestsInv
<1>5. CASE TaskStep \/ (\E m \in wire : Serve(m)) \/ UNCHANGED vars
  <2>1. UNCHANGED << ctxVars, phase >>
    BY <1>5 DEF TaskStep, L1Take, L1Protect, L1Send, L1Wake, L1Timeout, L1Receive, Serve,
                vars, threadVars
  <2> QED BY <2>1 DEF RequestsInv, Alive, ctxVars
<1> QED BY <1>1, <1>2, <1>3, <1>4, <1>5 DEF Next

\* The L1 task is given nothing of another transaction.
LEMMA TasksClearKept ==
  ASSUME TasksClear, done' = done, \A t \in Tx : Alive(t)' => Alive(t),
         l1'.at # "idle" => l1.at # "idle" /\ l1'.tx = l1.tx,
         \A t \in Tx : phase'[t] = "waiting" /\ ~Queued(t)' => phase[t] = "waiting" /\ ~Queued(t)
  PROVE  TasksClear'
BY DEF TasksClear

LEMMA TasksClearStep ==
  ASSUME Serial
  PROVE  FlightInv /\ RequestsInv /\ TasksClear /\ [Next]_vars => TasksClear'
<1> SUFFICES ASSUME FlightInv, RequestsInv, TasksClear, [Next]_vars PROVE TasksClear'
  OBVIOUS
<1>1. CASE Start
  <2> PICK t \in Tx : t = made + 1
    BY <1>1 DEF Start, FlightInv, TypeOK, Tx
  <2>1. /\ current' = t /\ phase[t] = "none" /\ phase'[t] = "starting" /\ done' = done
    BY <1>1 DEF Start, FlightInv, TypeOK, ThreadsInv
  <2>2. done[t] = 0
    BY <2>1 DEF FlightInv, ThreadsInv
  <2> QED BY <2>1, <2>2 DEF TasksClear, Alive
<1>2. CASE Request \/ Disable \/ UNCHANGED vars
  <2>1. UNCHANGED << phase, done, l1, uplink, current >> /\ cancelled \subseteq cancelled'
    BY <1>2 DEF Request, Disable, vars, ctxVars, threadVars, taskVars
  <2> QED BY <2>1, TasksClearKept DEF Alive, Queued
<1>3. ASSUME NEW t \in Tx, ThreadStep(t)
      PROVE  TasksClear'
  <2>1. /\ l1' = l1 /\ cancelled' = cancelled /\ current' \in {current, None}
    BY <1>3 DEF ThreadStep, Launch, BeginExchange, Advance, Fail, Expire, Abandon, Exit, Consume,
                ctxVars, taskVars
  <2>2. \A u \in Tx : Alive(u)' => Alive(u)
    BY <2>1 DEF Alive, Tx
  <2>3. CASE Advance(t)
    <3>1. /\ phase[t] = "waiting" /\ ~Queued(t) /\ UNCHANGED << uplink, answer >>
          /\ \A u \in Tx \ {t} : done'[u] = done[u] /\ phase'[u] = phase[u]
      BY <2>3 DEF Advance, FlightInv, TypeOK, TasksInv, taskVars
    <3> QED BY <2>1, <2>2, <3>1 DEF TasksClear, Queued
  <2>4. CASE BeginExchange(t)
    <3>1. /\ done' = done /\ uplink' = Append(uplink, t) /\ uplink \in Seq(Tx)
          /\ \A u \in Tx \ {t} : phase'[u] = phase[u]
      BY <2>4 DEF BeginExchange, FlightInv, TypeOK
    <3>2. Queued(t)' /\ \A u \in Tx : Queued(u) => Queued(u)'
      BY <3>1 DEF Queued
    <3> QED BY <2>1, <2>2, <3>1, <3>2, TasksClearKept
  <2>5. CASE ~Advance(t) /\ ~BeginExchange(t)
    <3>1. /\ UNCHANGED << done, uplink >>
          /\ \A u \in Tx : phase'[u] = "waiting" => phase[u] = "waiting"
      BY <1>3, <2>5 DEF ThreadStep, Launch, Fail, Expire, Abandon, Exit, Consume, FlightInv, TypeOK,
                        threadVars, taskVars
    <3> QED BY <2>1, <2>2, <3>1, TasksClearKept DEF Queued
  <2> QED BY <2>3, <2>4, <2>5
<1>4. CASE L1Take
  <2>1. PICK t \in Tx :
          /\ Queued(t) /\ UNCHANGED << ctxVars, phase, done >>
          /\ (Alive(t) /\ l1'.tx = t) \/ (~Alive(t) /\ l1' = l1 /\ l1.at = "idle")
    BY <1>4, TakeIs
  <2> QED BY <2>1 DEF TasksClear, Alive, ctxVars
<1>5. CASE L1Protect \/ L1Send \/ L1Wake \/ L1Timeout \/ L1Receive \/ (\E m \in wire : Serve(m))
  <2>1. /\ UNCHANGED << ctxVars, phase, done, uplink >>
    BY <1>5 DEF L1Protect, L1Send, L1Wake, L1Timeout, L1Receive, Serve, threadVars
  <2>2. l1'.at # "idle" => l1.at # "idle" /\ l1'.tx = l1.tx
    <3>1. CASE \E m \in wire : Serve(m)
      BY <3>1, ServeIs DEF FlightInv, TypeOK
    <3>2. CASE L1Protect \/ L1Send
      <4>1. CASE l1' = IdleL1
        BY <4>1 DEF IdleL1
      <4>2. CASE l1' # IdleL1
        BY <3>2, <4>2 DEF L1Protect, L1Send, FlightInv, TypeOK
      <4> QED BY <4>1, <4>2
    <3>3. CASE L1Wake \/ L1Timeout \/ L1Receive
      BY <3>3 DEF L1Wake, L1Timeout, L1Receive, IdleL1
    <3> QED BY <1>5, <3>1, <3>2, <3>3
  <2> QED BY <2>1, <2>2, TasksClearKept DEF Alive, Queued, ctxVars
<1> QED BY <1>1, <1>2, <1>3, <1>4, <1>5 DEF Next, TaskStep

\* The message of an exchange with a protected message is not fresh only when
\* it has been protected.
LEMMA CountTakenThread ==
  ASSUME Serial, FlightInv, RequestsInv, CountTaken, NEW t \in Tx, ThreadStep(t)
  PROVE  CountTaken'
<1>1. UNCHANGED << l1, sent, cancelled, clearing >> /\ current' \in {current, None}
  BY DEF ThreadStep, Launch, BeginExchange, Advance, Fail, Expire, Abandon, Exit, Consume,
         ctxVars, taskVars, ghostVars
<1>2. \A u \in Tx : Alive(u)' => Alive(u)
  BY <1>1 DEF Alive, Tx
<1>3. CASE Launch(t)
  <2>1. done' = done /\ phase[t] = "starting" /\ Alive(t) /\ done[t] = 0
    BY <1>3 DEF Launch, RequestsInv, FlightInv, ThreadsInv
  <2>2. \A u \in Tx : Alive(u)' => u = t
    BY <1>2, <2>1 DEF Alive
  <2>3. l1'.pdu # None /\ MaySend(l1.tx)' => FALSE
    <3>1. l1.pdu # None => l1.tx \in Tx /\ phase[l1.tx] \in Gone
      BY DEF FlightInv, TasksInv, PduInv, InL1
    <3> QED BY <1>1, <2>1, <2>2, <3>1 DEF MaySend, Gone
  <2> QED BY <1>1, <2>1, <2>2, <2>3 DEF CountTaken
<1>4. CASE Advance(t)
  <2>1. /\ phase[t] = "waiting" /\ ~Queued(t) /\ ~InL1(t) /\ UNCHANGED << uplink, ueNas >>
        /\ done' = [done EXCEPT ![t] = @ + 1] /\ done \in [Tx -> 0..8]
        /\ phase' = [phase EXCEPT ![t] = IF done[t] + 1 = 8 THEN "attached" ELSE "ready"]
        /\ phase \in [Tx -> Phases]
    BY <1>4 DEF Advance, FlightInv, TypeOK, TasksInv, taskVars
  <2>2. ~Fresh(t)
    BY <2>1 DEF Fresh
  <2>3. phase'[t] \in {"ready", "waiting"} =>
          phase'[t] = "ready" /\ done[t] # 7 /\ Fresh(t)'
    BY <2>1 DEF Fresh
  <2>4. ASSUME NEW u \in Tx, Alive(u)', phase'[u] \in {"ready", "waiting"},
               done'[u] = 7 \/ (done'[u] = 6 /\ ~Fresh(u)')
        PROVE  ueNas # None /\ ueNas.tx = u /\ ueNas.up >= 1
    <3>1. CASE u = t
      BY <1>2, <2>1, <2>2, <2>3, <2>4, <3>1 DEF CountTaken
    <3>2. CASE u # t
      <4>1. done'[u] = done[u] /\ phase'[u] = phase[u] /\ (Fresh(u)' <=> Fresh(u))
        BY <1>1, <2>1, <3>2 DEF Fresh, Queued, InL1
      <4> QED BY <1>2, <2>4, <4>1 DEF CountTaken
    <3> QED BY <3>1, <3>2
  <2>5. l1.pdu # None => l1.tx \in Tx \ {t}
    BY <2>1 DEF FlightInv, TasksInv, PduInv, InL1
  <2>6. l1.pdu # None => /\ done'[l1.tx] = done[l1.tx]
                         /\ MaySend(l1.tx)' => MaySend(l1.tx)
    BY <1>1, <2>1, <2>5 DEF MaySend, Alive, Stopped, Tx
  <2> QED BY <1>1, <2>1, <2>4, <2>6 DEF CountTaken
<1>5. CASE BeginExchange(t)
  <2>1. /\ UNCHANGED << done, ueNas >> /\ uplink' = Append(uplink, t) /\ uplink \in Seq(Tx)
        /\ phase[t] = "ready" /\ phase'[t] = "waiting" /\ \A u \in Tx \ {t} : phase'[u] = phase[u]
    BY <1>5 DEF BeginExchange, FlightInv, TypeOK
  <2>2. Queued(t)' /\ \A u \in Tx : Queued(u) => Queued(u)'
    BY <2>1 DEF Queued
  <2>3. \A u \in Tx : Fresh(u) => Fresh(u)'
    BY <1>1, <2>1, <2>2 DEF Fresh, InL1
  <2>4. l1.pdu # None => l1.tx \in Tx \ {t}
    BY <2>1 DEF FlightInv, TasksInv, PduInv, InL1, Gone
  <2>5. l1.pdu # None /\ MaySend(l1.tx)' => MaySend(l1.tx)
    BY <1>1, <2>1, <2>4 DEF MaySend, Alive, Stopped, Tx
  <2> QED BY <1>1, <1>2, <2>1, <2>3, <2>5 DEF CountTaken
<1>6. CASE Fail(t) \/ Expire(t) \/ Abandon(t) \/ Exit(t) \/ Consume(t)
  <2>1. /\ UNCHANGED << done, ueNas, uplink >>
        /\ phase[t] \in Ended => phase' = phase
        /\ \A u \in Tx : phase'[u] = phase[u] \/ phase'[u] \in {"failed", "cancelled"}
    BY <1>6 DEF Fail, Expire, Abandon, Exit, Consume, FlightInv, TypeOK, Ended, threadVars, taskVars
  <2>2. \A u \in Tx : phase'[u] \in {"ready", "waiting"} =>
          phase'[u] = phase[u] /\ (Fresh(u) => Fresh(u)')
    BY <1>1, <2>1 DEF Fresh, Queued, InL1
  <2>3. l1.pdu # None => l1.tx \in Tx
    BY DEF FlightInv, TasksInv, PduInv
  <2>4. l1.pdu # None /\ MaySend(l1.tx)' => MaySend(l1.tx)
    BY <1>1, <2>1, <2>3 DEF MaySend, Alive, Stopped, Ended, Tx
  <2> QED BY <1>1, <1>2, <2>1, <2>2, <2>4 DEF CountTaken
<1> QED BY <1>3, <1>4, <1>5, <1>6 DEF ThreadStep

LEMMA CountTakenProtect ==
  ASSUME FlightInv, TasksClear, CountTaken, L1Protect
  PROVE  CountTaken'
<1> PICK t \in Tx : t = l1.tx /\ InL1(t) /\ l1.at = "protecting"
  BY DEF FlightInv, TasksInv, L1Protect, InL1
<1>1. /\ l1'.at = "sending" /\ l1'.tx = t /\ l1'.pdu = UplinkPdu(t)
      /\ ueNas' = [UeContext(t) EXCEPT !.up = @ + 1]
      /\ UNCHANGED << ctxVars, phase, done, uplink, sent >>
  BY DEF L1Protect, FlightInv, TypeOK, threadVars, ghostVars
<1>2. UeContext(t) \in UeNasSet /\ UeContext(t).tx = t
  BY UeContextType DEF FlightInv
<1>3. ueNas' # None /\ ueNas'.tx = t /\ ueNas'.up = UeContext(t).up + 1 /\ UeContext(t).up \in Nat
  <2>1. ueNas' \in UeNasSet /\ ueNas'.tx = t /\ ueNas'.up = UeContext(t).up + 1 /\ UeContext(t).up \in Nat
    BY <1>1, <1>2 DEF UeNasSet
  <2> QED BY <2>1
<1>4. ASSUME NEW u \in Tx, Alive(u)', phase'[u] \in {"ready", "waiting"},
             done'[u] = 7 \/ (done'[u] = 6 /\ ~Fresh(u)')
      PROVE  ueNas' # None /\ ueNas'.tx = u /\ ueNas'.up >= 1
  <2>1. u = t
    BY <1>1, <1>4 DEF TasksClear, Alive, ctxVars
  <2> QED BY <1>3, <2>1
<1>5. MaySend(t)' /\ done[t] = 7 => UplinkPdu(t).count >= 1
  <2> SUFFICES ASSUME MaySend(t)', done[t] = 7 PROVE UplinkPdu(t).count >= 1
    OBVIOUS
  <2>1. Alive(t) /\ phase[t] = "waiting"
    <3>1. MaySend(t) /\ phase[t] \in Gone
      BY <1>1 DEF MaySend, Alive, Stopped, ctxVars, FlightInv, TasksInv
    <3> QED BY <3>1, AliveWaits DEF MaySend
  <2>2. ueNas # None /\ ueNas.tx = t /\ ueNas.up >= 1
    BY <2>1 DEF CountTaken
  <2> QED BY <2>2 DEF UplinkPdu, UeContext
<1> QED BY <1>1, <1>4, <1>5 DEF CountTaken

\* Steps of the tasks that protect nothing and send nothing.
LEMMA CountTakenKept ==
  ASSUME FlightInv, CountTaken, UNCHANGED << phase, done, sent >>,
         \A t \in Tx : Alive(t)' => Alive(t),
         l1'.pdu # None => l1'.pdu = l1.pdu /\ l1'.tx = l1.tx,
         \A t \in Tx : Alive(t)' => (Fresh(t) => Fresh(t)'),
         \A t \in Tx : Alive(t)' /\ done[t] >= 6 /\ ueNas # None /\ ueNas.tx = t =>
           ueNas' # None /\ ueNas'.tx = t /\ ueNas'.up = ueNas.up
  PROVE  CountTaken'
<1>1. ASSUME NEW u \in Tx, Alive(u)', phase'[u] \in {"ready", "waiting"},
             done'[u] = 7 \/ (done'[u] = 6 /\ ~Fresh(u)')
      PROVE  ueNas' # None /\ ueNas'.tx = u /\ ueNas'.up >= 1
  <2>1. ueNas # None /\ ueNas.tx = u /\ ueNas.up >= 1
    BY <1>1 DEF CountTaken
  <2> QED BY <1>1, <2>1
<1>2. ASSUME l1'.pdu # None, MaySend(l1.tx)', done'[l1.tx] = 7
      PROVE  l1'.pdu.count >= 1
  <2>1. PICK t \in Tx : t = l1.tx
    BY <1>2 DEF FlightInv, TasksInv, PduInv
  <2>2. l1'.tx = t
    BY <1>2, <2>1
  <2>3. MaySend(t) /\ done[t] = 7
    BY <1>2, <2>1, <2>2 DEF MaySend, Alive, Stopped
  <2> QED BY <1>2, <2>1, <2>3 DEF CountTaken
<1> QED BY <1>1, <1>2 DEF CountTaken

LEMMA CountTakenSend ==
  ASSUME FlightInv, CountTaken, L1Send
  PROVE  CountTaken'
<1> PICK t \in Tx : t = l1.tx /\ InL1(t) /\ l1.at = "sending"
  BY DEF L1Send, FlightInv, TasksInv, InL1
<1> PICK m : m = Message(t, l1.pdu)
  OBVIOUS
<1>1. /\ UNCHANGED << ctxVars, phase, done, uplink, ueNas >>
      /\ sent' = sent \/ (MaySend(t) /\ m.pdu # None /\ sent' = sent \cup {m.pdu})
      /\ \/ l1' = IdleL1
         \/ l1'.pdu = l1.pdu /\ l1'.tx = t
  BY DEF L1Send, FlightInv, TypeOK
<1>2. \A u \in Tx : (Alive(u)' => Alive(u)) /\ (Fresh(u) => Fresh(u)')
  BY <1>1 DEF Alive, ctxVars, Fresh, InL1, Queued
<1>3. l1'.pdu # None => l1'.pdu = l1.pdu /\ l1'.tx = l1.tx
  BY <1>1 DEF IdleL1
<1>4. CASE sent' = sent
  BY <1>1, <1>2, <1>3, <1>4, CountTakenKept
<1>5. CASE sent' # sent
  <2>1. m.pdu # None /\ MaySend(t) /\ sent' = sent \cup {m.pdu}
    BY <1>1, <1>5
  <2>2. StageOf(t) \in Protected /\ l1.pdu \in PduSet /\ l1.pdu.kind = StageOf(t)
    <3>1. Hit(t, "tampered") => StageOf(t) \in Protected
      <4>1. fault[t] \in PossibleFaults
        BY DEF FlightInv, TypeOK
      <4> QED BY <4>1 DEF Hit, PossibleFaults, NoFault
    <3>2. l1.pdu # None \/ Hit(t, "tampered")
      BY <2>1 DEF Message
    <3> QED BY <3>1, <3>2 DEF FlightInv, PduInv
  <2>3. m.pdu.kind = StageOf(t) /\ m.pdu.count = l1.pdu.count
    BY <2>2 DEF Message, PduSet
  <2>4. StageOf(t) = "attach_complete" => done[t] = 7
    <3>1. done[t] \in 0..7
      BY OpenDone DEF FlightInv, TasksInv
    <3> QED BY <2>2, <3>1, ProtectedStages
  <2>5. m.pdu.kind = "attach_complete" => m.pdu.count >= 1
    <3>1. l1.pdu # None
      BY <2>2
    <3> QED BY <2>1, <2>3, <2>4, <3>1 DEF CountTaken
  <2>6. \A u \in Tx : Alive(u)' /\ phase'[u] \in {"ready", "waiting"}
                      /\ (done'[u] = 7 \/ (done'[u] = 6 /\ ~Fresh(u)'))
          => ueNas' # None /\ ueNas'.tx = u /\ ueNas'.up >= 1
    BY <1>1, <1>2 DEF CountTaken
  <2>7. l1'.pdu # None /\ MaySend(l1.tx)' /\ done'[l1'.tx] = 7 => l1'.pdu.count >= 1
    BY <1>1, <1>3, <2>1 DEF CountTaken
  <2>8. \A p \in sent' : p.kind = "attach_complete" => p.count >= 1
    BY <2>1, <2>5 DEF CountTaken
  <2> QED BY <2>6, <2>7, <2>8 DEF CountTaken
<1> QED BY <1>4, <1>5

LEMMA CountTakenStep ==
  ASSUME Serial
  PROVE  FlightInv /\ RequestsInv /\ TasksClear /\ CountTaken /\ [Next]_vars => CountTaken'
<1> SUFFICES ASSUME FlightInv, RequestsInv, TasksClear, CountTaken, [Next]_vars
             PROVE  CountTaken'
  OBVIOUS
<1>1. CASE Start
  <2> PICK t \in Tx : t = made + 1
    BY <1>1 DEF Start, FlightInv, TypeOK, Tx
  <2>1. /\ current' = t /\ phase[t] = "none" /\ phase'[t] = "starting"
        /\ UNCHANGED << done, l1, sent >>
    BY <1>1 DEF Start, FlightInv, TypeOK, ThreadsInv, taskVars, ghostVars
  <2>2. l1.pdu # None => l1.tx \in Tx \ {t}
    BY <2>1 DEF FlightInv, TasksInv, PduInv, InL1, Gone
  <2>3. \A u \in Tx : Alive(u)' => u = t
    BY <2>1 DEF Alive
  <2>4. l1'.pdu # None => ~MaySend(l1.tx)'
    BY <2>1, <2>2 DEF MaySend, Alive
  <2> QED BY <2>1, <2>3, <2>4 DEF CountTaken
<1>2. CASE Request \/ UNCHANGED vars
  <2>1. /\ UNCHANGED << phase, done, sent, l1, uplink, ueNas, current >> /\ cancelled \subseteq cancelled'
    BY <1>2 DEF Request, vars, ctxVars, threadVars, taskVars, ghostVars
  <2>2. \A u \in Tx : (Alive(u)' => Alive(u)) /\ (Fresh(u) => Fresh(u)')
    BY <2>1 DEF Alive, Fresh, InL1, Queued
  <2> QED BY <2>1, <2>2, CountTakenKept
<1>3. CASE Disable
  <2>1. /\ UNCHANGED << phase, done, sent, l1, current, cancelled >> /\ clearing # 0
    BY <1>3 DEF Disable, threadVars, taskVars, ghostVars, FlightInv, TypeOK
  <2>2. \A u \in Tx : ~Alive(u) /\ ~Alive(u)'
    BY <2>1 DEF Alive, RequestsInv
  <2>3. \A u \in Tx : ~MaySend(u)'
    BY <2>2 DEF MaySend
  <2>4. l1.pdu # None => l1.tx \in Tx
    BY DEF FlightInv, TasksInv, PduInv
  <2>5. l1'.pdu # None => ~MaySend(l1.tx)'
    BY <2>1, <2>3, <2>4 DEF MaySend, Alive
  <2> QED BY <2>1, <2>2, <2>5 DEF CountTaken
<1>4. CASE L1Take
  <2>1. PICK t \in Tx :
          /\ Queued(t) /\ UNCHANGED << ctxVars, phase, done, ueNas, sent >>
          /\ l1' = l1 \/ l1'.tx = t
    BY <1>4, TakeIs DEF ghostVars
  <2>2. /\ uplink # << >> /\ uplink' = Tail(uplink) /\ uplink \in Seq(Tx) /\ l1.at = "idle"
        /\ l1' = IF Alive(Head(uplink))
                 THEN [IdleL1 EXCEPT !.tx = Head(uplink),
                         !.at = IF StageOf(Head(uplink)) \in Protected THEN "protecting" ELSE "sending"]
                 ELSE l1
    BY <1>4 DEF L1Take, FlightInv, TypeOK
  <2>3. l1'.pdu = None
    <3>1. l1.pdu = None
      BY <2>2 DEF FlightInv, PduInv
    <3> QED BY <2>2, <3>1 DEF IdleL1
  <2>4. ASSUME NEW u \in Tx, Alive(u)', phase'[u] \in {"ready", "waiting"},
               done'[u] = 7 \/ (done'[u] = 6 /\ ~Fresh(u)')
        PROVE  ueNas' # None /\ ueNas'.tx = u /\ ueNas'.up >= 1
    <3>1. Alive(u)
      BY <2>1, <2>4 DEF Alive, ctxVars
    <3>2. done[u] = 6 => ~Fresh(u)
      <4> SUFFICES ASSUME done[u] = 6, Fresh(u) PROVE FALSE
        OBVIOUS
      <4>1. phase[u] = "waiting" /\ Queued(u)
        BY <2>1, <2>2, <2>4 DEF Fresh, InL1
      <4>2. ~Queued(u)' /\ ~(InL1(u)' /\ l1'.at = "protecting")
        BY <2>1, <2>4 DEF Fresh
      <4>3. PICK i \in 1..Len(uplink) : uplink[i] = u
        BY <4>1 DEF Queued
      <4>4. i = 1
        <5>1. i > 1 => i - 1 \in 1..Len(uplink') /\ uplink'[i - 1] = uplink[i]
          BY <2>2
        <5> QED BY <4>2, <4>3, <5>1 DEF Queued
      <4>5. Head(uplink) = u
        BY <2>2, <4>3, <4>4
      <4>6. StageOf(u) \in Protected
        BY ProtectedStages
      <4>7. l1'.at = "protecting" /\ l1'.tx = u
        BY <2>2, <3>1, <4>5, <4>6 DEF IdleL1
      <4> QED BY <4>2, <4>7 DEF InL1
    <3> QED BY <2>1, <2>4, <3>1, <3>2 DEF CountTaken
  <2> QED BY <2>1, <2>3, <2>4 DEF CountTaken, ghostVars
<1>5. CASE L1Wake \/ L1Timeout
  <2>1. /\ UNCHANGED << ctxVars, phase, done, sent, uplink, ueNas >> /\ l1' = IdleL1
        /\ l1.at # "protecting"
    BY <1>5 DEF L1Wake, L1Timeout, ghostVars
  <2>2. \A u \in Tx : (Alive(u)' => Alive(u)) /\ (Fresh(u) => Fresh(u)')
    BY <2>1 DEF Alive, ctxVars, Fresh, InL1, Queued
  <2> QED BY <2>1, <2>2, CountTakenKept DEF IdleL1
<1>6. CASE L1Receive
  <2> PICK t \in Tx : t = l1.tx
    BY <1>6 DEF L1Receive, FlightInv, TasksInv
  <2>1. /\ UNCHANGED << ctxVars, phase, done, sent, uplink >> /\ l1' = IdleL1
        /\ l1.at = "sent"
    BY <1>6 DEF L1Receive, ghostVars
  <2>2. \A u \in Tx : (Alive(u)' => Alive(u)) /\ (Fresh(u) => Fresh(u)')
    BY <2>1 DEF Alive, ctxVars, Fresh, InL1, Queued
  <2>3. \/ ueNas' = ueNas
        \/ ueNas' # None /\ ueNas'.tx = t /\ ueNas'.up = UeContext(t).up
    BY <1>6, ReceiveKeeps
  <2>4. ASSUME NEW u \in Tx, Alive(u)', done[u] >= 6, ueNas # None, ueNas.tx = u
        PROVE  ueNas' # None /\ ueNas'.tx = u /\ ueNas'.up = ueNas.up
    <3>1. u = t
      <4>1. Alive(u) /\ done[u] \in 0..8 /\ l1.at # "idle"
        BY <2>1, <2>2, <2>4 DEF FlightInv, TypeOK
      <4> QED BY <2>4, <4>1 DEF TasksClear
    <3> QED BY <2>3, <2>4, <3>1 DEF UeContext
  <2> QED BY <2>1, <2>2, <2>4, CountTakenKept DEF IdleL1
<1>7. ASSUME NEW m \in wire, Serve(m)
      PROVE  CountTaken'
  <2>1. UNCHANGED << ctxVars, phase, done, sent, uplink, ueNas >>
    BY <1>7 DEF Serve, threadVars
  <2>2. l1'.at = l1.at /\ l1'.tx = l1.tx /\ l1'.pdu = l1.pdu
    <3>1. l1' = l1 \/ \E r \in ResponseSet : l1' = [l1 EXCEPT !.reply = r]
      BY <1>7, ServeIs
    <3> QED BY <3>1 DEF FlightInv, TypeOK
  <2>3. \A u \in Tx : (Alive(u)' => Alive(u)) /\ (Fresh(u) => Fresh(u)')
    BY <2>1, <2>2 DEF Alive, ctxVars, Fresh, InL1, Queued
  <2> QED BY <2>1, <2>2, <2>3, CountTakenKept
<1> QED
  BY <1>1, <1>2, <1>3, <1>4, <1>5, <1>6, <1>7, CountTakenThread, CountTakenProtect, CountTakenSend
  DEF Next, TaskStep

LEMMA SerialHolds == ASSUME Serial PROVE Spec => [](NasInv /\ SerialInv)
<1>1. Init => NasInv /\ SerialInv
  <2> SUFFICES ASSUME Init PROVE NasInv /\ SerialInv
    OBVIOUS
  <2>1. \A t \in Tx : ~Alive(t)
    BY DEF Init, Alive, Tx
  <2> QED BY <2>1, NasInvInit DEF Init, SerialInv, RequestsInv, TasksClear, CountTaken, IdleL1
<1>2. NasInv /\ SerialInv /\ [Next]_vars => (NasInv /\ SerialInv)'
  BY NasInvStep, RequestsStep, TasksClearStep, CountTakenStep DEF NasInv, SerialInv
<1> QED BY <1>1, <1>2, PTL DEF Spec

\* When operations come one after the other, no two PDUs go out under the keys
\* of one transaction with one COUNT, for any number of transactions and of
\* cancellations, with any fault.
THEOREM CountsAreUsedOnce == ASSUME Serial PROVE Spec => []UplinkCountAdvances
<1>1. NasInv /\ SerialInv => UplinkCountAdvances
  <2> SUFFICES ASSUME NasInv, SerialInv, NEW p \in sent, NEW q \in sent, p.count = q.count
               PROVE  p.kind = q.kind
    BY DEF UplinkCountAdvances
  <2>1. \A r \in sent : /\ r.kind \in Protected /\ r.count \in Nat
                        /\ r.kind = "security_mode" => r.count <= 0
                        /\ r.kind = "attach_complete" => r.count >= 1
    BY DEF NasInv, CountsInv, SerialInv, CountTaken, FlightInv, TypeOK, PduSet
  <2> QED BY <2>1 DEF Protected
<1> QED BY <1>1, SerialHolds, PTL

-----------------------------------------------------------------------------
(* An Attach that nothing goes wrong with.                                 *)

\* Only transactions that were made have a context, and while there are no
\* more of them than the peer keeps, what it has accepted is not forgotten.
TableInv ==
  /\ \A t \in Tx : mme[t] # None => t <= made
  /\ made <= Capacity => \A t \in Tx : Types(t) # {} => mme[t] # None

\* Transactions are made one at a time.
LEMMA MadeGrows ==
  ASSUME FlightInv, [Next]_vars
  PROVE  made \in Nat /\ made' \in {made, made + 1}
<1>1. made' = made \/ made' = made + 1
  BY DEF Next, ThreadStep, TaskStep, vars, ctxVars, Start, Request, Disable, Launch,
         BeginExchange, Advance, Fail, Expire, Abandon, Exit, Consume,
         L1Take, L1Protect, L1Send, L1Wake, L1Timeout, L1Receive, Serve
<1>2. made \in Nat
  BY DEF FlightInv, TypeOK
<1> QED BY <1>1, <1>2

LEMMA TableStep ==
  FlightInv /\ OrderInv /\ WireInv /\ TableInv /\ [Next]_vars => TableInv'
<1> SUFFICES ASSUME FlightInv, OrderInv, WireInv, TableInv, [Next]_vars PROVE TableInv'
  OBVIOUS
<1>0. made \in Nat /\ made' \in Nat /\ made <= made'
  BY MadeGrows
<1>1. CASE \A m \in wire : ~Serve(m)
  <2>1. UNCHANGED << mme, accepted >>
    BY <1>1, OnlyServeStores
  <2>2. \A u \in Tx : Types(u)' = Types(u)
    BY <2>1 DEF Types
  <2> QED BY <1>0, <2>1, <2>2 DEF TableInv, Tx
<1>2. ASSUME NEW m \in wire, Serve(m)
      PROVE  TableInv'
  <2> PICK t \in Tx : t = m.tx
    BY WireOpen
  <2> PICK d \in ContextSet : d = Decided(Before(t), m)
    BY <1>2, ServeIs
  <2>1. /\ Store(t, d) /\ made' = made /\ d # None
        /\ \A u \in Tx \ {t} : accepted'[u] = accepted[u]
    BY <1>2, ServeIs DEF Serve, ctxVars, FlightInv, TypeOK
  <2>2. /\ mme'[t] = d /\ \A u \in Tx \ {t} : mme'[u] = mme[u] \/ mme'[u] = None
    BY <2>1, StoreIs DEF FlightInv
  <2>3. t <= made
    <3>1. phase[t] # "none"
      BY WireOpen DEF Gone
    <3> QED BY <1>0, <3>1 DEF FlightInv, ThreadsInv, Tx
  <2>4. ASSUME made <= Capacity
        PROVE  \A u \in Tx \ {t} : mme'[u] = mme[u]
    <3>1. mme \in [Tx -> ContextSet \cup {None}] /\ order \in Seq(Tx)
      BY DEF FlightInv, TypeOK
    <3>2. CASE mme[t] # None
      BY <2>1, <3>1, <3>2 DEF Store
    <3>3. CASE mme[t] = None
      <4>1. ~Full(Len(Append(order, t)))
        <5> DEFINE longer == Append(order, t)
        <5>1. /\ Len(longer) \in Nat /\ Len(longer) = Len(order) + 1 /\ longer[Len(order) + 1] = t
              /\ \A i \in 1..Len(order) : longer[i] = order[i] /\ order[i] # t
          BY <3>1, <3>3 DEF OrderInv
        <5>2. \A i, j \in 1..Len(longer) : longer[i] = longer[j] => i = j
          BY <5>1 DEF OrderInv
        <5>3. \A i \in 1..Len(longer) : longer[i] \in 1..made
          <6>1. \A i \in 1..Len(order) : order[i] \in Tx /\ mme[order[i]] # None
            BY <3>1 DEF OrderInv
          <6>2. \A i \in 1..Len(order) : order[i] \in 1..made
            BY <1>0, <6>1 DEF TableInv, Tx
          <6> QED BY <1>0, <2>3, <5>1, <6>2 DEF Tx
        <5> HIDE DEF longer
        <5>4. Cardinality({ longer[i] : i \in 1..Len(longer) }) = Len(longer)
          BY <5>1, <5>2, ImageCardinality
        <5>5. { longer[i] : i \in 1..Len(longer) } \subseteq 1..made
          BY <5>3
        <5>6. IsFiniteSet(1..made) /\ Cardinality(1..made) = made
          <6> PICK k \in Nat : k = made
            BY <1>0
          <6> QED BY FS_Interval
        <5>7. Len(longer) <= made
          BY <5>4, <5>5, <5>6, FS_Subset
        <5> QED BY <1>0, <2>4, <5>1, <5>7 DEF longer, Full
      <4> QED BY <2>1, <3>1, <3>3, <4>1 DEF Store
    <3> QED BY <3>2, <3>3
  <2>5. \A u \in Tx \ {t} : Types(u)' = Types(u)
    BY <2>1 DEF Types
  <2> QED BY <2>1, <2>2, <2>3, <2>4, <2>5 DEF TableInv
<1> QED BY <1>1, <1>2

\* What the tasks do to the message of a transaction without a fault.
Undisturbed(m) ==
  /\ m.valid /\ m.type = m.stage
  /\ m.type \in Protected =>
       /\ m.pdu \in PduSet /\ m.pdu.tx = m.tx /\ m.pdu.dir = "up"
       /\ m.pdu.kind = m.type /\ m.pdu.genuine /\ m.pdu.ciphered

CleanTasks ==
  /\ l1.pdu # None => l1.pdu.ciphered
  /\ l1.at = "silent" => fault[l1.tx] # NoFault
  /\ \A m \in wire : fault[m.tx] = NoFault => Undisturbed(m)

\* The only step that changes a fault is the one that makes the transaction.
LEMMA FaultsStay ==
  ASSUME FlightInv, [Next]_vars, NEW t \in Tx, phase[t] # "none"
  PROVE  fault'[t] = fault[t]
<1>1. CASE Start
  <2>1. \E f \in Faults : fault' = [fault EXCEPT ![made + 1] = f]
    BY <1>1 DEF Start
  <2>2. t # made + 1 /\ fault \in [Tx -> PossibleFaults]
    BY DEF FlightInv, TypeOK, ThreadsInv
  <2> QED BY <2>1, <2>2
<1>2. CASE ~Start
  BY <1>2 DEF Next, ThreadStep, TaskStep, vars, threadVars, Request, Disable, Launch,
              BeginExchange, Advance, Fail, Expire, Abandon, Exit, Consume,
              L1Take, L1Protect, L1Send, L1Wake, L1Timeout, L1Receive, Serve
<1> QED BY <1>1, <1>2

\* A transaction without a fault meets none.
LEMMA NoHit ==
  ASSUME NEW t \in Tx, fault[t] = NoFault, done[t] \in 0..7, NEW what
  PROVE  ~Hit(t, what) /\ fault[t].stage # StageOf(t)
<1>1. StageOf(t) # "none"
  BY StageOfIs, StagesAre
<1> QED BY <1>1 DEF Hit, NoFault

LEMMA CleanTasksStep ==
  FlightInv /\ WireInv /\ CleanTasks /\ [Next]_vars => CleanTasks'
<1> SUFFICES ASSUME FlightInv, WireInv, CleanTasks, [Next]_vars PROVE CleanTasks'
  OBVIOUS
<1>1. ASSUME NEW m \in wire, m \in wire'
      PROVE  fault'[m.tx] = NoFault => Undisturbed(m)
  <2>1. fault'[m.tx] = fault[m.tx]
    BY WireOpen, FaultsStay DEF Gone
  <2> QED BY <2>1 DEF CleanTasks
<1>2. l1.at # "idle" => l1.tx \in Tx /\ fault'[l1.tx] = fault[l1.tx]
  BY FaultsStay DEF FlightInv, TasksInv, InL1, Gone
<1>3. CASE L1Send
  <2> PICK t \in Tx : t = l1.tx /\ InL1(t) /\ l1.at = "sending"
    BY <1>3 DEF L1Send, FlightInv, TasksInv, InL1
  <2> PICK m : m = Message(t, l1.pdu)
    OBVIOUS
  <2>1. /\ fault' = fault /\ wire' \in {wire, wire \cup {m}}
        /\ \/ l1' = IdleL1
           \/ l1'.at = "silent" /\ Hit(t, "dropped") /\ l1'.tx = t /\ l1'.pdu = l1.pdu
           \/ l1'.at = "sent" /\ l1'.tx = t /\ l1'.pdu = l1.pdu
    BY <1>3 DEF L1Send, FlightInv, TypeOK
  <2>2. done[t] \in 0..7 /\ fault[t] \in PossibleFaults
    BY OpenDone DEF FlightInv, TypeOK, TasksInv
  <2>3. fault[t] = NoFault => Undisturbed(m)
    <3> SUFFICES ASSUME fault[t] = NoFault PROVE Undisturbed(m)
      OBVIOUS
    <3>1. ~Hit(t, "wrong") /\ ~Hit(t, "tampered") /\ WireType(t) = StageOf(t)
      BY <2>2, NoHit DEF WireType
    <3>2. m = [tx |-> t, stage |-> StageOf(t), type |-> StageOf(t), valid |-> TRUE, pdu |-> l1.pdu]
      BY <3>1 DEF Message
    <3>3. StageOf(t) \in Protected =>
            /\ l1.pdu \in PduSet /\ l1.pdu.tx = t /\ l1.pdu.kind = StageOf(t)
            /\ l1.pdu.dir = "up" /\ l1.pdu.genuine /\ l1.pdu.ciphered
      BY DEF FlightInv, PduInv, CleanTasks
    <3> QED BY <3>2, <3>3 DEF Undisturbed
  <2>4. m.tx = t
    BY DEF Message
  <2>5. l1'.at = "silent" => fault'[l1'.tx] # NoFault
    BY <2>1, <2>2, NoHit DEF IdleL1
  <2>6. l1'.pdu # None => l1'.pdu.ciphered
    BY <2>1 DEF IdleL1, CleanTasks
  <2> QED BY <1>1, <2>1, <2>3, <2>4, <2>5, <2>6 DEF CleanTasks
<1>4. CASE ~L1Send
  <2>1. wire' \subseteq wire
    BY <1>4 DEF Next, ThreadStep, TaskStep, vars, peerVars, Start, Request, Disable, Launch,
                BeginExchange, Advance, Fail, Expire, Abandon, Exit, Consume,
                L1Take, L1Protect, L1Wake, L1Timeout, L1Receive, Serve
  <2>2. CASE L1Take \/ L1Protect \/ L1Wake \/ L1Timeout \/ L1Receive
    <3>1. l1' # l1 => l1'.at # "silent" /\ (l1'.pdu # None => l1'.pdu.ciphered)
      <4>1. CASE L1Protect
        <5>1. l1' = [l1 EXCEPT !.at = "sending", !.pdu = UplinkPdu(l1.tx)]
          BY <4>1 DEF L1Protect
        <5>2. l1'.at = "sending" /\ l1'.pdu = UplinkPdu(l1.tx)
          BY <5>1 DEF FlightInv, TypeOK
        <5> QED BY <5>2 DEF UplinkPdu
      <4>2. CASE L1Take
        <5> PICK at \in {"protecting", "sending"} :
                at = IF StageOf(Head(uplink)) \in Protected THEN "protecting" ELSE "sending"
          OBVIOUS
        <5>1. l1' = l1 \/ l1' = [IdleL1 EXCEPT !.tx = Head(uplink), !.at = at]
          BY <4>2 DEF L1Take
        <5>2. CASE l1' # l1
          <6>1. l1'.at = at /\ l1'.pdu = None
            BY <5>1, <5>2 DEF IdleL1
          <6>2. at # "silent"
            OBVIOUS
          <6> QED BY <6>1, <6>2
        <5> QED BY <5>2
      <4>3. CASE L1Wake \/ L1Timeout \/ L1Receive
        BY <4>3 DEF L1Wake, L1Timeout, L1Receive, IdleL1
      <4> QED BY <2>2, <4>1, <4>2, <4>3
    <3> QED BY <1>1, <1>2, <2>1, <3>1 DEF CleanTasks
  <2>3. CASE ~(L1Take \/ L1Protect \/ L1Wake \/ L1Timeout \/ L1Receive)
    <3>1. l1' = l1 \/ \E r \in ResponseSet : l1' = [l1 EXCEPT !.reply = r]
      <4>1. CASE \E m \in wire : Serve(m)
        BY <4>1, ServeIs
      <4> QED BY <1>4, <2>3, <4>1 DEF Next, ThreadStep, TaskStep, vars, taskVars, Start, Request,
                Disable, Launch, BeginExchange, Advance, Fail, Expire, Abandon, Exit, Consume
    <3>2. l1'.at = l1.at /\ l1'.tx = l1.tx /\ l1'.pdu = l1.pdu
      BY <3>1 DEF FlightInv, TypeOK
    <3> QED BY <1>1, <1>2, <2>1, <3>2 DEF CleanTasks
  <2> QED BY <2>2, <2>3
<1> QED BY <1>3, <1>4

\* The Attach in progress, when no fault is configured for it and no timeout
\* has hit it.
Clean(t) ==
  Alive(t) /\ phase[t] \in {"ready", "waiting"} /\ fault[t] = NoFault /\ t \notin late

\* How many responses the UE has taken.
Reached(t) ==
  IF phase[t] = "waiting" /\ answer[t] \in {"matching", "good"} THEN done[t] + 1 ELSE done[t]

\* Its downlink window then: the sixth and the seventh carry a protected PDU.
DownWindow(n) == IF n <= 5 THEN UpWindow(6) ELSE UpWindow(n + 1)

\* What the peer answers.
DownAnswer(t) ==
  IF done[t] \in {5, 6}
  THEN [tx |-> t, dir |-> "down", kind |-> StageOf(t), genuine |-> TRUE,
        count |-> done[t] - 5, ciphered |-> done[t] = 6]
  ELSE None

Expected(t) == [type |-> StageOf(t), verdict |-> "accept", pdu |-> DownAnswer(t)]

CleanOk(t) ==
  /\ answer[t] \in {"none", "matching", "good"}
  /\ UeContext(t).down = DownWindow(Reached(t))
  /\ InL1(t) /\ l1.reply # None => l1.reply = Expected(t)

CleanInv == made <= Capacity => \A t \in Tx : Clean(t) => CleanOk(t)

\* The next message of the order is the one a context waits for.
LEMMA ReadyNext ==
  ASSUME NEW c, NEW n \in 0..7, InOrder(c, n)
  PROVE  Ready(c, Stages[n + 1])
<1>1. CASE n = 0
  BY <1>1 DEF InOrder, Ready, Stages
<1>2. CASE n = 1
  BY <1>2 DEF InOrder, Ready, Stages
<1>3. CASE n = 2
  BY <1>3 DEF InOrder, Ready, Stages
<1>4. CASE n = 3
  BY <1>4 DEF InOrder, Ready, Stages
<1>5. CASE n = 4
  BY <1>5 DEF InOrder, Ready, Stages
<1>6. CASE n = 5
  BY <1>6 DEF InOrder, Ready, Stages
<1>7. CASE n = 6
  BY <1>7 DEF InOrder, Ready, Stages
<1>8. CASE n = 7
  BY <1>8 DEF InOrder, Ready, Stages
<1> QED BY <1>1, <1>2, <1>3, <1>4, <1>5, <1>6, <1>7, <1>8

\* The PDU with the next COUNT opens, in either direction.
LEMMA NextOpens ==
  ASSUME NEW k \in {0, 1}, NEW p, NEW t, NEW dir, NEW kind,
         p # None, p.genuine, p.tx = t, p.dir = dir, p.kind = kind, p.count = k,
         p.ciphered = (dir = "up" \/ kind = "security_mode")
  PROVE  Opens(UpWindow(6 + k), p, t, dir, kind)
<1>1. UpWindow(6 + k).highest = k - 1 /\ UpWindow(6 + k).bits = IF k = 0 THEN {} ELSE {0}
  BY DEF UpWindow, EmptyWindow
<1>2. Estimate(UpWindow(6 + k).highest, k % (2 * NasHalf), NasHalf) = k
  BY <1>1 DEF Estimate, NasHalf
<1>3. ~Rejects(UpWindow(6 + k), NasWidth, k)
  BY <1>1 DEF Rejects, NasWidth
<1> QED BY <1>2, <1>3 DEF Opens

\* What a peer in step answers to a message that nothing happened to.
LEMMA CleanAnswer ==
  ASSUME NasInv, TableInv, CountTaken, made <= Capacity, NEW m \in wire, Serve(m),
         Undisturbed(m)
  PROVE  Response(Before(m.tx), m) = Expected(m.tx)
<1> DEFINE c == Before(m.tx)
<1> PICK t \in Tx : t = m.tx
  BY WireOpen DEF NasInv
<1> PICK n \in 0..7 : n = done[t]
  BY WireOpen DEF NasInv
<1>1. m \in MessageSet /\ c \in ContextSet
  BY ServeIs DEF NasInv, FlightInv
<1>2. InStep(c, n)
  <2>1. Agrees(t, n)
    BY DEF NasInv, ExchangeInv, ExchangeOk, Unserved
  <2>2. mme[t] = None => n = 0
    <3> SUFFICES ASSUME mme[t] = None, n >= 1 PROVE FALSE
      OBVIOUS
    <3>1. Stages[1] \in First(n)
      BY DEF First
    <3> QED BY <2>1, <3>1 DEF TableInv, Agrees
  <2>3. InStep(NewContext, 0)
    BY DEF InStep, InOrder, NewContext
  <2> QED BY <2>1, <2>2, <2>3 DEF Agrees, Before
<1>3. m.type = Stages[n + 1] /\ m.type = StageOf(t) /\ m.type \in StageNames
  BY StageOfIs DEF Undisturbed, NasInv, WireInv
<1>4. ASSUME m.type \in Protected
      PROVE  Verified(c, m)
  <2>1. n \in {6, 7} /\ (m.type = "security_mode" <=> n = 6)
    BY <1>3, <1>4, ProtectedStages
  <2> PICK k \in {0, 1} : k = n - 6
    BY <2>1
  <2>2. /\ m.pdu \in PduSet /\ m.pdu.tx = t /\ m.pdu.dir = "up"
        /\ m.pdu.kind = m.type /\ m.pdu.genuine /\ m.pdu.ciphered
    BY <1>4 DEF Undisturbed
  <2>3. m.pdu \in sent /\ m.pdu # None
    BY <2>2 DEF NasInv, WireInv
  <2>4. m.pdu.count = k
    <3>1. m.pdu.count \in Nat
      BY <2>2 DEF PduSet
    <3>2. m.pdu.count <= IF m.type = "security_mode" THEN 0 ELSE 1
      BY <2>2, <2>3 DEF NasInv, CountsInv
    <3>3. m.type = "attach_complete" => m.pdu.count >= 1
      BY <2>2, <2>3 DEF CountTaken
    <3> QED BY <1>4, <2>1, <3>1, <3>2, <3>3 DEF Protected
  <2>5. c.nas # None /\ c.nas.up = UpWindow(6 + k)
    <3>1. 6 + k = n
      BY <2>1
    <3> QED BY <1>2, <2>1, <3>1 DEF InStep, InOrder
  <2>6. m.pdu.ciphered = TRUE
    BY <2>2 DEF PduSet
  <2>7. Opens(UpWindow(6 + k), m.pdu, t, "up", m.type)
    BY <2>2, <2>3, <2>4, <2>6, NextOpens
  <2> QED BY <2>5, <2>7 DEF Verified
<1>5. Acceptable(c, m)
  <2>1. Ready(c, Stages[n + 1])
    BY <1>2, ReadyNext DEF InStep
  <2>2. m.type # "unknown"
    BY <1>3, StagesAre
  <2> QED BY <1>3, <1>4, <2>1, <2>2 DEF Acceptable, Undisturbed
<1>6. DownlinkPdu(c, m) = DownAnswer(t)
  <2>1. /\ m.type \in {"authentication", "security_mode"} <=> n \in {5, 6}
        /\ m.type = "security_mode" <=> n = 6
    BY <1>3 DEF Stages
  <2>2. CASE n \in {5, 6}
    <3>1. InOrder(Decided(c, m), n + 1)
      <4>1. AfterVerify(c, m) \in ContextSet /\ InOrder(AfterVerify(c, m), n)
        BY <1>1, <1>2, AfterVerifyType, AfterVerifyInOrder DEF InStep
      <4> QED BY <1>3, <1>5, <4>1, GrantedInOrder DEF Decided
    <3>2. Decided(c, m).nas.down = n - 4
      BY <2>2, <3>1 DEF InOrder
    <3>3. Decided(c, m).nas.down - 1 = n - 5
      BY <2>2, <3>2
    <3>4. DownlinkPdu(c, m) =
            [tx |-> t, dir |-> "down", kind |-> m.type, genuine |-> TRUE,
             count |-> n - 5, ciphered |-> m.type = "security_mode"]
      BY <1>5, <2>1, <2>2, <3>3 DEF DownlinkPdu
    <3> QED BY <1>3, <2>1, <2>2, <3>4 DEF DownAnswer
  <2>3. CASE n \notin {5, 6}
    BY <2>1, <2>3 DEF DownlinkPdu, DownAnswer
  <2> QED BY <2>2, <2>3
<1> QED BY <1>3, <1>5, <1>6 DEF Response, Expected

\* An Attach that is clean after a step was so before it, unless the step is
\* the one that starts its thread.
LEMMA CleanWas ==
  ASSUME Serial, FlightInv, RequestsInv, [Next]_vars, NEW t \in Tx, Clean(t)'
  PROVE  Clean(t) \/ Launch(t)
<1>1. CASE Start
  <2>1. /\ UNCHANGED << cancelled, late >> /\ current' = made + 1 /\ phase'[made + 1] = "starting"
    BY <1>1 DEF Start, ghostVars, FlightInv, TypeOK, Tx
  <2> QED BY <2>1 DEF Clean, Alive
<1>2. CASE Request \/ Disable \/ TaskStep \/ (\E m \in wire : Serve(m)) \/ UNCHANGED vars
  <2>1. /\ UNCHANGED << phase, fault, current >> /\ cancelled \subseteq cancelled' /\ late \subseteq late'
    BY <1>2 DEF Request, Disable, TaskStep, L1Take, L1Protect, L1Send, L1Wake, L1Timeout, L1Receive,
                Serve, vars, ctxVars, threadVars, ghostVars
  <2> QED BY <2>1 DEF Clean, Alive
<1>3. ASSUME NEW u \in Tx, ThreadStep(u), ~Launch(t)
      PROVE  Clean(t)
  <2>1. /\ UNCHANGED << fault, cancelled >> /\ current' \in {current, None} /\ late \subseteq late'
    BY <1>3 DEF ThreadStep, Launch, BeginExchange, Advance, Fail, Expire, Abandon, Exit, Consume,
                ctxVars, threadVars, ghostVars
  <2>2. phase'[t] \in {"ready", "waiting"} => phase[t] \in {"ready", "waiting"}
    BY <1>3 DEF ThreadStep, Launch, BeginExchange, Advance, Fail, Expire, Abandon, Exit, Consume,
                threadVars, FlightInv, TypeOK
  <2> QED BY <2>1, <2>2 DEF Clean, Alive, Tx
<1> QED BY <1>1, <1>2, <1>3 DEF Next

\* While the tasks are busy with another message, the UE has taken none.
LEMMA OthersBefore ==
  ASSUME FlightInv, TasksClear, NEW t \in Tx, Clean(t), l1.at # "idle", l1.tx # t
  PROVE  done[t] = 0 /\ DownWindow(Reached(t)) = EmptyWindow
<1>1. done[t] \in 0..8
  BY DEF FlightInv, TypeOK
<1>2. done[t] = 0
  BY <1>1 DEF TasksClear, Clean
<1> QED BY <1>2 DEF Reached, DownWindow, UpWindow

\* Steps in which the Attach gets no further.
LEMMA CleanKept ==
  ASSUME NEW t \in Tx, CleanOk(t), done'[t] = done[t], answer'[t] = answer[t],
         phase'[t] = phase[t],
         ueNas' = ueNas \/ UeContext(t)'.down = UeContext(t).down,
         InL1(t)' /\ l1'.reply # None => InL1(t) /\ l1'.reply = l1.reply
  PROVE  CleanOk(t)'
<1>1. StageOf(t)' = StageOf(t) /\ Expected(t)' = Expected(t) /\ Reached(t)' = Reached(t)
  BY DEF StageOf, Expected, DownAnswer, Reached
<1>2. UeContext(t)'.down = UeContext(t).down
  BY DEF UeContext
<1>3. DownWindow(Reached(t))' = DownWindow(Reached(t))
  BY <1>1 DEF DownWindow
<1> QED BY <1>1, <1>2, <1>3 DEF CleanOk

LEMMA CleanThread ==
  ASSUME Serial, FlightInv, RequestsInv, NEW t \in Tx, NEW u \in Tx, ThreadStep(u), Clean(t)',
         Clean(t) => CleanOk(t)
  PROVE  CleanOk(t)'
<1>1. l1' = l1 /\ (~Launch(u) => ueNas' = ueNas)
  BY DEF ThreadStep, Launch, BeginExchange, Advance, Fail, Expire, Abandon, Exit, Consume, taskVars
<1>2. Clean(t) \/ Launch(t)
  <2>1. Next
    BY DEF Next
  <2> QED BY <2>1, CleanWas
<1>3. CASE u # t
  <2>1. done'[t] = done[t] /\ answer'[t] = answer[t] /\ phase'[t] = phase[t]
    BY <1>3 DEF ThreadStep, Launch, BeginExchange, Advance, Fail, Expire, Abandon, Exit, Consume,
                threadVars, FlightInv, TypeOK
  <2>2. Clean(t)
    <3>1. Launch(t) => phase[t] = "starting"
      BY DEF Launch
    <3> QED BY <1>2, <2>1, <3>1 DEF Clean
  <2>3. ~Launch(u)
    BY <1>3, <2>2 DEF Clean, Launch, RequestsInv, Alive
  <2> QED BY <1>1, <2>1, <2>2, <2>3, CleanKept DEF InL1
<1>4. CASE u = t /\ Launch(t)
  <2>1. /\ phase[t] = "starting" /\ phase'[t] = "ready" /\ ueNas' = None
        /\ UNCHANGED << done, answer >>
    BY <1>4 DEF Launch, Clean, FlightInv, TypeOK
  <2>2. done[t] = 0 /\ answer[t] = "none" /\ ~InL1(t)
    BY <2>1 DEF FlightInv, ThreadsInv, TasksInv, Gone
  <2>3. UeContext(t)'.down = EmptyWindow
    BY <2>1 DEF UeContext
  <2>4. DownWindow(Reached(t))' = EmptyWindow
    BY <2>1, <2>2 DEF DownWindow, Reached, UpWindow
  <2>5. ~InL1(t)'
    BY <1>1, <2>2 DEF InL1
  <2> QED BY <2>1, <2>2, <2>3, <2>4, <2>5 DEF CleanOk
<1>5. CASE u = t /\ ~Launch(t)
  <2>1. CleanOk(t) /\ Clean(t)
    BY <1>2, <1>5
  <2>2. UeContext(t)' = UeContext(t)
    BY <1>1, <1>5 DEF UeContext
  <2>3. CASE BeginExchange(t)
    <3>1. /\ phase[t] = "ready" /\ phase'[t] = "waiting" /\ answer'[t] = "none" /\ done' = done
      BY <2>3 DEF BeginExchange, FlightInv, TypeOK
    <3>2. ~InL1(t)'
      BY <1>1, <3>1 DEF FlightInv, TasksInv, InL1, Gone
    <3>3. Reached(t)' = Reached(t)
      BY <3>1 DEF Reached
    <3> QED BY <2>1, <2>2, <3>1, <3>2, <3>3 DEF CleanOk, DownWindow
  <2>4. CASE Advance(t)
    <3>1. /\ phase[t] = "waiting" /\ answer[t] = "good" /\ done'[t] = done[t] + 1
          /\ answer' = answer /\ phase'[t] \in {"ready", "attached"}
      BY <2>4 DEF Advance, FlightInv, TypeOK
    <3>2. ~InL1(t)'
      BY <1>1, <3>1 DEF FlightInv, TasksInv, InL1
    <3>3. Reached(t)' = Reached(t)
      BY <3>1 DEF Reached
    <3> QED BY <2>1, <2>2, <3>1, <3>2, <3>3 DEF CleanOk, DownWindow
  <2>5. CASE Consume(t)
    <3>1. phase[t] = "waiting" /\ done[t] \in 0..7 /\ MaySend(t)
      <4>1. answer[t] \in {"matching", "other"}
        BY <2>5 DEF Consume
      <4>2. phase[t] = "waiting"
        BY <2>1, <4>1 DEF Clean, FlightInv, ThreadsInv
      <4> QED BY <2>1, <4>2, OpenDone DEF Clean, MaySend, Stopped, Ended, Gone
    <3>2. ~Hit(t, "withheld") /\ ~Hit(t, "spoiled") /\ ~Hit(t, "duplicated")
      BY <2>1, <3>1, NoHit DEF Clean
    <3>3. answer[t] = "matching"
      BY <2>1, <2>5 DEF Consume, CleanOk
    <3>4. /\ answer'[t] = "good" /\ UNCHANGED << phase, done >>
      BY <2>5, <3>1, <3>2, <3>3 DEF Consume, FlightInv, TypeOK
    <3>5. ~InL1(t)'
      BY <1>1, <3>3 DEF FlightInv, TasksInv, InL1
    <3>6. Reached(t)' = Reached(t)
      BY <3>3, <3>4 DEF Reached
    <3> QED BY <2>1, <2>2, <3>4, <3>5, <3>6 DEF CleanOk, DownWindow
  <2>6. ~(Fail(t) \/ Expire(t) \/ Abandon(t) \/ Exit(t))
    BY DEF Fail, Expire, Abandon, Exit, Clean, Alive, FlightInv, TypeOK, Tx
  <2> QED BY <1>5, <2>3, <2>4, <2>5, <2>6 DEF ThreadStep
<1> QED BY <1>3, <1>4, <1>5

\* The L1 task reads the answer to the exchange.
LEMMA CleanReceive ==
  ASSUME FlightInv, NEW t \in Tx, Clean(t), CleanOk(t), L1Receive, l1.tx = t
  PROVE  CleanOk(t)'
<1> DEFINE c == UeContext(t)
<1> PICK n \in 0..7 : n = done[t]
  BY OpenDone DEF L1Receive, FlightInv, TasksInv, InL1
<1>1. InL1(t) /\ l1.at = "sent" /\ l1.reply = Expected(t)
  BY DEF L1Receive, CleanOk, InL1
<1>2. phase[t] = "waiting" /\ answer[t] = "none" /\ Reached(t) = n
  BY <1>1 DEF Clean, FlightInv, TasksInv, Gone, Reached
<1>3. MaySend(t)
  BY <1>2 DEF MaySend, Clean, Stopped, Ended
<1>4. l1' = IdleL1 /\ UNCHANGED << phase, done >>
  BY DEF L1Receive
<1>5. Arrived(t, l1.reply) = "matching" /\ l1.reply.pdu = DownAnswer(t) /\ l1.reply.type = StageOf(t)
  BY <1>1 DEF Expected, Arrived, Matches
<1>6. c \in UeNasSet /\ c.tx = t /\ c.down = DownWindow(n)
  BY <1>2, UeContextType DEF CleanOk, FlightInv
<1>7. CASE n \in {5, 6}
  <2> PICK k \in {0, 1} : k = n - 5
    BY <1>7
  <2> DEFINE p == [tx |-> t, dir |-> "down", kind |-> StageOf(t), genuine |-> TRUE,
                   count |-> n - 5, ciphered |-> n = 6]
  <2>1. l1.reply.pdu = p
    BY <1>5, <1>7 DEF DownAnswer
  <2>2. p # None
    <3>1. p \in PduSet
      BY <1>7, StageOfIs DEF PduSet
    <3> QED BY <3>1
  <2>3. /\ p.genuine /\ p.tx = t /\ p.dir = "down" /\ p.kind = StageOf(t) /\ p.count = k
        /\ p.ciphered = ("down" = "up" \/ StageOf(t) = "security_mode")
    BY <1>7, ProtectedStages
  <2>4. c.down = UpWindow(6 + k) /\ DownWindow(n + 1) = UpWindow(7 + k)
    BY <1>6, <1>7 DEF DownWindow
  <2> HIDE DEF p
  <2>5. Opens(c.down, p, t, "down", StageOf(t))
    BY <2>2, <2>3, <2>4, NextOpens
  <2>6. /\ answer' = [answer EXCEPT ![t] = "matching"]
        /\ ueNas' = [c EXCEPT !.down = Commit(@, NasWidth, p.count)]
    BY <1>3, <1>5, <2>1, <2>2, <2>5 DEF L1Receive
  <2>7. Commit(c.down, NasWidth, p.count) = UpWindow(7 + k)
    BY <2>3, <2>4, NextWindows
  <2>8. ueNas' = [c EXCEPT !.down = UpWindow(7 + k)]
    BY <2>6, <2>7
  <2>9. ueNas' # None /\ ueNas'.tx = t /\ ueNas'.down = UpWindow(7 + k)
    <3>1. UpWindow(7 + k) \in Windows(NasWidth)
      BY DEF UpWindow, Windows, NasWidth
    <3> DEFINE w == UpWindow(7 + k)
    <3> HIDE DEF w
    <3>2. ueNas' = [c EXCEPT !.down = w] /\ w \in Windows(NasWidth)
      BY <2>8, <3>1 DEF w
    <3>3. ueNas' \in UeNasSet /\ ueNas'.tx = t /\ ueNas'.down = w
      BY <1>6, <3>2 DEF UeNasSet
    <3> QED BY <3>3 DEF w
  <2>10. UeContext(t)'.down = UpWindow(7 + k)
    BY <2>9 DEF UeContext
  <2>11. answer'[t] = "matching" /\ ~InL1(t)' /\ Reached(t)' = n + 1
    BY <1>2, <1>4, <2>6 DEF Reached, InL1, IdleL1, FlightInv, TypeOK
  <2>12. DownWindow(Reached(t))' = DownWindow(n + 1)
    BY <2>11 DEF DownWindow
  <2> QED BY <2>4, <2>10, <2>11, <2>12 DEF CleanOk
<1>8. CASE n \notin {5, 6}
  <2>1. l1.reply.pdu = None
    BY <1>5, <1>8 DEF DownAnswer
  <2>2. answer' = [answer EXCEPT ![t] = "matching"] /\ ueNas' = ueNas
    BY <1>3, <1>5, <2>1 DEF L1Receive
  <2>3. UeContext(t)'.down = DownWindow(n)
    BY <1>6, <2>2 DEF UeContext
  <2>4. DownWindow(n + 1) = DownWindow(n)
    BY <1>8 DEF DownWindow, UpWindow
  <2>5. answer'[t] = "matching" /\ ~InL1(t)' /\ Reached(t)' = n + 1
    BY <1>2, <1>4, <2>2 DEF Reached, InL1, IdleL1, FlightInv, TypeOK
  <2>6. DownWindow(Reached(t))' = DownWindow(n + 1)
    BY <2>5 DEF DownWindow
  <2> QED BY <2>3, <2>4, <2>5, <2>6 DEF CleanOk
<1> QED BY <1>7, <1>8

LEMMA CleanTask ==
  ASSUME FlightInv, TasksClear, CleanTasks, TaskStep, NEW t \in Tx, Clean(t), Clean(t)', CleanOk(t)
  PROVE  CleanOk(t)'
<1>1. done' = done /\ phase' = phase
  BY DEF TaskStep, L1Take, L1Protect, L1Send, L1Wake, L1Timeout, L1Receive, threadVars
<1>2. CASE L1Take
  <2>1. PICK u \in Tx :
          /\ ueNas' = ueNas
          /\ \/ answer' = answer /\ l1'.reply = None
             \/ ~Alive(u) /\ l1' = l1 /\ answer' = [answer EXCEPT ![u] = "gone"]
    BY <1>2, TakeIs
  <2>2. answer'[t] = answer[t]
    BY <2>1 DEF Clean, FlightInv, TypeOK
  <2> QED BY <1>1, <2>1, <2>2, CleanKept DEF InL1
<1>3. CASE L1Protect
  <2> PICK u \in Tx : u = l1.tx /\ l1.at = "protecting"
    BY <1>3 DEF L1Protect, FlightInv, TasksInv
  <2>1. /\ answer' = answer /\ l1'.reply = None
        /\ ueNas' = [UeContext(u) EXCEPT !.up = @ + 1]
    BY <1>3 DEF L1Protect, FlightInv, TypeOK, PduInv, threadVars
  <2>2. ueNas' # None /\ ueNas'.tx = u /\ ueNas'.down = UeContext(u).down
    <3>1. UeContext(u) \in UeNasSet /\ UeContext(u).tx = u
      BY UeContextType DEF FlightInv
    <3>2. ueNas' \in UeNasSet /\ ueNas'.tx = u /\ ueNas'.down = UeContext(u).down
      BY <2>1, <3>1 DEF UeNasSet
    <3> QED BY <3>2
  <2>3. UeContext(t)'.down = UeContext(t).down
    <3>1. CASE u = t
      BY <2>2, <3>1 DEF UeContext
    <3>2. CASE u # t
      <4>1. UeContext(t)'.down = EmptyWindow
        BY <2>2, <3>2 DEF UeContext
      <4> QED BY <3>2, <4>1, OthersBefore DEF CleanOk
    <3> QED BY <3>1, <3>2
  <2> QED BY <1>1, <2>1, <2>3, CleanKept
<1>4. CASE L1Send
  <2> PICK u \in Tx : u = l1.tx /\ l1.at = "sending"
    BY <1>4 DEF L1Send, FlightInv, TasksInv
  <2>1. /\ ueNas' = ueNas /\ l1.reply = None
        /\ l1' = IdleL1 \/ l1'.reply = None
        /\ answer' = answer \/ (~MaySend(u) /\ answer' = [answer EXCEPT ![u] = "gone"])
    BY <1>4 DEF L1Send, FlightInv, TypeOK, PduInv
  <2>2. MaySend(t)
    BY DEF MaySend, Clean, Stopped, Ended
  <2>3. answer'[t] = answer[t] /\ l1'.reply = None
    BY <2>1, <2>2 DEF FlightInv, TypeOK, IdleL1
  <2> QED BY <1>1, <2>1, <2>3, CleanKept
<1>5. CASE L1Wake
  <2>1. /\ l1.tx # t /\ l1' = IdleL1 /\ ueNas' = ueNas
        /\ answer' = [answer EXCEPT ![l1.tx] = "gone"]
    BY <1>5 DEF L1Wake, CleanTasks, Clean
  <2>2. answer'[t] = answer[t]
    BY <2>1 DEF FlightInv, TypeOK
  <2> QED BY <1>1, <2>1, <2>2, CleanKept DEF InL1, IdleL1
<1>6. CASE L1Timeout
  <2>1. /\ l1.tx # t /\ l1' = IdleL1 /\ ueNas' = ueNas
        /\ answer' = [answer EXCEPT ![l1.tx] = "bad"]
    BY <1>6 DEF L1Timeout, Clean
  <2>2. answer'[t] = answer[t]
    BY <2>1 DEF FlightInv, TypeOK
  <2> QED BY <1>1, <2>1, <2>2, CleanKept DEF InL1, IdleL1
<1>7. CASE L1Receive /\ l1.tx # t
  <2> PICK u \in Tx : u = l1.tx /\ u # t
    BY <1>7 DEF L1Receive, FlightInv, TasksInv
  <2>1. /\ l1' = IdleL1 /\ l1.at = "sent"
        /\ \E a \in {"matching", "other", "gone", "bad"} : answer' = [answer EXCEPT ![u] = a]
    BY <1>7, L1Ends DEF L1Receive
  <2>2. answer'[t] = answer[t]
    BY <2>1 DEF FlightInv, TypeOK
  <2>3. ueNas' = ueNas \/ (ueNas' # None /\ ueNas'.tx = u)
    BY <1>7, ReceiveKeeps
  <2>4. ueNas' = ueNas \/ UeContext(t)'.down = UeContext(t).down
    <3>1. ueNas' = ueNas \/ UeContext(t)'.down = EmptyWindow
      BY <2>3 DEF UeContext
    <3> QED BY <2>1, <3>1, OthersBefore DEF CleanOk
  <2> QED BY <1>1, <2>1, <2>2, <2>4, CleanKept DEF InL1, IdleL1
<1> QED BY <1>2, <1>3, <1>4, <1>5, <1>6, <1>7, CleanReceive DEF TaskStep

LEMMA CleanServe ==
  ASSUME NasInv, TableInv, CountTaken, CleanTasks, made <= Capacity,
         NEW m \in wire, Serve(m), NEW t \in Tx, Clean(t), CleanOk(t)
  PROVE  CleanOk(t)'
<1>1. UNCHANGED << phase, done, answer, ueNas >>
  BY DEF Serve, threadVars
<1>2. l1' = l1 \/ (l1.tx = m.tx /\ l1' = [l1 EXCEPT !.reply = Response(Before(m.tx), m)])
  BY ServeIs DEF NasInv, FlightInv
<1>3. CASE l1' = l1 \/ m.tx # t
  <2>1. InL1(t)' /\ l1'.reply # None => InL1(t) /\ l1'.reply = l1.reply
    BY <1>2, <1>3 DEF InL1, NasInv, FlightInv, TypeOK
  <2> QED BY <1>1, <2>1, CleanKept
<1>4. CASE m.tx = t /\ l1' = [l1 EXCEPT !.reply = Response(Before(m.tx), m)]
  <2>1. Undisturbed(m)
    BY <1>4 DEF CleanTasks, Clean
  <2>2. l1'.reply = Expected(t)
    BY <1>4, <2>1, CleanAnswer DEF NasInv, FlightInv, TypeOK
  <2>3. Expected(t)' = Expected(t) /\ Reached(t)' = Reached(t) /\ UeContext(t)' = UeContext(t)
    BY <1>1 DEF Expected, StageOf, DownAnswer, Reached, UeContext
  <2> QED BY <1>1, <2>2, <2>3 DEF CleanOk, DownWindow
<1> QED BY <1>2, <1>3, <1>4

LEMMA CleanStep ==
  ASSUME Serial
  PROVE  NasInv /\ SerialInv /\ TableInv /\ CleanTasks /\ CleanInv /\ [Next]_vars => CleanInv'
<1> SUFFICES ASSUME NasInv, SerialInv, TableInv, CleanTasks, CleanInv, [Next]_vars,
                    made' <= Capacity, NEW t \in Tx, Clean(t)'
             PROVE  CleanOk(t)'
  BY DEF CleanInv
<1>0. FlightInv /\ RequestsInv /\ TasksClear /\ CountTaken
  BY DEF NasInv, SerialInv
<1>1. made <= Capacity
  BY <1>0, MadeGrows
<1>2. Clean(t) => CleanOk(t)
  BY <1>1 DEF CleanInv
<1>3. Clean(t) \/ Launch(t)
  BY <1>0, CleanWas
<1>4. CASE \E u \in Tx : ThreadStep(u)
  BY <1>0, <1>2, <1>4, CleanThread
<1>5. CASE ~\E u \in Tx : ThreadStep(u)
  <2>1. Clean(t) /\ CleanOk(t)
    BY <1>2, <1>3, <1>5 DEF ThreadStep
  <2>2. CASE TaskStep
    BY <1>0, <2>1, <2>2, CleanTask
  <2>3. CASE \E m \in wire : Serve(m)
    BY <1>0, <1>1, <2>1, <2>3, CleanServe
  <2>4. CASE Disable
    <3>1. clearing # 0
      BY <2>4, <1>0 DEF Disable, FlightInv, TypeOK
    <3> QED BY <1>0, <2>1, <3>1 DEF RequestsInv, Clean
  <2>5. CASE Start \/ Request \/ UNCHANGED vars
    <3>1. /\ UNCHANGED << done, answer, ueNas, l1 >>
      BY <2>5 DEF Start, Request, vars, threadVars, taskVars
    <3>2. phase'[t] = phase[t]
      <4>1. CASE Start
        <5>1. phase' = [phase EXCEPT ![made + 1] = "starting"] /\ phase[t] # "none"
          BY <4>1, <2>1 DEF Start, Clean
        <5> QED BY <1>0, <5>1 DEF FlightInv, TypeOK, ThreadsInv
      <4> QED BY <2>5, <4>1 DEF Request, vars, threadVars
    <3> QED BY <2>1, <3>1, <3>2, CleanKept DEF InL1
  <2> QED BY <1>5, <2>2, <2>3, <2>4, <2>5 DEF Next
<1> QED BY <1>4, <1>5

LEMMA SuccessStep ==
  NasInv /\ CleanInv /\ CleanRunSucceeds /\ [Next]_vars => CleanRunSucceeds'
<1> SUFFICES ASSUME NasInv, CleanInv, CleanRunSucceeds, [Next]_vars,
                    NEW t \in Tx, phase'[t] = "failed", fault'[t] = NoFault, t \notin late'
             PROVE  made' > Capacity
  BY DEF CleanRunSucceeds
<1>0. FlightInv /\ made \in Nat /\ made' \in {made, made + 1}
  BY MadeGrows DEF NasInv
<1>1. CASE phase[t] = "failed"
  <2>1. fault'[t] = fault[t]
    BY <1>0, <1>1, FaultsStay
  <2>2. late \subseteq late'
    BY DEF Next, ThreadStep, TaskStep, vars, ghostVars, Start, Request, Disable, Launch,
           BeginExchange, Advance, Fail, Expire, Abandon, Exit, Consume,
           L1Take, L1Protect, L1Send, L1Wake, L1Timeout, L1Receive, Serve
  <2> QED BY <1>0, <1>1, <2>1, <2>2 DEF CleanRunSucceeds
<1>2. CASE phase[t] # "failed"
  <2>1. \E u \in Tx : Fail(u) \/ Expire(u)
    BY <1>0, <1>2 DEF Next, ThreadStep, TaskStep, vars, threadVars, Start, Request, Disable, Launch,
           BeginExchange, Advance, Abandon, Exit, Consume, FlightInv, TypeOK,
           L1Take, L1Protect, L1Send, L1Wake, L1Timeout, L1Receive, Serve
  <2>2. Fail(t) \/ Expire(t)
    BY <1>0, <1>2, <2>1 DEF Fail, Expire, FlightInv, TypeOK
  <2>3. Fail(t)
    BY <2>2 DEF Expire
  <2>4. /\ phase[t] = "waiting" /\ Alive(t) /\ answer[t] = "bad" /\ UNCHANGED << fault, late, made >>
    BY <2>3 DEF Fail, ctxVars, ghostVars
  <2>5. Clean(t)
    BY <2>4 DEF Clean
  <2> QED BY <1>0, <2>4, <2>5 DEF CleanInv, CleanOk
<1> QED BY <1>1, <1>2

\* When operations come one after the other, an Attach that no fault is
\* configured for and no timeout hits does not fail, for any number of earlier
\* transactions up to the peer's capacity, wherever they were cancelled.
THEOREM CleanRunsSucceed == ASSUME Serial PROVE Spec => []CleanRunSucceeds
<1> DEFINE Inv == /\ NasInv /\ SerialInv /\ TableInv /\ CleanTasks /\ CleanInv
                  /\ CleanRunSucceeds
<1>1. Init => TableInv /\ CleanTasks /\ CleanInv /\ CleanRunSucceeds
  <2> SUFFICES ASSUME Init PROVE TableInv /\ CleanTasks /\ CleanInv /\ CleanRunSucceeds
    OBVIOUS
  <2>1. \A t \in Tx : Types(t) = {} /\ ~Clean(t)
    BY DEF Init, Types, Clean
  <2> QED BY <2>1 DEF Init, TableInv, CleanTasks, CleanInv, CleanRunSucceeds, IdleL1
<1>2. Inv /\ [Next]_vars => (TableInv /\ CleanTasks /\ CleanInv /\ CleanRunSucceeds)'
  BY TableStep, CleanTasksStep, CleanStep, SuccessStep DEF NasInv
<1>3. Spec => [](TableInv /\ CleanTasks /\ CleanInv /\ CleanRunSucceeds)
  BY <1>1, <1>2, SerialHolds, PTL DEF Spec
<1> QED BY <1>3, PTL
=============================================================================
