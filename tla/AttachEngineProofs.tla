------------------------- MODULE AttachEngineProofs -------------------------
(***************************************************************************)
(* Theorems about AttachEngine for any number of transactions, operations  *)
(* and request threads: mutual exclusion and the order of the steps; what  *)
(* ATTACHED stands for, how the run history and the counters are kept,     *)
(* that the engine implements AttachLifecycle, and what an ended run       *)
(* leaves: its status, the step it blames and its timers.                  *)
(***************************************************************************)
EXTENDS AttachEngine, FiniteSetTheorems, TLAPS

-----------------------------------------------------------------------------
(* The flow steps.                                                         *)

\* Every activity of the program belongs to one of the eleven flow steps.
LEMMA StepOfType == \A i \in 1..11 : StepOf(i) \in Steps
BY DEF StepOf, StepsBefore, FlowSteps, Steps

LEMMA StepNames == "cfun_enable" \in Steps /\ "attach_complete" \in Steps
<1>1. FlowSteps[1] = "cfun_enable" /\ FlowSteps[11] = "attach_complete"
  BY DEF FlowSteps
<1> QED BY <1>1, 1 \in 1..11, 11 \in 1..11, Zenon DEF Steps

LEMMA ProgramFacts ==
  /\ Len(Program) = 11
  /\ \A i \in 1..11 : /\ (Program[i] = "rrc_connection") = (i = 5)
                     /\ (Program[i] = "attach_accept") = (i = 10)
BY DEF Program

\* Completing one more step extends the prefix by that step.
LEMMA PrefixExtends ==
  \A n \in 0..10 : FirstSteps(n) \cup {FlowSteps[n + 1]} = FirstSteps(n + 1)
<1> SUFFICES ASSUME NEW n \in 0..10
             PROVE  FirstSteps(n) \cup {FlowSteps[n + 1]} = FirstSteps(n + 1)
  OBVIOUS
<1>1. 1..(n + 1) = (1..n) \cup {n + 1}
  OBVIOUS
<1> QED BY <1>1, Zenon DEF FirstSteps

-----------------------------------------------------------------------------
(* Type correctness.                                                       *)

LEMMA RecordType ==
  \A t \in Tx, r \in {"SUCCESS", "FAILED"}, h \in Seq(RunRecords) :
    Append(h, [tx |-> t, result |-> r]) \in Seq(RunRecords)
<1> SUFFICES ASSUME NEW t \in Tx, NEW r \in {"SUCCESS", "FAILED"}, NEW h \in Seq(RunRecords)
             PROVE  Append(h, [tx |-> t, result |-> r]) \in Seq(RunRecords)
  OBVIOUS
<1>1. [tx |-> t, result |-> r] \in RunRecords
  BY DEF RunRecords, Results
<1> QED BY <1>1

LEMMA TypeInit == Init => TypeOK
<1> SUFFICES ASSUME Init PROVE TypeOK
  OBVIOUS
<1> USE MaxTxAssumption, MaxOpsAssumption DEF Init, Tx
<1>1. CtxTypeOK
  BY DEF CtxTypeOK
<1>2. ThreadTypeOK
  BY DEF ThreadTypeOK, ThreadStates
<1>3. TimerTypeOK
  BY DEF TimerTypeOK
<1>4. StoreTypeOK
  BY DEF StoreTypeOK, ModemStates, FlowStates, MetricStates, ArchiveStates
<1>5. CallerTypeOK
  BY DEF CallerTypeOK, CallerStates
<1> QED BY <1>1, <1>2, <1>3, <1>4, <1>5 DEF TypeOK

\* The request threads keep the types.
LEMMA TypeCaller ==
  ASSUME TypeOK, NEW c \in Callers, CallerBegin(c) \/ CallerStep(c)
  PROVE  TypeOK'
<1> USE MaxTxAssumption, MaxOpsAssumption
    DEF TypeOK
<1>1. CtxTypeOK'
  BY DEF CtxTypeOK, Tx, ctxVars, CancelCurrent, CallerBegin, CallerStep, CallerWrite,
     BeginStart, StopRead, BeginReset, BeginCfunZero, Begin, CreateCtx, Cleanup, InitAttach,
     EnableCheck, EnableWrite, Launch, StopCancel, StopWrite, ResetWrite, CfunZeroWrite
<1>2. ThreadTypeOK'
  BY DEF ThreadTypeOK, threadVars, Goto, ThreadStates, Active, CallerBegin, CallerStep, CallerWrite,
     BeginStart, StopRead, BeginReset, BeginCfunZero, Begin, CreateCtx, Cleanup, InitAttach,
     EnableCheck, EnableWrite, Launch, StopCancel, StopWrite, ResetWrite, CfunZeroWrite
<1>3. TimerTypeOK'
  BY DEF TimerTypeOK, timerVars, CancelAllTimers, CallerBegin, CallerStep, CallerWrite,
     BeginStart, StopRead, BeginReset, BeginCfunZero, Begin, CreateCtx, Cleanup, InitAttach,
     EnableCheck, EnableWrite, Launch, StopCancel, StopWrite, ResetWrite, CfunZeroWrite
<1>4. StoreTypeOK'
  <2>1. CASE InitAttach(c)
    <3> USE <2>1, StepNames DEF InitAttach, CallerTypeOK, StoreTypeOK
    <3>1. modem' \in ModemStates
      BY DEF ModemStates
    <3>2. flow' \in FlowStates
      BY DEF FlowStates
    <3>3. metrics' \in MetricStates
      BY DEF MetricStates
    <3>4. history' \in Seq(RunRecords)
      BY RecordType DEF Record
    <3>5. report' \in Tx \cup {None} /\ archive' \in ArchiveStates
      BY DEF ArchiveStates
    <3> QED BY <3>1, <3>2, <3>3, <3>4, <3>5
  <2>2. CASE StopWrite(c)
    <3>1. modem' \in ModemStates
      BY <2>2 DEF StopWrite, StoreTypeOK, ModemStates
    <3>2. flow' \in FlowStates
      BY <2>2 DEF StopWrite, StoreTypeOK, FlowStates
    <3> QED BY <2>2, <3>1, <3>2 DEF StopWrite, StoreTypeOK
  <2>3. CASE ResetWrite(c)
    <3>1. modem' \in ModemStates /\ flow' \in FlowStates
      BY <2>3 DEF ResetWrite, ModemStates, FlowStates
    <3>2. metrics' \in MetricStates /\ archive' \in ArchiveStates
      BY <2>3 DEF ResetWrite, MetricStates, ArchiveStates
    <3> QED BY <2>3, <3>1, <3>2 DEF ResetWrite, StoreTypeOK
  <2>4. CASE CfunZeroWrite(c)
    <3>1. modem' \in ModemStates
      BY <2>4 DEF CfunZeroWrite, ModemStates
    <3>2. flow' \in FlowStates
      BY <2>4 DEF CfunZeroWrite, StoreTypeOK, FlowStates
    <3> QED BY <2>4, <3>1, <3>2 DEF CfunZeroWrite, StoreTypeOK
  <2>5. CASE EnableWrite(c)
    <3>1. flow' \in FlowStates
      BY <2>5, StepNames DEF EnableWrite, StoreTypeOK, FlowStates, RecordComplete
    <3> QED BY <2>5, <3>1 DEF EnableWrite, StoreTypeOK
  <2>6. CASE UNCHANGED storeVars
    BY <2>6 DEF StoreTypeOK, storeVars
  <2> QED BY <2>1, <2>2, <2>3, <2>4, <2>5, <2>6 DEF storeVars, CallerBegin, CallerStep, CallerWrite,
     BeginStart, StopRead, BeginReset, BeginCfunZero, Begin, CreateCtx, Cleanup, InitAttach,
     EnableCheck, EnableWrite, Launch, StopCancel, StopWrite, ResetWrite, CfunZeroWrite
<1>5. CallerTypeOK'
  BY DEF CallerTypeOK, CallerStates, CallerGoto, CtxTypeOK, AfterCleanup, Tx, CallerBegin, CallerStep, CallerWrite,
     BeginStart, StopRead, BeginReset, BeginCfunZero, Begin, CreateCtx, Cleanup, InitAttach,
     EnableCheck, EnableWrite, Launch, StopCancel, StopWrite, ResetWrite, CfunZeroWrite
<1>6. nas' \in BOOLEAN
  BY DEF CallerBegin, CallerStep, CallerWrite,
     BeginStart, StopRead, BeginReset, BeginCfunZero, Begin, CreateCtx, Cleanup, InitAttach,
     EnableCheck, EnableWrite, Launch, StopCancel, StopWrite, ResetWrite, CfunZeroWrite
<1> QED BY <1>1, <1>2, <1>3, <1>4, <1>5, <1>6

\* The orchestration threads keep the types.
LEMMA TypeThread ==
  ASSUME TypeOK, NEW t \in Tx, ThreadStep(t)
  PROVE  TypeOK'
<1> USE MaxTxAssumption, MaxOpsAssumption
    DEF TypeOK
<1>1. CtxTypeOK'
  BY DEF CtxTypeOK, Tx, ctxVars, ClearCurrent, ThreadStep,
     EnterCheck, EnterWrite, BusRequest, BusTimeout, CampWrite, BeginExchange, ArmGuard, PollCheck,
     PollExpired, PollEmpty, TakeReply, CompleteCheck, CompleteWrite, FinishCheck, StopTimers, AfterStop,
     SuccessWrite, FailCheck, FailWrite, ArchiveRun, ArchiveWrite, ArchiveFailed, Archived, NotArchived, ArchiveRest, Unwind, Exit
<1>2. ThreadTypeOK'
  <2>1. CASE TakeReply(t)
    BY <2>1, ProgramFacts DEF TakeReply, ThreadTypeOK, Goto, ThreadStates, Active, LeaveExchange
  <2>2. CASE CompleteWrite(t)
    BY <2>2, ProgramFacts DEF CompleteWrite, ThreadTypeOK, Goto, ThreadStates, Active
  <2>3. CASE PollCheck(t) \/ PollExpired(t) \/ BusTimeout(t)
    BY <2>3 DEF PollCheck, PollExpired, BusTimeout, ThreadTypeOK, Goto, ThreadStates, Active, LeaveExchange
  <2>4. CASE UNCHANGED << at, reply, expired >>
    BY <2>4 DEF ThreadTypeOK, Goto, ThreadStates, Active, ThreadStep,
     EnterCheck, EnterWrite, BusRequest, BusTimeout, CampWrite, BeginExchange, ArmGuard, PollCheck,
     PollExpired, PollEmpty, TakeReply, CompleteCheck, CompleteWrite, FinishCheck, StopTimers, AfterStop,
     SuccessWrite, FailCheck, FailWrite, ArchiveRun, ArchiveWrite, ArchiveFailed, Archived, NotArchived, ArchiveRest, Unwind, Exit
  <2> QED BY <2>1, <2>2, <2>3, <2>4 DEF ThreadStep,
     EnterCheck, EnterWrite, BusRequest, BusTimeout, CampWrite, BeginExchange, ArmGuard, PollCheck,
     PollExpired, PollEmpty, TakeReply, CompleteCheck, CompleteWrite, FinishCheck, StopTimers, AfterStop,
     SuccessWrite, FailCheck, FailWrite, ArchiveRun, ArchiveWrite, ArchiveFailed, Archived, NotArchived, ArchiveRest, Unwind, Exit
<1>3. TimerTypeOK'
  BY DEF TimerTypeOK, timerVars, CancelAllTimers, TimersAfterReply, ProcedureTimers, ThreadStep,
     EnterCheck, EnterWrite, BusRequest, BusTimeout, CampWrite, BeginExchange, ArmGuard, PollCheck,
     PollExpired, PollEmpty, TakeReply, CompleteCheck, CompleteWrite, FinishCheck, StopTimers, AfterStop,
     SuccessWrite, FailCheck, FailWrite, ArchiveRun, ArchiveWrite, ArchiveFailed, Archived, NotArchived, ArchiveRest, Unwind, Exit
<1>4. StoreTypeOK'
  <2>1. StepOf(at[t]) \in Steps
    BY StepOfType DEF ThreadTypeOK
  <2>2. CASE EnterWrite(t)
    BY <2>1, <2>2 DEF EnterWrite, StoreTypeOK, ModemStates, FlowStates, MetricStates, ArchiveStates, ShowStep
  <2>3. CASE CampWrite(t)
    BY <2>3 DEF CampWrite, Camped, StoreTypeOK, ModemStates, FlowStates, MetricStates, ArchiveStates
  <2>4. CASE CompleteWrite(t)
    BY <2>1, <2>4 DEF CompleteWrite, StoreTypeOK, ModemStates, FlowStates, MetricStates, ArchiveStates, RecordComplete
  <2>5. CASE SuccessWrite(t)
    <3> USE <2>5, StepNames DEF SuccessWrite, Ended, StoreTypeOK
    <3>1. modem' \in ModemStates
      BY DEF ModemStates
    <3>2. flow' \in FlowStates
      BY DEF FlowStates
    <3>3. metrics' \in MetricStates
      BY DEF MetricStates
    <3>4. history' \in Seq(RunRecords)
      BY RecordType DEF Record
    <3>5. report' \in Tx \cup {None} /\ archive' \in ArchiveStates
      BY DEF ArchiveStates
    <3> QED BY <3>1, <3>2, <3>3, <3>4, <3>5
  <2>6. CASE FailWrite(t)
    <3> USE <2>1, <2>6 DEF FailWrite, Ended, StoreTypeOK
    <3>1. modem' \in ModemStates
      BY DEF ModemStates
    <3>2. flow' \in FlowStates
      BY DEF FlowStates
    <3>3. metrics' \in MetricStates
      BY DEF MetricStates
    <3>4. history' \in Seq(RunRecords)
      BY RecordType DEF Record
    <3>5. report' \in Tx \cup {None} /\ archive' \in ArchiveStates
      BY DEF ArchiveStates
    <3> QED BY <3>1, <3>2, <3>3, <3>4, <3>5
  <2>7. CASE ArchiveWrite(t) \/ ArchiveFailed(t)
    BY <2>7 DEF ArchiveWrite, ArchiveFailed, Archived, NotArchived, ArchiveRest, StoreTypeOK, ModemStates, FlowStates, MetricStates, ArchiveStates
  <2>8. CASE Unwind(t)
    <3> USE <2>8 DEF Unwind, Ended, StoreTypeOK
    <3>1. modem' \in ModemStates
      BY DEF ModemStates
    <3>2. flow' \in FlowStates
      BY DEF FlowStates
    <3>3. metrics' \in MetricStates
      BY DEF MetricStates
    <3>4. history' \in Seq(RunRecords)
      BY RecordType DEF Record
    <3>5. report' \in Tx \cup {None} /\ archive' \in ArchiveStates
      BY DEF ArchiveStates
    <3> QED BY <3>1, <3>2, <3>3, <3>4, <3>5
  <2>9. CASE UNCHANGED storeVars
    BY <2>9 DEF StoreTypeOK, storeVars
  <2> QED BY <2>2, <2>3, <2>4, <2>5, <2>6, <2>7, <2>8, <2>9 DEF storeVars, ThreadStep,
     EnterCheck, EnterWrite, BusRequest, BusTimeout, CampWrite, BeginExchange, ArmGuard, PollCheck,
     PollExpired, PollEmpty, TakeReply, CompleteCheck, CompleteWrite, FinishCheck, StopTimers, AfterStop,
     SuccessWrite, FailCheck, FailWrite, ArchiveRun, ArchiveWrite, ArchiveFailed, Archived, NotArchived, ArchiveRest, Unwind, Exit
<1>5. CallerTypeOK'
  BY DEF CallerTypeOK, callerVars, ThreadStep,
     EnterCheck, EnterWrite, BusRequest, BusTimeout, CampWrite, BeginExchange, ArmGuard, PollCheck,
     PollExpired, PollEmpty, TakeReply, CompleteCheck, CompleteWrite, FinishCheck, StopTimers, AfterStop,
     SuccessWrite, FailCheck, FailWrite, ArchiveRun, ArchiveWrite, ArchiveFailed, Archived, NotArchived, ArchiveRest, Unwind, Exit
<1>6. nas' \in BOOLEAN
  BY DEF ThreadStep,
     EnterCheck, EnterWrite, BusRequest, BusTimeout, CampWrite, BeginExchange, ArmGuard, PollCheck,
     PollExpired, PollEmpty, TakeReply, CompleteCheck, CompleteWrite, FinishCheck, StopTimers, AfterStop,
     SuccessWrite, FailCheck, FailWrite, ArchiveRun, ArchiveWrite, ArchiveFailed, Archived, NotArchived, ArchiveRest, Unwind, Exit
<1> QED BY <1>1, <1>2, <1>3, <1>4, <1>5, <1>6

\* So do the deliver threads and the timers.
LEMMA TypeWorld ==
  ASSUME TypeOK, \/ \E t \in Tx : Deliver(t) \/ LateCheck(t) \/ LateCamp(t)
                 \/ \E i \in Guards : ExpireGuard(i)
                 \/ \E n \in ProcedureTimers : ExpireProcedure(n)
                 \/ UNCHANGED vars
  PROVE  TypeOK'
<1> USE DEF TypeOK, Deliver, LateCheck, LateCamp, ExpireGuard, ExpireProcedure, vars, ctxVars, threadVars, timerVars,
        storeVars, callerVars
<1>1. CtxTypeOK'
  BY DEF CtxTypeOK
<1>2. ThreadTypeOK'
  BY DEF ThreadTypeOK
<1>3. TimerTypeOK'
  BY DEF TimerTypeOK
<1>4. StoreTypeOK'
  BY DEF StoreTypeOK, ModemStates, Camped
<1>5. CallerTypeOK'
  BY DEF CallerTypeOK
<1>6. nas' \in BOOLEAN
  OBVIOUS
<1> QED BY <1>1, <1>2, <1>3, <1>4, <1>5, <1>6

\* Every reachable state has the declared type.
THEOREM TypeCorrect == Spec => []TypeOK
<1>1. TypeOK /\ [Next]_vars => TypeOK'
  BY TypeCaller, TypeThread, TypeWorld DEF Next
<1> QED BY TypeInit, <1>1, PTL DEF Spec

-----------------------------------------------------------------------------
(* Transactions are opened one at a time, each by one request thread.      *)

\* Transactions are created in order, and only created ones are cancelled.
CreatedInOrder ==
  /\ \A t \in Tx : pc[t] = "none" <=> t > made
  /\ \A t \in cancelled : t <= made
  /\ current # None => current <= made

StartPhase == {"startCleanup", "initialising", "enableCheck", "enableWrite", "launching"}

\* A request thread inside start_attach owns its context until it launches
\* or abandons it.
StartsOwned ==
  /\ \A c \in Callers : cpc[c] \in StartPhase => cctx[c] \in Tx /\ pc[cctx[c]] = "starting"
  /\ \A c, d \in Callers : cpc[c] \in StartPhase /\ cpc[d] \in StartPhase /\ cctx[c] = cctx[d] => c = d

FlightInv == TypeOK /\ CreatedInOrder /\ StartsOwned /\ SingleFlight

\* What a step of an orchestration thread does to the contexts.
LEMMA ThreadMoves ==
  ASSUME TypeOK, NEW t \in Tx, ThreadStep(t)
  PROVE  /\ pc[t] \in Active /\ pc'[t] \in Active \cup {"done"}
         /\ \A u \in Tx : u # t => pc'[u] = pc[u]
         /\ UNCHANGED << cancelled, made, ops, cpc, cctx >>
         /\ \/ UNCHANGED current
            \/ current = t /\ current' = None /\ pc'[t] = "done"
BY DEF TypeOK, ThreadTypeOK, Goto, ctxVars, callerVars, ClearCurrent, Active,
     ThreadStep, EnterCheck, EnterWrite, BusRequest, BusTimeout, CampWrite, BeginExchange, ArmGuard,
     PollCheck, PollExpired, PollEmpty, TakeReply, CompleteCheck, CompleteWrite, FinishCheck, StopTimers, AfterStop,
     SuccessWrite, FailCheck, FailWrite, ArchiveRun, ArchiveWrite, ArchiveFailed, Archived, NotArchived, ArchiveRest, Unwind, Exit

\* An exiting thread clears its own context only, so it takes no other
\* transaction out of flight.
LEMMA FlightThread ==
  ASSUME FlightInv, NEW t \in Tx, ThreadStep(t)
  PROVE  FlightInv'
<1>1. TypeOK'
  BY TypeThread DEF FlightInv
<1>2. CreatedInOrder'
  BY ThreadMoves DEF FlightInv, CreatedInOrder, Active, TypeOK, ThreadTypeOK, CtxTypeOK, Tx
<1>3. StartsOwned'
  BY ThreadMoves DEF FlightInv, StartsOwned, Active
<1>4. SingleFlight'
  BY ThreadMoves DEF FlightInv, SingleFlight, Active
<1> QED BY <1>1, <1>2, <1>3, <1>4 DEF FlightInv

\* A request thread that cancels, or that does not touch the contexts.
LEMMA FlightCaller ==
  ASSUME FlightInv, NEW c \in Callers, CallerBegin(c) \/ CallerStep(c)
  PROVE  FlightInv'
<1>1. TypeOK'
  BY TypeCaller DEF FlightInv
<1>2. CASE CreateCtx(c) /\ ~UNCHANGED << pc, current, made >>
  <2> DEFINE m == made + 1
  <2>1. /\ current = None \/ current \in cancelled
        /\ made' = m /\ current' = m /\ cancelled' = cancelled
        /\ pc' = [pc EXCEPT ![m] = "starting"]
        /\ cctx' = [cctx EXCEPT ![c] = m] /\ cpc' = [cpc EXCEPT ![c] = "startCleanup"]
    BY <1>2 DEF CreateCtx, CallerGoto, Goto, Busy, ctxVars
  <2>2. m \in Tx /\ made \in Nat /\ None \notin Tx
    BY <1>2, NoneAssumption, MaxTxAssumption
    DEF FlightInv, TypeOK, CtxTypeOK, CreateCtx, Tx, ctxVars
  <2>3. pc[m] = "none" /\ m \notin cancelled
    BY <2>2 DEF FlightInv, CreatedInOrder
  <2>4. pc \in [Tx -> ThreadStates] /\ cpc \in [Callers -> CallerStates] /\ cctx \in [Callers -> Tx \cup {None}]
    BY DEF FlightInv, TypeOK, ThreadTypeOK, CallerTypeOK
  <2> HIDE DEF m
  <2>5. CreatedInOrder'
    <3>1. \A t \in Tx : (pc'[t] = "none") <=> t > m
      BY <2>1, <2>2, <2>3, <2>4 DEF m, FlightInv, CreatedInOrder, Tx
    <3>2. \A t \in cancelled : t <= m
      BY <2>2 DEF m, FlightInv, CreatedInOrder, TypeOK, CtxTypeOK, Tx
    <3> QED BY <3>1, <3>2, <2>1, <2>2 DEF m, CreatedInOrder
  <2>6. StartsOwned'
    BY <2>1, <2>2, <2>3, <2>4 DEF FlightInv, StartsOwned, StartPhase
  <2>7. SingleFlight'
    BY <2>1, <2>2, <2>3, <2>4 DEF FlightInv, SingleFlight, Active
  <2> QED BY <1>1, <2>5, <2>6, <2>7 DEF FlightInv
<1>3. CASE EnableCheck(c)
  <2> USE <1>3 DEF FlightInv, EnableCheck, CallerGoto, Goto, Alive, ctxVars
  <2>1. CreatedInOrder'
    BY DEF CreatedInOrder, StartsOwned, StartPhase, TypeOK, CtxTypeOK, ThreadTypeOK, Tx
  <2>2. StartsOwned'
    BY DEF StartsOwned, StartPhase, TypeOK, ThreadTypeOK, CallerTypeOK
  <2>3. SingleFlight'
    BY DEF SingleFlight, Active, TypeOK, ThreadTypeOK
  <2> QED BY <1>1, <2>1, <2>2, <2>3
<1>4. CASE Launch(c)
  <2> USE <1>4 DEF FlightInv, Launch, CallerGoto, Goto, ctxVars
  <2>1. CreatedInOrder'
    BY DEF CreatedInOrder, StartsOwned, StartPhase, TypeOK, CtxTypeOK, ThreadTypeOK, Tx
  <2>2. StartsOwned'
    BY DEF StartsOwned, StartPhase, TypeOK, ThreadTypeOK, CallerTypeOK
  <2>3. SingleFlight'
    BY DEF SingleFlight, StartsOwned, StartPhase, Active, TypeOK, ThreadTypeOK
  <2> QED BY <1>1, <2>1, <2>2, <2>3
<1>5. CASE UNCHANGED << pc, current, made >>
  <2>1. /\ cancelled \subseteq cancelled'
        /\ cancelled' \subseteq cancelled \cup ({current} \ {None})
        /\ \A d \in Callers : cpc'[d] \in StartPhase => cpc[d] \in StartPhase /\ cctx'[d] = cctx[d]
    BY <1>5 DEF FlightInv, TypeOK, CallerTypeOK, CtxTypeOK, CreatedInOrder, StartPhase, AfterCleanup,
       CallerGoto, CancelCurrent, ctxVars, CallerBegin, CallerStep, CallerWrite, BeginStart, StopRead,
       BeginReset, BeginCfunZero, Begin, CreateCtx, Cleanup, InitAttach, EnableCheck, EnableWrite,
       Launch, StopCancel, StopWrite, ResetWrite, CfunZeroWrite
  <2>2. CreatedInOrder' /\ SingleFlight'
    BY <1>5, <2>1 DEF FlightInv, CreatedInOrder, SingleFlight
  <2>3. StartsOwned'
    BY <1>5, <2>1 DEF FlightInv, StartsOwned
  <2> QED BY <1>1, <2>2, <2>3 DEF FlightInv
<1> QED
  BY <1>2, <1>3, <1>4, <1>5
  DEF ctxVars, threadVars, CallerBegin, CallerStep, CallerWrite, BeginStart, StopRead, BeginReset,
      BeginCfunZero, Begin, Cleanup, InitAttach, EnableWrite, StopCancel, StopWrite, ResetWrite,
      CfunZeroWrite

LEMMA FlightInit == Init => FlightInv
BY TypeInit DEF Init, FlightInv, CreatedInOrder, StartsOwned, StartPhase, SingleFlight, Active, Tx

LEMMA FlightStep == FlightInv /\ [Next]_vars => FlightInv'
<1> SUFFICES ASSUME FlightInv, [Next]_vars PROVE FlightInv'
  OBVIOUS
<1>1. CASE \E c \in Callers : CallerBegin(c) \/ CallerStep(c)
  BY <1>1, FlightCaller
<1>2. CASE \E t \in Tx : ThreadStep(t)
  BY <1>2, FlightThread
<1>3. CASE \/ \E t \in Tx : Deliver(t) \/ LateCheck(t) \/ LateCamp(t)
           \/ \E i \in Guards : ExpireGuard(i)
           \/ \E n \in ProcedureTimers : ExpireProcedure(n)
           \/ UNCHANGED vars
  <2>1. TypeOK'
    BY <1>3, TypeWorld DEF FlightInv
  <2>2. UNCHANGED << pc, current, cancelled, made, cpc, cctx >>
    BY <1>3 DEF Deliver, LateCheck, LateCamp, ExpireGuard, ExpireProcedure, vars, ctxVars, threadVars, callerVars
  <2> QED BY <2>1, <2>2 DEF FlightInv, CreatedInOrder, StartsOwned, SingleFlight
<1> QED BY <1>1, <1>2, <1>3 DEF Next

\* At any time at most one transaction can still pass its checkpoints.
THEOREM SingleFlightHolds == Spec => []SingleFlight
<1>1. FlightInv => SingleFlight
  BY DEF FlightInv
<1> QED BY FlightInit, FlightStep, <1>1, PTL DEF Spec

-----------------------------------------------------------------------------
(* The completed steps.                                                    *)

\* The thread is inside activity at[t], whose step is not complete yet.
Stepping == { "ready", "entering", "body", "arming", "waiting", "polling",
              "camping", "checking", "completing" }

\* All its steps are complete.
Complete == {"finishing", "stopping", "succeeding"}

\* The completed steps of the run on display follow from where its thread is,
\* or, before the thread exists, from where its request thread is.
StepsFollowThread ==
  /\ \A t \in Tx : pc[t] \in {"none", "starting"} => at[t] = 1
  /\ \A t \in Tx : pc[t] \in {"camping", "checking", "completing"} => at[t] # 5
  /\ \A t \in Tx : flow.tx = t =>
       /\ pc[t] \in Stepping => flow.completed = FirstSteps(StepsBefore(at[t]))
       /\ pc[t] \in Complete => flow.completed = FirstSteps(11)
  /\ \A c \in Callers : cpc[c] \in StartPhase /\ flow.tx = cctx[c] =>
       /\ cpc[c] \in {"enableCheck", "enableWrite"} => flow.completed = FirstSteps(0)
       /\ cpc[c] = "launching" => flow.completed = FirstSteps(1)

PrefixInv == CompletedIsPrefix /\ StepsFollowThread

LEMMA NoSteps == FirstSteps(0) = {}
BY DEF FirstSteps

LEMMA PrefixInit == Init => PrefixInv
<1>1. FirstSteps(0) = {}
  BY NoSteps
<1> QED BY <1>1 DEF Init, PrefixInv, CompletedIsPrefix, StepsFollowThread, StartPhase, Stepping, Complete

\* A thread that leaves the flow's steps alone does not leave its activity.
LEMMA PrefixThreadQuiet ==
  ASSUME FlightInv, PrefixInv, NEW t \in Tx, ThreadStep(t),
         flow'.tx = flow.tx, flow'.completed = flow.completed, ~CompleteWrite(t)
  PROVE  PrefixInv'
<1>1. /\ pc'[t] \in Stepping => pc[t] \in Stepping /\ StepsBefore(at'[t]) = StepsBefore(at[t])
      /\ pc'[t] \in Complete => pc[t] \in Complete
      /\ pc'[t] \in {"camping", "checking", "completing"} => at'[t] # 5
  <2>0. pc \in [Tx -> ThreadStates] /\ at \in [Tx -> 1..11]
        /\ (pc[t] \in {"camping", "checking", "completing"} => at[t] # 5)
    BY DEF FlightInv, TypeOK, ThreadTypeOK, PrefixInv, StepsFollowThread
  <2> USE <2>0 DEF Stepping, Complete, Goto
  <2>1. CASE TakeReply(t)
    BY <2>1, ProgramFacts DEF TakeReply, StepsBefore
  <2>2. CASE EnterWrite(t) \/ BusRequest(t) \/ BusTimeout(t)
    BY <2>2, ProgramFacts DEF EnterWrite, BusRequest, BusTimeout, BusActivities
  <2>3. CASE UNCHANGED at /\ ~EnterWrite(t) /\ ~BusRequest(t) /\ ~BusTimeout(t) /\ ~TakeReply(t)
    BY <2>3
    DEF ThreadStep, EnterCheck, CampWrite, BeginExchange, ArmGuard,
        PollCheck, PollExpired, PollEmpty, CompleteCheck, FinishCheck, StopTimers, AfterStop, SuccessWrite, FailCheck,
        FailWrite, ArchiveRun, ArchiveWrite, ArchiveFailed, Archived, NotArchived, ArchiveRest, Unwind, Exit
  <2> QED
    BY <2>1, <2>2, <2>3
    DEF ThreadStep, EnterCheck, CampWrite, BeginExchange, ArmGuard,
        PollCheck, PollExpired, PollEmpty, CompleteCheck, FinishCheck, StopTimers, AfterStop, SuccessWrite, FailCheck,
        FailWrite, ArchiveRun, ArchiveWrite, ArchiveFailed, Archived, NotArchived, ArchiveRest, Unwind, Exit
<1>2. \A u \in Tx : u # t => pc'[u] = pc[u] /\ at'[u] = at[u]
  BY ThreadMoves
  DEF FlightInv, TypeOK, ThreadTypeOK, ThreadStep, EnterCheck, EnterWrite, BusRequest, BusTimeout, CampWrite, BeginExchange,
      ArmGuard, PollCheck, PollExpired, PollEmpty, TakeReply, CompleteCheck, FinishCheck, StopTimers, AfterStop,
      SuccessWrite, FailCheck, FailWrite, ArchiveRun, ArchiveWrite, ArchiveFailed, Archived, NotArchived, ArchiveRest, Unwind, Exit
<1>3. UNCHANGED << cpc, cctx >> /\ pc'[t] \in Active \cup {"done"}
  BY ThreadMoves DEF FlightInv
<1> QED BY <1>1, <1>2, <1>3 DEF PrefixInv, CompletedIsPrefix, StepsFollowThread, Complete, Active

\* Completing a step extends the prefix of the run on display.
LEMMA PrefixThreadComplete ==
  ASSUME FlightInv, PrefixInv, NEW t \in Tx, CompleteWrite(t)
  PROVE  PrefixInv'
<1>1. /\ at \in [Tx -> 1..11] /\ pc \in [Tx -> ThreadStates] /\ flow \in FlowStates
      /\ pc[t] = "completing" /\ at[t] # 5
  BY DEF FlightInv, TypeOK, ThreadTypeOK, StoreTypeOK, CompleteWrite, PrefixInv, StepsFollowThread
<1>2. CASE at[t] < 11
  <2>1. pc' = [pc EXCEPT ![t] = "ready"] /\ at' = [at EXCEPT ![t] = at[t] + 1]
    BY <1>2, ProgramFacts DEF CompleteWrite, Goto
  <2>2. StepsBefore(at[t]) \in 0..10 /\ StepsBefore(at[t] + 1) = StepsBefore(at[t]) + 1
    BY <1>1, <1>2 DEF StepsBefore
  <2>3. flow.tx = t => flow'.completed = FirstSteps(StepsBefore(at[t] + 1))
    <3> SUFFICES ASSUME flow.tx = t PROVE flow'.completed = FirstSteps(StepsBefore(at[t] + 1))
      OBVIOUS
    <3>1. flow'.completed = flow.completed \cup {FlowSteps[StepsBefore(at[t]) + 1]}
      BY <1>1 DEF CompleteWrite, RecordComplete, Displayed, StepOf, FlowStates
    <3>2. flow.completed = FirstSteps(StepsBefore(at[t]))
      BY <1>1 DEF PrefixInv, StepsFollowThread, Stepping, Complete
    <3> QED BY <3>1, <3>2, <2>2, PrefixExtends
  <2>4. \A u \in Tx : u # t => pc'[u] = pc[u] /\ at'[u] = at[u]
    BY <2>1, <1>1
  <2>5. pc'[t] = "ready" /\ at'[t] = at[t] + 1
    BY <2>1, <1>1
  <2>6. /\ flow'.tx = flow.tx
        /\ flow.tx # t => flow' = flow
    BY <1>1 DEF CompleteWrite, RecordComplete, Displayed, FlowStates
  <2>7. CompletedIsPrefix'
    BY <2>2, <2>3, <2>6 DEF PrefixInv, CompletedIsPrefix
  <2>8. UNCHANGED << cpc, cctx >> /\ \A c \in Callers : cpc[c] \in StartPhase => cctx[c] # t
    BY <1>1 DEF FlightInv, StartsOwned, CompleteWrite, callerVars
  <2> QED BY <2>3, <2>4, <2>5, <2>6, <2>7, <2>8 DEF PrefixInv, StepsFollowThread, Stepping, Complete
<1>3. CASE ~(at[t] < 11)
  <2>1. pc' = [pc EXCEPT ![t] = "finishing"] /\ at' = at /\ at[t] = 11
    BY <1>1, <1>3, ProgramFacts DEF CompleteWrite, Goto
  <2>2. /\ flow'.tx = flow.tx
        /\ flow.tx # t => flow' = flow
    BY <1>1 DEF CompleteWrite, RecordComplete, Displayed, FlowStates
  <2>3. flow.tx = t => flow'.completed = FirstSteps(11)
    <3> SUFFICES ASSUME flow.tx = t PROVE flow'.completed = FirstSteps(11)
      OBVIOUS
    <3>1. flow'.completed = flow.completed \cup {FlowSteps[10 + 1]}
      BY <1>1, <2>1 DEF CompleteWrite, RecordComplete, Displayed, StepOf, StepsBefore, FlowStates
    <3>2. flow.completed = FirstSteps(10)
      BY <1>1, <2>1 DEF PrefixInv, StepsFollowThread, Stepping, StepsBefore
    <3>3. 10 \in 0..10 /\ 10 + 1 = 11
      OBVIOUS
    <3> QED BY <3>1, <3>2, <3>3, PrefixExtends
  <2>4. CompletedIsPrefix'
    BY <2>2, <2>3 DEF PrefixInv, CompletedIsPrefix
  <2>5. UNCHANGED << cpc, cctx >> /\ \A c \in Callers : cpc[c] \in StartPhase => cctx[c] # t
    BY <1>1 DEF FlightInv, StartsOwned, CompleteWrite, callerVars
  <2> QED BY <1>1, <2>1, <2>2, <2>3, <2>4, <2>5 DEF PrefixInv, StepsFollowThread, Stepping, Complete
<1> QED BY <1>2, <1>3

LEMMA PrefixThread ==
  ASSUME FlightInv, PrefixInv, NEW t \in Tx, ThreadStep(t)
  PROVE  PrefixInv'
<1>1. CASE CompleteWrite(t)
  BY <1>1, PrefixThreadComplete
<1>2. CASE ~CompleteWrite(t)
  <2>1. flow'.tx = flow.tx /\ flow'.completed = flow.completed
    <3>1. CASE EnterWrite(t)
      BY <3>1 DEF EnterWrite, ShowStep, FlightInv, TypeOK, StoreTypeOK, FlowStates
    <3>2. CASE SuccessWrite(t)
      BY <3>2 DEF SuccessWrite, Ended, FlightInv, TypeOK, StoreTypeOK, FlowStates
    <3>3. CASE FailWrite(t)
      BY <3>3 DEF FailWrite, Ended, FlightInv, TypeOK, StoreTypeOK, FlowStates
    <3>4. CASE Unwind(t)
      BY <3>4 DEF Unwind, Ended, FlightInv, TypeOK, StoreTypeOK, FlowStates
    <3> QED
      BY <1>2, <3>1, <3>2, <3>3, <3>4
      DEF storeVars, ThreadStep, EnterCheck, BusRequest, BusTimeout, CampWrite, BeginExchange, ArmGuard,
          PollCheck, PollExpired, PollEmpty, TakeReply, CompleteCheck, FinishCheck, StopTimers, AfterStop, FailCheck,
          ArchiveRun, ArchiveWrite, ArchiveFailed, Archived, NotArchived, ArchiveRest, Exit
  <2> QED BY <1>2, <2>1, PrefixThreadQuiet
<1> QED BY <1>1, <1>2

\* A request thread clears the steps, or completes cfun_enable for a
\* transaction whose thread does not exist yet.
LEMMA PrefixCaller ==
  ASSUME FlightInv, PrefixInv, NEW c \in Callers, CallerBegin(c) \/ CallerStep(c)
  PROVE  PrefixInv'
<1> USE NoneAssumption
<1>0. /\ pc \in [Tx -> ThreadStates] /\ cpc \in [Callers -> CallerStates]
      /\ cctx \in [Callers -> Tx \cup {None}] /\ flow \in FlowStates /\ None \notin Tx
  BY DEF FlightInv, TypeOK, ThreadTypeOK, CallerTypeOK, StoreTypeOK, Tx
<1>1. CASE CreateCtx(c)
  <2>1. CASE UNCHANGED pc
    BY <1>0, <1>1, <2>1 DEF CreateCtx, CallerGoto, PrefixInv, CompletedIsPrefix, StepsFollowThread,
       StartPhase, Stepping, Complete, storeVars
  <2>2. CASE pc' # pc
    <3>1. /\ made + 1 \in Tx /\ pc[made + 1] = "none"
      BY <1>1, <2>2, MaxTxAssumption
      DEF CreateCtx, FlightInv, CreatedInOrder, TypeOK, CtxTypeOK, Tx
    <3>2. /\ pc' = [pc EXCEPT ![made + 1] = "starting"] /\ cctx' = [cctx EXCEPT ![c] = made + 1]
          /\ cpc' = [cpc EXCEPT ![c] = "startCleanup"] /\ UNCHANGED << at, flow >>
      BY <1>1, <2>2 DEF CreateCtx, CallerGoto, Goto, storeVars
    <3> QED BY <1>0, <3>1, <3>2 DEF PrefixInv, CompletedIsPrefix, StepsFollowThread, StartPhase, Stepping, Complete
  <2> QED BY <2>1, <2>2
<1>2. CASE InitAttach(c)
  <2>1. /\ flow'.tx = cctx[c] /\ flow'.completed = FirstSteps(0) /\ cctx[c] \in Tx
        /\ pc[cctx[c]] = "starting" /\ UNCHANGED << pc, at, cctx >>
        /\ cpc' = [cpc EXCEPT ![c] = "enableCheck"] /\ cpc[c] \in StartPhase
    BY <1>2, NoSteps
    DEF InitAttach, CallerGoto, FlightInv, StartsOwned, StartPhase, threadVars
  <2> QED BY <1>0, <2>1
      DEF PrefixInv, CompletedIsPrefix, StepsFollowThread, StartPhase, Stepping, Complete, FlightInv, StartsOwned
<1>3. CASE EnableWrite(c)
  <2>1. /\ flow'.tx = flow.tx /\ (flow.tx # cctx[c] => flow' = flow) /\ cctx[c] \in Tx
        /\ pc[cctx[c]] = "starting" /\ UNCHANGED << pc, at, cctx >>
        /\ cpc' = [cpc EXCEPT ![c] = "launching"] /\ cpc[c] = "enableWrite"
    BY <1>0, <1>3
    DEF EnableWrite, RecordComplete, Displayed, CallerGoto, FlightInv, StartsOwned, StartPhase, threadVars, FlowStates
  <2>2. flow.tx = cctx[c] => flow'.completed = FirstSteps(1)
    <3> SUFFICES ASSUME flow.tx = cctx[c] PROVE flow'.completed = FirstSteps(1)
      OBVIOUS
    <3>1. flow'.completed = flow.completed \cup {FlowSteps[0 + 1]}
      <4>1. FlowSteps[1] = "cfun_enable"
        BY DEF FlowSteps
      <4> QED BY <1>0, <1>3, <4>1 DEF EnableWrite, RecordComplete, Displayed, FlowStates
    <3>2. flow.completed = FirstSteps(0)
      BY <2>1 DEF PrefixInv, StepsFollowThread, StartPhase
    <3>3. 0 \in 0..10 /\ 0 + 1 = 1
      OBVIOUS
    <3> QED BY <3>1, <3>2, <3>3, PrefixExtends
  <2>3. CompletedIsPrefix'
    BY <2>1, <2>2 DEF PrefixInv, CompletedIsPrefix
  <2> QED BY <1>0, <2>1, <2>2, <2>3
      DEF PrefixInv, StepsFollowThread, StartPhase, Stepping, Complete, FlightInv, StartsOwned
<1>4. CASE Launch(c) \/ EnableCheck(c)
  <2>1. /\ cctx[c] \in Tx /\ pc[cctx[c]] = "starting" /\ cpc[c] \in {"launching", "enableCheck"}
    BY <1>4 DEF Launch, EnableCheck, FlightInv, StartsOwned, StartPhase
  <2>2. /\ UNCHANGED << at, flow >>
        /\ \/ pc' = [pc EXCEPT ![cctx[c]] = "ready"] /\ cpc[c] = "launching"
           \/ pc' = [pc EXCEPT ![cctx[c]] = "aborted"]
           \/ pc' = pc
        /\ \/ cpc' = [cpc EXCEPT ![c] = "idle"] /\ cctx' = [cctx EXCEPT ![c] = None]
           \/ cpc' = [cpc EXCEPT ![c] = "enableWrite"] /\ cctx' = cctx /\ cpc[c] = "enableCheck"
    BY <1>4 DEF Launch, EnableCheck, Goto, CallerGoto, storeVars
  <2>3. StepsBefore(1) = 1
    BY DEF StepsBefore
  <2> QED BY <1>0, <2>1, <2>2, <2>3
      DEF PrefixInv, CompletedIsPrefix, StepsFollowThread, StartPhase, Stepping, Complete
<1>5. CASE ResetWrite(c)
  <2>1. flow'.tx = None /\ flow'.completed = FirstSteps(0) /\ UNCHANGED << pc, at, cctx >>
    BY <1>5, NoSteps DEF ResetWrite, threadVars
  <2>2. cpc' = [cpc EXCEPT ![c] = "idle"]
    BY <1>5 DEF ResetWrite, CallerGoto
  <2> QED BY <1>0, <2>1, <2>2
      DEF PrefixInv, CompletedIsPrefix, StepsFollowThread, StartPhase, FlightInv, StartsOwned
<1>6. CASE CallerBegin(c) \/ Cleanup(c) \/ StopCancel(c) \/ StopWrite(c) \/ CfunZeroWrite(c)
  <2>1. /\ flow'.tx = flow.tx /\ flow'.completed = flow.completed /\ UNCHANGED << pc, at >>
        /\ \A d \in Callers : cpc'[d] \in StartPhase =>
             /\ cpc[d] \in StartPhase /\ cctx'[d] = cctx[d]
             /\ cpc'[d] = cpc[d] \/ cpc'[d] = "initialising"
    <3> USE <1>0 DEF CallerGoto, StartPhase, threadVars, storeVars
    <3>1. CASE CallerBegin(c)
      BY <3>1 DEF CallerBegin, BeginStart, StopRead, BeginReset, BeginCfunZero, Begin
    <3>2. CASE Cleanup(c)
      BY <3>2 DEF Cleanup, AfterCleanup
    <3>3. CASE StopCancel(c)
      BY <3>3 DEF StopCancel
    <3>4. CASE StopWrite(c) \/ CfunZeroWrite(c)
      BY <3>4 DEF StopWrite, CfunZeroWrite, FlowStates
    <3> QED BY <1>6, <3>1, <3>2, <3>3, <3>4
  <2> QED BY <1>0, <2>1 DEF PrefixInv, CompletedIsPrefix, StepsFollowThread, StartPhase
<1> QED BY <1>1, <1>2, <1>3, <1>4, <1>5, <1>6 DEF CallerStep, CallerWrite

\* Deliver threads and timers change no step.
LEMMA PrefixStep == FlightInv /\ PrefixInv /\ [Next]_vars => PrefixInv'
<1> SUFFICES ASSUME FlightInv, PrefixInv, [Next]_vars PROVE PrefixInv'
  OBVIOUS
<1>1. CASE \E c \in Callers : CallerBegin(c) \/ CallerStep(c)
  BY <1>1, PrefixCaller
<1>2. CASE \E t \in Tx : ThreadStep(t)
  BY <1>2, PrefixThread
<1>3. CASE \/ \E t \in Tx : Deliver(t) \/ LateCheck(t) \/ LateCamp(t)
           \/ \E i \in Guards : ExpireGuard(i)
           \/ \E n \in ProcedureTimers : ExpireProcedure(n)
           \/ UNCHANGED vars
  <2>1. UNCHANGED << pc, at, flow, cpc, cctx >>
    BY <1>3 DEF Deliver, LateCheck, LateCamp, ExpireGuard, ExpireProcedure, vars, threadVars, storeVars, callerVars
  <2> QED BY <2>1 DEF PrefixInv, CompletedIsPrefix, StepsFollowThread
<1> QED BY <1>1, <1>2, <1>3 DEF Next

\* The steps on display are always the first n of the eleven.
THEOREM CompletedIsPrefixHolds == Spec => []CompletedIsPrefix
<1>1. FlightInv /\ PrefixInv => CompletedIsPrefix
  BY DEF PrefixInv
<1> QED BY FlightInit, PrefixInit, FlightStep, PrefixStep, <1>1, PTL DEF Spec

-----------------------------------------------------------------------------
(* What the outcomes stand for, and what an ended run leaves.               *)

\* The thread has written the outcome of its run, or given up writing it.
Closing == { "archiving", "archived", "unarchived",
             "failarchiving", "failarchived", "failunarchived", "exiting", "done" }

\* When the state file cannot be written, a success that is already recorded
\* is handled as a failure.
Past == Closing \cup (IF PersistMayFail THEN {"failing", "failstopping", "failwriting"} ELSE {})

Outcomes == metrics.successes + metrics.failures + metrics.cancelled

-----------------------------------------------------------------------------
(* What an orchestration thread may write.                                 *)

\* A thread whose run is not on display, or whose outcome is written, leaves
\* the flow, the modem, the counters and the history alone.
LEMMA OthersUntouched ==
  ASSUME TypeOK, NEW t \in Tx, ThreadStep(t), flow.tx # t \/ pc[t] \in Closing
  PROVE  /\ UNCHANGED << flow, modem, metrics, history >>
         /\ pc[t] \in Past => pc'[t] \in Past
<1> USE DEF TypeOK, ThreadTypeOK, Closing, Past, Displayed, Goto
<1>1. CASE SuccessWrite(t) \/ FailWrite(t) \/ Unwind(t)
  BY <1>1 DEF SuccessWrite, FailWrite, Unwind
<1>2. CASE EnterWrite(t) \/ CampWrite(t) \/ CompleteWrite(t)
  BY <1>2 DEF EnterWrite, CampWrite, Camped, CompleteWrite, ShowStep, RecordComplete
<1>3. CASE ~(SuccessWrite(t) \/ FailWrite(t) \/ Unwind(t) \/ EnterWrite(t) \/ CampWrite(t) \/ CompleteWrite(t))
  BY <1>3
  DEF storeVars, ThreadStep, EnterCheck, BusRequest, BusTimeout, BeginExchange, ArmGuard, PollCheck,
      PollExpired, PollEmpty, TakeReply, CompleteCheck, FinishCheck, StopTimers, AfterStop, FailCheck, ArchiveRun, ArchiveWrite, ArchiveFailed, Archived, NotArchived, ArchiveRest, Exit
<1> QED BY <1>1, <1>2, <1>3

\* An outcome is counted once, by the thread of the run on display, as it
\* leaves the part of the program in which it can write.
LEMMA OutcomeWritten ==
  ASSUME ~PersistMayFail, TypeOK, NEW t \in Tx, ThreadStep(t)
  PROVE  \/ UNCHANGED << metrics, history >>
         \/ /\ flow.tx = t /\ pc[t] \notin Closing /\ pc'[t] \in Closing
            /\ Outcomes' = Outcomes + 1 /\ metrics'.attempts = metrics.attempts
            /\ \/ history' = history
               \/ \E r \in Results : history' = Append(history, [tx |-> t, result |-> r])
<1>0. metrics \in MetricStates /\ pc \in [Tx -> ThreadStates]
  BY DEF TypeOK, ThreadTypeOK, StoreTypeOK
<1>1. ASSUME SuccessWrite(t) \/ FailWrite(t) \/ Unwind(t), flow.tx = t
      PROVE  /\ pc[t] \notin Closing /\ pc'[t] \in Closing
             /\ Outcomes' = Outcomes + 1 /\ metrics'.attempts = metrics.attempts
             /\ \/ history' = history
                \/ \E r \in Results : history' = Append(history, [tx |-> t, result |-> r])
  <2>1. pc[t] \notin Closing /\ pc'[t] \in Closing
    BY <1>0, <1>1 DEF SuccessWrite, FailWrite, Unwind, Goto, Closing
  <2>2. \/ metrics' = [metrics EXCEPT !.successes = @ + 1]
        \/ metrics' = [metrics EXCEPT !.failures = @ + 1]
        \/ metrics' = [metrics EXCEPT !.cancelled = @ + 1]
    BY <1>1 DEF SuccessWrite, FailWrite, Unwind, Displayed
  <2>3. Outcomes' = Outcomes + 1 /\ metrics'.attempts = metrics.attempts
    BY <1>0, <2>2 DEF MetricStates, Outcomes
  <2>4. \/ history' = history
        \/ \E r \in Results : history' = Append(history, [tx |-> t, result |-> r])
    BY <1>1 DEF SuccessWrite, FailWrite, Unwind, Displayed, Record, Results
  <2> QED BY <2>1, <2>3, <2>4
<1>2. ASSUME SuccessWrite(t) \/ FailWrite(t) \/ Unwind(t), flow.tx # t
      PROVE  UNCHANGED << metrics, history >>
  BY <1>2 DEF SuccessWrite, FailWrite, Unwind, Displayed
<1>4. CASE ~(SuccessWrite(t) \/ FailWrite(t) \/ Unwind(t))
  BY <1>4
  DEF storeVars, ThreadStep, EnterCheck, EnterWrite, BusRequest, BusTimeout, CampWrite, BeginExchange, ArmGuard,
      PollCheck, PollExpired, PollEmpty, TakeReply, CompleteCheck, CompleteWrite, FinishCheck, StopTimers, AfterStop,
      FailCheck, ArchiveRun, ArchiveWrite, ArchiveFailed, Archived, NotArchived, ArchiveRest, Exit
<1> QED BY <1>1, <1>2, <1>4

-----------------------------------------------------------------------------
(* The history and the counters.                                           *)

\* The run on display still owes its outcome until its thread has written it.
OutcomeInv ==
  /\ Outcomes <= metrics.attempts
  /\ flow.tx \in Tx /\ pc[flow.tx] \notin Closing => Outcomes + 1 <= metrics.attempts
  /\ \A i \in 1..Len(history) : pc[history[i].tx] \in Closing
  /\ \A i, j \in 1..Len(history) : history[i].tx = history[j].tx => i = j

LEMMA OutcomeInit == Init => OutcomeInv
BY NoneAssumption DEF Init, OutcomeInv, Outcomes, Tx

LEMMA OutcomeThread ==
  ASSUME ~PersistMayFail, FlightInv, OutcomeInv, NEW t \in Tx, ThreadStep(t)
  PROVE  OutcomeInv'
<1>0. /\ TypeOK /\ pc \in [Tx -> ThreadStates] /\ metrics \in MetricStates
      /\ history \in Seq(RunRecords) /\ Outcomes \in Nat /\ metrics.attempts \in Nat
  BY DEF FlightInv, TypeOK, ThreadTypeOK, StoreTypeOK, MetricStates, Outcomes
<1>1. /\ \A u \in Tx : u # t => pc'[u] = pc[u]
      /\ pc[t] \in Closing => pc'[t] \in Closing
  BY <1>0, ThreadMoves
  DEF Closing, Goto, ThreadTypeOK, ThreadStep, EnterCheck, EnterWrite, BusRequest, BusTimeout, CampWrite,
      BeginExchange, ArmGuard, PollCheck, PollExpired, PollEmpty, TakeReply, CompleteCheck,
      CompleteWrite, FinishCheck, StopTimers, AfterStop, SuccessWrite, FailCheck, FailWrite, ArchiveRun, ArchiveWrite, ArchiveFailed, Archived, NotArchived, ArchiveRest, Unwind, Exit
<1>2. flow'.tx = flow.tx
  BY <1>0 DEF TypeOK, StoreTypeOK, FlowStates, storeVars, ShowStep, RecordComplete, Ended, ThreadStep, EnterCheck,
      EnterWrite, BusRequest, BusTimeout, CampWrite, BeginExchange, ArmGuard, PollCheck, PollExpired, PollEmpty,
      TakeReply, CompleteCheck, CompleteWrite, FinishCheck, StopTimers, AfterStop, SuccessWrite, FailCheck, FailWrite,
      ArchiveRun, ArchiveWrite, ArchiveFailed, Archived, NotArchived, ArchiveRest, Unwind, Exit
<1>3. \A i \in 1..Len(history) : history[i].tx \in Tx
  <2>1. \A i \in 1..Len(history) : history[i] \in RunRecords
    BY <1>0
  <2> QED BY <2>1 DEF RunRecords
<1>4. CASE UNCHANGED << metrics, history >>
  BY <1>0, <1>1, <1>2, <1>3, <1>4 DEF OutcomeInv, Outcomes
<1>5. CASE ~UNCHANGED << metrics, history >>
  <2>1. /\ flow.tx = t /\ pc[t] \notin Closing /\ pc'[t] \in Closing
        /\ Outcomes' = Outcomes + 1 /\ metrics'.attempts = metrics.attempts
        /\ \/ history' = history
           \/ \E r \in Results : history' = Append(history, [tx |-> t, result |-> r])
    BY <1>0, <1>5, OutcomeWritten
  <2>2. Outcomes' <= metrics'.attempts /\ (flow'.tx \in Tx => pc'[flow'.tx] \in Closing)
    BY <1>0, <1>2, <2>1 DEF OutcomeInv
  <2>3. CASE history' = history
    BY <1>1, <1>3, <2>1, <2>2, <2>3 DEF OutcomeInv
  <2>4. ASSUME NEW r \in Results, history' = Append(history, [tx |-> t, result |-> r])
        PROVE  OutcomeInv'
    <3>1. /\ Len(history') = Len(history) + 1 /\ Len(history) \in Nat
          /\ \A i \in 1..Len(history) : history'[i] = history[i] /\ history'[i].tx # t
          /\ history'[Len(history) + 1].tx = t
      BY <1>0, <2>1, <2>4 DEF OutcomeInv
    <3>2. \A i \in 1..Len(history') : i \in 1..Len(history) \/ i = Len(history) + 1
      BY <3>1
    <3>3. \A i \in 1..Len(history') : pc'[history'[i].tx] \in Closing
      BY <1>1, <1>3, <2>1, <3>1, <3>2 DEF OutcomeInv
    <3>4. \A i, j \in 1..Len(history') : history'[i].tx = history'[j].tx => i = j
      BY <3>1, <3>2 DEF OutcomeInv
    <3> QED BY <2>2, <3>3, <3>4 DEF OutcomeInv
  <2> QED BY <2>1, <2>3, <2>4
<1> QED BY <1>4, <1>5

\* What request threads do to the outcomes: a reset clears them, a start adds
\* an attempt that owes one.
LEMMA OutcomeCaller ==
  ASSUME FlightInv, OutcomeInv, NEW c \in Callers, CallerBegin(c) \/ CallerStep(c)
  PROVE  OutcomeInv'
<1>0. /\ pc \in [Tx -> ThreadStates] /\ metrics \in MetricStates /\ flow \in FlowStates
      /\ history \in Seq(RunRecords) /\ Outcomes \in Nat /\ metrics.attempts \in Nat
  BY DEF FlightInv, TypeOK, ThreadTypeOK, StoreTypeOK, MetricStates, Outcomes
<1>1. history' = history
  BY DEF storeVars, CallerBegin, CallerStep, CallerWrite, BeginStart, StopRead, BeginReset,
     BeginCfunZero, Begin, CreateCtx, Cleanup, InitAttach, EnableCheck, EnableWrite, Launch,
     StopCancel, StopWrite, ResetWrite, CfunZeroWrite
<1>2. \A t \in Tx : /\ pc[t] \in Closing => pc'[t] \in Closing
                    /\ pc'[t] # pc[t] => pc[t] \in {"none", "starting"}
  <2>1. CASE UNCHANGED pc
    BY <2>1
  <2>2. CASE CreateCtx(c) /\ pc' # pc
    <3>1. pc' = [pc EXCEPT ![made + 1] = "starting"] /\ pc[made + 1] = "none"
      BY <2>2, MaxTxAssumption DEF CreateCtx, Goto, FlightInv, CreatedInOrder, TypeOK, CtxTypeOK, Tx
    <3> QED BY <1>0, <3>1 DEF Closing
  <2>3. CASE Launch(c) \/ EnableCheck(c)
    <3>1. pc[cctx[c]] = "starting"
      BY <2>3 DEF Launch, EnableCheck, FlightInv, StartsOwned, StartPhase
    <3> QED BY <1>0, <2>3, <3>1 DEF Launch, EnableCheck, Goto, Closing
  <2> QED
    BY <2>1, <2>2, <2>3
    DEF threadVars, CallerBegin, CallerStep, CallerWrite, BeginStart, StopRead, BeginReset,
        BeginCfunZero, Begin, CreateCtx, Cleanup, InitAttach, EnableWrite, StopCancel, StopWrite,
        ResetWrite, CfunZeroWrite
<1>3. \A i \in 1..Len(history) : history[i].tx \in Tx
  <2>1. \A i \in 1..Len(history) : history[i] \in RunRecords
    BY <1>0
  <2> QED BY <2>1 DEF RunRecords
<1>9. /\ \A i \in 1..Len(history') : pc'[history'[i].tx] \in Closing
      /\ \A i, j \in 1..Len(history') : history'[i].tx = history'[j].tx => i = j
  <2>1. /\ \A i \in 1..Len(history) : pc[history[i].tx] \in Closing
        /\ \A i, j \in 1..Len(history) : history[i].tx = history[j].tx => i = j
    BY DEF OutcomeInv
  <2> HIDE DEF Closing
  <2>2. \A i \in 1..Len(history) : pc'[history[i].tx] \in Closing
    BY <1>2, <1>3, <2>1
  <2> QED BY <1>1, <2>1, <2>2
<1>4. CASE metrics' = metrics /\ flow'.tx = flow.tx
  <2>1. Outcomes' = Outcomes
    BY <1>4 DEF Outcomes
  <2>2. flow'.tx \in Tx /\ pc'[flow'.tx] \notin Closing => Outcomes' + 1 <= metrics'.attempts
    BY <1>2, <1>4, <2>1 DEF OutcomeInv
  <2> QED BY <1>4, <1>9, <2>1, <2>2 DEF OutcomeInv
<1>5. CASE InitAttach(c)
  <2>1. Outcomes' = Outcomes /\ metrics'.attempts = metrics.attempts + 1
    BY <1>0, <1>5 DEF InitAttach, MetricStates, Outcomes
  <2>2. Outcomes <= metrics.attempts
    BY DEF OutcomeInv
  <2>3. Outcomes' <= metrics'.attempts /\ Outcomes' + 1 <= metrics'.attempts
    BY <1>0, <2>1, <2>2
  <2> QED BY <1>9, <2>3 DEF OutcomeInv
<1>6. CASE ResetWrite(c)
  <2>1. Outcomes' <= metrics'.attempts
    BY <1>6 DEF ResetWrite, Outcomes
  <2>2. flow'.tx \notin Tx
    BY <1>6, NoneAssumption DEF ResetWrite, Tx
  <2> QED BY <1>9, <2>1, <2>2 DEF OutcomeInv
<1>7. CASE ~InitAttach(c) /\ ~ResetWrite(c)
  <2>1. metrics' = metrics /\ flow'.tx = flow.tx
    BY <1>0, <1>7
    DEF storeVars, RecordComplete, FlowStates, CallerBegin, CallerStep, CallerWrite, BeginStart,
        StopRead, BeginReset, BeginCfunZero, Begin, CreateCtx, Cleanup, EnableCheck, EnableWrite,
        Launch, StopCancel, StopWrite, CfunZeroWrite
  <2> QED BY <1>4, <2>1
<1> QED BY <1>5, <1>6, <1>7

LEMMA OutcomeStep == ~PersistMayFail /\ FlightInv /\ OutcomeInv /\ [Next]_vars => OutcomeInv'
<1> SUFFICES ASSUME ~PersistMayFail, FlightInv, OutcomeInv, [Next]_vars PROVE OutcomeInv'
  OBVIOUS
<1>1. CASE \E c \in Callers : CallerBegin(c) \/ CallerStep(c)
  BY <1>1, OutcomeCaller
<1>2. CASE \E t \in Tx : ThreadStep(t)
  BY <1>2, OutcomeThread
<1>3. CASE \/ \E t \in Tx : Deliver(t) \/ LateCheck(t) \/ LateCamp(t)
           \/ \E i \in Guards : ExpireGuard(i)
           \/ \E n \in ProcedureTimers : ExpireProcedure(n)
           \/ UNCHANGED vars
  <2>1. UNCHANGED << pc, flow, metrics, history >>
    BY <1>3 DEF Deliver, LateCheck, LateCamp, ExpireGuard, ExpireProcedure, vars, threadVars, storeVars
  <2> QED BY <2>1 DEF OutcomeInv, Outcomes
<1> QED BY <1>1, <1>2, <1>3 DEF Next

\* While the state file can be written, a transaction enters the history at
\* most once, and there are never more outcomes than attempts.
THEOREM OutcomesAccountedHolds ==
  ASSUME ~PersistMayFail
  PROVE  Spec => []OutcomesAccounted
<1>1. OutcomeInv => OutcomesAccounted
  BY DEF OutcomeInv, OutcomesAccounted, Outcomes
<1> QED BY FlightInit, OutcomeInit, FlightStep, OutcomeStep, <1>1, PTL DEF Spec

-----------------------------------------------------------------------------
(* Requests that timed out.                                                *)

\* The RRC task is still to handle the request of a thread that gave up.
Unanswered == {"asked", "camping"}

\* Where a thread is whose run has failed.
FailurePath == { "failing", "failstopping", "failwriting", "failarchiving", "failarchived",
                 "failunarchived", "exiting", "done" }

\* Only a thread that has failed leaves a request behind.
LateInv == \A t \in Tx : reply[t] \in Unanswered => pc[t] \in FailurePath

LEMMA LateInit == Init => LateInv
BY DEF Init, LateInv, Unanswered

\* Request threads leave the launched threads where they are.
LEMMA CallerLeavesThreads ==
  ASSUME FlightInv, NEW c \in Callers, CallerBegin(c) \/ CallerStep(c)
  PROVE  /\ UNCHANGED << at, reply >>
         /\ \A t \in Tx : \/ pc'[t] = pc[t]
                          \/ /\ pc[t] \in {"none", "starting"}
                             /\ pc'[t] \in {"starting", "aborted", "ready"}
<1>0. pc \in [Tx -> ThreadStates]
  BY DEF FlightInv, TypeOK, ThreadTypeOK
<1>1. UNCHANGED << at, reply >>
  BY DEF threadVars, CallerBegin, CallerStep, CallerWrite, BeginStart, StopRead, BeginReset,
     BeginCfunZero, Begin, CreateCtx, Cleanup, InitAttach, EnableCheck, EnableWrite, Launch,
     StopCancel, StopWrite, ResetWrite, CfunZeroWrite
<1>2. CASE UNCHANGED pc
  BY <1>1, <1>2
<1>3. CASE CreateCtx(c) /\ pc' # pc
  <2>1. pc' = [pc EXCEPT ![made + 1] = "starting"] /\ pc[made + 1] = "none"
    BY <1>3, MaxTxAssumption DEF CreateCtx, Goto, FlightInv, CreatedInOrder, TypeOK, CtxTypeOK, Tx
  <2> QED BY <1>0, <1>1, <2>1
<1>4. CASE Launch(c) \/ EnableCheck(c)
  <2>1. pc[cctx[c]] = "starting"
    BY <1>4 DEF Launch, EnableCheck, FlightInv, StartsOwned, StartPhase
  <2> QED BY <1>0, <1>1, <1>4, <2>1 DEF Launch, EnableCheck, Goto
<1> QED
  BY <1>2, <1>3, <1>4
  DEF threadVars, CallerBegin, CallerStep, CallerWrite, BeginStart, StopRead, BeginReset,
      BeginCfunZero, Begin, CreateCtx, Cleanup, InitAttach, EnableWrite, StopCancel, StopWrite,
      ResetWrite, CfunZeroWrite

\* A thread that still has an answer to come does not leave its failure.
LEMMA LateThread ==
  ASSUME FlightInv, LateInv, NEW t \in Tx, ThreadStep(t)
  PROVE  /\ LateInv'
         /\ reply'[t] \in Unanswered => reply[t] \in Unanswered \/ BusTimeout(t)
         /\ \A u \in Tx : u # t => reply'[u] = reply[u]
<1>0. TypeOK /\ pc \in [Tx -> ThreadStates] /\ reply \in [Tx -> {"none", "ok", "fail", "dropped", "cancelled", "asked", "camping"}]
  BY DEF FlightInv, TypeOK, ThreadTypeOK
<1>1. \A u \in Tx : u # t => pc'[u] = pc[u]
  BY <1>0, ThreadMoves
<1>2. CASE BusTimeout(t)
  <2>1. pc'[t] = "failing" /\ \A u \in Tx : u # t => reply'[u] = reply[u]
    BY <1>0, <1>2 DEF BusTimeout, Goto
  <2> QED BY <1>1, <1>2, <2>1 DEF LateInv, FailurePath
<1>3. CASE PollCheck(t) \/ PollExpired(t) \/ TakeReply(t)
  <2>1. reply'[t] \in {"none", reply[t]} /\ \A u \in Tx : u # t => reply'[u] = reply[u]
    BY <1>0, <1>3 DEF PollCheck, PollExpired, TakeReply, LeaveExchange
  <2>2. pc[t] \notin FailurePath
    BY <1>3 DEF PollCheck, PollExpired, TakeReply, FailurePath
  <2> QED BY <1>1, <2>1, <2>2 DEF LateInv, Unanswered
<1>4. CASE ~BusTimeout(t) /\ ~PollCheck(t) /\ ~PollExpired(t) /\ ~TakeReply(t)
  <2>1. UNCHANGED reply
    BY <1>4
    DEF ThreadStep, EnterCheck, EnterWrite, BusRequest, CampWrite, BeginExchange, ArmGuard,
        PollEmpty, CompleteCheck, CompleteWrite, FinishCheck, StopTimers, SuccessWrite, FailCheck,
        FailWrite, ArchiveRun, ArchiveWrite, ArchiveFailed, ArchiveRest, Unwind, Exit
  <2>2. pc[t] \in FailurePath => pc'[t] \in FailurePath
    BY <1>0, <1>4
    DEF FailurePath, Goto, ThreadStep, EnterCheck, EnterWrite, BusRequest, CampWrite, BeginExchange,
        ArmGuard, PollEmpty, CompleteCheck, CompleteWrite, FinishCheck, StopTimers, AfterStop,
        SuccessWrite, FailCheck, FailWrite, ArchiveRun, ArchiveWrite, ArchiveFailed, Archived,
        NotArchived, Unwind, Exit
  <2> QED BY <1>1, <2>1, <2>2 DEF LateInv
<1> QED BY <1>2, <1>3, <1>4

\* Deliver threads and timers move no thread; a late request is handled once.
LEMMA WorldReply ==
  ASSUME FlightInv, \/ \E t \in Tx : Deliver(t) \/ LateCheck(t) \/ LateCamp(t)
                    \/ \E i \in Guards : ExpireGuard(i)
                    \/ \E n \in ProcedureTimers : ExpireProcedure(n)
                    \/ UNCHANGED vars
  PROVE  \A u \in Tx : reply'[u] \in Unanswered => reply[u] \in Unanswered
<1> USE DEF FlightInv, TypeOK, ThreadTypeOK, Unanswered
<1>1. CASE \E t \in Tx : Deliver(t) \/ LateCheck(t) \/ LateCamp(t)
  BY <1>1 DEF Deliver, LateCheck, LateCamp
<1>2. CASE UNCHANGED reply
  BY <1>2
<1> QED BY <1>1, <1>2 DEF ExpireGuard, ExpireProcedure, vars, threadVars

LEMMA LateStep == FlightInv /\ LateInv /\ [Next]_vars => LateInv'
<1> SUFFICES ASSUME FlightInv, LateInv, [Next]_vars PROVE LateInv'
  OBVIOUS
<1>1. CASE \E c \in Callers : CallerBegin(c) \/ CallerStep(c)
  BY <1>1, CallerLeavesThreads DEF LateInv, FailurePath
<1>2. CASE \E t \in Tx : ThreadStep(t)
  BY <1>2, LateThread
<1>3. CASE \/ \E t \in Tx : Deliver(t) \/ LateCheck(t) \/ LateCamp(t)
           \/ \E i \in Guards : ExpireGuard(i)
           \/ \E n \in ProcedureTimers : ExpireProcedure(n)
           \/ UNCHANGED vars
  <2>1. UNCHANGED pc
    BY <1>3 DEF Deliver, LateCheck, LateCamp, ExpireGuard, ExpireProcedure, vars, threadVars
  <2>2. \A u \in Tx : reply'[u] \in Unanswered => reply[u] \in Unanswered
    BY <1>3, WorldReply
  <2> QED BY <2>1, <2>2 DEF LateInv
<1> QED BY <1>1, <1>2, <1>3 DEF Next

-----------------------------------------------------------------------------
(* What ATTACHED stands for.                                               *)

AttachedInv ==
  /\ AttachedMeansAllSteps
  /\ modem.status = "ATTACHED" => flow.tx \in Tx /\ pc[flow.tx] \in Past /\ reply[flow.tx] \notin Unanswered

LEMMA AttachedInit == Init => AttachedInv
BY DEF Init, AttachedInv, AttachedMeansAllSteps

\* Only the thread of the run on display can write, and it has written, or
\* turns the success into a failure.
LEMMA AttachedThread ==
  ASSUME FlightInv, PrefixInv, LateInv, AttachedInv, NEW t \in Tx, ThreadStep(t)
  PROVE  /\ AttachedInv'
         /\ modem.status = "ATTACHED" => modem'.status = "ATTACHED" \/ PersistMayFail
<1>0. /\ TypeOK /\ pc \in [Tx -> ThreadStates] /\ modem \in ModemStates /\ flow \in FlowStates
      /\ history \in Seq(RunRecords)
  BY DEF FlightInv, TypeOK, ThreadTypeOK, StoreTypeOK
<1>1. CASE modem.status = "ATTACHED"
  <2>1. \A u \in Tx : u # t => pc'[u] = pc[u]
    BY <1>0, ThreadMoves
  <2>0. flow.tx \in Tx /\ reply'[flow.tx] \notin Unanswered
    <3>1. CASE flow.tx = t
      BY <1>1, <3>1, LateThread DEF AttachedInv, BusTimeout, Past, Closing
    <3>2. CASE flow.tx # t
      BY <1>1, <3>2, LateThread DEF AttachedInv
    <3> QED BY <1>1, <3>1, <3>2 DEF AttachedInv
  <2>2. CASE flow.tx # t \/ pc[t] \in Closing
    <3>1. UNCHANGED << flow, modem, history >> /\ (pc[t] \in Past => pc'[t] \in Past)
      BY <1>0, <2>2, OthersUntouched
    <3> QED BY <1>1, <2>0, <2>1, <3>1 DEF AttachedInv, AttachedMeansAllSteps
  <2>3. CASE flow.tx = t /\ pc[t] \notin Closing
    <3>1. PersistMayFail /\ pc[t] \in {"failing", "failstopping", "failwriting"}
      BY <1>1, <2>3 DEF AttachedInv, Past
    <3>2. FailCheck(t) \/ StopTimers(t) \/ FailWrite(t)
      BY <3>1
      DEF ThreadStep, EnterCheck, EnterWrite, BusRequest, BusTimeout, CampWrite, BeginExchange, ArmGuard,
          PollCheck, PollExpired, PollEmpty, TakeReply, CompleteCheck, CompleteWrite, FinishCheck, StopTimers, AfterStop,
          SuccessWrite, ArchiveRun, ArchiveWrite, ArchiveFailed, Archived, NotArchived, ArchiveRest, Unwind, Exit
    <3>3. CASE FailCheck(t) \/ StopTimers(t)
      <4>1. UNCHANGED << flow, modem, history >> /\ pc'[t] \in Past
        BY <1>0, <3>1, <3>3 DEF FailCheck, StopTimers, AfterStop, storeVars, Goto, Past, Closing
      <4> QED BY <1>1, <2>0, <2>3, <3>1, <4>1 DEF AttachedInv, AttachedMeansAllSteps
    <3>4. CASE FailWrite(t)
      <4>1. modem'.status = "FAILED"
        BY <1>0, <2>3, <3>4 DEF FailWrite, Displayed, ModemStates
      <4> QED BY <3>1, <4>1 DEF AttachedInv, AttachedMeansAllSteps
    <3> QED BY <3>2, <3>3, <3>4
  <2> QED BY <2>2, <2>3
<1>2. CASE modem.status # "ATTACHED"
  <2>1. CASE SuccessWrite(t) /\ flow.tx = t
    <3>1. /\ pc[t] = "succeeding" /\ pc'[t] \in Past /\ flow'.tx = t
          /\ flow'.completed = flow.completed /\ flow'.running = FALSE
          /\ history' = Append(history, [tx |-> t, result |-> "SUCCESS"])
      BY <1>0, <2>1 DEF SuccessWrite, Displayed, Goto, Ended, Record, FlowStates, Past, Closing
    <3>2. flow.completed = FirstSteps(11)
      BY <2>1, <3>1 DEF PrefixInv, StepsFollowThread, Complete
    <3>3. /\ Len(history') \in 1..Len(history')
          /\ history'[Len(history')] = [tx |-> t, result |-> "SUCCESS"]
      BY <1>0, <3>1
    <3>4. reply'[t] \notin Unanswered
      BY <2>1, <3>1 DEF SuccessWrite, LateInv, FailurePath
    <3> QED BY <1>2, <3>1, <3>2, <3>3, <3>4 DEF AttachedInv, AttachedMeansAllSteps, AllSteps
  <2>2. CASE ~(SuccessWrite(t) /\ flow.tx = t)
    <3>1. modem'.status # "ATTACHED"
      <4>1. CASE CampWrite(t) \/ FailWrite(t) \/ SuccessWrite(t)
        BY <1>0, <1>2, <2>2, <4>1 DEF CampWrite, Camped, FailWrite, SuccessWrite, Displayed, ModemStates
      <4> QED
        BY <1>2, <4>1
        DEF storeVars, ThreadStep, EnterCheck, EnterWrite, BusRequest, BusTimeout, BeginExchange, ArmGuard,
            PollCheck, PollExpired, PollEmpty, TakeReply, CompleteCheck, CompleteWrite, FinishCheck, StopTimers, AfterStop,
            FailCheck, ArchiveRun, ArchiveWrite, ArchiveFailed, Archived, NotArchived, ArchiveRest, Unwind, Exit
    <3> QED BY <1>2, <3>1 DEF AttachedInv, AttachedMeansAllSteps
  <2> QED BY <2>1, <2>2
<1> QED BY <1>1, <1>2

\* A request thread that leaves the modem attached leaves the steps complete.
LEMMA AttachedCaller ==
  ASSUME FlightInv, AttachedInv, NEW c \in Callers, CallerBegin(c) \/ CallerStep(c)
  PROVE  AttachedInv'
<1>0. /\ pc \in [Tx -> ThreadStates] /\ modem \in ModemStates /\ flow \in FlowStates
  BY DEF FlightInv, TypeOK, ThreadTypeOK, StoreTypeOK
<1>1. CASE InitAttach(c) \/ ResetWrite(c) \/ CfunZeroWrite(c)
  BY <1>0, <1>1 DEF InitAttach, ResetWrite, CfunZeroWrite, AttachedInv, AttachedMeansAllSteps
<1>2. CASE StopWrite(c)
  <2>1. modem'.status = "CANCELLED" \/ UNCHANGED << modem, flow >>
    BY <1>0, <1>2 DEF StopWrite, ModemStates
  <2>2. UNCHANGED << pc, reply, history >>
    BY <1>2 DEF StopWrite, threadVars
  <2> QED BY <2>1, <2>2 DEF AttachedInv, AttachedMeansAllSteps
<1>3. CASE EnableWrite(c)
  <2>1. pc[cctx[c]] = "starting" /\ UNCHANGED << pc, reply, modem, history >>
    BY <1>3 DEF EnableWrite, FlightInv, StartsOwned, StartPhase, threadVars
  <2>2. CASE flow.tx = cctx[c]
    BY <2>1, <2>2 DEF AttachedInv, AttachedMeansAllSteps, Closing, Past
  <2>3. CASE flow.tx # cctx[c]
    <3>1. flow' = flow
      BY <1>3, <2>3 DEF EnableWrite, RecordComplete, Displayed
    <3> QED BY <2>1, <3>1 DEF AttachedInv, AttachedMeansAllSteps
  <2> QED BY <2>2, <2>3
<1>4. CASE UNCHANGED storeVars
  <2>1. UNCHANGED reply /\ \A t \in Tx : pc[t] \in Past => pc'[t] \in Past
    BY CallerLeavesThreads DEF Past, Closing
  <2> QED BY <1>4, <2>1 DEF storeVars, AttachedInv, AttachedMeansAllSteps
<1> QED
  BY <1>1, <1>2, <1>3, <1>4
  DEF storeVars, CallerBegin, CallerStep, CallerWrite, BeginStart, StopRead, BeginReset,
      BeginCfunZero, Begin, CreateCtx, Cleanup, EnableCheck, Launch, StopCancel

\* Deliver threads and timers leave the flow and the history alone, and the
\* modem but for the answer to a request that timed out.
LEMMA WorldQuiet ==
  ASSUME FlightInv,
         \/ \E t \in Tx : Deliver(t) \/ LateCheck(t) \/ LateCamp(t)
         \/ \E i \in Guards : ExpireGuard(i)
         \/ \E n \in ProcedureTimers : ExpireProcedure(n)
         \/ UNCHANGED vars
  PROVE  /\ UNCHANGED << pc, cancelled, flow, history >>
         /\ \/ UNCHANGED modem
            \/ /\ flow.tx \in Tx /\ reply[flow.tx] \in Unanswered
               /\ modem'.status = "CAMPED" /\ modem'.cfun = modem.cfun
<1>1. ASSUME NEW t \in Tx, LateCamp(t)
      PROVE  /\ UNCHANGED << pc, cancelled, flow, history >>
             /\ \/ UNCHANGED modem
                \/ /\ flow.tx \in Tx /\ reply[flow.tx] \in Unanswered
                   /\ modem'.status = "CAMPED" /\ modem'.cfun = modem.cfun
  <2>1. UNCHANGED << pc, cancelled, flow, history >> /\ modem' = Camped(t)
    BY <1>1 DEF LateCamp, ctxVars
  <2>2. CASE Displayed(t)
    <3>1. modem' = [modem EXCEPT !.status = "CAMPED", !.cell = TRUE]
      BY <2>1, <2>2 DEF Camped
    <3>2. modem'.status = "CAMPED" /\ modem'.cfun = modem.cfun
      BY <3>1 DEF FlightInv, TypeOK, StoreTypeOK, ModemStates
    <3> QED BY <1>1, <2>1, <2>2, <3>2 DEF LateCamp, Displayed, Unanswered
  <2>3. CASE ~Displayed(t)
    BY <2>1, <2>3 DEF Camped
  <2> QED BY <2>2, <2>3
<1>2. CASE UNCHANGED << pc, cancelled, flow, history, modem >>
  BY <1>2
<1> QED
  BY <1>1, <1>2 DEF Deliver, LateCheck, ExpireGuard, ExpireProcedure, vars, ctxVars, threadVars, storeVars

LEMMA AttachedStep ==
  FlightInv /\ PrefixInv /\ LateInv /\ AttachedInv /\ [Next]_vars => AttachedInv'
<1> SUFFICES ASSUME FlightInv, PrefixInv, LateInv, AttachedInv, [Next]_vars PROVE AttachedInv'
  OBVIOUS
<1>1. CASE \E c \in Callers : CallerBegin(c) \/ CallerStep(c)
  BY <1>1, AttachedCaller
<1>2. CASE \E t \in Tx : ThreadStep(t)
  BY <1>2, AttachedThread
<1>3. CASE \/ \E t \in Tx : Deliver(t) \/ LateCheck(t) \/ LateCamp(t)
           \/ \E i \in Guards : ExpireGuard(i)
           \/ \E n \in ProcedureTimers : ExpireProcedure(n)
           \/ UNCHANGED vars
  <2>1. /\ UNCHANGED << pc, flow, history >>
        /\ \A u \in Tx : reply'[u] \in Unanswered => reply[u] \in Unanswered
        /\ UNCHANGED modem \/ modem'.status = "CAMPED"
    BY <1>3, WorldQuiet, WorldReply
  <2> QED BY <2>1 DEF AttachedInv, AttachedMeansAllSteps
<1> QED BY <1>1, <1>2, <1>3 DEF Next

\* ATTACHED is displayed only with a complete, finished and recorded run,
\* whether or not the state file can be written.
THEOREM AttachedMeansAllStepsHolds == Spec => []AttachedMeansAllSteps
<1>1. AttachedInv => AttachedMeansAllSteps
  BY DEF AttachedInv
<1> QED
  BY FlightInit, PrefixInit, LateInit, AttachedInit, FlightStep, PrefixStep, LateStep,
     AttachedStep, <1>1, PTL
  DEF Spec

\* While the state file can be written, only a request takes ATTACHED away.
THEOREM AttachedEndsByRequestHolds ==
  ASSUME ~PersistMayFail
  PROVE  Spec => AttachedEndsByRequest
<1>1. FlightInv /\ PrefixInv /\ LateInv /\ AttachedInv /\ [Next]_vars
        => [modem.status = "ATTACHED" /\ modem'.status # "ATTACHED"
              => \E c \in Callers : cpc'[c] # cpc[c]]_vars
  <2> SUFFICES ASSUME FlightInv, PrefixInv, LateInv, AttachedInv, [Next]_vars,
                      modem.status = "ATTACHED", modem'.status # "ATTACHED"
               PROVE  \E c \in Callers : cpc'[c] # cpc[c]
    OBVIOUS
  <2>1. PICK c \in Callers : CallerBegin(c) \/ CallerStep(c)
    BY AttachedThread, WorldQuiet DEF Next, AttachedInv
  <2>2. CallerWrite(c)
    BY <2>1
    DEF storeVars, CallerBegin, CallerStep, BeginStart, StopRead, BeginReset, BeginCfunZero, Begin,
        CreateCtx, Cleanup, EnableCheck, EnableWrite, Launch, StopCancel
  <2>3. cpc'[c] # cpc[c]
    BY <2>2
    DEF CallerWrite, InitAttach, StopWrite, ResetWrite, CfunZeroWrite, CallerGoto, FlightInv,
        TypeOK, CallerTypeOK
  <2> QED BY <2>3
<1> QED
  BY FlightInit, PrefixInit, LateInit, AttachedInit, FlightStep, PrefixStep, LateStep,
     AttachedStep, <1>1, PTL
  DEF Spec, AttachedEndsByRequest

-----------------------------------------------------------------------------
(* The engine implements AttachLifecycle.                                  *)

abstractVars == << [t \in Tx |-> TxState(t)], history >>

LEMMA LifecycleStarts == Init => Lifecycle!LifecycleInit
BY DEF Init, Lifecycle!LifecycleInit, TxState

\* Where the phases of a transaction come from.
LEMMA TxStateIs ==
  ASSUME NEW t \in Tx, pc[t] \in ThreadStates
  PROVE  /\ TxState(t) = "open" <=> pc[t] \in Active \cup {"starting"} /\ t \notin cancelled
         /\ TxState(t) = "cancelled" <=> pc[t] \in Active \cup {"starting"} /\ t \in cancelled
         /\ TxState(t) = "new" <=> pc[t] = "none"
         /\ TxState(t) = "closed" <=> pc[t] \in {"aborted", "done"}
BY DEF TxState, ThreadStates, Active

\* One transaction moves on and the others stay: the shape of every step of
\* the lifecycle that leaves the history alone.
LEMMA OnePhaseMoves ==
  ASSUME NEW t \in Tx, \A u \in Tx : u # t => TxState(u)' = TxState(u), NEW s, TxState(t)' = s
  PROVE  [u \in Tx |-> TxState(u)]' = [[u \in Tx |-> TxState(u)] EXCEPT ![t] = s]
OBVIOUS

LEMMA LifecycleThread ==
  ASSUME ~PersistMayFail, TypeOK, TypeOK', OutcomeInv, NEW t \in Tx, ThreadStep(t)
  PROVE  [Lifecycle!LifecycleNext]_abstractVars
<1>1. /\ pc[t] \in Active /\ pc'[t] \in Active \cup {"done"}
      /\ \A u \in Tx : u # t => pc'[u] = pc[u]
      /\ cancelled' = cancelled
  BY ThreadMoves
<1>2. \A u \in Tx : pc[u] \in ThreadStates /\ pc'[u] \in ThreadStates
  BY DEF TypeOK, ThreadTypeOK
<1>3. \A u \in Tx : u # t => TxState(u)' = TxState(u)
  BY <1>1 DEF TxState
<1>4. TxState(t) \in {"open", "cancelled"}
  BY <1>1, <1>2, TxStateIs
<1>5. CASE pc'[t] = "done"
  <2>1. history' = history
    <3>1. ~SuccessWrite(t) /\ ~FailWrite(t) /\ ~Unwind(t)
      BY <1>5 DEF SuccessWrite, FailWrite, Unwind, Goto, TypeOK, ThreadTypeOK
    <3> QED
      BY <3>1
      DEF storeVars, ThreadStep, EnterCheck, EnterWrite, BusRequest, BusTimeout, CampWrite, BeginExchange,
          ArmGuard, PollCheck, PollExpired, PollEmpty, TakeReply, CompleteCheck, CompleteWrite,
          FinishCheck, StopTimers, AfterStop, FailCheck, ArchiveRun, ArchiveWrite, ArchiveFailed, Archived, NotArchived, ArchiveRest, Exit
  <2>2. TxState(t)' = "closed"
    BY <1>5 DEF TxState
  <2> QED
    BY <1>3, <1>4, <2>1, <2>2, OnePhaseMoves
    DEF Lifecycle!LifecycleNext, Lifecycle!Close
<1>6. CASE pc'[t] # "done"
  <2>1. UNCHANGED [u \in Tx |-> TxState(u)]
    <3>1. TxState(t)' = TxState(t)
      BY <1>1, <1>6 DEF TxState, Active
    <3> QED BY <1>3, <3>1
  <2>2. CASE history' = history
    BY <2>1, <2>2 DEF abstractVars
  <2>3. CASE history' # history
    <3>1. PICK r \in Results : history' = Append(history, [tx |-> t, result |-> r])
      BY <2>3, OutcomeWritten
    <3>2. pc[t] \notin Closing
      BY <2>3, OutcomeWritten
    <3>3. \A i \in 1..Len(history) : history[i].tx # t
      BY <3>2 DEF OutcomeInv
    <3> QED
      BY <1>4, <2>1, <3>1, <3>3
      DEF Lifecycle!LifecycleNext, Lifecycle!RecordResult, Results
  <2> QED BY <2>2, <2>3
<1> QED BY <1>5, <1>6

LEMMA LifecycleCaller ==
  ASSUME FlightInv, FlightInv', NEW c \in Callers, CallerBegin(c) \/ CallerStep(c)
  PROVE  [Lifecycle!LifecycleNext]_abstractVars
<1>0. /\ pc \in [Tx -> ThreadStates] /\ \A u \in Tx : pc[u] \in ThreadStates
      /\ current \in Tx \cup {None} /\ made \in Nat
  BY DEF FlightInv, TypeOK, ThreadTypeOK, CtxTypeOK
<1>1. history' = history
  BY DEF storeVars, CallerBegin, CallerStep, CallerWrite, BeginStart, StopRead, BeginReset,
     BeginCfunZero, Begin, CreateCtx, Cleanup, InitAttach, EnableCheck, EnableWrite, Launch,
     StopCancel, StopWrite, ResetWrite, CfunZeroWrite
<1>2. CASE UNCHANGED << pc, cancelled >>
  BY <1>1, <1>2 DEF abstractVars, TxState
<1>3. CASE CreateCtx(c) /\ pc' # pc
  <2>1. PICK t \in Tx :
        /\ pc[t] = "none" /\ t \notin cancelled
        /\ pc' = [pc EXCEPT ![t] = "starting"] /\ cancelled' = cancelled /\ ~Busy
    BY <1>0, <1>3, MaxTxAssumption
    DEF CreateCtx, Goto, FlightInv, CreatedInOrder, TypeOK, CtxTypeOK, Tx
  <2>2. TxState(t) = "new" /\ TxState(t)' = "open" /\ \A u \in Tx : u # t => TxState(u)' = TxState(u)
    BY <1>0, <2>1 DEF TxState
  <2>3. \A u \in Tx : TxState(u) # "open"
    BY <1>0, <2>1, TxStateIs, NoneAssumption DEF Busy, FlightInv, SingleFlight, Tx
  <2> QED
    BY <1>1, <2>1, <2>2, <2>3, OnePhaseMoves
    DEF Lifecycle!LifecycleNext, Lifecycle!Open
<1>4. CASE CancelCurrent /\ pc' = pc
  <2>1. ASSUME NEW t \in Tx, t = current, TxState(t) = "open"
        PROVE  Lifecycle!LifecycleNext
    <3>1. cancelled' = cancelled \cup {t} /\ pc[t] \in Active \cup {"starting"}
      BY <1>0, <1>4, <2>1, TxStateIs, NoneAssumption DEF CancelCurrent, Tx
    <3>2. TxState(t)' = "cancelled" /\ \A u \in Tx : u # t => TxState(u)' = TxState(u)
      BY <1>4, <3>1 DEF TxState, Active
    <3> QED
      BY <1>1, <2>1, <3>2, OnePhaseMoves
      DEF Lifecycle!LifecycleNext, Lifecycle!Cancel
  <2>2. CASE ~(current \in Tx /\ TxState(current) = "open")
    <3>1. \A u \in Tx : TxState(u)' = TxState(u)
      BY <1>0, <1>4, <2>2 DEF CancelCurrent, TxState
    <3> QED BY <1>1, <3>1 DEF abstractVars
  <2> QED BY <2>1, <2>2
<1>5. CASE EnableCheck(c) /\ pc' # pc
  <2>1. PICK t \in Tx :
        /\ pc[t] = "starting"
        /\ pc' = [pc EXCEPT ![t] = "aborted"] /\ cancelled' = cancelled
    BY <1>5 DEF EnableCheck, Goto, FlightInv, StartsOwned, StartPhase, ctxVars
  <2>2. /\ TxState(t) \in {"open", "cancelled"} /\ TxState(t)' = "closed"
        /\ \A u \in Tx : u # t => TxState(u)' = TxState(u)
    BY <1>0, <2>1 DEF TxState
  <2> QED
    BY <1>1, <2>1, <2>2, OnePhaseMoves
    DEF Lifecycle!LifecycleNext, Lifecycle!Close
<1>6. CASE Launch(c)
  <2>1. /\ cctx[c] \in Tx /\ pc[cctx[c]] = "starting"
        /\ pc' = [pc EXCEPT ![cctx[c]] = "ready"] /\ cancelled' = cancelled
    BY <1>6 DEF Launch, Goto, FlightInv, StartsOwned, StartPhase, ctxVars
  <2>2. \A u \in Tx : TxState(u)' = TxState(u)
    BY <1>0, <2>1 DEF TxState
  <2> QED BY <1>1, <2>2 DEF abstractVars
<1> QED
  BY <1>2, <1>3, <1>4, <1>5, <1>6
  DEF threadVars, ctxVars, CallerBegin, CallerStep, CallerWrite, BeginStart, StopRead, BeginReset,
      BeginCfunZero, Begin, CreateCtx, Cleanup, InitAttach, EnableCheck, EnableWrite,
      StopCancel, StopWrite, ResetWrite, CfunZeroWrite

LEMMA LifecycleStep ==
  ~PersistMayFail /\ FlightInv /\ FlightInv' /\ OutcomeInv /\ [Next]_vars => [Lifecycle!LifecycleNext]_abstractVars
<1> SUFFICES ASSUME ~PersistMayFail, FlightInv, FlightInv', OutcomeInv, [Next]_vars
             PROVE  [Lifecycle!LifecycleNext]_abstractVars
  OBVIOUS
<1>1. CASE \E c \in Callers : CallerBegin(c) \/ CallerStep(c)
  BY <1>1, LifecycleCaller
<1>2. CASE \E t \in Tx : ThreadStep(t)
  BY <1>2, LifecycleThread DEF FlightInv
<1>3. CASE UNCHANGED << pc, cancelled, history >>
  BY <1>3 DEF abstractVars, TxState
<1> QED BY <1>1, <1>2, <1>3, WorldQuiet DEF Next

\* While the state file can be written, every behaviour of the engine, for any
\* number of transactions, request threads and operations, is a behaviour of
\* AttachLifecycle.
THEOREM EngineImplementsLifecycle ==
  ASSUME ~PersistMayFail
  PROVE  Spec => ImplementsLifecycle
<1> QED
  BY FlightInit, OutcomeInit, FlightStep, OutcomeStep, LifecycleStarts, LifecycleStep, PTL
  DEF Spec, ImplementsLifecycle, Lifecycle!LifecycleSpec, abstractVars

-----------------------------------------------------------------------------
(* What an ended run leaves on display.                                    *)

\* A start has made its context and has not shown its run yet.
Overtaken == \E c \in Callers : cpc[c] \in {"startCleanup", "initialising"}

\* A run on display that claims to be under way has a thread that will end it,
\* or a start is about to replace it.
ClosedInv ==
  /\ flow.tx # None => flow.tx \in Tx /\ pc[flow.tx] # "none"
  /\ flow.running => flow.tx # None
  /\ flow.running /\ pc[flow.tx] \in Active \cup {"done"} =>
       Overtaken \/ (current = flow.tx /\ pc[flow.tx] \notin Closing)
  /\ \A c \in Callers :
       cpc[c] \in {"enableWrite", "launching"} /\ flow.running /\ flow.tx = cctx[c] =>
         Overtaken \/ current = flow.tx

LEMMA ClosedInit == Init => ClosedInv
BY DEF Init, ClosedInv

\* A thread neither shows a run nor resumes one.
LEMMA ThreadKeepsRun ==
  ASSUME TypeOK, NEW t \in Tx, ThreadStep(t)
  PROVE  /\ flow'.tx = flow.tx
         /\ flow'.running => flow.running
         /\ flow.tx = t /\ flow'.running /\ pc'[t] \in Closing => pc[t] \in Closing \/ current # t
<1>0. flow \in FlowStates /\ pc \in [Tx -> ThreadStates]
  BY DEF TypeOK, StoreTypeOK, ThreadTypeOK
<1>1. CASE SuccessWrite(t) \/ FailWrite(t) \/ Unwind(t)
  BY <1>0, <1>1 DEF SuccessWrite, FailWrite, Unwind, Ended, Displayed, FlowStates, Goto, Closing
<1>2. CASE EnterWrite(t) \/ CompleteWrite(t)
  BY <1>0, <1>2 DEF EnterWrite, CompleteWrite, ShowStep, RecordComplete, FlowStates, Goto, Closing
<1>3. CASE CampWrite(t) \/ ArchiveRun(t) \/ ArchiveWrite(t) \/ ArchiveFailed(t) \/ FailCheck(t)
  BY <1>0, <1>3 DEF CampWrite, ArchiveRun, ArchiveWrite, ArchiveFailed, Archived, NotArchived, ArchiveRest, FailCheck, Goto, Closing, storeVars
<1>4. CASE ~(SuccessWrite(t) \/ FailWrite(t) \/ Unwind(t) \/ EnterWrite(t) \/ CompleteWrite(t)
             \/ CampWrite(t) \/ ArchiveRun(t) \/ ArchiveWrite(t) \/ ArchiveFailed(t) \/ FailCheck(t))
  BY <1>0, <1>4
  DEF storeVars, Goto, Closing, ThreadStep, EnterCheck, BusRequest, BusTimeout, BeginExchange, ArmGuard,
      PollCheck, PollExpired, PollEmpty, TakeReply, CompleteCheck, FinishCheck, StopTimers, AfterStop, Exit
<1> QED BY <1>1, <1>2, <1>3, <1>4

LEMMA ClosedThread ==
  ASSUME FlightInv, ClosedInv, NEW t \in Tx, ThreadStep(t)
  PROVE  ClosedInv'
<1>0. TypeOK /\ None \notin Tx /\ pc \in [Tx -> ThreadStates]
  BY NoneAssumption DEF FlightInv, TypeOK, ThreadTypeOK, Tx
<1>1. /\ pc[t] \in Active /\ pc'[t] \in Active \cup {"done"}
      /\ \A u \in Tx : u # t => pc'[u] = pc[u]
      /\ UNCHANGED << cancelled, made, ops, cpc, cctx >>
      /\ \/ UNCHANGED current
         \/ current = t /\ current' = None /\ pc'[t] = "done"
  BY <1>0, ThreadMoves
<1>2. /\ flow'.tx = flow.tx
      /\ flow'.running => flow.running
      /\ flow.tx = t /\ flow'.running /\ pc'[t] \in Closing => pc[t] \in Closing \/ current # t
  BY <1>0, ThreadKeepsRun
<1>3. Overtaken' = Overtaken
  BY <1>1 DEF Overtaken
<1>4. \A c \in Callers : cpc[c] \in {"enableWrite", "launching"} => cctx[c] # t
  BY <1>1 DEF FlightInv, StartsOwned, StartPhase, Active
<1>5. flow'.tx # None => flow'.tx \in Tx /\ pc'[flow'.tx] # "none"
  BY <1>1, <1>2 DEF ClosedInv, Active
<1>6. flow'.running /\ pc'[flow'.tx] \in Active \cup {"done"} =>
        Overtaken' \/ (current' = flow'.tx /\ pc'[flow'.tx] \notin Closing)
  <2> SUFFICES ASSUME flow'.running, pc'[flow'.tx] \in Active \cup {"done"}, ~Overtaken
               PROVE  current' = flow'.tx /\ pc'[flow'.tx] \notin Closing
    BY <1>3
  <2>1. flow.running /\ flow.tx \in Tx /\ pc[flow.tx] \in Active \cup {"done"}
    BY <1>1, <1>2 DEF ClosedInv
  <2>2. current = flow.tx /\ pc[flow.tx] \notin Closing
    BY <2>1 DEF ClosedInv
  <2>3. CASE flow.tx = t
    BY <1>1, <1>2, <2>2, <2>3 DEF Closing
  <2>4. CASE flow.tx # t
    BY <1>1, <1>2, <2>1, <2>2, <2>4
  <2> QED BY <2>3, <2>4
<1>7. \A c \in Callers :
        cpc'[c] \in {"enableWrite", "launching"} /\ flow'.running /\ flow'.tx = cctx'[c] =>
          Overtaken' \/ current' = flow'.tx
  BY <1>1, <1>2, <1>3, <1>4 DEF ClosedInv
<1> QED BY <1>2, <1>5, <1>6, <1>7 DEF ClosedInv

\* A request thread that overtakes a run goes on to show its own.
LEMMA OvertakenStays ==
  ASSUME TypeOK, NEW c \in Callers, CallerBegin(c) \/ CallerStep(c), ~InitAttach(c), Overtaken
  PROVE  Overtaken'
<1> USE DEF TypeOK, CallerTypeOK, CallerGoto
<1>1. PICK d \in Callers : cpc[d] \in {"startCleanup", "initialising"}
  BY DEF Overtaken
<1>2. cpc'[d] \in {"startCleanup", "initialising"}
  <2>1. CASE d = c
    <3>1. Cleanup(c)
      BY <1>1, <2>1
      DEF CallerBegin, CallerStep, CallerWrite, BeginStart, StopRead, BeginReset, BeginCfunZero,
          Begin, CreateCtx, EnableCheck, EnableWrite, Launch, StopCancel, StopWrite, ResetWrite,
          CfunZeroWrite
    <3> QED BY <1>1, <2>1, <3>1 DEF Cleanup, AfterCleanup
  <2>2. CASE d # c
    <3>1. cpc'[d] = cpc[d]
      BY <2>2
      DEF callerVars, CallerBegin, CallerStep, CallerWrite, BeginStart, StopRead, BeginReset,
          BeginCfunZero, Begin, CreateCtx, Cleanup, InitAttach, EnableCheck, EnableWrite, Launch,
          StopCancel, StopWrite, ResetWrite, CfunZeroWrite
    <3> QED BY <1>1, <3>1
  <2> QED BY <2>1, <2>2
<1> QED BY <1>2 DEF Overtaken

LEMMA ClosedCaller ==
  ASSUME FlightInv, ClosedInv, NEW c \in Callers, CallerBegin(c) \/ CallerStep(c)
  PROVE  ClosedInv'
<1>0. /\ TypeOK /\ pc \in [Tx -> ThreadStates] /\ cpc \in [Callers -> CallerStates]
      /\ cctx \in [Callers -> Tx \cup {None}] /\ flow \in FlowStates /\ None \notin Tx
  BY NoneAssumption DEF FlightInv, TypeOK, ThreadTypeOK, CallerTypeOK, StoreTypeOK, Tx
<1>1. CASE CreateCtx(c) /\ pc' # pc
  <2>1. /\ made + 1 \in Tx /\ pc' = [pc EXCEPT ![made + 1] = "starting"]
        /\ cpc' = [cpc EXCEPT ![c] = "startCleanup"] /\ flow' = flow
    BY <1>1, MaxTxAssumption
    DEF CreateCtx, CallerGoto, Goto, FlightInv, CreatedInOrder, TypeOK, CtxTypeOK, Tx, storeVars
  <2>2. Overtaken'
    BY <1>0, <2>1 DEF Overtaken
  <2>3. flow'.tx # None => flow'.tx \in Tx /\ pc'[flow'.tx] # "none"
    BY <1>0, <2>1 DEF ClosedInv
  <2> QED BY <2>1, <2>2, <2>3 DEF ClosedInv
<1>2. CASE InitAttach(c)
  <2>1. /\ flow'.tx = cctx[c] /\ cctx[c] \in Tx /\ pc[cctx[c]] = "starting"
        /\ UNCHANGED << pc, cctx, current >> /\ cpc' = [cpc EXCEPT ![c] = "enableCheck"]
    BY <1>2 DEF InitAttach, CallerGoto, FlightInv, StartsOwned, StartPhase, threadVars, ctxVars
  <2>2. \A d \in Callers : cpc'[d] \in {"enableWrite", "launching"} => cctx'[d] # cctx[c]
    BY <1>0, <1>2, <2>1 DEF InitAttach, FlightInv, StartsOwned, StartPhase
  <2> QED BY <1>0, <2>1, <2>2 DEF ClosedInv, Active
<1>3. CASE EnableCheck(c)
  <2>1. /\ cctx[c] \in Tx /\ pc[cctx[c]] = "starting" /\ cpc[c] = "enableCheck"
        /\ UNCHANGED << flow, current >>
    BY <1>3 DEF EnableCheck, FlightInv, StartsOwned, StartPhase, storeVars, ctxVars
  <2>2. Overtaken => Overtaken'
    BY <1>0, <1>3, OvertakenStays DEF EnableCheck, InitAttach, CallerStep
  <2>3. CASE Alive(cctx[c]) /\ pc' = pc
    <3>1. cctx' = cctx /\ \A d \in Callers : d # c => cpc'[d] = cpc[d]
      BY <1>0, <1>3, <2>1, <2>3 DEF EnableCheck, CallerGoto, Goto
    <3> QED BY <2>1, <2>2, <2>3, <3>1 DEF ClosedInv, Alive
  <2>4. CASE pc' # pc
    <3>1. /\ pc' = [pc EXCEPT ![cctx[c]] = "aborted"] /\ cpc' = [cpc EXCEPT ![c] = "idle"]
          /\ cctx' = [cctx EXCEPT ![c] = None]
      BY <1>3, <2>4 DEF EnableCheck, CallerGoto, Goto
    <3>2. \A d \in Callers : cpc'[d] \in {"enableWrite", "launching"} =>
            cpc[d] \in {"enableWrite", "launching"} /\ cctx'[d] = cctx[d]
      BY <1>0, <3>1
    <3>3. flow.tx # None => flow.tx \in Tx /\ pc'[flow.tx] # "none"
      BY <1>0, <2>1, <3>1 DEF ClosedInv
    <3>4. pc'[flow.tx] \in Active \cup {"done"} /\ flow.running =>
            Overtaken' \/ (current = flow.tx /\ pc'[flow.tx] \notin Closing)
      BY <1>0, <2>1, <2>2, <3>1 DEF ClosedInv, Active
    <3> QED BY <2>1, <2>2, <3>2, <3>3, <3>4 DEF ClosedInv
  <2>5. pc' = pc => Alive(cctx[c])
    BY <1>0, <1>3, <2>1 DEF EnableCheck, Goto
  <2> QED BY <2>3, <2>4, <2>5
<1>4. CASE Launch(c)
  <2>1. /\ cctx[c] \in Tx /\ pc[cctx[c]] = "starting" /\ cpc[c] = "launching"
        /\ UNCHANGED << flow, current >>
        /\ pc' = [pc EXCEPT ![cctx[c]] = "ready"] /\ cpc' = [cpc EXCEPT ![c] = "idle"]
        /\ cctx' = [cctx EXCEPT ![c] = None]
    BY <1>4 DEF Launch, Goto, CallerGoto, FlightInv, StartsOwned, StartPhase, storeVars, ctxVars
  <2>2. Overtaken => Overtaken'
    BY <1>0, <1>4, OvertakenStays DEF Launch, InitAttach, CallerStep
  <2>3. \A d \in Callers : cpc'[d] \in {"enableWrite", "launching"} =>
          cpc[d] \in {"enableWrite", "launching"} /\ cctx'[d] = cctx[d]
    BY <1>0, <2>1
  <2>4. flow.tx # None => flow.tx \in Tx /\ pc'[flow.tx] # "none"
    BY <1>0, <2>1 DEF ClosedInv
  <2>5. flow.running /\ pc'[flow.tx] \in Active \cup {"done"} =>
          Overtaken' \/ (current = flow.tx /\ pc'[flow.tx] \notin Closing)
    BY <1>0, <2>1, <2>2 DEF ClosedInv, Closing
  <2> QED BY <2>1, <2>2, <2>3, <2>4, <2>5 DEF ClosedInv
<1>5. CASE /\ UNCHANGED << pc, current >> /\ ~InitAttach(c)
           /\ (flow'.running => flow.running) /\ flow'.tx \in {flow.tx, None}
           /\ (flow'.running => flow'.tx = flow.tx)
  <2>1. Overtaken => Overtaken'
    BY <1>0, <1>5, OvertakenStays
  <2>2. \A d \in Callers : cpc'[d] \in {"enableWrite", "launching"} =>
          \/ cpc[d] \in {"enableWrite", "launching"} /\ cctx'[d] = cctx[d]
          \/ cctx'[d] = current
    BY <1>0, <1>5
    DEF CallerGoto, CallerBegin, CallerStep, CallerWrite, BeginStart, StopRead, BeginReset, Alive,
        BeginCfunZero, Begin, CreateCtx, Cleanup, AfterCleanup, EnableCheck, EnableWrite, Launch,
        StopCancel, StopWrite, ResetWrite, CfunZeroWrite
  <2> QED BY <1>5, <2>1, <2>2 DEF ClosedInv
<1>6. ASSUME ~(CreateCtx(c) /\ pc' # pc), ~InitAttach(c), ~EnableCheck(c), ~Launch(c)
      PROVE  /\ UNCHANGED << pc, current >>
             /\ (flow'.running => flow.running) /\ flow'.tx \in {flow.tx, None}
             /\ (flow'.running => flow'.tx = flow.tx)
  <2>1. CASE CallerBegin(c) \/ Cleanup(c) \/ StopCancel(c)
    BY <2>1 DEF CallerBegin, BeginStart, StopRead, BeginReset, BeginCfunZero, Begin, Cleanup,
       StopCancel, ctxVars, threadVars, storeVars
  <2>2. CASE EnableWrite(c) \/ StopWrite(c)
    BY <1>0, <2>2 DEF EnableWrite, StopWrite, RecordComplete, FlowStates, ctxVars, threadVars
  <2>4. CASE ResetWrite(c)
    BY <2>4 DEF ResetWrite, ctxVars, threadVars
  <2>5. CASE CfunZeroWrite(c)
    <3>1. flow' = [flow EXCEPT !.running = FALSE, !.step = None] /\ UNCHANGED << pc, current >>
      BY <2>5 DEF CfunZeroWrite, ctxVars, threadVars
    <3>2. flow'.running = FALSE /\ flow'.tx = flow.tx
      BY <1>0, <3>1 DEF FlowStates
    <3> QED BY <3>1, <3>2
  <2>3. CASE CreateCtx(c) /\ pc' = pc
    <3>1. UNCHANGED << current, flow >>
      <4>1. CASE UNCHANGED ctxVars
        BY <2>3, <4>1 DEF CreateCtx, ctxVars, storeVars
      <4>2. CASE ~UNCHANGED ctxVars
        <5>1. pc' = [pc EXCEPT ![made + 1] = "starting"] /\ made + 1 \in Tx /\ pc[made + 1] = "none"
          BY <2>3, <4>2, MaxTxAssumption
          DEF CreateCtx, Goto, FlightInv, CreatedInOrder, TypeOK, CtxTypeOK, Tx
        <5> QED BY <1>0, <2>3, <5>1
      <4> QED BY <4>1, <4>2
    <3> QED BY <2>3, <3>1
  <2> QED BY <1>6, <2>1, <2>2, <2>3, <2>4, <2>5 DEF CallerStep, CallerWrite
<1> QED BY <1>1, <1>2, <1>3, <1>4, <1>5, <1>6

LEMMA ClosedStep == FlightInv /\ ClosedInv /\ [Next]_vars => ClosedInv'
<1> SUFFICES ASSUME FlightInv, ClosedInv, [Next]_vars PROVE ClosedInv'
  OBVIOUS
<1>1. CASE \E c \in Callers : CallerBegin(c) \/ CallerStep(c)
  BY <1>1, ClosedCaller
<1>2. CASE \E t \in Tx : ThreadStep(t)
  BY <1>2, ClosedThread
<1>3. CASE \/ \E t \in Tx : Deliver(t) \/ LateCheck(t) \/ LateCamp(t)
           \/ \E i \in Guards : ExpireGuard(i)
           \/ \E n \in ProcedureTimers : ExpireProcedure(n)
           \/ UNCHANGED vars
  <2>1. UNCHANGED << pc, current, flow, cpc, cctx >>
    BY <1>3 DEF Deliver, LateCheck, LateCamp, ExpireGuard, ExpireProcedure, vars, ctxVars, threadVars, storeVars, callerVars
  <2> QED BY <2>1 DEF ClosedInv, Overtaken
<1> QED BY <1>1, <1>2, <1>3 DEF Next

\* For any number of transactions, request threads and operations, and also
\* when the state file cannot be written: when nothing runs any more the flow
\* does not claim to, unless start_attach gave up after its first write.
THEOREM QuiescentRunIsClosedHolds == Spec => []QuiescentRunIsClosed
<1>1. FlightInv /\ ClosedInv => QuiescentRunIsClosed
  <2> SUFFICES ASSUME FlightInv, ClosedInv, Quiescent, flow.running
               PROVE  pc[flow.tx] = "aborted"
    BY DEF QuiescentRunIsClosed
  <2>1. ~Overtaken /\ flow.tx \in Tx /\ pc[flow.tx] \in {"aborted", "done"}
    BY DEF ClosedInv, Quiescent, Overtaken
  <2> QED BY <2>1 DEF ClosedInv, Closing
<1> QED BY FlightInit, ClosedInit, FlightStep, ClosedStep, <1>1, PTL DEF Spec


-----------------------------------------------------------------------------
(* The step a failed run blames.                                           *)

LEMMA StepsDiffer == \A i, j \in 1..11 : FlowSteps[i] = FlowSteps[j] => i = j
BY DEF FlowSteps

LEMMA StepCount ==
  ASSUME NEW n \in 0..11
  PROVE  Cardinality(FirstSteps(n)) = n
<1> DEFINE f == [i \in 1..n |-> FlowSteps[i]]
<1>1. f \in Bijection(1..n, FirstSteps(n))
  <2>1. \A i \in 1..n : i \in 1..11
    OBVIOUS
  <2>2. f \in Injection(1..n, FirstSteps(n))
    BY <2>1, StepsDiffer DEF FirstSteps, Injection, IsInjective
  <2>3. f \in Surjection(1..n, FirstSteps(n))
    BY DEF FirstSteps, Surjection
  <2> QED BY <2>2, <2>3 DEF Bijection
<1>2. IsFiniteSet(1..n) /\ Cardinality(1..n) = n
  <2>1. 1 \in Int /\ n \in Int
    OBVIOUS
  <2>2. IsFiniteSet(1..n) /\ Cardinality(1..n) = IF 1 > n THEN 0 ELSE n - 1 + 1
    BY <2>1, FS_Interval
  <2>3. (IF 1 > n THEN 0 ELSE n - 1 + 1) = n
    OBVIOUS
  <2> QED BY <2>2, <2>3
<1> QED BY <1>1, <1>2, FS_Bijection DEF ExistsBijection

\* The activities of a thread that has shown its step, up to its failure.
ShownAt == { "body", "arming", "waiting", "polling", "camping", "checking", "completing",
             "failing", "failstopping", "failwriting" }

BlameInv ==
  /\ \A t \in Tx : flow.tx = t /\ pc[t] \in ShownAt =>
       /\ modem.cfun = 1 => flow.step = StepOf(at[t])
       /\ flow.completed = FirstSteps(StepsBefore(at[t]))
  /\ modem.status = "FAILED" /\ modem.cfun = 1 =>
       /\ flow.tx \in Tx /\ pc[flow.tx] \in Closing
       /\ flow.failed = FlowSteps[Cardinality(flow.completed) + 1]

LEMMA BlameInit == Init => BlameInv
BY DEF Init, BlameInv, ShownAt

\* A thread takes its step on display along.
LEMMA BlameThreadShown ==
  ASSUME ~PersistMayFail, FlightInv, PrefixInv, BlameInv, NEW t \in Tx, ThreadStep(t),
         flow.tx = t, pc'[t] \in ShownAt
  PROVE  /\ modem.cfun = 1 => flow'.step = StepOf(at'[t])
         /\ flow'.completed = FirstSteps(StepsBefore(at'[t]))
<1>0. /\ pc \in [Tx -> ThreadStates] /\ at \in [Tx -> 1..11] /\ flow \in FlowStates
      /\ \A u \in Tx : pc[u] \in {"camping", "checking", "completing"} => at[u] # 5
      /\ pc[t] \in Stepping => flow.completed = FirstSteps(StepsBefore(at[t]))
      /\ pc[t] \in ShownAt => /\ modem.cfun = 1 => flow.step = StepOf(at[t])
                              /\ flow.completed = FirstSteps(StepsBefore(at[t]))
  BY DEF FlightInv, TypeOK, ThreadTypeOK, StoreTypeOK, PrefixInv, StepsFollowThread, BlameInv
<1>1. CASE EnterWrite(t)
  BY <1>0, <1>1 DEF EnterWrite, ShowStep, Displayed, FlowStates, Stepping
<1>2. CASE TakeReply(t)
  <2>1. pc[t] = "polling" /\ flow' = flow
    BY <1>2 DEF TakeReply, storeVars
  <2>2. at'[t] = at[t] \/ (at[t] = 5 /\ at'[t] = 6)
    BY <1>0, <1>2, ProgramFacts DEF TakeReply
  <2>3. StepsBefore(5) = StepsBefore(6) /\ StepOf(5) = StepOf(6)
    BY DEF StepsBefore, StepOf
  <2> QED BY <1>0, <2>1, <2>2, <2>3 DEF ShownAt
<1>3. CASE ~EnterWrite(t) /\ ~TakeReply(t)
  <2>1. pc[t] \in ShownAt /\ UNCHANGED << at, flow >>
    <3> USE <1>0, <1>3 DEF ShownAt, Goto, storeVars
    <3>1. CASE ~CompleteWrite(t) /\ ~SuccessWrite(t) /\ ~FailWrite(t) /\ ~Unwind(t)
               /\ ~ArchiveRun(t) /\ ~ArchiveWrite(t) /\ ~ArchiveFailed(t)
      BY <3>1
      DEF ThreadStep, EnterCheck, BusRequest, BusTimeout, CampWrite, BeginExchange, ArmGuard, PollCheck,
          PollExpired, PollEmpty, CompleteCheck, FinishCheck, StopTimers, AfterStop, FailCheck, Exit
    <3>2. CASE \/ CompleteWrite(t) \/ SuccessWrite(t) \/ FailWrite(t) \/ Unwind(t)
               \/ ArchiveRun(t) \/ ArchiveWrite(t) \/ ArchiveFailed(t)
      BY <3>2 DEF CompleteWrite, SuccessWrite, FailWrite, Unwind, ArchiveRun, ArchiveWrite, ArchiveFailed,
         Archived, NotArchived, ArchiveRest
    <3> QED BY <3>1, <3>2
  <2> QED BY <1>0, <2>1
<1> QED BY <1>1, <1>2, <1>3

\* A failure is written beside the steps its thread has completed.
LEMMA BlameFailed ==
  ASSUME ~PersistMayFail, FlightInv, BlameInv, NEW t \in Tx, FailWrite(t),
         flow.tx = t, modem.cfun = 1
  PROVE  /\ pc'[t] \in Closing
         /\ flow'.failed = FlowSteps[Cardinality(flow'.completed) + 1]
<1>0. /\ pc \in [Tx -> ThreadStates] /\ at[t] \in 1..11 /\ flow \in FlowStates
      /\ pc[t] = "failwriting"
  BY DEF FlightInv, TypeOK, ThreadTypeOK, StoreTypeOK, FailWrite
<1>1. flow.step = StepOf(at[t]) /\ flow.completed = FirstSteps(StepsBefore(at[t]))
  BY <1>0 DEF BlameInv, ShownAt
<1>2. flow'.failed = StepOf(at[t]) /\ flow'.completed = flow.completed
  BY <1>0, <1>1 DEF FailWrite, Displayed, Ended, FlowStates
<1>3. StepsBefore(at[t]) \in 0..11
  BY <1>0 DEF StepsBefore
<1>4. Cardinality(flow'.completed) = StepsBefore(at[t])
  BY <1>1, <1>2, <1>3, StepCount
<1>5. pc'[t] \in Closing
  BY <1>0 DEF FailWrite, Goto, Closing
<1> QED BY <1>2, <1>4, <1>5 DEF StepOf

LEMMA BlameThread ==
  ASSUME ~PersistMayFail, FlightInv, PrefixInv, BlameInv, NEW t \in Tx, ThreadStep(t)
  PROVE  BlameInv'
<1>0. /\ TypeOK /\ pc \in [Tx -> ThreadStates] /\ modem \in ModemStates /\ flow \in FlowStates
      /\ at \in [Tx -> 1..11]
  BY DEF FlightInv, TypeOK, ThreadTypeOK, StoreTypeOK
<1>1. /\ \A u \in Tx : u # t => pc'[u] = pc[u] /\ at'[u] = at[u]
      /\ flow'.tx = flow.tx /\ modem'.cfun = modem.cfun
  <2>1. \A u \in Tx : u # t => pc'[u] = pc[u]
    BY <1>0, ThreadMoves
  <2>2. flow'.tx = flow.tx
    BY <1>0, ThreadKeepsRun
  <2>3. \A u \in Tx : u # t => at'[u] = at[u]
    <3>1. CASE TakeReply(t) \/ CompleteWrite(t)
      BY <1>0, <3>1 DEF TakeReply, CompleteWrite
    <3>2. CASE ~TakeReply(t) /\ ~CompleteWrite(t)
      BY <3>2
      DEF ThreadStep, EnterCheck, EnterWrite, BusRequest, BusTimeout, CampWrite, BeginExchange, ArmGuard,
          PollCheck, PollExpired, PollEmpty, CompleteCheck, FinishCheck, StopTimers, AfterStop, SuccessWrite, FailCheck,
          FailWrite, ArchiveRun, ArchiveWrite, ArchiveFailed, Archived, NotArchived, ArchiveRest, Unwind, Exit
    <3> QED BY <3>1, <3>2
  <2>4. modem'.cfun = modem.cfun
    <3>1. CASE CampWrite(t) \/ SuccessWrite(t) \/ FailWrite(t)
      BY <1>0, <3>1 DEF CampWrite, Camped, SuccessWrite, FailWrite, ModemStates
    <3>2. CASE ~(CampWrite(t) \/ SuccessWrite(t) \/ FailWrite(t))
      BY <3>2
      DEF storeVars, ThreadStep, EnterCheck, EnterWrite, BusRequest, BusTimeout, BeginExchange, ArmGuard,
          PollCheck, PollExpired, PollEmpty, TakeReply, CompleteCheck, CompleteWrite, FinishCheck, StopTimers, AfterStop,
          FailCheck, ArchiveRun, ArchiveWrite, ArchiveFailed, Archived, NotArchived, ArchiveRest, Unwind, Exit
    <3> QED BY <3>1, <3>2
  <2> QED BY <2>1, <2>2, <2>3, <2>4
<1>2. CASE flow.tx # t \/ pc[t] \in Closing
  <2>1. UNCHANGED << flow, modem >> /\ (pc[t] \in Past => pc'[t] \in Past)
    BY <1>0, <1>2, OthersUntouched
  <2>2. pc[t] \in Closing => pc'[t] \in Closing
    BY <2>1 DEF Past
  <2>3. pc[t] \in Closing => pc'[t] \notin ShownAt
    BY <2>2 DEF Closing, ShownAt
  <2>4. \A u \in Tx : flow.tx = u /\ pc'[u] \in ShownAt =>
          /\ modem.cfun = 1 => flow.step = StepOf(at'[u])
          /\ flow.completed = FirstSteps(StepsBefore(at'[u]))
    BY <1>1, <1>2, <2>3 DEF BlameInv
  <2>5. modem.status = "FAILED" /\ modem.cfun = 1 => pc'[flow.tx] \in Closing
    BY <1>1, <2>2 DEF BlameInv
  <2> HIDE DEF ShownAt, Closing
  <2> QED BY <2>1, <2>4, <2>5 DEF BlameInv
<1>3. CASE flow.tx = t /\ pc[t] \notin Closing
  <2>1. pc'[t] \in ShownAt => /\ modem.cfun = 1 => flow'.step = StepOf(at'[t])
                              /\ flow'.completed = FirstSteps(StepsBefore(at'[t]))
    BY <1>3, BlameThreadShown
  <2>2. ASSUME modem'.status = "FAILED", modem'.cfun = 1
        PROVE  pc'[t] \in Closing /\ flow'.failed = FlowSteps[Cardinality(flow'.completed) + 1]
    <3>1. modem.status # "FAILED"
      BY <1>1, <1>3, <2>2 DEF BlameInv
    <3>2. FailWrite(t)
      <4>1. CASE CampWrite(t) \/ SuccessWrite(t)
        BY <1>0, <1>3, <2>2, <4>1 DEF CampWrite, Camped, SuccessWrite, Displayed, ModemStates
      <4> QED
        BY <2>2, <3>1, <4>1
        DEF storeVars, ThreadStep, EnterCheck, EnterWrite, BusRequest, BusTimeout, BeginExchange, ArmGuard,
            PollCheck, PollExpired, PollEmpty, TakeReply, CompleteCheck, CompleteWrite, FinishCheck, StopTimers, AfterStop,
            FailCheck, ArchiveRun, ArchiveWrite, ArchiveFailed, Archived, NotArchived, ArchiveRest, Unwind, Exit
    <3> QED BY <1>1, <1>3, <2>2, <3>2, BlameFailed
  <2> HIDE DEF ShownAt, Closing
  <2> QED BY <1>1, <1>3, <2>1, <2>2 DEF BlameInv
<1> QED BY <1>2, <1>3

LEMMA BlameCaller ==
  ASSUME FlightInv, BlameInv, NEW c \in Callers, CallerBegin(c) \/ CallerStep(c)
  PROVE  BlameInv'
<1>0. /\ pc \in [Tx -> ThreadStates] /\ modem \in ModemStates /\ flow \in FlowStates
  BY DEF FlightInv, TypeOK, ThreadTypeOK, StoreTypeOK
<1>1. /\ at' = at
      /\ \A t \in Tx : \/ pc'[t] = pc[t]
                       \/ pc[t] \notin ShownAt \cup Closing /\ pc'[t] \notin ShownAt \cup Closing
  <2>1. at' = at
    BY DEF threadVars, CallerBegin, CallerStep, CallerWrite, BeginStart, StopRead, BeginReset,
        BeginCfunZero, Begin, CreateCtx, Cleanup, InitAttach, EnableCheck, EnableWrite, Launch,
        StopCancel, StopWrite, ResetWrite, CfunZeroWrite
  <2>2. CASE UNCHANGED pc
    BY <2>1, <2>2
  <2>3. CASE CreateCtx(c) /\ pc' # pc
    <3>1. pc' = [pc EXCEPT ![made + 1] = "starting"] /\ pc[made + 1] = "none" /\ made + 1 \in Tx
      BY <2>3, MaxTxAssumption DEF CreateCtx, Goto, FlightInv, CreatedInOrder, TypeOK, CtxTypeOK, Tx
    <3> QED BY <1>0, <2>1, <3>1 DEF Closing, ShownAt
  <2>4. CASE Launch(c) \/ EnableCheck(c)
    <3>1. cctx[c] \in Tx /\ pc[cctx[c]] = "starting"
      BY <2>4 DEF Launch, EnableCheck, FlightInv, StartsOwned, StartPhase
    <3> QED BY <1>0, <2>1, <2>4, <3>1 DEF Launch, EnableCheck, Goto, Closing, ShownAt
  <2> QED
    BY <2>2, <2>3, <2>4
    DEF threadVars, CallerBegin, CallerStep, CallerWrite, BeginStart, StopRead, BeginReset,
        BeginCfunZero, Begin, CreateCtx, Cleanup, InitAttach, EnableWrite, StopCancel, StopWrite,
        ResetWrite, CfunZeroWrite
<1>2. CASE InitAttach(c)
  <2>1. /\ flow'.tx = cctx[c] /\ modem'.status = "SEARCHING"
        /\ pc' = pc /\ pc[cctx[c]] = "starting"
    BY <1>2 DEF InitAttach, FlightInv, StartsOwned, StartPhase, threadVars
  <2> QED BY <2>1 DEF BlameInv, ShownAt
<1>3. CASE ResetWrite(c)
  <2>1. flow'.tx = None /\ modem'.status = "DETACHED"
    BY <1>3 DEF ResetWrite
  <2> QED BY <2>1, NoneAssumption DEF BlameInv, Tx
<1>4. CASE CfunZeroWrite(c)
  <2>1. modem'.cfun = 0 /\ flow' = [flow EXCEPT !.running = FALSE, !.step = None]
    BY <1>4 DEF CfunZeroWrite
  <2>2. flow'.tx = flow.tx /\ flow'.completed = flow.completed
    BY <1>0, <2>1 DEF FlowStates
  <2> HIDE DEF ShownAt
  <2> QED BY <1>1, <2>1, <2>2 DEF BlameInv
<1>5. CASE EnableWrite(c)
  <2>1. pc[cctx[c]] = "starting" /\ UNCHANGED << pc, modem >>
    BY <1>5 DEF EnableWrite, FlightInv, StartsOwned, StartPhase, threadVars
  <2>2. CASE flow.tx = cctx[c]
    <3>1. flow'.tx = cctx[c] /\ pc[cctx[c]] \notin ShownAt \cup Closing
      BY <1>0, <1>5, <2>1, <2>2 DEF EnableWrite, RecordComplete, Displayed, FlowStates, ShownAt, Closing
    <3> HIDE DEF ShownAt, Closing
    <3> QED BY <2>1, <2>2, <3>1 DEF BlameInv
  <2>3. CASE flow.tx # cctx[c]
    <3>1. flow' = flow
      BY <1>5, <2>3 DEF EnableWrite, RecordComplete, Displayed
    <3> QED BY <1>1, <2>1, <3>1 DEF BlameInv
  <2> QED BY <2>2, <2>3
<1>6. CASE StopWrite(c)
  <2>1. /\ flow' = flow \/ flow' = [flow EXCEPT !.running = FALSE]
        /\ modem' = modem \/ modem' = [modem EXCEPT !.status = "CANCELLED"]
        /\ (modem' = modem => flow' = flow) \/ modem'.status = "CANCELLED"
    BY <1>0, <1>6 DEF StopWrite, ModemStates
  <2>2. /\ flow'.tx = flow.tx /\ flow'.completed = flow.completed /\ flow'.step = flow.step
        /\ flow'.failed = flow.failed
        /\ modem'.cfun = modem.cfun /\ modem'.status \in {modem.status, "CANCELLED"}
    BY <1>0, <2>1 DEF FlowStates, ModemStates
  <2> HIDE DEF ShownAt, Closing
  <2> QED BY <1>1, <2>2 DEF BlameInv
<1>7. CASE UNCHANGED << modem, flow >>
  <2> HIDE DEF ShownAt, Closing
  <2> QED BY <1>1, <1>7 DEF BlameInv
<1> QED
  BY <1>2, <1>3, <1>4, <1>5, <1>6, <1>7
  DEF storeVars, CallerBegin, CallerStep, CallerWrite, BeginStart, StopRead, BeginReset,
      BeginCfunZero, Begin, CreateCtx, Cleanup, EnableCheck, Launch, StopCancel

LEMMA BlameStep ==
  ~PersistMayFail /\ FlightInv /\ PrefixInv /\ BlameInv /\ [Next]_vars => BlameInv'
<1> SUFFICES ASSUME ~PersistMayFail, FlightInv, PrefixInv, BlameInv, [Next]_vars PROVE BlameInv'
  OBVIOUS
<1>1. CASE \E c \in Callers : CallerBegin(c) \/ CallerStep(c)
  BY <1>1, BlameCaller
<1>2. CASE \E t \in Tx : ThreadStep(t)
  BY <1>2, BlameThread
<1>3. CASE \/ \E t \in Tx : Deliver(t) \/ LateCheck(t) \/ LateCamp(t)
           \/ \E i \in Guards : ExpireGuard(i)
           \/ \E n \in ProcedureTimers : ExpireProcedure(n)
           \/ UNCHANGED vars
  <2>1. UNCHANGED << pc, at, flow >>
    BY <1>3 DEF Deliver, LateCheck, LateCamp, ExpireGuard, ExpireProcedure, vars, threadVars, storeVars
  <2>2. UNCHANGED modem \/ (modem'.status = "CAMPED" /\ modem'.cfun = modem.cfun)
    BY <1>3, WorldQuiet
  <2> QED BY <2>1, <2>2 DEF BlameInv
<1> QED BY <1>1, <1>2, <1>3 DEF Next

\* While the state file can be written: a failed run blames the first step it
\* did not complete, whichever thread fails it and whatever else goes on.
THEOREM FailedStepIsFirstIncompleteHolds ==
  ASSUME ~PersistMayFail
  PROVE  Spec => []FailedStepIsFirstIncomplete
<1>1. BlameInv => FailedStepIsFirstIncomplete
  BY DEF BlameInv, FailedStepIsFirstIncomplete
<1> QED
  BY FlightInit, PrefixInit, BlameInit, FlightStep, PrefixStep, BlameStep, <1>1, PTL DEF Spec


-----------------------------------------------------------------------------
(* The timers an ended run leaves.                                         *)

\* The thread has not yet stopped all timers for the last time.
Keeps == Active \ { "succeeding", "archiving", "archived", "unarchived", "failwriting", "failarchiving",
                    "failarchived", "failunarchived", "unwound", "exiting" }

\* A thread that has been cancelled or replaced unwinds from here.
Late == {"ready", "checking", "finishing", "unwinding"}

\* A start is about to stop all timers.
StartCleans == \E c \in Callers : cpc[c] = "startCleanup"

\* The thread that armed a procedure timer will stop it, or a start will.
ProcInv ==
  \A n \in ProcedureTimers : proc[n] # None =>
    \/ StartCleans
    \/ pc[proc[n]] \in Keeps /\ (current = proc[n] \/ pc[proc[n]] \in Late)

LEMMA ProcInit == Init => ProcInv
BY DEF Init, ProcInv

\* Which procedure timers a thread arms, and where it is then.
LEMMA ProcArmed ==
  ASSUME TypeOK, NEW t \in Tx, ThreadStep(t), NEW n \in ProcedureTimers
  PROVE  \/ proc'[n] = None
         \/ proc'[n] = proc[n]
         \/ proc'[n] = t /\ (pc'[t] \in Late \/ (pc'[t] = "arming" /\ current = t /\ current' = t))
<1>0. pc \in [Tx -> ThreadStates] /\ at \in [Tx -> 1..11] /\ proc \in [ProcedureTimers -> Tx \cup {None}]
  BY DEF TypeOK, ThreadTypeOK, TimerTypeOK
<1>1. CASE BeginExchange(t)
  BY <1>0, <1>1 DEF BeginExchange, Goto, Alive, Late, ctxVars
<1>2. CASE TakeReply(t)
  <2>1. /\ Program[7] = "nas_attach_request" /\ Program[8] = "authentication" /\ Program[5] = "rrc_connection"
        /\ Program[9] = "security_mode"
        /\ \A i \in 1..11 : /\ (Program[i] = "nas_attach_request") = (i = 7)
                            /\ (Program[i] = "authentication") = (i = 8)
                            /\ (Program[i] = "security_mode") = (i = 9)
                            /\ (Program[i] = "rrc_connection") = (i = 5)
    BY DEF Program
  <2>2. at[t] \in 1..11
    BY <1>0
  <2>3. CASE proc' = proc
    BY <2>3
  <2>4. CASE proc' # proc
    <3>1. TimersAfterReply(t) /\ Goto(t, IF at[t] = 5 THEN "body" ELSE "checking")
      BY <1>2, <2>1, <2>2, <2>4 DEF TakeReply
    <3>2. CASE at[t] \in {7, 8}
      <4>1. proc' = [proc EXCEPT !["T3460"] = t]
        BY <2>1, <2>2, <3>1, <3>2 DEF TimersAfterReply
      <4>2. pc'[t] = "checking"
        BY <1>0, <3>1, <3>2 DEF Goto
      <4> QED BY <1>0, <4>1, <4>2 DEF Late
    <3>3. CASE at[t] = 9
      <4>1. proc' = [proc EXCEPT !["T3460"] = None]
        BY <2>1, <2>2, <3>1, <3>3 DEF TimersAfterReply
      <4> QED BY <1>0, <4>1
    <3>4. CASE at[t] \notin {7, 8, 9}
      BY <2>1, <2>2, <2>4, <3>1, <3>4 DEF TimersAfterReply
    <3> QED BY <3>2, <3>3, <3>4
  <2> QED BY <2>3, <2>4
<1>3. CASE CompleteWrite(t)
  <2>1. /\ Len(Program) = 11
        /\ \A i \in 1..11 : /\ (Program[i] = "attach_accept") = (i = 10)
                            /\ (Program[i] = "attach_complete") = (i = 11)
    BY DEF Program
  <2>2. at[t] \in 1..11
    BY <1>0
  <2>3. pc'[t] \in Late
    BY <1>0, <1>3 DEF CompleteWrite, Goto, Late
  <2>4. CASE at[t] = 10
    <3>1. proc' = [proc EXCEPT !["T3410"] = None, !["T3450"] = t]
      BY <1>3, <2>1, <2>4 DEF CompleteWrite
    <3> QED BY <1>0, <2>3, <3>1
  <2>5. CASE at[t] = 11
    <3>1. proc' = [proc EXCEPT !["T3450"] = None]
      BY <1>3, <2>1, <2>5 DEF CompleteWrite
    <3> QED BY <1>0, <3>1
  <2>6. CASE at[t] \notin {10, 11}
    BY <1>3, <2>1, <2>2, <2>6 DEF CompleteWrite
  <2> QED BY <2>4, <2>5, <2>6
<1>4. CASE StopTimers(t)
  BY <1>0, <1>4 DEF StopTimers, CancelAllTimers
<1>5. CASE ~(BeginExchange(t) \/ TakeReply(t) \/ CompleteWrite(t) \/ StopTimers(t))
  BY <1>5
  DEF timerVars, ThreadStep, EnterCheck, EnterWrite, BusRequest, BusTimeout, CampWrite, ArmGuard, PollCheck,
      PollExpired, PollEmpty, CompleteCheck, FinishCheck, SuccessWrite, FailCheck, FailWrite,
      ArchiveRun, ArchiveWrite, ArchiveFailed, Archived, NotArchived, ArchiveRest, Unwind, Exit
<1> QED BY <1>1, <1>2, <1>3, <1>4, <1>5

\* A thread that owns timers goes on to where it stops them all, and stops
\* them there.
LEMMA OwnerGoesOn ==
  ASSUME TypeOK, NEW t \in Tx, ThreadStep(t), pc[t] \in Keeps, current = t \/ pc[t] \in Late
  PROVE  \/ pc'[t] \in Keeps /\ (current' = t \/ pc'[t] \in Late)
         \/ CancelAllTimers
<1>0. pc \in [Tx -> ThreadStates]
  BY DEF TypeOK, ThreadTypeOK
<1> USE <1>0 DEF Goto, Keeps, Late, Active, Alive, ctxVars
<1>1. CASE StopTimers(t)
  BY <1>1 DEF StopTimers
<1>2. CASE EnterCheck(t) \/ CompleteCheck(t) \/ PollCheck(t) \/ BeginExchange(t) \/ BusRequest(t) \/ BusTimeout(t)
  BY <1>2 DEF EnterCheck, CompleteCheck, PollCheck, BeginExchange, BusRequest, BusTimeout
<1>3. CASE EnterWrite(t) \/ CampWrite(t) \/ ArmGuard(t) \/ PollExpired(t) \/ PollEmpty(t) \/ TakeReply(t)
  BY <1>3 DEF EnterWrite, CampWrite, ArmGuard, PollExpired, PollEmpty, TakeReply
<1>4. CASE CompleteWrite(t)
  BY <1>4 DEF CompleteWrite
<1>5. CASE \/ SuccessWrite(t) \/ FailWrite(t) \/ ArchiveRun(t) \/ ArchiveWrite(t) \/ ArchiveFailed(t)
           \/ Unwind(t) \/ Exit(t)
  BY <1>5 DEF SuccessWrite, FailWrite, ArchiveRun, ArchiveWrite, ArchiveFailed, Archived, NotArchived, ArchiveRest,
     Unwind, Exit
<1>6. CASE FinishCheck(t) \/ FailCheck(t)
  BY <1>6 DEF FinishCheck, FailCheck
<1> QED BY <1>1, <1>2, <1>3, <1>4, <1>5, <1>6 DEF ThreadStep

LEMMA ProcThread ==
  ASSUME FlightInv, ProcInv, NEW t \in Tx, ThreadStep(t)
  PROVE  ProcInv'
<1>0. TypeOK /\ proc \in [ProcedureTimers -> Tx \cup {None}] /\ None \notin Tx
  BY NoneAssumption DEF FlightInv, TypeOK, TimerTypeOK, Tx
<1>1. /\ \A u \in Tx : u # t => pc'[u] = pc[u]
      /\ cpc' = cpc
      /\ UNCHANGED current \/ (current = t /\ current' = None)
  BY <1>0, ThreadMoves
<1>2. CASE CancelAllTimers
  BY <1>2 DEF CancelAllTimers, ProcInv
<1>3. CASE ~CancelAllTimers
  <2> SUFFICES ASSUME NEW n \in ProcedureTimers, proc'[n] # None, ~StartCleans
               PROVE  pc'[proc'[n]] \in Keeps /\ (current' = proc'[n] \/ pc'[proc'[n]] \in Late)
    BY <1>1 DEF ProcInv, StartCleans
  <2>1. CASE proc'[n] = proc[n]
    <3>1. pc[proc[n]] \in Keeps /\ (current = proc[n] \/ pc[proc[n]] \in Late) /\ proc[n] \in Tx
      BY <1>0, <2>1 DEF ProcInv
    <3>2. CASE proc[n] = t
      BY <1>0, <1>3, <2>1, <3>1, <3>2, OwnerGoesOn
    <3>3. CASE proc[n] # t
      BY <1>1, <2>1, <3>1, <3>3
    <3> QED BY <3>2, <3>3
  <2>2. CASE proc'[n] # proc[n]
    <3>1. proc'[n] = t /\ (pc'[t] \in Late \/ (pc'[t] = "arming" /\ current' = t))
      BY <1>0, <2>2, ProcArmed
    <3> QED BY <3>1 DEF Late, Keeps, Active
  <2> QED BY <2>1, <2>2
<1> QED BY <1>2, <1>3

\* A request thread neither moves a thread that has been launched, nor arms a
\* timer; a new context comes with the stop of all timers.
LEMMA CallerAndTimers ==
  ASSUME FlightInv, NEW c \in Callers, CallerBegin(c) \/ CallerStep(c)
  PROVE  \/ CancelAllTimers
         \/ /\ UNCHANGED timerVars
            /\ \A u \in Tx : pc[u] \in Active => pc'[u] = pc[u]
            /\ (StartCleans => StartCleans')
            /\ current' = current \/ StartCleans'
<1>0. /\ pc \in [Tx -> ThreadStates] /\ cpc \in [Callers -> CallerStates]
  BY DEF FlightInv, TypeOK, ThreadTypeOK, CallerTypeOK
<1>1. CASE Cleanup(c)
  BY <1>1 DEF Cleanup
<1>2. CASE ~Cleanup(c)
  <2>1. UNCHANGED timerVars
    BY <1>2 DEF CallerBegin, CallerStep, CallerWrite, BeginStart, StopRead, BeginReset, BeginCfunZero,
       Begin, CreateCtx, InitAttach, EnableCheck, EnableWrite, Launch, StopCancel, StopWrite,
       ResetWrite, CfunZeroWrite
  <2>2. StartCleans => StartCleans'
    <3> SUFFICES ASSUME NEW d \in Callers, cpc[d] = "startCleanup" PROVE cpc'[d] = "startCleanup"
      BY DEF StartCleans
    <3> QED
      BY <1>0, <1>2
      DEF callerVars, CallerGoto, CallerBegin, CallerStep, CallerWrite, BeginStart, StopRead,
          BeginReset, BeginCfunZero, Begin, CreateCtx, InitAttach, EnableCheck, EnableWrite, Launch,
          StopCancel, StopWrite, ResetWrite, CfunZeroWrite
  <2>3. CASE CreateCtx(c) /\ pc' # pc
    <3>1. /\ pc' = [pc EXCEPT ![made + 1] = "starting"] /\ pc[made + 1] = "none" /\ made + 1 \in Tx
          /\ cpc' = [cpc EXCEPT ![c] = "startCleanup"]
      BY <2>3, MaxTxAssumption
      DEF CreateCtx, Goto, CallerGoto, FlightInv, CreatedInOrder, TypeOK, CtxTypeOK, Tx
    <3> QED BY <1>0, <2>1, <2>2, <3>1 DEF Active, StartCleans
  <2>4. CASE Launch(c) \/ EnableCheck(c)
    <3>1. cctx[c] \in Tx /\ pc[cctx[c]] = "starting"
      BY <2>4 DEF Launch, EnableCheck, FlightInv, StartsOwned, StartPhase
    <3> QED BY <1>0, <2>1, <2>2, <2>4, <3>1 DEF Launch, EnableCheck, Goto, Active, ctxVars
  <2>5. CASE ~(CreateCtx(c) /\ pc' # pc) /\ ~Launch(c) /\ ~EnableCheck(c)
    <3>1. CASE CreateCtx(c)
      <4>1. UNCHANGED ctxVars
        <5> SUFFICES ASSUME ~UNCHANGED ctxVars PROVE FALSE
          OBVIOUS
        <5>1. pc' = [pc EXCEPT ![made + 1] = "starting"] /\ made + 1 \in Tx /\ pc[made + 1] = "none"
          BY <3>1, MaxTxAssumption
          DEF CreateCtx, Goto, FlightInv, CreatedInOrder, TypeOK, CtxTypeOK, Tx
        <5> QED BY <1>0, <2>5, <3>1, <5>1
      <4> QED BY <2>1, <2>2, <2>5, <3>1, <4>1 DEF ctxVars
    <3>2. CASE ~CreateCtx(c)
      <4>1. UNCHANGED << pc, current >>
        BY <1>2, <2>5, <3>2
        DEF ctxVars, threadVars, CallerBegin, CallerStep, CallerWrite, BeginStart, StopRead,
            BeginReset, BeginCfunZero, Begin, InitAttach, EnableWrite, StopCancel, StopWrite,
            ResetWrite, CfunZeroWrite
      <4> QED BY <2>1, <2>2, <4>1
    <3> QED BY <3>1, <3>2
  <2> QED BY <2>3, <2>4, <2>5
<1> QED BY <1>1, <1>2

LEMMA ProcCaller ==
  ASSUME FlightInv, ProcInv, NEW c \in Callers, CallerBegin(c) \/ CallerStep(c)
  PROVE  ProcInv'
<1>1. CASE CancelAllTimers
  BY <1>1 DEF CancelAllTimers, ProcInv
<1>2. CASE ~CancelAllTimers
  <2>1. /\ UNCHANGED proc
        /\ \A u \in Tx : pc[u] \in Active => pc'[u] = pc[u]
        /\ (StartCleans => StartCleans')
        /\ current' = current \/ StartCleans'
    BY <1>2, CallerAndTimers DEF timerVars
  <2>2. \A n \in ProcedureTimers : proc[n] \in Tx \cup {None}
    BY DEF FlightInv, TypeOK, TimerTypeOK
  <2> QED BY <2>1, <2>2 DEF ProcInv, Keeps
<1> QED BY <1>1, <1>2

LEMMA ProcStep == FlightInv /\ ProcInv /\ [Next]_vars => ProcInv'
<1> SUFFICES ASSUME FlightInv, ProcInv, [Next]_vars PROVE ProcInv'
  OBVIOUS
<1>1. CASE \E c \in Callers : CallerBegin(c) \/ CallerStep(c)
  BY <1>1, ProcCaller
<1>2. CASE \E t \in Tx : ThreadStep(t)
  BY <1>2, ProcThread
<1>3. CASE \/ \E t \in Tx : Deliver(t) \/ LateCheck(t) \/ LateCamp(t)
           \/ \E i \in Guards : ExpireGuard(i)
           \/ UNCHANGED vars
  <2>1. UNCHANGED << pc, current, proc, cpc >>
    BY <1>3 DEF Deliver, LateCheck, LateCamp, ExpireGuard, vars, ctxVars, threadVars, timerVars, callerVars
  <2> QED BY <2>1 DEF ProcInv, StartCleans
<1>4. CASE \E m \in ProcedureTimers : ExpireProcedure(m)
  <2>1. /\ UNCHANGED << pc, current, cpc >>
        /\ \A n \in ProcedureTimers : proc'[n] \in {proc[n], None}
    BY <1>4 DEF ExpireProcedure, ctxVars, threadVars, callerVars, FlightInv, TypeOK, TimerTypeOK
  <2> QED BY <2>1 DEF ProcInv, StartCleans
<1> QED BY <1>1, <1>2, <1>3, <1>4 DEF Next

\* T3410, T3460 and T3450 never outlive the runs that armed them: a late
\* thread may arm one after the request that cancelled it has stopped them
\* all, but stops it before it ends.
THEOREM ProcedureTimersAreStopped ==
  Spec => [](Quiescent => \A n \in ProcedureTimers : proc[n] = None)
<1>1. FlightInv /\ ProcInv => (Quiescent => \A n \in ProcedureTimers : proc[n] = None)
  <2> SUFFICES ASSUME FlightInv, ProcInv, Quiescent, NEW n \in ProcedureTimers, proc[n] # None
               PROVE  FALSE
    OBVIOUS
  <2>1. proc[n] \in Tx /\ ~StartCleans
    BY DEF FlightInv, TypeOK, TimerTypeOK, Quiescent, StartCleans
  <2> QED BY <2>1 DEF ProcInv, Quiescent, Keeps, Active
<1> QED BY FlightInit, ProcInit, FlightStep, ProcStep, <1>1, PTL DEF Spec

-----------------------------------------------------------------------------
(* The guards, which a reset may make ArmGuard raise after it armed one.   *)

\* Nothing replaces the context of the last transaction, so its thread stops
\* the guards wherever it ends.
GuardInv ==
  /\ \A t \in Tx : t = made /\ pc[t] \in Active \cup {"starting"} => current = t
  /\ \A i \in Guards : guard[i] # None =>
       guard[i] <= made /\ (guard[i] = made => pc[made] \in Keeps)

LEMMA GuardInit == Init => GuardInv
BY DEF Init, GuardInv, Active

\* A thread arms a guard in its own name only, and stops it later.
LEMMA GuardArmed ==
  ASSUME TypeOK, NEW t \in Tx, ThreadStep(t), NEW i \in Guards
  PROVE  guard'[i] \in {guard[i], None} \/ (guard'[i] = t /\ pc'[t] \in Keeps)
<1>0. pc \in [Tx -> ThreadStates] /\ at \in [Tx -> 1..11] /\ guard \in [Guards -> Tx \cup {None}]
  BY DEF TypeOK, ThreadTypeOK, TimerTypeOK
<1>1. CASE ArmGuard(t)
  BY <1>0, <1>1 DEF ArmGuard, Goto, Keeps, Active
<1>2. CASE StopTimers(t)
  BY <1>2 DEF StopTimers, CancelAllTimers
<1>3. CASE TakeReply(t) \/ BeginExchange(t) \/ CompleteWrite(t)
  BY <1>0, <1>3 DEF TakeReply, TimersAfterReply, BeginExchange, CompleteWrite, timerVars
<1>4. CASE ~(ArmGuard(t) \/ StopTimers(t)
             \/ TakeReply(t) \/ BeginExchange(t) \/ CompleteWrite(t))
  BY <1>4
  DEF timerVars, ThreadStep, EnterCheck, EnterWrite, BusRequest, BusTimeout, CampWrite, PollCheck,
      PollExpired, PollEmpty, CompleteCheck, FinishCheck, SuccessWrite, FailCheck, FailWrite,
      ArchiveRun, ArchiveWrite, ArchiveFailed, Archived, NotArchived, ArchiveRest, Unwind, Exit
<1> QED BY <1>1, <1>2, <1>3, <1>4

LEMMA GuardThread ==
  ASSUME FlightInv, GuardInv, NEW t \in Tx, ThreadStep(t)
  PROVE  GuardInv'
<1>0. /\ TypeOK /\ pc \in [Tx -> ThreadStates] /\ made \in 0..MaxTx
      /\ None \notin Tx /\ \A u \in Tx : pc[u] = "none" <=> u > made
  BY NoneAssumption DEF FlightInv, TypeOK, ThreadTypeOK, CtxTypeOK, CreatedInOrder, Tx
<1>1. /\ pc[t] \in Active /\ made' = made /\ t <= made
      /\ \A u \in Tx : u # t => pc'[u] = pc[u]
      /\ UNCHANGED current \/ (current = t /\ pc'[t] = "done")
  BY <1>0, ThreadMoves DEF Active, Tx
<1>2. ASSUME NEW u \in Tx, u = made, pc'[u] \in Active \cup {"starting"}
      PROVE  current' = u
  <2>1. pc[u] \in Active \cup {"starting"}
    BY <1>1, <1>2
  <2>2. current = u
    BY <1>2, <2>1 DEF GuardInv
  <2> QED BY <1>1, <1>2, <2>2 DEF Active
<1>3. ASSUME NEW i \in Guards, guard'[i] # None
      PROVE  guard'[i] <= made /\ (guard'[i] = made => pc'[made] \in Keeps)
  <2>1. CASE guard'[i] = guard[i]
    <3>1. guard[i] <= made /\ (guard[i] = made => pc[made] \in Keeps)
      BY <1>3, <2>1 DEF GuardInv
    <3>2. CASE guard[i] = made /\ made = t
      <4>1. current = t
        BY <1>1, <3>2 DEF GuardInv
      <4>2. pc'[t] \in Keeps \/ CancelAllTimers
        BY <1>0, <3>1, <3>2, <4>1, OwnerGoesOn
      <4> QED BY <1>3, <2>1, <3>1, <3>2, <4>2 DEF CancelAllTimers
    <3>3. CASE guard[i] = made /\ made # t
      <4>1. made \in Tx
        BY <1>0, <1>3, <2>1, <3>3 DEF TypeOK, TimerTypeOK
      <4> QED BY <1>1, <2>1, <3>1, <3>3, <4>1
    <3>4. CASE guard[i] # made
      BY <2>1, <3>1, <3>4
    <3> QED BY <3>2, <3>3, <3>4
  <2>2. CASE guard'[i] = t /\ pc'[t] \in Keeps
    BY <1>1, <2>2
  <2> QED BY <1>0, <1>3, <2>1, <2>2, GuardArmed
<1> QED BY <1>1, <1>2, <1>3 DEF GuardInv

\* A new context makes every armed guard one of a superseded transaction.
LEMMA GuardCaller ==
  ASSUME FlightInv, GuardInv, NEW c \in Callers, CallerBegin(c) \/ CallerStep(c)
  PROVE  GuardInv'
<1>0. /\ TypeOK /\ pc \in [Tx -> ThreadStates] /\ made \in 0..MaxTx /\ MaxTx \in Nat
      /\ guard \in [Guards -> Tx \cup {None}] /\ None \notin Tx
      /\ \A u \in Tx : pc[u] = "none" <=> u > made
  BY NoneAssumption, MaxTxAssumption
  DEF FlightInv, TypeOK, ThreadTypeOK, CtxTypeOK, TimerTypeOK, CreatedInOrder, Tx
<1>1. guard' = guard \/ CancelAllTimers
  BY CallerAndTimers DEF timerVars
<1>2. \A i \in Guards : guard'[i] \in {guard[i], None}
  BY <1>1 DEF CancelAllTimers
<1>3. CASE CreateCtx(c) /\ pc' # pc
  <2>1. /\ made' = made + 1 /\ current' = made + 1
        /\ pc' = [pc EXCEPT ![made + 1] = "starting"]
    BY <1>0, <1>3 DEF CreateCtx, Goto
  <2>2. \A i \in Guards : guard'[i] # None => guard'[i] <= made
    BY <1>2 DEF GuardInv
  <2> QED BY <1>0, <1>2, <2>1, <2>2 DEF GuardInv, Tx
<1>4. CASE Launch(c) \/ EnableCheck(c)
  <2>1. /\ cctx[c] \in Tx /\ pc[cctx[c]] = "starting" /\ UNCHANGED << current, made >>
        /\ \A u \in Tx : u # cctx[c] => pc'[u] = pc[u]
    BY <1>0, <1>4 DEF Launch, EnableCheck, FlightInv, StartsOwned, StartPhase, ctxVars, Goto, threadVars
  <2>2. \A u \in Tx : u = made /\ pc'[u] \in Active \cup {"starting"} => current' = u
    BY <2>1 DEF GuardInv
  <2>3. ASSUME NEW i \in Guards, guard'[i] # None
        PROVE  guard'[i] <= made /\ (guard'[i] = made => pc'[made] \in Keeps)
    <3>1. guard'[i] = guard[i] /\ guard[i] <= made /\ (guard[i] = made => pc[made] \in Keeps)
      BY <1>2, <2>3 DEF GuardInv
    <3>2. guard[i] = made => made \in Tx /\ made # cctx[c]
      BY <1>0, <2>1, <2>3, <3>1 DEF Keeps, Active
    <3> QED BY <2>1, <3>1, <3>2
  <2> QED BY <2>1, <2>2, <2>3 DEF GuardInv
<1>5. CASE ~(CreateCtx(c) /\ pc' # pc) /\ ~Launch(c) /\ ~EnableCheck(c)
  <2>1. UNCHANGED << pc, current, made >>
    <3>1. CASE CreateCtx(c)
      <4>1. made + 1 \in Tx /\ made + 1 > made => pc[made + 1] = "none"
        BY <1>0
      <4> QED BY <1>0, <1>5, <3>1, <4>1 DEF CreateCtx, Goto, ctxVars, Tx
    <3>2. CASE ~CreateCtx(c)
      BY <1>5, <3>2
      DEF ctxVars, threadVars, CallerBegin, CallerStep, CallerWrite, BeginStart, StopRead,
          BeginReset, BeginCfunZero, Begin, Cleanup, InitAttach, EnableWrite, StopCancel, StopWrite,
          ResetWrite, CfunZeroWrite
    <3> QED BY <3>1, <3>2
  <2> QED BY <1>2, <2>1 DEF GuardInv
<1> QED BY <1>3, <1>4, <1>5

LEMMA GuardStep == FlightInv /\ GuardInv /\ [Next]_vars => GuardInv'
<1> SUFFICES ASSUME FlightInv, GuardInv, [Next]_vars PROVE GuardInv'
  OBVIOUS
<1>1. CASE \E c \in Callers : CallerBegin(c) \/ CallerStep(c)
  BY <1>1, GuardCaller
<1>2. CASE \E t \in Tx : ThreadStep(t)
  BY <1>2, GuardThread
<1>3. CASE \/ \E t \in Tx : Deliver(t) \/ LateCheck(t) \/ LateCamp(t)
           \/ \E n \in ProcedureTimers : ExpireProcedure(n)
           \/ UNCHANGED vars
  <2>1. UNCHANGED << pc, current, made, guard >>
    BY <1>3 DEF Deliver, LateCheck, LateCamp, ExpireProcedure, vars, ctxVars, threadVars, timerVars
  <2> QED BY <2>1 DEF GuardInv
<1>4. CASE \E i \in Guards : ExpireGuard(i)
  <2>1. /\ UNCHANGED << pc, current, made >>
        /\ \A i \in Guards : guard'[i] \in {guard[i], None}
    BY <1>4 DEF ExpireGuard, ctxVars, FlightInv, TypeOK, TimerTypeOK
  <2> QED BY <2>1 DEF GuardInv
<1> QED BY <1>1, <1>2, <1>3, <1>4 DEF Next

\* For any number of transactions, request threads and operations, and also
\* when the state file cannot be written: when nothing runs any more, no
\* procedure timer is armed, nor a guard of the last transaction.
THEOREM NoOrphanTimersHolds == Spec => []NoOrphanTimers
<1>1. FlightInv /\ GuardInv => (Quiescent => \A i \in Guards : guard[i] # None => guard[i] < made)
  <2> SUFFICES ASSUME FlightInv, GuardInv, Quiescent, NEW i \in Guards, guard[i] # None
               PROVE  guard[i] < made
    OBVIOUS
  <2>1. guard[i] \in Tx /\ made \in 0..MaxTx /\ MaxTx \in Nat /\ guard[i] <= made
    BY MaxTxAssumption DEF FlightInv, TypeOK, TimerTypeOK, CtxTypeOK, GuardInv
  <2>2. guard[i] # made
    BY <2>1 DEF GuardInv, Quiescent, Keeps, Active
  <2> QED BY <2>1, <2>2 DEF Tx
<1> QED
  BY FlightInit, GuardInit, FlightStep, GuardStep, ProcedureTimersAreStopped, <1>1, PTL
  DEF Spec, NoOrphanTimers
=============================================================================
