---------------------------- MODULE AttachEngine ----------------------------
(***************************************************************************)
(* The Attach orchestration of control_plane/engine.py: the request        *)
(* threads that call start_attach, stop_attach, reset and set_cfun_zero,   *)
(* one orchestration thread per transaction (_run_attach and _exchange),   *)
(* the guard and procedure timers they share, and the parts of the         *)
(* StateStore they write.                                                  *)
(*                                                                         *)
(* A step is what the code does between two points where another thread    *)
(* can observe or disturb it.  The checkpoint that precedes a store write  *)
(* is a step of its own, because _ctx_lock is released before mutate takes *)
(* the store's lock.  The bounded joins (_wait_cancelled_attach) never     *)
(* block for good, so they put no guard on the step that follows them.     *)
(***************************************************************************)
EXTENDS Integers, FiniteSets, Sequences

CONSTANTS MaxTx,     \* bound: the number of Attach transactions created
          MaxOps,    \* bound: the number of operations requested
          Callers,   \* request threads (AP commands, HTTP and LAN handlers)
          PersistMayFail,   \* can writing the state file fail for good?
          None

Tx == 1..MaxTx

ASSUME MaxTxAssumption == MaxTx \in Nat \ {0}
ASSUME MaxOpsAssumption == MaxOps \in Nat
ASSUME PersistAssumption == PersistMayFail \in BOOLEAN
ASSUME NoneAssumption == None \notin Nat

-----------------------------------------------------------------------------
(* The eleven flow steps, and the activities _run_attach goes through: the *)
(* RRC Setup Complete exchange belongs to the step rrc_connection.         *)

FlowSteps == << "cfun_enable", "nas_attach_req", "mib_sib_read",
                "system_info_validate", "random_access", "rrc_connection",
                "nas_attach_request", "authentication", "security_mode",
                "attach_accept", "attach_complete" >>

Program == << "nas_attach_req", "mib_sib_read", "system_info_validate",
              "random_access", "rrc_connection", "rrc_complete",
              "nas_attach_request", "authentication", "security_mode",
              "attach_accept", "attach_complete" >>

FirstSteps(n) == { FlowSteps[i] : i \in 1..n }
AllSteps == FirstSteps(11)

\* How many flow steps are complete when activity number i begins.
StepsBefore(i) == IF i <= 5 THEN i ELSE i - 1

\* Mutant: the stage name is used as the flow step.
StageNameOf(i) == Program[i]

\* flow_step_for_stage
StepOf(i) == FlowSteps[StepsBefore(i) + 1]

BusActivities == {1, 3}                  \* answered by the UE's own tasks
ExchangeActivities == {2, 4, 5, 6, 7, 8, 9, 11}
Guards == ExchangeActivities             \* one engineering guard per stage
ProcedureTimers == {"T3410", "T3460", "T3450"}

Active == { "ready", "entering", "body", "arming", "waiting", "polling",
            "camping", "checking", "completing",
            "finishing", "stopping", "succeeding", "archiving", "archived", "unarchived",
            "failing", "failstopping", "failwriting",
            "failarchiving", "failarchived", "failunarchived",
            "unwinding", "unwound", "exiting" }

ThreadStates == Active \cup { "none", "starting", "aborted", "done" }

CallerStates == { "idle", "creating", "startCleanup", "initialising",
                  "enableCheck", "enableWrite", "launching", "stopCancel",
                  "stopWrite", "resetCleanup", "resetWrite", "cfunCleanup",
                  "cfunWrite" }

VARIABLES
  current,    \* _current_ctx
  cancelled,  \* the contexts whose cancel event is set
  made,       \* the number of contexts created
  ops,        \* the number of operations begun
  pc,         \* pc[t]: where the orchestration thread of t is
  at,         \* at[t]: the activity of Program it is in
  reply,      \* reply[t]: what the deliver thread put into the queue; after a
              \* timeout of RRC what its handler is yet to do: "asked", "camping"
  expired,    \* expired[t]: the expired event of the current exchange
  guard,      \* guard[i]: the transaction that armed the guard of stage i
  proc,       \* proc[n]: the transaction that armed procedure timer n
  modem, flow, metrics, history, report, archive,   \* the StateStore
  nas,        \* SecurityContext.nas_negotiated
  cpc, cctx   \* cpc[c], cctx[c]: the request thread c and the ctx it holds

ctxVars == << current, cancelled, made, ops >>
threadVars == << pc, at, reply, expired >>
timerVars == << guard, proc >>
storeVars == << modem, flow, metrics, history, report, archive >>
callerVars == << cpc, cctx >>
vars == << ctxVars, threadVars, timerVars, storeVars, nas, callerVars >>

Init ==
  /\ current = None /\ cancelled = {} /\ made = 0 /\ ops = 0
  /\ pc = [t \in Tx |-> "none"]
  /\ at = [t \in Tx |-> 1]
  /\ reply = [t \in Tx |-> "none"]
  /\ expired = [t \in Tx |-> FALSE]
  /\ guard = [i \in Guards |-> None]
  /\ proc = [n \in ProcedureTimers |-> None]
  /\ modem = [cfun |-> 0, status |-> "DETACHED", cell |-> FALSE]
  /\ flow = [tx |-> None, running |-> FALSE, step |-> None,
             completed |-> {}, failed |-> None]
  /\ metrics = [attempts |-> 0, successes |-> 0, failures |-> 0, cancelled |-> 0]
  /\ history = << >>
  /\ report = None
  /\ archive = "IDLE"
  /\ nas = FALSE
  /\ cpc = [c \in Callers |-> "idle"]
  /\ cctx = [c \in Callers |-> None]

-----------------------------------------------------------------------------
\* What _checkpoint requires: it raises AttachCancelled otherwise.
Alive(t) == current = t /\ t \notin cancelled

\* The busy check of start_attach.
Busy == current # None /\ current \notin cancelled

\* cancel_attach, on whatever context is current when it takes the lock.
CancelCurrent ==
  cancelled' = IF current = None THEN cancelled ELSE cancelled \cup {current}

\* Mutant: store updates that do not compare the transaction id.
AnyDisplayed(t) == t \in Tx

\* The test every guarded update of the store begins with.
Displayed(t) == flow.tx = t

\* Mutant: only the engineering guards are stopped.
CancelGuards ==
  /\ guard' = [i \in Guards |-> None]
  /\ UNCHANGED proc

\* TimerManager.cancel_all, whoever armed the timers.
CancelAllTimers ==
  /\ guard' = [i \in Guards |-> None]
  /\ proc' = [n \in ProcedureTimers |-> None]

Goto(t, p) == pc' = [pc EXCEPT ![t] = p]
CallerGoto(c, p) == cpc' = [cpc EXCEPT ![c] = p]

\* An idle request thread begins an operation.
Begin(c, p) ==
  /\ cpc[c] = "idle" /\ ops < MaxOps
  /\ ops' = ops + 1
  /\ CallerGoto(c, p)

-----------------------------------------------------------------------------
(* Request threads.                                                        *)

\* The first busy check of start_attach; a busy engine answers "already
\* running" and nothing changes.
BeginStart(c) ==
  /\ Begin(c, "creating") /\ ~Busy /\ made < MaxTx
  /\ UNCHANGED << current, cancelled, made, threadVars, timerVars, storeVars, nas, cctx >>

\* The second busy check, after the join, in one critical section with the
\* assignment of _current_ctx.  (The bound MaxTx refuses a start as well.)
CreateCtx(c) ==
  /\ cpc[c] = "creating"
  /\ \/ /\ Busy \/ made = MaxTx
        /\ CallerGoto(c, "idle")
        /\ UNCHANGED << ctxVars, pc, cctx >>
     \/ /\ ~Busy /\ made < MaxTx
        /\ made' = made + 1
        /\ current' = made + 1
        /\ Goto(made + 1, "starting")
        /\ cctx' = [cctx EXCEPT ![c] = made + 1]
        /\ CallerGoto(c, "startCleanup")
        /\ UNCHANGED << cancelled, ops >>
  /\ UNCHANGED << at, reply, expired, timerVars, storeVars, nas >>

\* timers.cancel_all and security.disable, which start_attach, reset and
\* set_cfun_zero call before their store write.
AfterCleanup == [startCleanup |-> "initialising", resetCleanup |-> "resetWrite",
                 cfunCleanup |-> "cfunWrite"]

Cleanup(c) ==
  /\ cpc[c] \in DOMAIN AfterCleanup
  /\ CallerGoto(c, AfterCleanup[cpc[c]])
  /\ CancelAllTimers
  /\ nas' = FALSE
  /\ UNCHANGED << ctxVars, threadVars, storeVars, cctx >>

\* The update of start_attach: it does not look at _current_ctx again.
InitAttach(c) ==
  /\ cpc[c] = "initialising"
  /\ CallerGoto(c, "enableCheck")
  /\ modem' = [cfun |-> 1, status |-> "SEARCHING", cell |-> FALSE]
  /\ flow' = [tx |-> cctx[c], running |-> TRUE, step |-> "cfun_enable",
              completed |-> {}, failed |-> None]
  /\ metrics' = [metrics EXCEPT !.attempts = @ + 1]
  /\ report' = None
  /\ UNCHANGED << ctxVars, threadVars, timerVars, history, archive, nas, cctx >>

\* The checkpoint of _complete_step(cfun_enable).  When it raises, the
\* exception leaves start_attach: no thread is created for the context.
EnableCheck(c) ==
  /\ cpc[c] = "enableCheck"
  /\ \/ /\ Alive(cctx[c])
        /\ CallerGoto(c, "enableWrite")
        /\ UNCHANGED << pc, cctx >>
     \/ /\ ~Alive(cctx[c])
        /\ CallerGoto(c, "idle")
        /\ Goto(cctx[c], "aborted")
        /\ cctx' = [cctx EXCEPT ![c] = None]
  /\ UNCHANGED << ctxVars, at, reply, expired, timerVars, storeVars, nas >>

\* Mutant: the step is added to whatever flow is on display.
RecordCompleteAnyTx(t, step) ==
  flow' = [flow EXCEPT !.completed = @ \cup {step}, !.step = step]

\* The update of _complete_step for a step of transaction t.
RecordComplete(t, step) ==
  flow' = IF Displayed(t)
          THEN [flow EXCEPT !.completed = @ \cup {step}, !.step = step] ELSE flow

\* Mutant: the current step is only shown when it completes.
ShowNoStep(t, step) == UNCHANGED flow

\* The update of _set_current_step.
ShowStep(t, step) ==
  flow' = IF Displayed(t) THEN [flow EXCEPT !.step = step] ELSE flow

EnableWrite(c) ==
  /\ cpc[c] = "enableWrite"
  /\ CallerGoto(c, "launching")
  /\ RecordComplete(cctx[c], "cfun_enable")
  /\ UNCHANGED << ctxVars, threadVars, timerVars, modem, metrics, history,
                  report, archive, nas, cctx >>

Launch(c) ==
  /\ cpc[c] = "launching"
  /\ CallerGoto(c, "idle")
  /\ cctx' = [cctx EXCEPT ![c] = None]
  /\ Goto(cctx[c], "ready")
  /\ UNCHANGED << ctxVars, at, reply, expired, timerVars, storeVars, nas >>

\* stop_attach reads the context, and cancel_attach reads it again: the one
\* that is cancelled need not be the one whose flow is rewritten.
StopRead(c) ==
  /\ Begin(c, "stopCancel") /\ current # None
  /\ cctx' = [cctx EXCEPT ![c] = current]
  /\ UNCHANGED << current, cancelled, made, threadVars, timerVars, storeVars, nas >>

StopCancel(c) ==
  /\ cpc[c] = "stopCancel"
  /\ CallerGoto(c, "stopWrite")
  /\ CancelCurrent
  /\ UNCHANGED << current, made, ops, threadVars, timerVars, storeVars, nas, cctx >>

StopWrite(c) ==
  /\ cpc[c] = "stopWrite"
  /\ CallerGoto(c, "idle")
  /\ cctx' = [cctx EXCEPT ![c] = None]
  /\ IF Displayed(cctx[c])
     THEN /\ flow' = [flow EXCEPT !.running = FALSE]
          /\ modem' = [modem EXCEPT !.status = "CANCELLED"]
     ELSE UNCHANGED << flow, modem >>
  /\ UNCHANGED << ctxVars, threadVars, timerVars, metrics, history, report,
                  archive, nas >>

\* cancel_attach as the first call of reset and of set_cfun_zero.
BeginReset(c) ==
  /\ Begin(c, "resetCleanup")
  /\ CancelCurrent
  /\ UNCHANGED << current, made, threadVars, timerVars, storeVars, nas, cctx >>

\* StateStore.reset_runtime: the run history survives.  It writes the state
\* file last, so a failure of that changes nothing here.
ResetWrite(c) ==
  /\ cpc[c] = "resetWrite"
  /\ CallerGoto(c, "idle")
  /\ modem' = [cfun |-> 0, status |-> "DETACHED", cell |-> FALSE]
  /\ flow' = [tx |-> None, running |-> FALSE, step |-> None,
              completed |-> {}, failed |-> None]
  /\ metrics' = [attempts |-> 0, successes |-> 0, failures |-> 0, cancelled |-> 0]
  /\ report' = None
  /\ archive' = "IDLE"
  /\ UNCHANGED << ctxVars, threadVars, timerVars, history, nas, cctx >>

BeginCfunZero(c) ==
  /\ Begin(c, "cfunCleanup")
  /\ CancelCurrent
  /\ UNCHANGED << current, made, threadVars, timerVars, storeVars, nas, cctx >>

\* The update of set_cfun_zero: flow.transactionId is left as it is.
CfunZeroWrite(c) ==
  /\ cpc[c] = "cfunWrite"
  /\ CallerGoto(c, "idle")
  /\ modem' = [cfun |-> 0, status |-> "DETACHED", cell |-> FALSE]
  /\ flow' = [flow EXCEPT !.running = FALSE, !.step = None]
  /\ UNCHANGED << ctxVars, threadVars, timerVars, metrics, history, report,
                  archive, nas, cctx >>

CallerWrite(c) == InitAttach(c) \/ StopWrite(c) \/ ResetWrite(c) \/ CfunZeroWrite(c)

\* What a request thread does once its operation has begun.
CallerStep(c) ==
  \/ CreateCtx(c) \/ Cleanup(c) \/ EnableCheck(c) \/ EnableWrite(c)
  \/ Launch(c) \/ StopCancel(c) \/ CallerWrite(c)

CallerBegin(c) ==
  BeginStart(c) \/ StopRead(c) \/ BeginReset(c) \/ BeginCfunZero(c)

-----------------------------------------------------------------------------
(* The orchestration thread of transaction t.  A step that raises          *)
(* AttachCancelled goes to "unwinding", any other failure to "failing".    *)

\* The checkpoint of _set_current_step; those of the _delay before it can
\* only fail earlier, and a checkpoint that fails once fails for good.
EnterCheck(t) ==
  /\ pc[t] = "ready"
  /\ Goto(t, IF Alive(t) THEN "entering" ELSE "unwinding")
  /\ UNCHANGED << ctxVars, at, reply, expired, timerVars, storeVars, nas, callerVars >>

EnterWrite(t) ==
  /\ pc[t] = "entering"
  /\ Goto(t, IF Program[at[t]] = "attach_accept" THEN "checking" ELSE "body")
  /\ ShowStep(t, StepOf(at[t]))
  /\ UNCHANGED << ctxVars, at, reply, expired, timerVars, modem, metrics,
                  history, report, archive, nas, callerVars >>

\* NAS_ATTACH_REQ and SYSTEM_INFO_VALIDATE_REQ, answered by the UE's NAS and
\* RRC tasks: the handler's checkpoint, and for the latter a reject of the
\* system information.
BusRequest(t) ==
  /\ pc[t] = "body" /\ at[t] \in BusActivities
  /\ \/ Alive(t) /\ Goto(t, IF at[t] = 3 THEN "camping" ELSE "checking")
     \/ ~Alive(t) /\ Goto(t, "unwinding")
     \/ Alive(t) /\ at[t] = 3 /\ Goto(t, "failing")
  /\ UNCHANGED << ctxVars, at, reply, expired, timerVars, storeVars, nas, callerVars >>

\* A single-threaded task is late, or its inbox full, only while another
\* transaction keeps it busy.  A request in its inbox is still handled later.
BusTimeout(t) ==
  /\ pc[t] = "body" /\ at[t] \in BusActivities
  /\ \E u \in Tx \ {t} : pc[u] \in Active
  /\ Goto(t, "failing")
  /\ reply' = [reply EXCEPT ![t] = IF at[t] = 3 THEN "asked" ELSE @]
  /\ UNCHANGED << ctxVars, at, expired, timerVars, storeVars, nas, callerVars >>

\* The update of _validate_system_info, on the RRC task's thread.
Camped(t) ==
  IF Displayed(t) THEN [modem EXCEPT !.status = "CAMPED", !.cell = TRUE] ELSE modem

CampWrite(t) ==
  /\ pc[t] = "camping"
  /\ Goto(t, "checking")
  /\ modem' = Camped(t)
  /\ UNCHANGED << ctxVars, at, reply, expired, timerVars, flow, metrics,
                  history, report, archive, nas, callerVars >>

\* The handler of a request that timed out, with nobody to answer to: it may
\* reject the system information as well.
LateCheck(t) ==
  /\ reply[t] = "asked"
  /\ \E r \in {"camping", "none"} :
       /\ r = "camping" => Alive(t)
       /\ reply' = [reply EXCEPT ![t] = r]
  /\ UNCHANGED << ctxVars, pc, at, expired, timerVars, storeVars, nas, callerVars >>

LateCamp(t) ==
  /\ reply[t] = "camping"
  /\ reply' = [reply EXCEPT ![t] = "none"]
  /\ modem' = Camped(t)
  /\ UNCHANGED << ctxVars, pc, at, expired, timerVars, flow, metrics, history, report,
                  archive, nas, callerVars >>

\* T3410 starts before _exchange, whose first checkpoint may then raise.
BeginExchange(t) ==
  /\ pc[t] = "body" /\ at[t] \in ExchangeActivities
  /\ proc' = IF Program[at[t]] = "nas_attach_request"
             THEN [proc EXCEPT !["T3410"] = t] ELSE proc
  /\ Goto(t, IF Alive(t) THEN "arming" ELSE "unwinding")
  /\ UNCHANGED << ctxVars, at, reply, expired, guard, storeVars, nas, callerVars >>

\* A reset replaces the timer records of the store by those of the named LTE
\* timers: an engineering guard that is being started or is expiring when it
\* does finds no record of its own, and raises a KeyError.
RecordLost(i) == /\ Program[i] # "rrc_connection"
                 /\ \E c \in Callers : cpc[c] = "resetWrite"

\* timers.start replaces a guard of the same name, whoever armed it, and the
\* deliver thread starts with a new queue and a new event.
ArmGuard(t) ==
  /\ pc[t] = "arming"
  /\ Goto(t, "waiting") \/ (RecordLost(at[t]) /\ Goto(t, "failing"))
  /\ guard' = [guard EXCEPT ![at[t]] = t]
  /\ UNCHANGED << ctxVars, at, reply, expired, proc, storeVars, nas, callerVars >>

\* The deliver thread of the current exchange.  A dropped primitive puts
\* nothing into the queue.  It puts an AttachCancelled when a checkpoint on
\* its way failed, or when it outlived the guard (its own waits are longer
\* than the guard's, so that takes a guard that was stopped from outside).
Deliver(t) ==
  /\ pc[t] \in {"waiting", "polling"} /\ reply[t] = "none"
  /\ \E r \in {"ok", "fail", "dropped", "cancelled"} :
       /\ r = "cancelled" => ~Alive(t) \/ guard[at[t]] # t
       /\ reply' = [reply EXCEPT ![t] = r]
  /\ UNCHANGED << ctxVars, pc, at, expired, timerVars, storeVars, nas, callerVars >>

\* Thread t is in the exchange of stage i.
Awaits(t, i) == pc[t] \in {"waiting", "polling"} /\ at[t] = i

\* TimerManager._expire of the guard of stage i: it wakes the exchange that
\* armed it, if that exchange still waits and the callback does not raise.
ExpireGuard(i) ==
  /\ guard[i] # None
  /\ guard' = [guard EXCEPT ![i] = None]
  /\ \/ /\ Awaits(guard[i], i)
        /\ expired' = [expired EXCEPT ![guard[i]] = TRUE]
     \/ /\ Awaits(guard[i], i) => RecordLost(i)
        /\ UNCHANGED expired
  /\ UNCHANGED << ctxVars, pc, at, reply, proc, storeVars, nas, callerVars >>

\* A procedure timer has no expiry callback.
ExpireProcedure(n) ==
  /\ proc[n] # None
  /\ proc' = [proc EXCEPT ![n] = None]
  /\ UNCHANGED << ctxVars, threadVars, guard, storeVars, nas, callerVars >>

\* The queue and the event of an exchange are gone when it returns.
LeaveExchange(t) ==
  /\ reply' = [reply EXCEPT ![t] = "none"]
  /\ expired' = [expired EXCEPT ![t] = FALSE]

\* Mutant: the loop of _exchange without its checkpoint.
PollUnchecked(t) ==
  /\ pc[t] = "waiting"
  /\ Goto(t, "polling")
  /\ UNCHANGED << ctxVars, at, reply, expired, timerVars, storeVars, nas, callerVars >>

\* The loop of _exchange: a checkpoint, then one look at expired and queue.
PollCheck(t) ==
  /\ pc[t] = "waiting"
  /\ IF Alive(t) THEN Goto(t, "polling") /\ UNCHANGED << reply, expired >>
                 ELSE Goto(t, "unwinding") /\ LeaveExchange(t)
  /\ UNCHANGED << ctxVars, at, timerVars, storeVars, nas, callerVars >>

PollExpired(t) ==
  /\ pc[t] = "polling" /\ expired[t]
  /\ Goto(t, "failing")
  /\ LeaveExchange(t)
  /\ UNCHANGED << ctxVars, at, timerVars, storeVars, nas, callerVars >>

PollEmpty(t) ==
  /\ pc[t] = "polling" /\ ~expired[t] /\ reply[t] \in {"none", "dropped"}
  /\ Goto(t, "waiting")
  /\ UNCHANGED << ctxVars, at, reply, expired, timerVars, storeVars, nas, callerVars >>

\* The procedure timers after an answered exchange, up to _complete_step.
TimersAfterReply(t) ==
  proc' = CASE Program[at[t]] = "nas_attach_request" -> [proc EXCEPT !["T3460"] = t]
            [] Program[at[t]] = "authentication" -> [proc EXCEPT !["T3460"] = t]
            [] Program[at[t]] = "security_mode" -> [proc EXCEPT !["T3460"] = None]
            [] OTHER -> proc

\* The result is used with no further checkpoint: the guard of the stage is
\* stopped whoever armed it, and mark_nas_negotiated runs even for a
\* transaction that has been cancelled since.
TakeReply(t) ==
  /\ pc[t] = "polling" /\ ~expired[t]
  /\ LeaveExchange(t)
  /\ guard' = [guard EXCEPT ![at[t]] = None]
  /\ \/ /\ reply[t] = "ok"
        /\ TimersAfterReply(t)
        /\ nas' = (nas \/ Program[at[t]] = "security_mode")
        /\ at' = [at EXCEPT ![t] = IF Program[@] = "rrc_connection" THEN @ + 1 ELSE @]
        /\ Goto(t, IF Program[at[t]] = "rrc_connection" THEN "body" ELSE "checking")
     \/ /\ reply[t] = "fail" /\ Goto(t, "failing") /\ UNCHANGED << proc, nas, at >>
     \/ /\ reply[t] = "cancelled" /\ Goto(t, "unwinding") /\ UNCHANGED << proc, nas, at >>
  /\ UNCHANGED << ctxVars, storeVars, callerVars >>

\* The checkpoint of _complete_step.
CompleteCheck(t) ==
  /\ pc[t] = "checking"
  /\ Goto(t, IF Alive(t) THEN "completing" ELSE "unwinding")
  /\ UNCHANGED << ctxVars, at, reply, expired, timerVars, storeVars, nas, callerVars >>

\* Its update, and the procedure timers that follow it.
CompleteWrite(t) ==
  /\ pc[t] = "completing"
  /\ RecordComplete(t, StepOf(at[t]))
  /\ proc' = CASE Program[at[t]] = "attach_accept" ->
                     [proc EXCEPT !["T3410"] = None, !["T3450"] = t]
               [] Program[at[t]] = "attach_complete" -> [proc EXCEPT !["T3450"] = None]
               [] OTHER -> proc
  /\ IF at[t] < Len(Program)
     THEN at' = [at EXCEPT ![t] = @ + 1] /\ Goto(t, "ready")
     ELSE UNCHANGED at /\ Goto(t, "finishing")
  /\ UNCHANGED << ctxVars, reply, expired, guard, modem, metrics, history,
                  report, archive, nas, callerVars >>

-----------------------------------------------------------------------------
(* The ends of a transaction.                                              *)

\* _finish_success: the checkpoint, then cancel_all, then the write.
FinishCheck(t) ==
  /\ pc[t] = "finishing"
  /\ Goto(t, IF Alive(t) THEN "stopping" ELSE "unwinding")
  /\ UNCHANGED << ctxVars, at, reply, expired, timerVars, storeVars, nas, callerVars >>

\* The three ends call cancel_all before they write.
AfterStop == [stopping |-> "succeeding", failstopping |-> "failwriting", unwinding |-> "unwound"]

StopTimers(t) ==
  /\ pc[t] \in DOMAIN AfterStop
  /\ Goto(t, AfterStop[pc[t]])
  /\ CancelAllTimers
  /\ UNCHANGED << ctxVars, at, reply, expired, storeVars, nas, callerVars >>

\* Mutant: the end of the run is not written to the flow.
StillRunning(f) == f

\* The flow of a run that has ended.
Ended(f) == [f EXCEPT !.running = FALSE]

Record(t, result) == history' = Append(history, [tx |-> t, result |-> result])

\* The outcome is in the store before the state file is written: when that
\* raises, the success already recorded is handled as a failure.
SuccessWrite(t) ==
  /\ pc[t] = "succeeding"
  /\ Goto(t, "archiving") \/ (PersistMayFail /\ Goto(t, "failing"))
  /\ IF Displayed(t)
     THEN /\ modem' = [modem EXCEPT !.status = "ATTACHED"]
          /\ archive' = "PENDING"
          /\ flow' = [Ended(flow) EXCEPT !.step = "attach_complete"]
          /\ metrics' = [metrics EXCEPT !.successes = @ + 1]
          /\ Record(t, "SUCCESS")
     ELSE UNCHANGED << modem, archive, flow, metrics, history >>
  /\ UNCHANGED << ctxVars, at, reply, expired, timerVars, report, nas, callerVars >>

\* _finish_failure: a superseded thread writes nothing, a cancelled one does.
FailCheck(t) ==
  /\ pc[t] = "failing"
  /\ Goto(t, IF current = t THEN "failstopping" ELSE "exiting")
  /\ UNCHANGED << ctxVars, at, reply, expired, timerVars, storeVars, nas, callerVars >>

\* The flow and modem part is guarded by the transaction id, the diagnosis
\* report is not.  An exception that names no step fails the current one;
\* one raised here leaves _run_attach through its finally clause.
FailWrite(t) ==
  /\ pc[t] = "failwriting"
  /\ Goto(t, "failarchiving") \/ (PersistMayFail /\ Goto(t, "exiting"))
  /\ report' = t
  /\ IF Displayed(t)
     THEN /\ modem' = [modem EXCEPT !.status = "FAILED"]
          /\ archive' = "PENDING"
          /\ \E s \in {StepOf(at[t]), flow.step} :
               flow' = [Ended(flow) EXCEPT !.failed = s]
          /\ metrics' = [metrics EXCEPT !.failures = @ + 1]
          /\ Record(t, "FAILED")
     ELSE UNCHANGED << modem, archive, flow, metrics, history >>
  /\ UNCHANGED << ctxVars, at, reply, expired, timerVars, nas, callerVars >>

ArchiveRest == << ctxVars, at, reply, expired, timerVars, modem, flow, metrics,
                  history, report, nas, callerVars >>
Archived == [archiving |-> "archived", failarchiving |-> "failarchived"]
NotArchived == [archiving |-> "unarchived", failarchiving |-> "failunarchived",
                archived |-> "unarchived", failarchived |-> "failunarchived"]

\* Mutant: a failure of the archive is raised into _run_attach.
ArchiveRunRaises(t) ==
  /\ pc[t] \in DOMAIN Archived
  /\ Goto(t, Archived[pc[t]]) \/ Goto(t, "failing")
  /\ UNCHANGED << ArchiveRest, archive >>

\* _archive_finished_run archives the state as it is now: the archive
\* refuses one without a transaction or with a running one, and writing the
\* files may fail.
ArchiveRun(t) ==
  /\ pc[t] \in DOMAIN Archived
  /\ \/ flow.tx # None /\ ~flow.running /\ Goto(t, Archived[pc[t]])
     \/ Goto(t, NotArchived[pc[t]])
  /\ UNCHANGED << ArchiveRest, archive >>

ArchiveWrite(t) ==
  /\ pc[t] \in {"archived", "failarchived"}
  /\ archive' = "ARCHIVED"
  /\ Goto(t, "exiting") \/ (PersistMayFail /\ Goto(t, NotArchived[pc[t]]))
  /\ UNCHANGED ArchiveRest

\* The handler of both failures writes the state file again.
ArchiveFailed(t) ==
  /\ pc[t] \in {"unarchived", "failunarchived"}
  /\ archive' = "FAILED"
  /\ Goto(t, "exiting") \/ (PersistMayFail /\ pc[t] = "unarchived" /\ Goto(t, "failing"))
  /\ UNCHANGED ArchiveRest

\* _finish_cancelled, after cancel_all.
Unwind(t) ==
  /\ pc[t] = "unwound"
  /\ Goto(t, "exiting")
  /\ IF Displayed(t)
     THEN /\ flow' = Ended(flow)
          /\ metrics' = [metrics EXCEPT !.cancelled = @ + 1]
     ELSE UNCHANGED << flow, metrics >>
  /\ UNCHANGED << ctxVars, at, reply, expired, timerVars, modem, history, report, archive,
                  nas, callerVars >>

\* Mutant: the last thread to exit clears the context of another.
ClearAnyCurrent(t) == current' = IF t \in Tx THEN None ELSE current

\* _current_ctx is cleared only by the transaction it belongs to.
ClearCurrent(t) == current' = IF current = t THEN None ELSE current

\* The finally clause of _run_attach.
Exit(t) ==
  /\ pc[t] = "exiting"
  /\ Goto(t, "done")
  /\ ClearCurrent(t)
  /\ UNCHANGED << cancelled, made, ops, at, reply, expired, timerVars, storeVars,
                  nas, callerVars >>

ThreadStep(t) ==
  \/ EnterCheck(t) \/ EnterWrite(t) \/ BusRequest(t) \/ BusTimeout(t) \/ CampWrite(t)
  \/ BeginExchange(t) \/ ArmGuard(t) \/ PollCheck(t) \/ PollExpired(t)
  \/ PollEmpty(t) \/ TakeReply(t) \/ CompleteCheck(t) \/ CompleteWrite(t)
  \/ FinishCheck(t) \/ StopTimers(t) \/ SuccessWrite(t) \/ FailCheck(t) \/ FailWrite(t)
  \/ ArchiveRun(t) \/ ArchiveWrite(t) \/ ArchiveFailed(t) \/ Unwind(t) \/ Exit(t)

Next ==
  \/ \E c \in Callers : CallerBegin(c) \/ CallerStep(c)
  \/ \E t \in Tx : ThreadStep(t) \/ Deliver(t) \/ LateCheck(t) \/ LateCamp(t)
  \/ \E i \in Guards : ExpireGuard(i)
  \/ \E n \in ProcedureTimers : ExpireProcedure(n)

Spec == Init /\ [][Next]_vars

\* The interpreter schedules every started thread and fires every timer that
\* stays armed; nobody is obliged to begin an operation.
FairSpec ==
  /\ Spec
  /\ \A c \in Callers : WF_vars(CallerStep(c))
  /\ \A t \in Tx : WF_vars(ThreadStep(t)) /\ WF_vars(Deliver(t))
  /\ \A i \in Guards : WF_vars(ExpireGuard(i))
  /\ \A n \in ProcedureTimers : WF_vars(ExpireProcedure(n))

-----------------------------------------------------------------------------
(* Properties.                                                             *)

Steps == { FlowSteps[i] : i \in 1..11 }

Results == {"SUCCESS", "FAILED"}
RunRecords == [tx : Tx, result : Results]

ModemStates ==
  [cfun : {0, 1}, cell : BOOLEAN,
   status : {"DETACHED", "SEARCHING", "CAMPED", "ATTACHED", "FAILED", "CANCELLED"}]

FlowStates ==
  [tx : Tx \cup {None}, running : BOOLEAN, step : Steps \cup {None},
   completed : SUBSET Steps, failed : Steps \cup {None}]

MetricStates == [attempts : Nat, successes : Nat, failures : Nat, cancelled : Nat]

ArchiveStates == {"IDLE", "PENDING", "ARCHIVED", "FAILED"}

CtxTypeOK ==
  /\ current \in Tx \cup {None} /\ cancelled \subseteq Tx
  /\ made \in 0..MaxTx /\ ops \in 0..MaxOps

ThreadTypeOK ==
  /\ pc \in [Tx -> ThreadStates]
  /\ at \in [Tx -> 1..11]
  /\ reply \in [Tx -> {"none", "ok", "fail", "dropped", "cancelled", "asked", "camping"}]
  /\ expired \in [Tx -> BOOLEAN]

TimerTypeOK ==
  /\ guard \in [Guards -> Tx \cup {None}]
  /\ proc \in [ProcedureTimers -> Tx \cup {None}]

StoreTypeOK ==
  /\ modem \in ModemStates /\ flow \in FlowStates /\ metrics \in MetricStates
  /\ history \in Seq(RunRecords)
  /\ report \in Tx \cup {None} /\ archive \in ArchiveStates

CallerTypeOK ==
  /\ cpc \in [Callers -> CallerStates]
  /\ cctx \in [Callers -> Tx \cup {None}]

\* The type of the state.
TypeOK ==
  CtxTypeOK /\ ThreadTypeOK /\ TimerTypeOK /\ StoreTypeOK /\ CallerTypeOK /\ nas \in BOOLEAN

\* The completed steps of the run on display are always the first n of the
\* eleven: no late thread adds a step of its own run to another run, or to
\* the flow a reset has just cleared (the transactionId test in _complete_step).
CompletedIsPrefix == \E n \in 0..11 : flow.completed = FirstSteps(n)

\* At most one transaction can still pass its checkpoints: a double
\* AT+CFUN=1, or the exit of a superseded thread, never leaves two running.
SingleFlight ==
  \A t \in Tx : pc[t] \in Active \cup {"starting"} /\ t \notin cancelled => current = t

\* ATTACHED is on display only with the run that earned it: all eleven steps
\* complete, not running, and recorded in the run history as a success.
AttachedMeansAllSteps ==
  modem.status = "ATTACHED" =>
    /\ flow.completed = AllSteps /\ ~flow.running
    /\ \E i \in 1..Len(history) : history[i] = [tx |-> flow.tx, result |-> "SUCCESS"]

\* No transaction enters the run history twice, and the counters never hold
\* more outcomes than attempts, however resets and late threads interleave.
OutcomesAccounted ==
  /\ \A i, j \in 1..Len(history) : history[i].tx = history[j].tx => i = j
  /\ metrics.successes + metrics.failures + metrics.cancelled <= metrics.attempts

\* No operation and no orchestration thread is under way.
Quiescent ==
  /\ \A t \in Tx : pc[t] \in {"none", "aborted", "done"}
  /\ \A c \in Callers : cpc[c] = "idle"

\* When nothing runs any more no timer of the last transaction and no
\* procedure timer is left armed, although a cancelled transaction may still
\* arm one after the request that cancelled it has stopped them all.  A guard
\* may outlive only a transaction that was superseded while it armed it: the
\* KeyError of a concurrent reset makes that thread fail, and a superseded
\* thread that fails stops nothing.
NoOrphanTimers ==
  Quiescent => /\ \A i \in Guards : guard[i] # None => guard[i] < made
               /\ \A n \in ProcedureTimers : proc[n] = None

\* A failed run blames the first step it did not complete, although the
\* failure comes from a stage name, an exception without one, or a guard.
FailedStepIsFirstIncomplete ==
  modem.status = "FAILED" /\ modem.cfun = 1 =>
    flow.failed = FlowSteps[Cardinality(flow.completed) + 1]

\* When nothing runs any more the flow does not claim to be running, unless
\* start_attach itself gave up between its first write and its thread.
QuiescentRunIsClosed ==
  Quiescent /\ flow.running => pc[flow.tx] = "aborted"

\* An attached modem stays attached until a request says otherwise: no
\* orchestration thread or worker task takes the state away.
AttachedEndsByRequest ==
  [][modem.status = "ATTACHED" /\ modem'.status # "ATTACHED"
       => \E c \in Callers : cpc'[c] # cpc[c]]_vars

\* Every launched orchestration thread comes to its end: with a dropped primitive
\* the guard of the exchange fires, and a cancelled thread unwinds although the
\* request that cancelled it has stopped that guard.
EveryAttachEnds == \A t \in Tx : pc[t] = "ready" ~> pc[t] = "done"

\* The engine seen as AttachLifecycle: a transaction is open from its context's
\* creation until its thread has ended, or start_attach has given it up.
TxState(t) ==
  CASE pc[t] = "none" -> "new"
    [] pc[t] \in {"aborted", "done"} -> "closed"
    [] OTHER -> IF t \in cancelled THEN "cancelled" ELSE "open"

Lifecycle == INSTANCE AttachLifecycle WITH state <- [t \in Tx |-> TxState(t)]

\* The engine implements the lifecycle: one open transaction at a time, each
\* closed for good and recorded at most once, before it is closed.
ImplementsLifecycle == Lifecycle!LifecycleSpec

-----------------------------------------------------------------------------
(* Claims of the documentation that the code does not keep.                *)

\* README.md:78: after CFUN=0 or Reset the modem is back in DETACHED.
CfunZeroMeansDetached == modem.cfun = 0 => modem.status = "DETACHED"

\* test_core.py:266: a reset that cancelled the Attach leaves nothing running.
RunningHasThread == Quiescent => ~flow.running

\* ATTACH_AND_DIAGNOSIS.md:98: the criterion of the last step is that its
\* acknowledgement ends the run in ATTACHED.
CompletedRunIsNotFailed == modem.status = "FAILED" => flow.completed # AllSteps

\* ATTACH_AND_DIAGNOSIS.md:322: a dropped primitive ends in the guard's expiry.
DroppedPrimitiveEnds ==
  \A t \in Tx : pc[t] = "polling" /\ reply[t] = "dropped" ~> pc[t] = "done"

=============================================================================
