------------------------------ MODULE Diagnosis ------------------------------
(***************************************************************************)
(* FailureDiagnosisEngine.analyze and run_system_checks of                 *)
(* diagnostics/engine.py, over the runtime events that one Attach really   *)
(* records: those of the deliver thread with the tasks, of the peer and of *)
(* the timer thread, which write the one log as they please.  A failing    *)
(* run is analysed on a snapshot; what is still under way is recorded      *)
(* later and enters a rerun ("blind diagnosis") of the same transaction.   *)
(*                                                                         *)
(* Two exchanges stand for the eight, with the check of the system         *)
(* information in between, which has a step of its own but the correlation *)
(* id of the exchange before it.  Only the events that analyze selects by  *)
(* are recorded; "DECISION" is NETWORK_AUTH_DECISION and                   *)
(* NETWORK_CONTROL_DECISION, "GENERATED" NETWORK_REJECT_GENERATED and      *)
(* NETWORK_RESPONSE_GENERATED.                                             *)
(***************************************************************************)
EXTENDS Naturals, Sequences, SequencesExt, FiniteSets

CONSTANTS
  Seconds,   \* how often the clock reaches a full second during the run
  Faults     \* the configured faults to consider, a subset of AllFaults

Exchanges == {"mib_sib_read", "authentication"}
Activities == <<"mib_sib_read", "system_info_validate", "authentication">>
None == "none"
NoFault == [what |-> None, stage |-> "authentication"]
AllFaults ==
  {NoFault} \cup
  [what : {"socket_field", "socket_drop", "socket_delay", "field", "drop",
           "timer_timeout", "delay", "duplicate"}, stage : Exchanges] \cup
  {[what |-> "sib", stage |-> "mib_sib_read"]}

ASSUME DiagnosisAssumption == Seconds \in Nat /\ Faults \subseteq AllFaults

VARIABLES
  fault,     \* FaultConfig, and whether the peer records its decisions itself
  hit,       \* FaultInjector.fired
  at,        \* number of the present activity (flow.currentStep)
  pc,        \* the deliver thread of the present exchange, with the tasks
  todo,      \* rows it is about to record
  peer,      \* the peer's handler, and the rows it is about to record
  guard,     \* guard of each exchange, and when its callback ran
  status,    \* published status of each guard
  stop,      \* operation_stop
  run,       \* the orchestration thread, and how the run ended
  now,       \* the clock: seconds, and order within the second
  log,       \* state.runtimeEvents, in the order of recording
  seen       \* how much of it the report of the failure was made from

vars == <<fault, hit, at, pc, todo, peer, guard, status, stop, run, now, log, seen>>

Step == Activities[at]
Corr == IF Step = "system_info_validate" THEN "mib_sib_read" ELSE Step
Cause(place) == "REJECTED_AT_" \o place     \* rejectCause
Unrecorded == [sec |-> 0, frac |-> 0]       \* Record sets the time
Row(event) ==
  [event |-> event, corr |-> Corr, step |-> Step, root |-> None,
   decision |-> None, cause |-> None, fault |-> None, time |-> Unrecorded]
Decision(event, verdict, root, cause) ==
  [Row(event) EXCEPT !.decision = verdict, !.root = root, !.cause = cause]
Failure(event, root) == [Row(event) EXCEPT !.root = root]
FaultRow == [Row("FAULT_INJECTED") EXCEPT !.fault = fault.what]

Init ==
  /\ fault \in [what : {f.what : f \in Faults}, stage : Exchanges, mirror : BOOLEAN]
  /\ [what |-> fault.what, stage |-> fault.stage] \in Faults
  /\ hit = FALSE /\ at = 1 /\ stop = FALSE
  /\ pc = "request" /\ todo = <<>>
  /\ peer = [at |-> "idle", todo |-> <<>>]
  /\ now = [sec |-> 0, frac |-> 1] /\ log = <<>> /\ seen = 0
  /\ guard = [s \in Exchanges |->
               [at |-> IF s = "mib_sib_read" THEN "running" ELSE "idle", time |-> now]]
  /\ status = [s \in Exchanges |-> IF s = "mib_sib_read" THEN "RUNNING" ELSE "IDLE"]
  /\ run = "running"

(***************************************************************************)
(* Recording: utc_now of the caller, then the append under the store's     *)
(* lock.                                                                   *)
(***************************************************************************)
Ticks ==
  {[now EXCEPT !.frac = @ + 1]} \cup
  (IF now.sec < Seconds THEN {[sec |-> now.sec + 1, frac |-> 0]} ELSE {})

Record(row, t) == log' = Append(log, [row EXCEPT !.time = t])

(***************************************************************************)
(* The deliver thread and the tasks.                                       *)
(***************************************************************************)
Hits(layer) ==
  /\ ~hit /\ fault.stage = Step
  /\ fault.what \in (IF layer = "socket"
                     THEN {"socket_field", "socket_drop", "socket_delay"}
                     ELSE {"field", "sib", "drop", "timer_timeout", "delay", "duplicate"})

Goto(place, rows) == pc' = place /\ todo' = rows
Others == <<fault, at, guard, status, stop, run, seen>>

\* The time is read and the row appended in one step: a row is not overtaken by
\* one of a later time, but for that of a guard (CallBack).
RecordRow ==
  /\ todo # <<>>
  /\ now' \in Ticks /\ Record(Head(todo), now') /\ todo' = Tail(todo)
  /\ UNCHANGED <<Others, hit, pc, peer>>

\* _network up to the transmission: a dropped message is never sent, and the
\* L1 task waits until the operation is stopped.
Send ==
  /\ pc = "request" /\ todo = <<>>
  /\ hit' = (hit \/ Hits("socket"))
  /\ IF ~Hits("socket") THEN Goto("transmit", <<>>)
     ELSE CASE fault.what = "socket_field" -> Goto("transmit", <<FaultRow>>)
            [] fault.what = "socket_drop" ->
                 Goto("done", <<FaultRow, Failure("SOCKET_DROP", "SOCKET_DROP"),
                                 Decision("DELIVERY_DECISION", "DROP", "SOCKET_DROP",
                                          "SOCKET_MESSAGE_DROPPED")>>)
            [] OTHER -> Goto("transmit", <<FaultRow>>) \/ Goto("done", <<FaultRow>>)
  /\ UNCHANGED <<Others, peer, now, log>>

Transmit ==
  /\ pc = "transmit" /\ todo = <<>>
  /\ IF stop THEN Goto("done", <<>>) /\ peer' = peer
     ELSE Goto("sent", <<>>) /\ peer' = [peer EXCEPT !.at = "asked"]
  /\ UNCHANGED <<Others, hit, now, log>>

Rejecting == hit /\ fault.what = "socket_field" /\ fault.stage = Step
Verdict == IF Rejecting THEN "REJECT" ELSE "ACCEPT"
NetworkDecision ==
  Decision("DECISION", Verdict, IF Rejecting THEN "NETWORK_REJECT" ELSE None,
           IF Rejecting THEN Cause(Step) ELSE None)

\* hooks.network_request raises, or the answer is not an object or not for
\* this request.
SocketFails ==
  /\ pc = "sent" /\ todo = <<>>
  /\ \E row \in { Failure("SOCKET_TIMEOUT", "SOCKET_TIMEOUT"),
                  Failure("SOCKET_ERROR", "SOCKET_ERROR") } : Goto("raised", <<row>>)
  /\ UNCHANGED <<Others, hit, peer, now, log>>

AnswerIsBad ==
  /\ pc = "sent" /\ todo = <<>> /\ peer.at = "answered" /\ ~stop
  /\ \E root \in {"PRIMITIVE_MALFORMED", "UNEXPECTED_PRIMITIVE"} :
       Goto("raised", <<Failure("VALIDATION_FAILED", root)>>)
  /\ peer' = [peer EXCEPT !.at = "idle"]
  /\ UNCHANGED <<Others, hit, now, log>>

\* SOCKET_RX carries the peer's decision; it is recorded once more as an event
\* when the peer has not done so.
Receive ==
  /\ pc = "sent" /\ todo = <<>> /\ peer.at = "answered"
  /\ IF stop THEN Goto("done", <<>>)
     ELSE Goto("response",
               <<Decision("SOCKET_RX", Verdict, None, NetworkDecision.cause)>> \o
               (IF fault.mirror THEN <<NetworkDecision>> ELSE <<>>))
  /\ peer' = [peer EXCEPT !.at = "idle"]
  /\ UNCHANGED <<Others, hit, now, log>>

\* The primitive is intercepted and delivered to the consuming task.
Intercept ==
  /\ pc = "response" /\ todo = <<>>
  /\ IF stop THEN Goto("done", <<>>) /\ hit' = hit
     ELSE /\ hit' = (hit \/ Hits("primitive"))
          /\ IF ~Hits("primitive") THEN Goto("consume", <<>>)
             ELSE CASE fault.what \in {"drop", "timer_timeout"} ->
                         Goto("done", <<FaultRow, Decision("DELIVERY_DECISION", "DROP",
                                          "PRIMITIVE_MISSING", "PRIMITIVE_DELIVERY_SUPPRESSED")>>)
                    [] fault.what = "delay" ->
                         \/ Goto("consume", <<FaultRow>>) \/ Goto("done", <<FaultRow>>)
                    [] OTHER -> Goto("consume", <<FaultRow>>)
  /\ UNCHANGED <<Others, peer, now, log>>

\* _consume_response, and the second copy of a duplicated primitive.
FailureOf(what) ==
  CASE Rejecting -> "NETWORK_REJECT"
    [] what = "field" -> "PRIMITIVE_PARAMETER_INVALID"
    [] what = "duplicate" -> "DUPLICATE_PRIMITIVE"
    [] OTHER -> None

Consume ==
  /\ pc = "consume" /\ todo = <<>>
  /\ LET what == IF hit /\ fault.stage = Step THEN fault.what ELSE None IN
     IF stop THEN Goto("done", <<>>)
     ELSE IF FailureOf(what) = None THEN Goto("answered", <<>>)
     ELSE Goto("raised", <<Failure("VALIDATION_FAILED", FailureOf(what))>>)
  /\ UNCHANGED <<Others, hit, peer, now, log>>

\* _validate_system_info, by the RRC task while the orchestration thread waits.
Validate ==
  /\ pc = "validate" /\ todo = <<>>
  /\ IF hit /\ fault.what = "sib"
     THEN Goto("raised", <<Decision("UE_DECISION", "REJECT", "PRIMITIVE_PARAMETER_INVALID", Cause(Step)),
                           Failure("VALIDATION_FAILED", "PRIMITIVE_PARAMETER_INVALID")>>)
     ELSE Goto("answered", <<Decision("UE_DECISION", "ACCEPT", None, None)>>)
  /\ UNCHANGED <<Others, hit, peer, now, log>>

Deliver ==
  RecordRow \/ Send \/ Transmit \/ SocketFails \/ AnswerIsBad \/ Receive \/ Intercept \/ Consume \/ Validate

(***************************************************************************)
(* The peer's handler: the decision is recorded before the answer is sent. *)
(* Its rows carry no step.                                                 *)
(***************************************************************************)
ByPeer(row) == [row EXCEPT !.step = None]
PeerRows ==
  << ByPeer(NetworkDecision),
     ByPeer(Decision("GENERATED", Verdict, None, NetworkDecision.cause)) >>

Serve ==
  /\ peer.at = "asked"
  /\ peer' = [at |-> "serving", todo |-> IF fault.mirror THEN <<>> ELSE PeerRows]
  /\ UNCHANGED <<Others, hit, pc, todo, now, log>>

PeerRecord ==
  /\ peer.todo # <<>>
  /\ now' \in Ticks /\ Record(Head(peer.todo), now')
  /\ peer' = [peer EXCEPT !.todo = Tail(@)]
  /\ UNCHANGED <<Others, hit, pc, todo>>

Answer ==
  /\ peer.at = "serving" /\ peer.todo = <<>>
  /\ peer' = [peer EXCEPT !.at = "answered"]
  /\ UNCHANGED <<Others, hit, pc, todo, now, log>>

Peer == Serve \/ PeerRecord \/ Answer

(***************************************************************************)
(* The timer thread: _expire takes the guard out of the manager, publishes *)
(* the status, and calls back; the callback reads the clock, records, and  *)
(* only then sets the flag the orchestration thread polls.                 *)
(***************************************************************************)
TimerRest == <<fault, hit, at, pc, todo, peer, stop, run, seen>>

Expire(s) ==
  /\ guard[s].at = "running"
  /\ guard' = [guard EXCEPT ![s].at = "taken"]
  /\ UNCHANGED <<TimerRest, status, now, log>>

Publish(s) ==
  /\ guard[s].at = "taken"
  /\ now' \in Ticks
  /\ guard' = [guard EXCEPT ![s] = [at |-> "published", time |-> now']]
  /\ status' = [status EXCEPT ![s] = "EXPIRED"]
  /\ UNCHANGED <<TimerRest, log>>

ExpiryRow(s) ==
  [event |-> "TIMER_EXPIRED", corr |-> s, step |-> s, root |-> "TIMER_EXPIRED",
   decision |-> None, cause |-> None, fault |-> None, time |-> Unrecorded]

CallBack(s) ==
  /\ guard[s].at = "published"
  /\ Record(ExpiryRow(s), guard[s].time)
  /\ guard' = [guard EXCEPT ![s].at = "expired"]
  /\ UNCHANGED <<TimerRest, status, now>>

Timer == \E s \in Exchanges : Expire(s) \/ Publish(s) \/ CallBack(s)

(***************************************************************************)
(* The orchestration thread.                                               *)
(***************************************************************************)
InExchange == Step \in Exchanges

Expired ==
  /\ run = "running" /\ InExchange /\ guard[Step].at = "expired"
  /\ stop' = TRUE /\ run' = "failing"
  /\ UNCHANGED <<fault, hit, at, pc, todo, peer, guard, status, now, log, seen>>

\* TimerManager.stop publishes STOPPED whether or not the timer was there, after
\* the manager's lock: an expiry that was there first may publish before or after
\* that, one that comes later returns.  So one step is enough here; the expiring
\* side has two (Expire, Publish).
StopGuard(g, s) == IF g[s].at = "running" THEN [g EXCEPT ![s].at = "idle"] ELSE g

Begin(a) ==
  LET s == Activities[a] IN
  /\ at' = a
  /\ pc' = IF s \in Exchanges THEN "request" ELSE "validate"
  /\ stop' = FALSE

TakeResult ==
  /\ run = "running" /\ todo = <<>> /\ pc \in {"answered", "raised"}
  /\ InExchange => guard[Step].at # "expired"
  /\ LET stopped == IF InExchange THEN StopGuard(guard, Step) ELSE guard
         shown == IF InExchange THEN [status EXCEPT ![Step] = "STOPPED"] ELSE status
         next == IF at < Len(Activities) THEN Activities[at + 1] ELSE None
     IN IF pc = "answered" /\ next \in Exchanges
        THEN /\ guard' = [stopped EXCEPT ![next].at = "running"]
             /\ status' = [shown EXCEPT ![next] = "RUNNING"]
        ELSE guard' = stopped /\ status' = shown
  /\ CASE pc = "raised" ->
            run' = "failing" /\ UNCHANGED <<at, pc, stop>>
       [] pc = "answered" /\ at < Len(Activities) ->
            Begin(at + 1) /\ UNCHANGED run
       [] OTHER ->
            run' = "attached" /\ stop' = TRUE /\ pc' = "done" /\ UNCHANGED at
  /\ UNCHANGED <<fault, hit, todo, peer, now, log, seen>>

\* Mutant: cancel_all stops every timer, also those that have expired.
FinishFailure_StopsAll ==
  /\ run = "failing"
  /\ run' = "failed" /\ stop' = TRUE /\ seen' = Len(log)
  /\ guard' = [s \in Exchanges |-> StopGuard(guard, s)[s]]
  /\ status' = [s \in Exchanges |-> "STOPPED"]
  /\ UNCHANGED <<fault, hit, at, pc, todo, peer, now, log>>

\* _finish_failure: cancel_all stops what the manager still holds, then the
\* state is read once and analysed.  Of the guards it finds none: the one of this
\* exchange has been stopped or has expired.
FinishFailure ==
  /\ run = "failing"
  /\ run' = "failed" /\ stop' = TRUE /\ seen' = Len(log)
  /\ guard' = [s \in Exchanges |-> StopGuard(guard, s)[s]]
  /\ status' = [s \in Exchanges |-> IF guard[s].at = "running" THEN "STOPPED" ELSE status[s]]
  /\ UNCHANGED <<fault, hit, at, pc, todo, peer, now, log>>

Next == Deliver \/ Peer \/ Timer \/ Expired \/ TakeResult \/ FinishFailure

Spec == Init /\ [][Next]_vars

(***************************************************************************)
(* analyze.  A set of rows is as good as the sequence: times are distinct. *)
(***************************************************************************)
Rows(l) == ToSet(l)

\* Rows are ordered by the text of isoformat(): a row of the full second has
\* no fraction in its text, and "Z" sorts after ".".
Before(q, r) ==
  \/ q.time.sec < r.time.sec
  \/ /\ q.time.sec = r.time.sec
     /\ q.time.frac # 0
     /\ r.time.frac = 0 \/ q.time.frac < r.time.frac

NoRow == [event |-> None, corr |-> None, step |-> None, root |-> None,
          decision |-> None, cause |-> None, fault |-> None]
LastOf(S) == IF S = {} THEN NoRow ELSE CHOOSE r \in S : \A q \in S \ {r} : Before(q, r)
Of(S, event) == {r \in S : r.event = event}
LastRows(S, n) == {r \in S : Cardinality({q \in S : Before(r, q)}) < n}

DecisionEvents == {"DECISION", "UE_DECISION", "DELIVERY_DECISION"}
DecisiveEvents ==
  DecisionEvents \cup {"VALIDATION_FAILED", "TIMER_EXPIRED", "SOCKET_DROP",
                       "SOCKET_TIMEOUT", "SOCKET_ERROR", "GENERATED"}

Events(S, blind) == {r \in S : ~(blind /\ r.event = "FAULT_INJECTED")}
\* Mutant: the first decisive event is taken for the one that stopped the run.
Decisive_First(E) ==
  LET candidates == {r \in E : r.event \in DecisiveEvents \/ r.root # None}
  IN IF candidates = {} THEN NoRow
     ELSE CHOOSE r \in candidates : \A q \in candidates \ {r} : Before(r, q)

Decisive(E) == LastOf({r \in E : r.event \in DecisiveEvents \/ r.root # None})
Related(E) ==
  LET corr == Decisive(E).corr
  IN IF corr # None THEN {r \in E : r.corr = corr} ELSE LastRows(E, 12)

Failed(S) == {r \in S : r.event \in DecisionEvents /\ r.decision \in {"REJECT", "DROP"}}
Recovered(S) ==
  LastOf({r \in S : r.event = "SOCKET_RX" /\ r.decision \in {"REJECT", "DROP"}})

\* Mutant: only the failing correlation is searched for a decision.
DecisionOf_RelatedOnly(E, step) == LastOf(Failed(Related(E)))

\* A decision of the failing correlation, else of the failing step, else of the
\* transaction, else what the answer on the wire carried.
DecisionOf(E, step) ==
  LET rel == Related(E)
      ofStep == {r \in E : r.step = step}
  IN CASE Failed(rel) # {} -> LastOf(Failed(rel))
       [] Failed(rel) = {} /\ Failed(ofStep) # {} -> LastOf(Failed(ofStep))
       [] Failed(rel) = {} /\ Failed(ofStep) = {} /\ Failed(E) # {} -> LastOf(Failed(E))
       [] OTHER -> LET others == Recovered(ofStep \ rel)
                   IN IF others # NoRow THEN others ELSE Recovered(rel)

\* Mutant: an expired guard outranks what the consumer found.
Root_TimerFirst(E, step) ==
  LET rel == Related(E)
      failure == LastOf(Of(rel, "VALIDATION_FAILED"))
  IN IF Of(rel, "SOCKET_DROP") # {} THEN "SOCKET_DROP"
     ELSE IF Of(rel, "TIMER_EXPIRED") # {}
     THEN IF LastOf(Of(rel, "FAULT_INJECTED")).fault = "drop"
          THEN "PRIMITIVE_MISSING" ELSE "TIMER_EXPIRED"
     ELSE failure.root

\* Mutant: an injected field fault is blamed without evidence that it was consumed.
Root_FromFault(E, step) ==
  LET rel == Related(E)
      failure == LastOf(Of(rel, "VALIDATION_FAILED"))
  IN IF LastOf(Of(rel, "FAULT_INJECTED")).fault = "field" THEN "PRIMITIVE_PARAMETER_INVALID"
     ELSE IF failure # NoRow THEN failure.root
     ELSE Decisive(E).root

Root(E, step) ==
  LET rel == Related(E)
      failure == LastOf(Of(rel, "VALIDATION_FAILED"))
      faultRow == LastOf(Of(rel, "FAULT_INJECTED"))
      decisive == Decisive(E)
  IN CASE Of(rel, "SOCKET_DROP") # {} -> "SOCKET_DROP"
       [] Of(rel, "SOCKET_DROP") = {} /\ Of(rel, "SOCKET_TIMEOUT") # {} -> "SOCKET_TIMEOUT"
       [] OTHER ->
            IF failure # NoRow THEN failure.root
            ELSE IF Of(rel, "TIMER_EXPIRED") # {}
            THEN IF faultRow.fault = "drop" THEN "PRIMITIVE_MISSING" ELSE "TIMER_EXPIRED"
            ELSE IF DecisionOf(E, step).decision = "REJECT" THEN "NETWORK_REJECT"
            ELSE IF decisive = NoRow THEN "INSUFFICIENT_EVIDENCE"
            ELSE IF decisive.root # None THEN decisive.root ELSE decisive.event

Analyze(S, step, blind) ==
  LET E == Events(S, blind)
      decision == DecisionOf(E, step)
      root == Root(E, step)
  IN [ root |-> root, corr |-> Decisive(E).corr,
       decision |-> decision.decision, cause |-> decision.cause,
       verdict |-> IF decision.decision = "REJECT" THEN decision.cause
                   ELSE IF root = "INSUFFICIENT_EVIDENCE" THEN None ELSE root ]

(***************************************************************************)
(* run_system_checks, as far as the Attach decides its rows; the sockets,  *)
(* the task bus and NAS security are taken to be in order.                 *)
(***************************************************************************)
FlowLevel == IF run = "failed" THEN "FAIL" ELSE "PASS"
TimerLevel == IF \E s \in Exchanges : status[s] = "EXPIRED" THEN "FAIL" ELSE "PASS"
DecisionLevel ==
  LET decisions == {i \in DOMAIN log : log[i].event \in DecisionEvents}
  IN IF decisions = {} THEN "INFO"
     ELSE IF log[Max(decisions)].decision \in {"REJECT", "DROP"} THEN "FAIL" ELSE "PASS"
FaultLevel ==
  IF fault.what = None THEN "INFO"
  ELSE IF Of(Rows(log), "FAULT_INJECTED") # {} THEN "PASS" ELSE "WARN"
Levels == {FlowLevel, TimerLevel, DecisionLevel, FaultLevel}
Overall == IF "FAIL" \in Levels THEN "FAIL" ELSE IF "WARN" \in Levels THEN "WARN" ELSE "PASS"

(***************************************************************************)
(* Properties.                                                             *)
(***************************************************************************)
Snapshot == Rows(SubSeq(log, 1, seen))
Report == Analyze(Snapshot, Step, FALSE)
Rerun == Analyze(Rows(log), Step, TRUE)
Reported == run = "failed"
\* A guard's callback that came too late to count, recorded in a later step.
LateGuard == \E r \in Rows(log) : r.event = "TIMER_EXPIRED" /\ r.corr # Corr
FullSecond == \E r \in Rows(log) : r.time.frac = 0
Orderly == Reported /\ ~LateGuard /\ ~FullSecond

\* The type of every variable: no status or guard outside a timer's life, no
\* two rows of one time, nothing analysed that is not recorded.
TypeOK ==
  /\ hit \in BOOLEAN /\ stop \in BOOLEAN /\ at \in 1..Len(Activities)
  /\ pc \in {"request", "transmit", "sent", "response", "consume", "validate",
             "answered", "raised", "done"}
  /\ peer.at \in {"idle", "asked", "serving", "answered"}
  /\ \A s \in Exchanges :
       /\ guard[s].at \in {"idle", "running", "taken", "published", "expired"}
       /\ status[s] \in {"IDLE", "RUNNING", "STOPPED", "EXPIRED"}
       /\ guard[s].at \in {"published", "expired"} => status[s] \in {"EXPIRED", "STOPPED"}
       /\ guard[s].at = "running" <=> status[s] = "RUNNING" /\ guard[s].at # "taken"
  /\ run \in {"running", "failing", "failed", "attached"}
  /\ seen \in 0..Len(log)
  /\ Cardinality({r.time : r \in Rows(log)}) = Len(log)

\* analyze: whatever the threads record late or out of turn, the report is about
\* the step that failed; only a callback of an earlier guard that was still under
\* way, or a row of a full second, may draw it to an earlier one.
ReportIsAboutTheFailure == Orderly => Report.corr = Corr

\* analyze never lets an earlier ACCEPT, a timer or a transport failure hide a
\* REJECT or DROP: a decision is named exactly when there is one in the evidence,
\* as an event or inside an answer that arrived.
RejectionIsFound ==
  Reported =>
    ( (Report.decision \in {"REJECT", "DROP"}) <=>
      (Failed(Snapshot) # {} \/ Recovered(Snapshot) # NoRow) )

\* The table of docs/ATTACH_AND_DIAGNOSIS.md: once an injected fault has hit, and
\* nothing went wrong with the socket itself, the root cause is the one that the
\* fault stands for, or the guard's expiry where that came before any of the
\* fault's effects was recorded.
RootOfFault ==
  [ socket_field |-> "NETWORK_REJECT", socket_drop |-> "SOCKET_DROP",
    socket_delay |-> "TIMER_EXPIRED", field |-> "PRIMITIVE_PARAMETER_INVALID",
    sib |-> "PRIMITIVE_PARAMETER_INVALID", drop |-> "PRIMITIVE_MISSING",
    timer_timeout |-> "TIMER_EXPIRED", delay |-> "TIMER_EXPIRED",
    duplicate |-> "DUPLICATE_PRIMITIVE" ]
SocketTrouble ==
  \E r \in Snapshot : \/ r.event \in {"SOCKET_TIMEOUT", "SOCKET_ERROR"}
                      \/ r.root \in {"PRIMITIVE_MALFORMED", "UNEXPECTED_PRIMITIVE"}
RootNamesTheFault ==
  Orderly /\ ~SocketTrouble /\ (\E r \in Of(Snapshot, "FAULT_INJECTED") : r.corr = Corr) =>
    \/ Report.root = RootOfFault[fault.what]
    \/ /\ Report.root = "TIMER_EXPIRED" /\ fault.what # "drop"
       /\ Of(Snapshot, "VALIDATION_FAILED") = {} /\ Of(Snapshot, "SOCKET_DROP") = {}

\* A rejection that came over the wire keeps its verdict when the decision events
\* are lost, as in a reduced snapshot or from an interrupted recorder: it is read
\* from the answer again.
MirrorLossIsHarmless ==
  LET lost == {r \in Snapshot : r.event \notin {"DECISION", "GENERATED"}}
  IN Orderly /\ Recovered(Snapshot) # NoRow =>
       Analyze(lost, Step, FALSE).verdict = Report.verdict

\* The decision of the peer is neither hidden nor lost.
RejectionIsKept == RejectionIsFound /\ MirrorLossIsHarmless

\* The rerun without injection evidence.  On the same rows it comes to the same
\* verdict, but for a dropped primitive; made later, when the deliver thread, the
\* peer or the timer has recorded more, it still names the rejection.
BlindRerunAgrees ==
  Orderly =>
    /\ Report.decision = "REJECT" => Rerun.verdict = Report.verdict
    /\ \/ Analyze(Snapshot, Step, TRUE).verdict = Report.verdict
       \/ /\ Report.root = "PRIMITIVE_MISSING"
          /\ Analyze(Snapshot, Step, TRUE).root = "TIMER_EXPIRED"

\* run_system_checks agrees with the report: a run that was ended by its guard
\* shows an expired timer, cancel_all notwithstanding, and a run that attached
\* with every guard stopped in time shows nothing that failed.
SystemCheckAgrees ==
  /\ Orderly /\ ~SocketTrouble /\ Report.root \in {"TIMER_EXPIRED", "PRIMITIVE_MISSING"}
       => TimerLevel = "FAIL"
  /\ run = "attached" /\ (\A s \in Exchanges : guard[s].at = "idle") => Overall # "FAIL"

\* Types, the life of a guard and its published status, and the check's rows.
StatusIsTrue == TypeOK /\ SystemCheckAgrees
=============================================================================
