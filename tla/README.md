# LTE control-plane simulation: TLA+ models and proofs

The repository simulates the control plane of an LTE modem: an AT command starts
an Attach, an orchestration thread sends it step by step through the UE's tasks,
a socket and an eNB/MME peer, with NAS security, injected faults and timers, and
a separate service protects media packets with SRTP and SRTCP. This directory
holds TLA+ models of that code, the TLC configurations that check them on small
instances, and proofs that TLAPS checks for every instance.

Paths below are relative to `src/lte_sim/`.

## 1. What the system consists of

| Component | State it keeps | Operations | Modelled in |
|---|---|---|---|
| Attach engine (`control_plane/engine.py`, `models.py`, `control_plane/specs.py`) | `_current_ctx` with its cancel events, one orchestration thread per transaction | `start_attach`, `stop_attach`, `reset`, `set_cfun_zero`; `_run_attach`, `_exchange`, `_finish_*`; the task handlers | `AttachEngine`, `NasExchange` |
| Timers (`runtime/timers.py`, `runtime/clock.py`) | one record per timer, a `threading.Timer` for each armed one, their published status | `start`, `stop`, `cancel_all`, `_expire` | `AttachEngine`; the published status of the guards in `Diagnosis` |
| Task bus (`runtime/taskbus.py`) | an inbox and a thread per task, a reply queue per request | `submit`, `request`, `stop`, `_run` | `TaskBus`; in `AttachEngine` the result of a request |
| State store (`state.py`) | the state tree, its file, subscribers with their queues, a notice timer | `mutate`, `log`, `_persist`, `broadcast`, `subscribe`, `record_task_event`, `reset_runtime` | notices and file in `StateStore`, task events in `TaskBus`, `reset_runtime` and the Attach's writes in `AttachEngine` |
| Run archive (`run_archive.py`, `run_repository.py`) | files per finished run | `archive_current` | which run, and that it may fail, in `AttachEngine`; what it is given for a remote run in `RemoteMirror` |
| eNB/MME peer (`control_plane/network_context.py`, `network.py`) | a context per transaction, at most 16, in order of creation | `build_enb_response` and its eviction | `NasExchange` |
| NAS security (`security_engine/nas_security.py`) | COUNT up and down, a replay window, kind and mode | `protect`, `unprotect` | `NasExchange` |
| SRTP and SRTCP (`security_engine/core.py`, `srtcp.py`) | replay windows, sequence tracking, SRTCP index per SSRC | `protect`, `unprotect`, `rekey`, `close` | `ReplayWindow`, `SrtpSession` |
| Security service (`security_engine/service.py`, `session.py`) | master key, keys used by the session, the four contexts, packet count, one NAS context | `establish`, `restart`, `rekey`, `disable`, `protect`, `unprotect`, `prepare_nas_context` | `SrtpSession`, `NasExchange` |
| Fault injection (`fault_injection/core.py`) | the armed fault, used once per Attach | `arm`, `consume`, `intercept` | `NasExchange` |
| Diagnosis (`diagnostics/engine.py`) | none | `analyze`, normal and blind; `run_system_checks` | `Diagnosis`, with the threads that write the rows it reads |
| AT parser and modem handler (`at.py`, `network.py`) | none of their own | parse, dispatch to the engine | the calls are the engine's operations |
| LAN agent and mirror (`lan.py`, `modem_agent.py`) | a copy of a remote run and its evidence pages, the last archived transaction, whether the agent is reached | poll, page, merge, archive, LAN test | `RemoteMirror` |
| HTTP handlers (`http_api.py`) | a thread per request or event stream | the engine's operations, SSE, LAN test, blind rerun, system check | as actions of the modules above |
| Configuration, resources, packet capture, UDP lab, trace and scenario files, start page, firewall | | I/O, formatting, scripts | not modelled |

How they interact. Any number of **request threads** (the AT handler, the HTTP
server, the LAN agent) call the engine. `start_attach` makes a context under
`_ctx_lock`, writes the flow into the store and starts an **orchestration
thread**. For each of eight exchanges that thread arms a *guard* timer, starts a
**deliver thread** which asks the RRC task over the bus, and polls a queue for
the answer, the guard's `expired` event and its own cancellation. The RRC task
asks L2, L2 asks L1, L1 encodes, protects and sends over a socket to the **peer**,
whose handler decides under one lock. **Timer threads** run `_expire`. All of them
write the one store, whose lock is taken per write and not across the check that
precedes it.

### What is hard here

* `_ctx_lock` is released before `mutate` takes the store's lock: everything that
  is checked before a write may be out of date when the write happens. What saves
  the code, where it is saved, is that most writes compare the transaction id once
  more under the store's lock.
* Cancellation is cooperative and requests wait for it 0.6 s only: a cancelled
  thread may still be unwinding when the next transaction runs. Both use the same
  timers, tasks, UE NAS context and store.
* A guard, a response and a cancellation race, and the loser's message still
  travels: a request that nobody waits for may reach the peer late, and change it.
* A cancelled or superseded transaction leaves COUNTs, windows and contexts behind
  that the next must neither inherit nor trip over.
* The store announces a change by merging notices: a `Timer` may be late, cancelled
  or already running when the next change comes, and a full queue loses its oldest
  event. Three locks are taken one after the other.
* A worker answers into the reply queue of a requester that may have given up; the
  worker may itself be waiting for the next worker.
* The mirror sees the agent only when it polls, and takes the evidence in pages
  while the agent goes on, is reset, or begins the next run.
* The report of a failure is computed from rows that the deliver thread, the peer and
  a timer thread write into one log in no fixed order, some of them after it.
* 16 bits of a packet index are all that travels; the rest is guessed.

PROJECT.json lists these one by one, at the line where each bites.

### What makes each part correct

* *Engine*: one live transaction; the flow on display shows only its own steps, in
  order; ATTACHED only after all of them; each run recorded once; no timer left
  armed; every thread ends.
* *Exchange, peer and NAS security*: UE and peer in lockstep; a fault that can be
  seen is never lost on the way; a clean Attach succeeds whatever came before it;
  nothing altered moves a receiver; no COUNT is used twice; contexts and their
  order of eviction agree.
* *SRTP*: no key stream twice; no packet accepted twice; nothing genuine and near
  refused.
* *Bus*: whoever asks gets the answer to that request or an error; a cycle of waits
  never forms; every worker can be stopped; what a superseded request left on the board
  is gone with the next request to that task.
* *Store*: what a caller was told is saved is in the file wherever the process ends;
  a browser that does not show the last logged change has a refresh coming.
* *Mirror*: the evidence a remote run is archived from is whole and of that run alone;
  its events are archived as they were verified, and of its log nothing is missing for
  older rows; a finished run is archived once, and in the end archived; the dashboard
  says of it what is so.
* *Diagnosis*: the report is about the step that failed and names the fault that was
  injected; a REJECT is never hidden by anything else; normal report, blind rerun and
  system check agree.

## 2. The modules

```
AttachLifecycle   <-- implemented by --   AttachEngine     -- AttachEngineMC
                                             |__ AttachEngineProofs
AttachHandshake   <-- implemented by --   NasExchange      -- NasExchangeMC, NasExchangeProofs
ReplayWindow  <-- used by --  NasExchange, SrtpSession     -- SrtpSessionMC
      |__ ReplayWindowProofs  <-- used by --  SrtpSessionProofs, NasExchangeProofs
StateStore    -- StateStoreMC, StateStoreProofs
TaskBus       -- TaskBusMC, TaskBusProofs
RemoteMirror  -- RemoteMirrorMC, RemoteMirrorProofs
Diagnosis     -- DiagnosisMC, DiagnosisProofs
```

The MC modules give a module its instance for TLC. `AttachEngine` leaves open what
`NasExchange`, `TaskBus` and `StateStore` do in detail: an answer of the bus is any
outcome or none (`Deliver`), a store write is atomic and may fail to reach the file.

**AttachEngine** is the engine with its threads and timers. A step is what the
code does between two points where another thread can see or disturb it: a
checkpoint and the store write after it are two steps, a `mutate` is one.

| Variable | Code |
|---|---|
| `current`, `cancelled`, `made` | `_current_ctx`, the cancel events, the contexts created |
| `pc[t]`, `at[t]` | where in `_run_attach` the thread of `t` is, and in which of its activities |
| `reply[t]`, `expired[t]` | the response queue and the `expired` event of its present `_exchange` |
| `guard[i]`, `proc[n]` | who armed the guard of stage `i`, the timers T3410, T3460, T3450 |
| `modem`, `flow`, `metrics`, `history`, `report`, `archive` | the parts of the store |
| `cpc[c]`, `cctx[c]` | where request thread `c` is, and the context it holds |

Actions carry the names of what they model: `BeginStart`, `CreateCtx`,
`InitAttach`, `EnableCheck`, `EnableWrite` and `Launch` are `start_attach`;
`StopRead`, `StopCancel`, `StopWrite` are `stop_attach`; `EnterCheck`,
`EnterWrite`, `BusRequest`, `CampWrite` and `BeginExchange` to `TakeReply` one
activity of `_run_attach`; `BusTimeout`, `LateCheck` and `LateCamp` a request to the UE's
own tasks that is given up and handled all the same. Of its ends, `FinishCheck` and
`FailCheck` are the checks of the context, `StopTimers` the `cancel_all` all three begin
with, `SuccessWrite`, `FailWrite` and `Unwind` their writes, `ArchiveRun` the snapshot and
the files, `ArchiveWrite` and `ArchiveFailed` what is written to `runArchive` after them. What
the rest of the system answers (`Deliver`) is left open: any outcome, or none.

**NasExchange** is what AttachEngine leaves open: the path of a message through
`_exchange`, the RRC, L2 and L1 tasks, the socket and the peer, and back, with the
NAS contexts of both sides and one configured fault per transaction.
`phase`, `done`, `answer` are the orchestration thread, `l1` the three tasks (each
waits for the next inside its handler, so they hold one message between them),
`wire` the requests sent and not yet served, `mme` and `order` the peer's
`_transactions` and `_order`, `ueNas` the NAS context of SecurityContext. `Serve` is
`build_enb_response`: `Ready` says which state a message needs, `Verified` and
`AfterVerify` what its PDU does, `Granted` and `Rejected` what is decided, `Store`
the context created and the oldest evicted.

**ReplayWindow** holds the pure functions of `security_engine/core.py`
(`Estimate`, `Rejects`, `Commit`), used for SRTP and for NAS. A bitmap is a
natural number, as in the code. **SrtpSession** is the media half of
SecurityContext: four contexts under one master key and the set of keys used.

**StateStore** is the store as its threads and browsers see it. `lock` is `_lock` where it is
held over more than one step, `saved` whether the file holds all that was acknowledged,
`fresh` and `noticeTimer` the two notice fields, `subscribers`, `queue` and `client` the
event streams, `missing` the changes a browser does not show, `pc` each thread and
each `Timer`. `MutateCheck` to `MutateAnnounce` are `mutate`, `PersistWrite`,
`PersistReplace` and `PersistFail` its write of the file, `LogChange` and `ScheduleNotice`
are `log`, `FlushNotice` the Timer's callback, `ListClients` to `EndBroadcast` are
`broadcast`, `Subscribe` to `Disconnect` are `handle_events`. `Crash` ends the process.

**TaskBus** is the bus with the handlers that call it again. `inbox`, `worker`, `client`,
`stop` are the fields and threads of each task and each requester, `busy` what the board
(`taskRuntime`) shows. `CallerCalls`, `Submit`, `Enqueued`, `Receive` and
`GiveUp` are `request`; `Loop` to `Leave` are `_run`; `StopBegins`, `StopPuts` and
`StopMakesRoom` are `stop`. Two operations replace the transaction on display, after which the
events of its requests are ignored (`Supersede`): `StartAttach` leaves the board as it is,
`ResetRuntime` rebuilds it. The history variable `left` holds the tasks that were shown BUSY when
the transaction on display began, until it makes them a request.

**RemoteMirror** is the controller's `_loop` against a modem agent that goes on by itself.
`agent` is the agent's store, `mirror` the thread with its transfer, `local` the
controller's store, `flags` the three fields of the loop, `runs` and `earlier` what
has been archived by this process and by one before. `Poll`, `PollFails`, `FetchPage`,
`MergeTerminal`, `Archive`, `TransferFails` are the loop; `OwnLog` is whatever else the controller
logs; `Restart` is another controller process; `LanTest` is the HTTP handler that writes the
same fields. The agent's steps (`StartAttach`, `AddRow`, `Finish`, `AgentReset`) are what the engine
and the store of the other process do to the evidence. Events are replaced by the merge of a
transfer; rows of the log are merged by their identity into the controller's log, which holds those
of earlier transactions and its own as well, is cut from its old end, and is archived as it is
(`Merged`, `Cuts`).

**Diagnosis** has the threads that record one Attach up to its failure (`pc` and `todo`
the deliver thread, `peer`, `guard`, `run` the orchestration thread), each row with
the time its writer took, and `Analyze` as an operator on the rows:
`Decisive`, `Related`, `DecisionOf` and `Root` are the parts of `analyze`,
`TimerLevel` to `Overall` the rows of `run_system_checks`. `seen` is how many rows the
report of the failure was made from; later ones only enter a rerun.

**AttachLifecycle** and **AttachHandshake** are the two abstract specifications:
transactions open one at a time, each closed for good and recorded at most once
before; and peer and UE going through eight exchanges in lockstep.
`AttachEngine!ImplementsLifecycle` and `NasExchange!ImplementsHandshake` state the
refinements, with mappings at the end of the two modules.

### Abstractions

* AttachEngine: a timer's expiry is one step; bounded joins never block for good
  and guard nothing; the poll of `_delay` is merged with the checkpoint after it. `cancel_all`
  is one step although it takes the manager's lock once per timer. The snapshot for the
  archive and its files are one step: nobody else reads the files.
* NasExchange: the checks at the start and at the end of an exchange are merged
  with the steps they precede, since AttachEngine has them apart. A guard or a
  socket may time out at any time. Message fields are abstracted to whether the
  peer's policy accepts them (`valid`), with the default cell configuration; a fault
  in a field that nobody checks, or a delay, is no fault. A PDU is known by
  transaction, direction, kind and COUNT, and whether it is genuine.
* StateStore: the content of the state is abstracted to which of the two kinds of
  change a browser lacks, since an event only says *that* something changed. Times
  are abstracted to `fresh`, which may be either after any announcement, as the
  time that is written was read earlier. Calls, crashes and connections are not
  bounded; `Timers` bounds how many Timer objects exist at once. Each write prepares a file
  of its own (`mkstemp`) and replaces the state file by it. `saved` speaks of the file this process
  wrote: a restart does not take over all of it (`_load` drops metrics, reports and
  configuration, and the next write leaves them out), which is not modelled.
* TaskBus: a request is known by the requester that still waits for it; one given
  up has nobody. Payloads and results are left out: an answer is an answer.
  A timeout may come at any time.
* RemoteMirror: two streams stand for the four that are archived: `events` for
  `runtimeEvents`, `taskEvents` and `faultEvidence`, which a start clears, and `logs`, which it
  keeps. `protocolTrace` and `packetTrace` are fetched and shown like the first, but not archived. A
  row is its transaction and number, a digest the stream itself. Every call may fail. Of the log
  only the rows of transactions are kept account of, as a set: the others make it full, and their
  times are of another clock, so any number of the oldest may be cut at any write. Left out are
  the events a poll shows, rows of the log that an older transaction still writes, what is
  cut out of long rows, and the connections that are kept from one poll to the next.
* Diagnosis: two exchanges and the check between them stand for the flow; only the
  rows that `analyze` selects by are recorded, and only the fields it reads. A fault
  is what its kind does to the run. `Seconds` says how often the clock may stand on
  a full second (section 6). A row of the deliver thread or the peer takes its time in the step that appends
  it (`state.py:651` takes it just before the `mutate` of lines 653-659), that of a guard's callback
  earlier. `analyze` sorts by time, so only a row whose time is taken before the report and which is
  appended after it is treated differently: it enters a rerun as the last one, where in the
  code it could also stand just before the last row of another thread. `stop` and the publication of
  its status are one step of the orchestration thread; the expiry beside it is two, so that
  either may be shown last.
* SrtpSession: a packet is known by key, SSRC and index, since its tag covers them;
  one altered on the way is refused without a change and is not modelled. An
  unencrypted SRTCP packet counts as a use of its index. `restart` with
  `allow_same_key` has no caller and is not modelled.

## 3. The runs

Every run takes less than five minutes on two workers.

| Run | Instance | States | What it shows |
|---|---|---|---|
| `one_tx` | 1 transaction, 2 request threads, 4 operations, writes may fail | 470 k | type; ATTACHED only with a complete, recorded run; the flow is closed when all is at rest |
| `two_tx` | 2 transactions, 1 request thread, 3 operations | 749 k | the second started while the first unwinds: steps on display are a prefix, one live transaction, the step blamed is the first incomplete one, the timers that are left, outcomes counted once, ATTACHED ends by request only, AttachLifecycle implemented |
| `liveness` | 1 transaction, 1 request thread, 3 operations, writes may fail | 27 k | under fairness every thread ends, cancelled ones included |
| `nas_faults` | 1 transaction, every fault on every stage, a cancellation at any point | 104 k | only genuine PDUs count; no visible fault ends in success; AttachHandshake implemented |
| `nas_serial` | 2 transactions, one cancelled or spoiled | 967 k | UE and peer agree when attached; a clean Attach succeeds; COUNTs advance |
| `nas_eviction` | 3 transactions, capacity 2 | 768 k | no half-made context ends ATTACHED; `ContextsInv`: types, and `_order` matches `_transactions` |
| `srtp_media` | 2 keys, 2 streams, 4 packets, index space 8, window 3 | 1.59 M | the five properties named below |
| `notices` | 2 threads, 2 Timers, 1 browser, queue of 1 | 1.17 M | type; no logged change is forgotten; what was acknowledged is in the file |
| `requests` | 1 caller, 2 tasks one of which calls the other, inboxes of 1 | 316 k | `BusInv`: types, and BUSY only at work or left over from the transaction before; own answer or none; under fairness every call ends and every worker stops |
| `archive` | 2 remote transactions, pages of 1 row, streams of 2 | 547 k | `DashboardIsTrue`, `ArchivedRunsAreTrue`; a stream is taken as it was at one moment; under fairness every finished run is archived |
| `reports` | every fault on both exchanges, every order of the threads | 1.87 M | the report is about the failure, keeps a rejection, names the fault; the blind rerun and the system check agree (`StatusIsTrue`) |
| `trailing_update` | as `notices` | 151 | finding, section 6 |

The runs of `archive`, `reports`, `requests` and `nas_eviction` name conjunctions:
`DashboardIsTrue` is TypeOK, TransferIsTrue, ReverseIsEarned and OfflineIsShown;
`ArchivedRunsAreTrue` is ArchivedRunIsWhole, NoForeignRows and ArchivedOnce;
`RejectionIsKept` is RejectionIsFound and MirrorLossIsHarmless; `StatusIsTrue` is TypeOK and
SystemCheckAgrees; `BusInv` is TypeOK and BusyIsTrue; `ContextsInv` is TypeOK and
OrderMatchesContexts.

`srtp_media` checks, for every order of establish, rekey, restart, disable,
protect and unprotect: the type, that no key stream is used twice, that no packet is
accepted twice, that nothing genuine and near is refused, and that the sequence
number the service allocates is one the stream accepts.

### Why the bounds are enough

* `MaxTx` 2: interference between transactions is between one and the one that
  replaced it, which is why two are needed; a third would meet only threads that the
  second has met. SingleFlight and CompletedIsPrefix are proved for any number.
  `MaxOps` 4 lets a start, a reset or CFUN=0, another start and a stop interleave.
  Two request threads are needed for operations that overlap one another. `PersistMayFail` is TRUE
  where the properties hold although any write of the state file may raise, and FALSE in `two_tx`,
  four of whose properties then do not hold (section 6, *persist failure*).
* `MaxTx` 3 with `Capacity` 2 (16 in the code) is the least that evicts a context
  whose transaction still has a late request on the way. In the code that takes 16
  newer transactions.
* `Serial` says that one request thread acts at a time. It is TRUE where a property
  holds only then (section 6, *late disable*, says what happens otherwise) and FALSE in
  `nas_faults`.
* `MaxRequests` 1: the cancelling operation that falls anywhere into an Attach.
* `Half` 2 and `MaxRoc` 1 give eight indices over two rollovers: four packets wrap the
  sequence number, use a stream after the other, and reach the end of a window of
  width 3. `RtcpLimit` 2 is reached. `Keys` 2 is enough for "used before, not in
  use now"; keys are symmetric.
* `notices`: two threads are enough for one to replace the file, fill the queue or
  cancel the Timer of the other; with `QueueSize` 1 (200 in the code) the queue is full
  after one event; a second Timer is needed beside a cancelled one that runs
  already. Browsers do not influence one another. The three properties are proved
  for any number of each.
* `requests`: RRC and L1 are the two ends of the chain of RRC, L2 and L1; L2 in between
  only passes on, as RRC does. `InboxSize` 1 (64) is full with one request that was given up.
  BusInv and OwnAnswer are proved for any chain of tasks, any callers and any size.
* `archive`: `MaxTx` 2, one to archive and one that replaces it. One stream has one
  row and fits a page; the other has two, does not fit a page of 1 (48), is not in a
  snapshot window of 1 (32 to 56) and loses rows to the next run, as `Keep` is 2 (240 to 2000).
  `Failing` names the steps of the LAN test that may fail; the run lets the reverse path
  fail, the step that leaves the others' success on display. `Saved` 1 (80) is how much of the log a
  restarted agent reads back. The action constraint `PathOrRuns` keeps TLC from multiplying the
  values of the reverse path with the states of the transfer: they are followed until the agent
  begins its first run, and after that stay unused. Nothing but the path itself reads
  them (a poll and a LAN test write them, whatever the transfer does), and every step of the loop has an
  outcome that the constraint allows, so fairness is not weakened. The safety properties are proved
  for any bounds, any set of failing steps and without the constraint.
* `reports`: one exchange that passes and one that fails, in that order or not, with
  the step without an exchange in between: earlier rows of another correlation, of
  the same correlation and of another step all occur.

CHECK_DEADLOCK is FALSE where operations and transactions are bounded: when they
are used up and all threads have ended, nothing is left to do. SrtpSession can always
establish or be disabled, the store can always crash and the mirror always poll, so it
is checked there. A bus whose workers have been stopped, and an Attach that has ended
with all its rows written, have nothing left to do.

### Fairness

`FairSpec` asks weak fairness of each started thread (request in progress,
orchestration, deliver) and of each armed timer: the interpreter schedules every
runnable thread, and `threading.Timer` fires unless it is cancelled. No lock is
held while waiting for another thread, so each step stays enabled until taken or
disabled by another thread's step. Nobody is obliged to *begin* an operation. The
run has one transaction and one request thread: with more transactions a superseded
thread's `cancel_all`, and with more request threads that of an operation that has been
overtaken by a start, may stop the guard the present Attach depends on (section 6,
*dropped*), and termination does not hold.

`TaskBus!FairSpec` asks the same of the steps of requesters, workers and `stop` once begun.
A timeout is only asked for where nothing will answer any more (`Hopeless`): each `get` of the
reply queue has a timeout, so the wait ends then; a wait that will be answered need not
time out. Nothing makes anybody call or stop the bus. `RemoteMirror!FairSpec` asks that the
mirror's thread goes on. That a finished run is archived is claimed where trouble ends
(`<>[][~Trouble]_vars`): calls and disk may fail any number of times before.

## 4. What is proved

TLAPS checks the following for every value of the constants that meets the named
assumptions of the modules.

| Theorem | Says |
|---|---|
| `TypeCorrect` | AttachEngine's type invariant |
| `SingleFlightHolds` | at most one transaction can pass a checkpoint |
| `CompletedIsPrefixHolds` | the steps on display are a prefix of the eleven |
| `AttachedMeansAllStepsHolds` | ATTACHED only with a complete, finished run recorded as a success, even when the state file cannot be written |
| `OutcomesAccountedHolds` | each transaction enters the history once, outcomes never exceed attempts |
| `AttachedEndsByRequestHolds` | only a request takes ATTACHED away |
| `EngineImplementsLifecycle` | AttachEngine implements AttachLifecycle |
| `QuiescentRunIsClosedHolds` | when nothing runs any more the flow does not claim to run, unless `start_attach` gave up after its first write |
| `FailedStepIsFirstIncompleteHolds` | a failed run blames the first step it did not complete |
| `NoOrphanTimersHolds` | when nothing runs any more no procedure timer is armed, nor a guard of the last transaction |
| `EstimateCorrect` | the guessed index is right for every index less than half a sequence space away |
| `SessionTypeCorrect` | SrtpSession's type invariant: a bitmap never outgrows its window |
| `NoKeystreamReuseHolds` | no two packets under one key stream |
| `NoReplayHolds` | no packet is accepted twice |
| `NothingGenuineRefusedHolds` | a near packet that was not returned yet is not refused |
| `DefaultSequenceIsFreeHolds` | the sequence number the service allocates is one the stream accepts |
| `StoreTypeCorrect` | StateStore's type invariant: no subscriber's queue outgrows its size |
| `AckedIsDurableHolds` | what a `persist=True` call returned for is in the file wherever the process ends |
| `LogRefreshUnderWayHolds` | a subscribed browser that lacks a logged change has a refresh coming |
| `TableIsBounded` | the peer's contexts and their order of eviction name the same transactions, at most `Capacity` |
| `OnlyGenuineIsCommitted` | what the peer's window holds was sent by the UE in that transaction, unaltered |
| `FaultsAreSeen` | no Attach with a visible fault ends in success |
| `UeAndPeerAgree` | an attached UE has an attached peer that has received both protected messages once |
| `AttachedContextsAreComplete` | an ATTACHED context went through every procedure, whatever was evicted |
| `ExchangesImplementHandshake` | NasExchange implements AttachHandshake |
| `CountsAreUsedOnce` | no COUNT goes out twice under the keys of one transaction |
| `CleanRunsSucceed` | no Attach without a fault and a timeout fails before the peer has to make room |
| `BoardIsTrue` | a task shown BUSY is at work, unless it was shown so when the transaction on display began and has had no request from it since; inboxes keep their size |
| `AnswersAreOwn` | a requester takes the answer to the request it waits for and no other |
| `DashboardTells` | what the dashboard says of transfer, reverse path and agent is so |
| `ArchiveIsWhole` | an archived run was made of evidence of its transaction alone, which is whole while the agent keeps that run on display; its events are archived as verified, of its log nothing is missing for an older row; it is there once |
| `StreamsAreTakenAtOnce` | a stream put together from pages is the agent's stream at the moment of the last |
| `ReportsAreAboutTheFailure` | the report is about the exchange that failed |
| `RejectionsAreKept` | a rejection is named exactly when the evidence holds one, and survives the loss of its events |
| `RootsNameTheFault` | the root cause is the one the injected fault stands for |
| `BlindRerunsAgree` | without the injection evidence the verdict is the same |
| `StatusesAreTrue` | the published timer statuses and the system check fit the outcome |

`OutcomesAccountedHolds`, `AttachedEndsByRequestHolds`, `EngineImplementsLifecycle` and
`FailedStepIsFirstIncompleteHolds` assume `~PersistMayFail`: they are false otherwise
(section 6, *persist failure*). `CountsAreUsedOnce` and `CleanRunsSucceed` assume `Serial`, that
request threads act one at a time, and are false otherwise (section 6, *late disable*).

The argument, engine. `FlightInv` adds to SingleFlight who is where: transactions
are created in order, at most one request thread is between creating a context and
starting its thread, and it holds that context. Without it, nothing would say that
the transaction a late `start_attach` launches is the current one or cancelled.
`PrefixInv` adds that a live thread whose run is on display is exactly where the
flow says (StepsFollowThread): that is why the step it adds is the next. `OutcomeInv`
says that a run on display still owes its outcome until its thread has written it,
so the attempts stay ahead by one, and that only transactions past that write are in
the history. `AttachedInv` adds to AttachedMeansAllSteps that the run on display
beside ATTACHED is past its success write. Each is inductive; its proof has one
lemma per group of actions and one step per action. The refinement needs FlightInv
(for Open) and OutcomeInv (for RecordResult).

What an ended run leaves has an invariant each. `ClosedInv`: a run on display that
claims to be under way has a current thread that will end it, or a start is about to
replace it. `BlameInv`: from showing its step until it has failed, a thread finds its own
step on display and all earlier ones complete, so the two names a failure may carry
are one. `ProcInv` and `GuardInv` say who will still stop a timer: a start that has not cleaned
up yet, a thread that is current, or one that has noticed that it is not. The
context of the last transaction is not replaced, so its thread stops the
guards wherever it ends; of the guards of earlier ones this is not true (section 6, *Timers*).
`LateInv`: only a thread that has failed leaves a request behind it, so CAMPED is never written late
over the ATTACHED of a run on display.

The argument, SRTP. `SessionInv` is the type, *KeysUsed* (every packet's key was
recorded as used, so a key that is not known protected nothing), *Indices* (under the
present key, what a stream has sent is marked in its sender's window or older than
it, or below the next SRTCP index, and what was accepted likewise at the receiver), *Numbered* (packets have distinct numbers) and
NoKeystreamReuse. It rests on the lemmas of ReplayWindowProofs: what `Commit` marks
stays rejected for good. For NothingGenuineRefused it takes the converse too: `Commit` marks nothing but
what it is given, and what a receiver has marked (`MarksInv`) its sender has sent in this
session, so that no packet of a later key will have that index, since rekeying keeps the
windows. `Ahead` (the shared counter exceeds the default stream's highest index) is inductive because the
guess of an index never runs ahead of a larger number with the same low bits
(EstimateNotAhead). No arithmetic on widths is fixed: any window, any space.

The argument, store. A write of the file keeps `saved` true only because whoever
prepares a file and replaces the state file by it holds `_lock` throughout (`FileLocked`):
an older file can then not come last. That a refresh is under way is kept by
every step that ends one: an event lost from a full queue is replaced by the broadcast
that displaced it; a `log` that asks for nothing does so because a Timer is pending,
and `TimerPending` says that the Timer the store remembers has not begun its broadcast, so
it will reach who is subscribed then; a Timer is only cancelled by the thread that
broadcasts in its stead. `Places` says which fields a broadcast has set where. The
lemmas TailKeeps and AppendKeeps say what a queue keeps, OthersKeep that a step of one
thread leaves the refresh of all others alone.

The argument, exchange. `NasInv` has five parts. *FlightInv* says who is where: each message
is at one place of the chain of tasks, and only of a transaction whose thread waits for it or has
given it up. *OrderInv* is the table of the peer with its order of eviction. *WireInv* ties each
request on the wire to its sender: what carries a PDU carries one the UE has sent. *CountsInv* is
the heart: the UE sends security_mode under COUNT 0 and attach_complete under COUNT 0 or 1, and the
window of a peer that has received the one has marked just that, so that a PDU of another
transaction, or a repeated one, is never newer. *ExchangeInv* says how far the peer may be for
each number of exchanges the UE has done: exactly there, or one ahead; and that no exchange that was
done had a visible fault. `UeAndPeerAgree` does not assume Serial, although the run does: an overtaken
reset makes an Attach fail, and never leaves UE and peer apart. The refinement needs ExchangeInv only.
Under `Serial` three more hold. *RequestsInv*: no `disable()` is still to come while an Attach is
alive. *TasksClear*: when the first message of an Attach has been taken, the one chain of tasks has
got rid of what others left in it, so nobody else touches the NAS context of the UE. *CountTaken*: so the
COUNT that the Security Mode Complete took is not given back. From these, *CleanInv* follows a clean
Attach through its exchanges: the UE's downlink window is the one that belongs to the number of
responses it has taken (`DownWindow`), and the peer's answer is the one and only `Expected`. Before that,
*TableInv* shows by counting that a peer with no more transactions than it keeps forgets nothing, and
*CleanTasks* that the tasks hand a message on as it was.

The argument, bus. `PlaceInv` says for each worker and each requester which job it holds and
that a task that calls another waits for a lower one of `Order`; and that a task that is shown
BUSY and not in `left` is at work on a request of the transaction on display: such a
request takes the task out of `left` before it shows it READY, only PROCESSING of one shows
it BUSY, and both ways to replace the transaction put what is shown BUSY into `left` or show
nothing.
`WaitInv` is for the answers: a requester that waits is named by exactly one job, in one inbox or
at one worker, or its answer is in its queue, or its task is being stopped; a job that names
nobody can give its answer to nobody.

The argument, mirror. `MirrorInv` is the type with four parts. *AgentInv*: the rows of each
stream are numbered without a gap, and those of the last transaction are as many as `final` says
once it has ended. *TransferInv*: each stream taken so far is `Good`, of the run alone and whole unless
the agent has gone on, and what will be archived `Fits` it: the same events, and a log that lacks
none of its rows for an older one. *RunsInv*: so is what has been archived, and no later than the last
run noted. A reset keeps AgentInv because the last rows of a numbered stream are
numbered (`LastRows`). *DashboardInv* says which flags go with which place
of the loop. The rows of a transaction are a loop over the stream (`TransactionRows`); what it
computes is proved by induction over the length. The library's induction theorems have an
operator as a parameter, so the module takes induction from the minimum of a set of
numbers (Minimum from `WFMin` and `NatLessThanWellFounded`, then Induction), with the set as the
parameter.

The argument, diagnosis. `DiagnosisInv` says what the log can hold when a run has failed.
*ClockInv*: no two rows have one time, so "the last row" is one row. *GuardInv* and *PlaceInv* are
the life of a guard with its published status, and where the threads stand. *RowsInv*: a row,
recorded or about to be, is `Genuine`: what it says of decision, cause and root is what the
injected fault can have caused at its step. *DoomInv* says how far a fault that has hit lets the run
come: whatever is refused or lost never gets to the next exchange. *OrderInv*: but for a
guard's callback nothing of an exchange is recorded once the next has begun. *EndInv*: when the
report is made, the row that says why the run failed is among its rows. From these the
theorems follow for *any* order of the other rows: `LastOf` is a CHOOSE, and that a finite
set of rows with distinct times has a last one is taken from the well-foundedness of the strict subset
relation. The theorems hold for every `Seconds` and `Faults` that meet
`DiagnosisAssumption`; the rows of a full second that the runs leave out are excluded in
`Orderly`, not by the constant.

Checked by TLC only: EveryAttachEnds, CallEnds, WorkersStop and
EveryFinishedRunIsArchived, which are liveness under fairness and so out of the prover's reach.

## 5. What is not modelled

* Bytes: codecs, ciphers, key derivation, headers, traces, pages, configuration.
* The grammar of AT commands: pure text, whose effects are the engine's operations.
* Frames, authentication and discovery of the LAN channel; the addresses and ports.
* The archive's and the repository's files: RemoteMirror and AttachEngine have that a
  directory appears whole or not at all, and what is in it. Export and trace files.
* The HTTP server itself, uploads and pages; handlers that call one operation of the
  engine are that operation.
* The virtual clock and the task view of timers other than the guards: a timer expires
  at any time after it was started. T3410, T3460 and T3450 are armed and stopped in AttachEngine.
* `NetworkControlPlaneContext.get` and `reset`, `NasSecurityContext.rekey` in the
  control plane, `restart(allow_same_key=True)`: nothing calls them.
* UDP lab, packet capture and reference vectors, scenario files, start page, firewall:
  scripts, vectors, user interface and operating system calls without a state of
  their own that outlives a call.

## 6. Where code and documents disagree

`trailing_update` is the run that TLC must find violated: `mutate` decides whether to
announce a change before it makes it, and schedules nothing when it decides not to
(`state.py:323-324`); only `log` has a trailing notice. The last change of a burst inside
one 50 ms window, or one made while a browser subscribes, is not shown until a later one is,
while `docs/TECHNICAL_DESIGN.md:145` says that the trailing update is kept.

The following were found with AttachEngine and NasExchange. Their definitions stand at the end of
the modules; the instance given shows each of them violated.

* *CFUN=0* (`CfunZeroMeansDetached`, one_tx): a run's last write tests the transaction id,
  which CFUN=0 leaves in place; a thread held up between its last check and that write longer
  than the 0.6 s wait leaves ATTACHED or FAILED beside cfun=0 (README.md:78).
* *Aborted start* (`RunningHasThread`, one_tx): a Reset or CFUN=0 of another request
  thread between the creation of a context and the write of the flow is overwritten by it; the flow
  then claims to run and no thread exists to end it.
* *Persist failure* (`CompletedRunIsNotFailed`, one_tx): when the
  state file cannot be written, the exception reaches `_run_attach` after the success is in the
  store; the run is recorded again as failed.
* *Dropped* (`DroppedPrimitiveEnds`, `FairSpec`, `MaxTx = 2`, `MaxOps = 3`, one request thread): a superseded
  thread that unwinds late calls `cancel_all` and so stops the guard of the
  transaction that replaced it; if that one's primitive was dropped, nothing ends its wait.
* *Late disable* (`UplinkCountAdvances`, `MaxTx = 1`, `MaxRequests = 1`, `Serial = FALSE`, OnlyClean): a
  reset's `security.disable()` that another request thread has overtaken resets the NAS
  context of the Attach started since; COUNT 0 goes out twice under the same keys.

Smaller observations have no run of their own; the models have them as the code does.

* Engine: the report of a failed thread is written without the transaction test and may
  appear beside a flow that a Reset has emptied (`engine.py:371`; `report' = t` in `FailWrite`).
* Timers: a reset that has stopped the timers and not yet emptied the store makes the arming of a
  guard raise, with the guard armed (`engine.py:503`, `state.py:693`); the thread fails, and if another start
  has replaced it meanwhile it stops nothing (`engine.py:333`). Its guard then expires by itself after
  the run. NoOrphanTimers therefore speaks of the last transaction; TLC shows the case with `MaxTx = 2`
  and two request threads, an instance in which it finds NoOrphanTimers true.
* Peer: requests of more than `Capacity` cancelled transactions that arrive after an Attach has begun
  evict its context, and its next message is rejected (`network_context.py:87`). CleanRunSucceeds therefore
  says that no room had to be made; with `MaxTx = 3`, `MaxRequests = 2`, `Capacity = 2` TLC finds an
  Attach that fails so without a fault and a timeout.
* Service: `restart` before the first `establish` makes the lifecycle from the key it is
  about to check, so it always fails and that key stays refused (`service.py:641`; second
  disjunct of `Restart`).
* Store: two broadcasters and a reader at a full queue can make the store drop a
  browser whose connection lives (`state.py:412`; `GiveUpOn`).
* Bus: an ENQUEUED that is recorded after PROCESSING shows a working task as READY. `start_attach`
  empties the lists of events and leaves `taskRuntime` (`engine.py:190-216`), and the COMPLETED of a
  superseded request is dropped (`state.py:433`): an idle task is shown BUSY until the new
  transaction makes it a request, for good if none comes. BusyIsTrue therefore says one
  direction only, and excepts `left`; `BusyIsAlwaysTrue`, without the exception, is violated in
  `requests`.
* Archive: a run's `logs.json` is the whole log of the controller (`run_archive.py:125`), with
  its own rows and those of earlier transactions, and without rows of the run that were cut
  (`lan.py:916-930`), although the module calls what it writes transaction-scoped
  (`run_archive.py:33`). `NoForeignLogs` is violated in `archive`; NoForeignRows speaks of the events and
  of the evidence that was fetched.
* Mirror: a run that is superseded or reset while its evidence is taken may be archived,
  VERIFIED, with the rows that are left, which may be none; one superseded between two
  polls is never archived (`lan.py:313`). ArchivedRunIsWhole therefore speaks of the run that is still
  on display. The agent counts messages since its reset, so a path that answered in an earlier run is
  shown READY in the next (`lan.py:881`). Another controller process archives the last run again under a new
  name. The poll after an archive puts the window back over the complete evidence
  on display. READY may stand beside OFFLINE after a LAN test that succeeded.
* Diagnosis: `utc_now` leaves the fraction out at a full second and the rows are sorted as text
  (`engine.py:176`); with `Seconds = 1` TLC finds a report about an earlier step. The callback of a
  guard of an earlier step that was under way when that guard was stopped records TIMER_EXPIRED late and
  draws the report to its step (`LateGuard`). SOCKET_ERROR, unlike SOCKET_DROP and SOCKET_TIMEOUT,
  is outranked by a guard's expiry. A dropped primitive is PRIMITIVE_MISSING in the report and
  TIMER_EXPIRED in the blind rerun (BlindRerunAgrees says so). `stop` publishes STOPPED, and `_expire`
  EXPIRED, after the manager's lock is released, so either may be shown last (`timers.py:92`).

## 7. Plan

Done, in the order of importance:

1. `AttachEngine`, `AttachLifecycle`: the engine and its promise.
2. `AttachEngineProofs`: its invariants and the refinement.
3. `ReplayWindow`, `SrtpSession` and their proofs: the media half of the security service.
4. `NasExchange`, `AttachHandshake`: exchange, peer, NAS security and faults.
5. `StateStore`, `StateStoreProofs`: notices, subscribers and the file.
6. `TaskBus`: requests inside requests, late answers, stop.
7. `RemoteMirror`: polling, evidence pages, archive.
8. `Diagnosis`: who writes what when, and what is concluded from it.
9. `NasExchangeProofs`, `TaskBusProofs`, `RemoteMirrorProofs`, `DiagnosisProofs`: their invariants for any instance.

Left: the published status of T3410, T3460 and T3450 over the virtual clock, beside the
guards.
