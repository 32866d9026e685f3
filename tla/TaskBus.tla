-------------------------------- MODULE TaskBus --------------------------------
(***************************************************************************)
(* TaskBus and WorkerTask of runtime/taskbus.py: one thread per protocol   *)
(* task with a bounded inbox, and synchronous requests that wait for an    *)
(* answer in a reply queue of their own.  The handlers are those of the    *)
(* engine: RRC passes an uplink message to L2 and L2 to L1, each inside    *)
(* its own handler, so that a worker is a requester as well.               *)
(*                                                                         *)
(* A request is known by the client that still waits for it; one that was  *)
(* given up has nobody in `by`, and stays in its inbox until the worker    *)
(* comes to it.  A transaction is only told from the one on display, so    *)
(* neither requests nor transactions are bounded in number.                *)
(***************************************************************************)
EXTENDS Naturals, Sequences, FiniteSets, SequencesExt, FiniteSetsExt

CONSTANTS
  Order,      \* the tasks, in the order they are registered and stopped
  Below,      \* the task a task's handler passes an uplink message to, or None
  Targets,    \* tasks that are given a response of the network
  Callers,    \* threads of the engine that make requests
  InboxSize,  \* queue_size (64 in the engine)
  None

Tasks == ToSet(Order)
Clients == Callers \cup Tasks

ASSUME BusAssumption ==
  /\ Order \in Seq(Tasks) /\ Order # <<>>
  /\ InboxSize \in Nat \ {0}
  /\ Below \in [Tasks -> Tasks \cup {None}]
  /\ Targets \subseteq Tasks
  /\ {None, "stop"} \cap Clients = {}
  /\ Callers \cap Tasks = {}

VARIABLES
  inbox,   \* WorkerTask.inbox: requests and the None of stop()
  worker,  \* the thread of each task: its place in _run and its request
  client,  \* each requester: its place in request() and submit()
  stop,    \* each task: how far stop() has come; not "no" is stop_event
  busy,    \* taskRuntime: which tasks are shown BUSY
  left     \* tasks shown BUSY when the transaction on display began, that it has
           \* not made a request since (a history variable)

vars == <<inbox, worker, client, stop, busy, left>>

NoJob == [by |-> None, up |-> FALSE, current |-> FALSE]
Pill == [NoJob EXCEPT !.by = "stop"]    \* the None stop() puts into an inbox
Away == [at |-> "idle", to |-> None, up |-> FALSE, current |-> FALSE, got |-> FALSE]

Init ==
  /\ inbox = [t \in Tasks |-> <<>>]
  /\ worker = [t \in Tasks |-> [at |-> "loop", job |-> NoJob]]
  /\ client = [x \in Clients |-> Away]
  /\ stop = [t \in Tasks |-> "no"]
  /\ busy = [t \in Tasks |-> FALSE]
  /\ left = {}

\* record_task_event: an event of another transaction is ignored.  Of the
\* board only the BUSY of PROCESSING is kept; CREATED, ENQUEUED, COMPLETED,
\* ERROR and STOPPED end it, the other phases leave it alone.
Record(t, current, value) == busy' = IF current THEN [busy EXCEPT ![t] = value] ELSE busy

\* Mutant: the event CREATED says nothing about the worker.
Call_CreatedIgnored(x, t, up, current) ==
  /\ client[x].at = "idle"
  /\ client' = [client EXCEPT ![x] = [Away EXCEPT !.at = "submit", !.to = t, !.up = up, !.current = current]]
  /\ UNCHANGED busy
  /\ left' = IF current THEN left \ {t} ELSE left

-----------------------------------------------------------------------------
(* request() and submit(): the event CREATED, the put, the event ENQUEUED, *)
(* the wait.  CREATED and ENQUEUED both show the worker READY.             *)

Call(x, t, up, current) ==
  /\ client[x].at = "idle"
  /\ client' = [client EXCEPT ![x] = [Away EXCEPT !.at = "submit", !.to = t, !.up = up, !.current = current]]
  /\ Record(t, current, FALSE)
  /\ left' = IF current THEN left \ {t} ELSE left

\* An orchestration or exchange thread of the transaction on display (it may
\* be replaced at any later step): an uplink message, or the delivery of a
\* response.
CallerCalls(c) ==
  /\ \/ Call(c, Head(Order), TRUE, TRUE)
     \/ \E t \in Targets : Call(c, t, FALSE, TRUE)
  /\ UNCHANGED <<inbox, worker, stop>>

Room(t) == Len(inbox[t]) < InboxSize

Submit(x) ==
  LET t == client[x].to IN
  /\ client[x].at = "submit" /\ Room(t)
  /\ inbox' = [inbox EXCEPT ![t] = Append(@, [by |-> x, up |-> client[x].up, current |-> client[x].current])]
  /\ client' = [client EXCEPT ![x].at = "enqueued", ![x].up = FALSE]
  /\ UNCHANGED <<worker, stop, busy, left>>

\* The put gave up after 0.5 s at most: TimeoutError.
SubmitFull(x) ==
  /\ client[x].at = "submit" /\ ~Room(client[x].to)
  /\ client' = [client EXCEPT ![x] = Away]
  /\ UNCHANGED <<inbox, worker, stop, busy, left>>

Enqueued(x) ==
  /\ client[x].at = "enqueued"
  /\ client' = [client EXCEPT ![x].at = "wait", ![x].current = FALSE]
  /\ Record(client[x].to, client[x].current, FALSE)
  /\ UNCHANGED <<inbox, worker, stop, left>>

Receive(x) ==
  /\ client[x].at = "wait" /\ client[x].got
  /\ client' = [client EXCEPT ![x] = Away]
  /\ UNCHANGED <<inbox, worker, stop, busy, left>>

\* Nobody waits for the request of x any more; its reply queue is forgotten.
Forget(req, x) == IF req.by = x THEN [req EXCEPT !.by = None] ELSE req

\* Mutant: one reply queue per requester instead of one per request.
GiveUp_QueueReused(x) ==
  /\ client[x].at = "wait" /\ ~client[x].got
  /\ client' = [client EXCEPT ![x] = Away]
  /\ UNCHANGED <<inbox, worker, stop, busy, left>>

GiveUp(x) ==
  /\ client[x].at = "wait" /\ ~client[x].got
  /\ client' = [client EXCEPT ![x] = Away]
  /\ inbox' = [t \in Tasks |-> [i \in DOMAIN inbox[t] |-> Forget(inbox[t][i], x)]]
  /\ worker' = [t \in Tasks |-> [worker[t] EXCEPT !.job = Forget(@, x)]]
  /\ UNCHANGED <<stop, busy, left>>

-----------------------------------------------------------------------------
(* WorkerTask._run                                                         *)

Place(t, place) == worker' = [worker EXCEPT ![t].at = place]

PlaceWith(t, place, job) == worker' = [worker EXCEPT ![t] = [at |-> place, job |-> job]]

\* Mutant: the loop does not look at stop_event.
Loop_Forever(t) ==
  /\ worker[t].at = "loop"
  /\ Place(t, "get")
  /\ UNCHANGED <<inbox, client, stop, busy, left>>

Loop(t) ==
  /\ worker[t].at = "loop"
  /\ Place(t, IF stop[t] # "no" THEN "leave" ELSE "get")
  /\ UNCHANGED <<inbox, client, stop, busy, left>>

Get(t) ==
  /\ worker[t].at = "get" /\ inbox[t] # <<>>
  /\ inbox' = [inbox EXCEPT ![t] = Tail(@)]
  /\ worker' = [worker EXCEPT ![t] =
       IF Head(inbox[t]) = Pill THEN [at |-> "leave", job |-> NoJob]
                                ELSE [at |-> "begin", job |-> Head(inbox[t])]]
  /\ UNCHANGED <<client, stop, busy, left>>

Processing(t) ==
  /\ worker[t].at = "begin"
  /\ Place(t, "run")
  /\ Record(t, worker[t].job.current, TRUE)
  /\ UNCHANGED <<inbox, client, stop, left>>

\* The handler ends by itself: with a result, an exception, or for L1 with
\* the end of its exchange with the network, whose wait is bounded.
HandlerEnds(t) ==
  /\ worker[t].at = "run"
  /\ PlaceWith(t, "answer", [worker[t].job EXCEPT !.up = FALSE])
  /\ UNCHANGED <<inbox, client, stop, busy, left>>

\* Mutant: the lower task hands the message back to the first one.
HandlerNests_Circular(t) ==
  /\ worker[t].at = "run" /\ worker[t].job.up
  /\ Call(t, Head(Order), TRUE, worker[t].job.current)
  /\ PlaceWith(t, "nested", [worker[t].job EXCEPT !.up = FALSE])
  /\ UNCHANGED <<inbox, stop>>

\* _rrc_handler and _l2_handler with an uplink message.
HandlerNests(t) ==
  /\ worker[t].at = "run" /\ worker[t].job.up /\ Below[t] # None
  /\ Call(t, Below[t], TRUE, worker[t].job.current)
  /\ PlaceWith(t, "nested", [worker[t].job EXCEPT !.up = FALSE])
  /\ UNCHANGED <<inbox, stop>>

NestedEnds(t) ==
  /\ worker[t].at = "nested" /\ client[t].at = "idle"
  /\ Place(t, "answer")
  /\ UNCHANGED <<inbox, client, stop, busy, left>>

\* The answer goes into the reply queue of the request, read or not.
Answer(t) ==
  LET x == worker[t].job.by IN
  /\ worker[t].at = "answer"
  /\ PlaceWith(t, "done", [worker[t].job EXCEPT !.by = None])
  /\ client' = IF x = None THEN client ELSE [client EXCEPT ![x].got = TRUE]
  /\ UNCHANGED <<inbox, stop, busy, left>>

\* The event COMPLETED or ERROR, after the answer.
Completed(t) ==
  /\ worker[t].at = "done"
  /\ PlaceWith(t, "loop", NoJob)
  /\ Record(t, worker[t].job.current, FALSE)
  /\ UNCHANGED <<inbox, client, stop, left>>

Leave(t) ==
  /\ worker[t].at = "leave"
  /\ Place(t, "stopped")
  /\ Record(t, TRUE, FALSE)
  /\ UNCHANGED <<inbox, client, stop, left>>

-----------------------------------------------------------------------------
(* stop(), for one task after the other.                                   *)

StopBegins(t) ==
  /\ stop[t] = "no"
  /\ \A i, j \in DOMAIN Order : Order[j] = t /\ i < j => stop[Order[i]] = "done"
  /\ stop' = [stop EXCEPT ![t] = "put"]
  /\ UNCHANGED <<inbox, worker, client, busy, left>>

StopPuts(t) ==
  /\ stop[t] \in {"put", "again"} /\ Room(t)
  /\ inbox' = [inbox EXCEPT ![t] = Append(@, Pill)]
  /\ stop' = [stop EXCEPT ![t] = "done"]
  /\ UNCHANGED <<worker, client, busy, left>>

\* put_nowait found the inbox full: the oldest request makes room, and if
\* the room is gone again the None is left out.
StopMakesRoom(t) ==
  /\ \/ /\ stop[t] = "put" /\ ~Room(t)
        /\ stop' = [stop EXCEPT ![t] = "drop"]
        /\ UNCHANGED inbox
     \/ /\ stop[t] = "drop"
        /\ inbox' = [inbox EXCEPT ![t] = IF @ = <<>> THEN @ ELSE Tail(@)]
        /\ stop' = [stop EXCEPT ![t] = "again"]
     \/ /\ stop[t] = "again" /\ ~Room(t)
        /\ stop' = [stop EXCEPT ![t] = "done"]
        /\ UNCHANGED inbox
  /\ UNCHANGED <<worker, client, busy, left>>

\* Another transaction is on display, or none: the events of the requests
\* there are will be ignored.
Outdated(req) == [req EXCEPT !.current = FALSE]

Supersede ==
  /\ inbox' = [t \in Tasks |-> [i \in DOMAIN inbox[t] |-> Outdated(inbox[t][i])]]
  /\ worker' = [t \in Tasks |-> [worker[t] EXCEPT !.job = Outdated(@)]]
  /\ client' = [x \in Clients |-> [client[x] EXCEPT !.current = FALSE]]
  /\ UNCHANGED stop

\* start_attach leaves taskRuntime as it is.
StartAttach == Supersede /\ left' = {t \in Tasks : busy[t]} /\ UNCHANGED busy

\* reset_runtime rebuilds it.
ResetRuntime == Supersede /\ left' = {} /\ busy' = [t \in Tasks |-> FALSE]

ClientStep(x) == Submit(x) \/ SubmitFull(x) \/ Enqueued(x) \/ Receive(x)
WorkerStep(t) ==
  \/ Loop(t) \/ Get(t) \/ Processing(t) \/ HandlerEnds(t) \/ HandlerNests(t)
  \/ NestedEnds(t) \/ Answer(t) \/ Completed(t) \/ Leave(t)
StopStep(t) == StopPuts(t) \/ StopMakesRoom(t)

Next ==
  \/ \E c \in Callers : CallerCalls(c)
  \/ \E x \in Clients : ClientStep(x) \/ GiveUp(x)
  \/ \E t \in Tasks : WorkerStep(t) \/ StopBegins(t) \/ StopStep(t)
  \/ StartAttach \/ ResetRuntime

Spec == Init /\ [][Next]_vars

-----------------------------------------------------------------------------
\* The requests of x that still have their reply to come.
PendingAt(x, t) ==
  {i \in DOMAIN inbox[t] : inbox[t][i].by = x} \cup
  {0 : u \in {t} \cap {v \in Tasks : worker[v].job.by = x}}
Pending(x) == UNION {{<<t, i>> : i \in PendingAt(x, t)} : t \in Tasks}

\* A wait nothing will answer: the request was thrown away by stop(), or its
\* worker has left.  Of all timeouts only these are certain to come: a wait
\* that will be answered may be answered first.
Hopeless(x) ==
  /\ client[x].at = "wait" /\ ~client[x].got
  /\ Pending(x) = {} \/ worker[client[x].to].at = "stopped"

\* Whose calls there are.
Requesters == Callers \cup {t \in Tasks : Below[t] # None}

FairSpec ==
  /\ Spec
  /\ \A x \in Requesters : WF_vars(ClientStep(x)) /\ WF_vars(Hopeless(x) /\ GiveUp(x))
  /\ \A t \in Tasks : WF_vars(WorkerStep(t)) /\ WF_vars(StopStep(t))

-----------------------------------------------------------------------------
Job == [by : Clients \cup {None}, up : BOOLEAN, current : BOOLEAN]

WorkerSet ==
  [at : {"loop", "get", "begin", "run", "nested", "answer", "done", "leave", "stopped"},
   job : Job]

ClientSet ==
  [at : {"idle", "submit", "enqueued", "wait"}, to : Tasks \cup {None},
   up : BOOLEAN, current : BOOLEAN, got : BOOLEAN]

TypeOK ==
  /\ inbox \in [Tasks -> Seq(Job \cup {Pill})]
  /\ \A t \in Tasks : Len(inbox[t]) <= InboxSize
  /\ worker \in [Tasks -> WorkerSet] /\ client \in [Clients -> ClientSet]
  /\ stop \in [Tasks -> {"no", "put", "drop", "again", "done"}]
  /\ busy \in [Tasks -> BOOLEAN] /\ left \subseteq Tasks

\* The answer a requester takes is that of the request it waits for: once it
\* is there no other request can still answer into the same queue (whose one
\* place would block the worker for ever), and until it is there the request
\* is with its task, unless that task is being stopped (taskbus.py 90-120).
OwnAnswer ==
  \A x \in Clients :
    /\ client[x].at \in {"idle", "submit"} \/ client[x].got => Pending(x) = {}
    /\ client[x].at \in {"enqueued", "wait"} /\ ~client[x].got =>
         \/ Cardinality(Pending(x)) = 1 /\ \A p \in Pending(x) : p[1] = client[x].to
         \/ Pending(x) = {} /\ stop[client[x].to] # "no"

AtWork(t) == worker[t].at \in {"run", "nested", "answer", "done"}

\* The BUSY of a request that start_attach has superseded stays on the board
\* when its task is done with it, as its COMPLETED is ignored.  It lasts no
\* longer than to the first request of the new transaction: from then on a task
\* shown BUSY is at work, in whatever order the events of old and new requests
\* come (state.py 426-499).
BusyIsTrue == \A t \in Tasks \ left : busy[t] => AtWork(t)

\* Types, bounds of the inboxes, and what the board shows.
BusInv == TypeOK /\ BusyIsTrue

\* Not so: start_attach clears the lists of events and leaves the board.
BusyIsAlwaysTrue == \A t \in Tasks : busy[t] => AtWork(t)

\* Every call ends although workers wait for workers: with an answer, or, if
\* its request was thrown away or its worker has left, by its timeout
\* (engine.py 733-757).
CallEnds == \A x \in Requesters : client[x].at # "idle" ~> client[x].at = "idle"

\* A task told to stop ends its thread, whatever is in its inbox.
WorkersStop == \A t \in Tasks : stop[t] # "no" ~> worker[t].at = "stopped"
=============================================================================
