------------------------------ MODULE StateStore ------------------------------
(***************************************************************************)
(* StateStore of state.py: the shared state, the state file, and the       *)
(* events that tell the subscribed Web clients that something changed.     *)
(*                                                                         *)
(* A client is only told THAT the state changed: it reads the state when   *)
(* it handles the event.  The content is therefore abstracted to which     *)
(* changes a client does not show yet (`missing`), and whether the state   *)
(* file holds what was acknowledged (`saved`).  mutate() and log()         *)
(* announce their changes differently, run in any thread, and take three   *)
(* locks one after the other; every step between two of these locks is an  *)
(* action.  _last_state_notice is compared with the clock only to tell     *)
(* whether it is less than one window (0.05 s) old: that is `fresh`.       *)
(* The number of calls, crashes and connections is not bounded.            *)
(***************************************************************************)
EXTENDS Naturals, Sequences, SequencesExt

CONSTANTS
  Writers,     \* threads that call mutate() and log()
  Timers,      \* threading.Timer objects that can exist at once (a bound)
  Clients,     \* SSE connections of browsers
  QueueSize,   \* maxsize of a subscriber's queue
  None

ASSUME StoreAssumption ==
  /\ QueueSize \in Nat \ {0}
  /\ Writers \cap Timers = {}
  /\ None \notin Clients \cup Timers \cup Writers

Actors == Writers \cup Timers
Events == {"state", "log"}   \* also the two kinds of change: mutate(), log()

VARIABLES
  lock,         \* who holds _lock over more than one step, or None
  saved,        \* the state file holds every change a persist=True call
                \* returned for
  fresh,        \* now - _last_state_notice < _state_notice_interval
  noticeTimer,  \* _state_notice_timer
  subscribers,  \* _subscribers
  queue,        \* the events waiting in each subscriber's queue
  client,       \* each connection: "off", "joining", "reading"
  missing,      \* the kinds of change each connection does not show yet
  pc            \* what each thread and each Timer is doing

storeVars == <<lock, saved>>
noticeVars == <<fresh, noticeTimer>>
clientVars == <<subscribers, queue, client, missing>>
vars == <<storeVars, noticeVars, clientVars, pc>>

Idle == [at |-> "idle", ev |-> "state", todo |-> {}, cur |-> None,
         stale |-> {}, need |-> FALSE, durable |-> FALSE, holds |-> FALSE]
At(a, place) == pc[a].at = place
Goto(a, rec) == pc' = [pc EXCEPT ![a] = rec]

\* broadcast() copies the subscribers first, then puts into their queues.
Broadcast(ev) == [Idle EXCEPT !.at = "list", !.ev = ev]

\* The state changes: no client shows this change yet.
Change(kind) == missing' = [c \in Clients |-> missing[c] \cup {kind}]

Init ==
  /\ lock = None /\ saved = TRUE
  /\ fresh = FALSE /\ noticeTimer = None
  /\ subscribers = {}
  /\ queue = [c \in Clients |-> <<>>]
  /\ client = [c \in Clients |-> "off"]
  /\ missing = [c \in Clients |-> {}]
  /\ pc = [a \in Actors |-> Idle]

-----------------------------------------------------------------------------
(* mutate(): whether to announce is decided before the change.             *)

MutateCheck(w, persist) ==
  /\ At(w, "idle")
  /\ Goto(w, [Idle EXCEPT !.at = "change", !.durable = persist,
                !.need = subscribers # {} /\ (persist \/ ~fresh)])
  /\ UNCHANGED <<storeVars, noticeVars, clientVars>>

\* Where a call of mutate goes once the lock is released.
AfterMutate(w) == IF pc[w].need THEN [Idle EXCEPT !.at = "announce"] ELSE Idle

\* Mutant: _lock is released before the file is written.
MutateChange_LockReleased(w) ==
  /\ At(w, "change") /\ lock = None
  /\ Change("state")
  /\ Goto(w, IF pc[w].durable THEN [pc[w] EXCEPT !.at = "write"] ELSE AfterMutate(w))
  /\ UNCHANGED <<storeVars, noticeVars, subscribers, queue, client>>

MutateChange(w) ==
  /\ At(w, "change") /\ lock = None
  /\ Change("state")
  /\ IF pc[w].durable
     THEN lock' = w /\ Goto(w, [pc[w] EXCEPT !.at = "write"])
     ELSE lock' = lock /\ Goto(w, AfterMutate(w))
  /\ UNCHANGED <<saved, noticeVars, subscribers, queue, client>>

\* A temporary file of this write's own gets the durable part of the state,
\* with every change so far, and is synced; the state file is not touched.
PersistWrite(w) ==
  /\ At(w, "write")
  /\ Goto(w, [pc[w] EXCEPT !.at = "replace", !.holds = TRUE])
  /\ UNCHANGED <<storeVars, noticeVars, clientVars>>

\* os.replace.  What another thread has put into a file of its own before this
\* call returned does not hold the change of this one.
PersistReplace(w) ==
  /\ At(w, "replace")
  /\ saved' = pc[w].holds
  /\ lock' = IF lock = w THEN None ELSE lock
  /\ pc' = [a \in Actors |-> IF a = w THEN AfterMutate(w) ELSE [pc[a] EXCEPT !.holds = FALSE]]
  /\ UNCHANGED <<noticeVars, clientVars>>

\* Six PermissionErrors of os.replace: the exception leaves mutate().
PersistFail(w) ==
  /\ At(w, "replace")
  /\ lock' = IF lock = w THEN None ELSE lock
  /\ Goto(w, Idle)
  /\ UNCHANGED <<saved, noticeVars, clientVars>>

\* _last_state_notice = now, with the `now` read before the change: it may
\* lie more than a window back, and may replace a later time.
MutateAnnounce(w) ==
  /\ At(w, "announce")
  /\ fresh' \in BOOLEAN
  /\ Goto(w, Broadcast("state"))
  /\ UNCHANGED <<storeVars, noticeTimer, clientVars>>

-----------------------------------------------------------------------------
(* log(): append, broadcast the entry, then ask for a refresh.             *)

LogChange(w) ==
  /\ At(w, "idle") /\ lock = None
  /\ Change("log")
  /\ Goto(w, Broadcast("log"))
  /\ UNCHANGED <<storeVars, noticeVars, subscribers, queue, client>>

\* A Timer that was cancelled before it fired never runs.
Cancelled(t) == IF t # None /\ At(t, "armed") THEN [pc EXCEPT ![t] = Idle] ELSE pc

Alive(t) == t # None /\ ~At(t, "idle")

\* Mutant: a refresh inside the window is skipped, as mutate() does.
ScheduleNotice_NoTrailing(w) ==
  /\ At(w, "schedule")
  /\ IF subscribers # {} /\ ~fresh
     THEN fresh' = TRUE /\ Goto(w, Broadcast("state"))
     ELSE fresh' = fresh /\ Goto(w, Idle)
  /\ UNCHANGED <<storeVars, noticeTimer, clientVars>>

ScheduleNotice(w) ==
  /\ At(w, "schedule")
  /\ \/ /\ subscribers = {}
        /\ Goto(w, Idle)
        /\ UNCHANGED noticeVars
     \/ /\ subscribers # {} /\ ~fresh
        /\ fresh' = TRUE /\ noticeTimer' = None
        /\ pc' = [Cancelled(noticeTimer) EXCEPT ![w] = Broadcast("state")]
     \/ /\ subscribers # {} /\ fresh /\ Alive(noticeTimer)
        /\ Goto(w, Idle)
        /\ UNCHANGED noticeVars
     \/ /\ subscribers # {} /\ fresh /\ ~Alive(noticeTimer)
        /\ \E t \in {u \in Timers : At(u, "idle")} :
             /\ noticeTimer' = t
             /\ pc' = [pc EXCEPT ![t] = [Idle EXCEPT !.at = "armed"], ![w] = Idle]
        /\ UNCHANGED fresh
  /\ UNCHANGED <<storeVars, clientVars>>

TimerFires(t) ==
  /\ At(t, "armed")
  /\ Goto(t, [Idle EXCEPT !.at = "flush"])
  /\ UNCHANGED <<storeVars, noticeVars, clientVars>>

FlushNotice(t) ==
  /\ At(t, "flush")
  /\ noticeTimer' = None
  /\ IF subscribers = {}
     THEN fresh' = fresh /\ Goto(t, Idle)
     ELSE fresh' = TRUE /\ Goto(t, Broadcast("state"))
  /\ UNCHANGED <<storeVars, clientVars>>

\* The window since the last notice passes.
WindowEnds ==
  /\ fresh /\ fresh' = FALSE
  /\ UNCHANGED <<storeVars, noticeTimer, clientVars, pc>>

-----------------------------------------------------------------------------
(* broadcast(): a full queue loses its oldest event; a subscriber whose    *)
(* queue still takes nothing is removed.                                   *)

ListClients(a) ==
  /\ At(a, "list")
  /\ Goto(a, [pc[a] EXCEPT !.at = "put", !.todo = subscribers])
  /\ UNCHANGED <<storeVars, noticeVars, clientVars>>

\* Mutant: off by one.
Full_OffByOne(c) == Len(queue[c]) > QueueSize

Full(c) == Len(queue[c]) >= QueueSize
Put(c, ev) == queue' = [queue EXCEPT ![c] = Append(@, ev)]

PutEvent(a) ==
  /\ At(a, "put")
  /\ \E c \in pc[a].todo :
       IF Full(c)
       THEN /\ Goto(a, [pc[a] EXCEPT !.at = "full", !.cur = c, !.todo = @ \ {c}])
            /\ UNCHANGED queue
       ELSE /\ Put(c, pc[a].ev)
            /\ Goto(a, [pc[a] EXCEPT !.todo = @ \ {c}])
  /\ UNCHANGED <<storeVars, noticeVars, subscribers, client, missing>>

GiveUpOn(a) == Goto(a, [pc[a] EXCEPT !.at = "put", !.cur = None, !.stale = @ \cup {pc[a].cur}])

DropOldest(a) ==
  /\ At(a, "full")
  /\ LET c == pc[a].cur IN
       IF queue[c] = <<>>
       THEN GiveUpOn(a) /\ UNCHANGED queue
       ELSE /\ queue' = [queue EXCEPT ![c] = Tail(@)]
            /\ Goto(a, [pc[a] EXCEPT !.at = "again"])
  /\ UNCHANGED <<storeVars, noticeVars, subscribers, client, missing>>

PutAgain(a) ==
  /\ At(a, "again")
  /\ LET c == pc[a].cur IN
       IF Full(c)
       THEN GiveUpOn(a) /\ UNCHANGED queue
       ELSE /\ Put(c, pc[a].ev)
            /\ Goto(a, [pc[a] EXCEPT !.at = "put", !.cur = None])
  /\ UNCHANGED <<storeVars, noticeVars, subscribers, client, missing>>

EndBroadcast(a) ==
  /\ At(a, "put") /\ pc[a].todo = {}
  /\ subscribers' = subscribers \ pc[a].stale
  /\ Goto(a, IF pc[a].ev = "log" THEN [Idle EXCEPT !.at = "schedule"] ELSE Idle)
  /\ UNCHANGED <<storeVars, noticeVars, queue, client, missing>>

-----------------------------------------------------------------------------
(* handle_events() of http_api.py, one thread per connection.              *)

Subscribe(c) ==
  /\ client[c] = "off"
  /\ client' = [client EXCEPT ![c] = "joining"]
  /\ subscribers' = subscribers \cup {c}
  /\ queue' = [queue EXCEPT ![c] = <<>>]
  /\ UNCHANGED <<storeVars, noticeVars, missing, pc>>

\* The first event on a new connection is the whole state.
FirstState(c) ==
  /\ client[c] = "joining" /\ lock = None
  /\ client' = [client EXCEPT ![c] = "reading"]
  /\ missing' = [missing EXCEPT ![c] = {}]
  /\ UNCHANGED <<storeVars, noticeVars, subscribers, queue, pc>>

HandleEvent(c) ==
  /\ client[c] = "reading" /\ queue[c] # <<>>
  /\ queue' = [queue EXCEPT ![c] = Tail(@)]
  /\ IF Head(queue[c]) = "state"
     THEN lock = None /\ missing' = [missing EXCEPT ![c] = {}]
     ELSE UNCHANGED missing
  /\ UNCHANGED <<storeVars, noticeVars, subscribers, client, pc>>

Disconnect(c) ==
  /\ client[c] # "off"
  /\ client' = [client EXCEPT ![c] = "off"]
  /\ subscribers' = subscribers \ {c}
  /\ UNCHANGED <<storeVars, noticeVars, queue, missing, pc>>

-----------------------------------------------------------------------------
\* The process ends at any point, and starts again from the state file.  Of what
\* the file holds _load takes up log, histories, eNB and archive only, and the next
\* write leaves the rest out: `saved` is about the file this process has written.
Crash ==
  /\ lock' = None
  /\ fresh' = FALSE /\ noticeTimer' = None
  /\ subscribers' = {}
  /\ queue' = [c \in Clients |-> <<>>]
  /\ client' = [c \in Clients |-> "off"]
  /\ missing' = [c \in Clients |-> {}]
  /\ pc' = [a \in Actors |-> Idle]
  /\ UNCHANGED saved

Broadcasting(a) == ListClients(a) \/ PutEvent(a) \/ DropOldest(a) \/ PutAgain(a) \/ EndBroadcast(a)

WriterStep(w) ==
  \/ MutateChange(w) \/ PersistWrite(w) \/ PersistReplace(w) \/ PersistFail(w)
  \/ MutateAnnounce(w) \/ ScheduleNotice(w) \/ Broadcasting(w)
TimerStep(t) == TimerFires(t) \/ FlushNotice(t) \/ Broadcasting(t)
Next ==
  \/ \E w \in Writers : (\E p \in BOOLEAN : MutateCheck(w, p)) \/ LogChange(w) \/ WriterStep(w)
  \/ \E t \in Timers : TimerStep(t)
  \/ \E c \in Clients : Subscribe(c) \/ FirstState(c) \/ HandleEvent(c) \/ Disconnect(c)
  \/ WindowEnds
  \/ Crash

Spec == Init /\ [][Next]_vars

-----------------------------------------------------------------------------
(* Properties                                                              *)

\* Type correctness, with what each place of a thread implies for the rest.
TypeOK ==
  /\ lock \in Writers \cup {None}
  /\ saved \in BOOLEAN
  /\ fresh \in BOOLEAN /\ noticeTimer \in Timers \cup {None}
  /\ subscribers \subseteq Clients
  /\ queue \in [Clients -> Seq(Events)]
  /\ \A c \in Clients : Len(queue[c]) <= QueueSize
  /\ client \in [Clients -> {"off", "joining", "reading"}]
  /\ missing \in [Clients -> SUBSET Events]
  /\ pc \in [Actors ->
       [at : {"idle", "change", "write", "replace", "announce", "list", "put",
              "full", "again", "schedule", "armed", "flush"},
        ev : Events, todo : SUBSET Clients, cur : Clients \cup {None},
        stale : SUBSET Clients, need : BOOLEAN, durable : BOOLEAN, holds : BOOLEAN]]

Reading(c) == client[c] = "reading" /\ c \in subscribers

\* A refresh that is still going to reach client c: a state event in its
\* queue, a notice on its way, or a log() that has yet to ask for one.
RefreshUnderWay(c) ==
  \/ "state" \in ToSet(queue[c])
  \/ \E t \in Timers : pc[t].at \in {"armed", "flush"}
  \/ \E a \in Actors : At(a, "list") \/ At(a, "schedule")
  \/ \E a \in Actors : pc[a].ev = "log" /\ ~At(a, "idle")
  \/ \E a \in Actors : pc[a].ev = "state" /\ c \in pc[a].todo \cup {pc[a].cur} \cup pc[a].stale

\* A subscribed client that does not yet show the last logged change has a
\* refresh coming, whatever was coalesced, cancelled or dropped from its
\* queue (state.py 335-370: "the last burst is eventually reflected").
LogRefreshUnderWay ==
  \A c \in Clients : Reading(c) /\ "log" \in missing[c] => RefreshUnderWay(c)

\* What a persist=True call has returned for is in the state file at any point
\* the process may end: the file another thread has prepared before does not
\* replace the newer one (state.py 239-302, 324-328).
AckedIsDurable == saved

\* Once nothing is going on any more, a subscribed client shows the state:
\* docs/TECHNICAL_DESIGN.md:145, refreshes are merged by 50 ms windows "and
\* the trailing update is kept".
TrailingUpdateIsShown ==
  \A c \in Clients :
    Reading(c) /\ queue[c] = <<>> /\ (\A a \in Actors : At(a, "idle")) => missing[c] = {}
=============================================================================
