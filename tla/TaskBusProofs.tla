---------------------------- MODULE TaskBusProofs ----------------------------
(***************************************************************************)
(* Theorems about TaskBus for any chain of tasks, any callers and any size *)
(* of the inboxes: what is on the board is so, and a requester that waits  *)
(* is owed exactly one answer.                                             *)
(***************************************************************************)
EXTENDS TaskBus, FiniteSetTheorems, TLAPS

-----------------------------------------------------------------------------
(* Types.                                                                  *)

\* Who calls is at a task, and who is busy is with a request.
CallsOk == \A x \in Clients : client[x].at # "idle" => client[x].to \in Tasks

JobsOk ==
  \A t \in Tasks :
    /\ worker[t].at \notin {"begin", "run", "nested", "answer"} => worker[t].job.by = None
    /\ t \notin left /\ busy[t] =>
         worker[t].at \in {"run", "nested", "answer", "done"} /\ worker[t].job.current

PlaceInv == CallsOk /\ JobsOk

LEMMA TasksAre ==
  /\ Head(Order) \in Tasks /\ \A t \in Tasks : t \in Clients
  /\ \A t \in Tasks : Below[t] \in Tasks \cup {None}
<1>1. Head(Order) = Order[1] /\ 1 \in DOMAIN Order /\ Order[1] \in Tasks
  BY BusAssumption
<1> QED BY <1>1, BusAssumption DEF Clients

LEMMA SizeType == InboxSize \in Nat \ {0}
BY BusAssumption

LEMMA NoJobType == NoJob \in Job /\ NoJob.by = None /\ Pill.by = "stop" /\ "stop" \notin Clients
BY BusAssumption DEF NoJob, Job, Pill

LEMMA AwayType == Away \in ClientSet /\ Away.at = "idle" /\ ~Away.got
BY DEF Away, ClientSet

LEMMA InitTypes == Init => TypeOK /\ PlaceInv
<1> SUFFICES ASSUME Init PROVE TypeOK /\ PlaceInv
  OBVIOUS
<1>1. \A t \in Tasks : worker[t] = [at |-> "loop", job |-> NoJob]
  BY DEF Init
<1>2. \A t \in Tasks : worker[t] \in WorkerSet
  BY <1>1, NoJobType DEF WorkerSet
<1>3. TypeOK
  BY <1>2, AwayType, SizeType DEF Init, TypeOK
<1> QED BY <1>1, <1>3, NoJobType, AwayType DEF Init, PlaceInv, CallsOk, JobsOk

\* A call writes the record of the requester and the board.
LEMMA CallTypes ==
  ASSUME TypeOK, PlaceInv, NEW x \in Clients, NEW t \in Tasks, NEW up \in BOOLEAN,
         NEW current \in BOOLEAN, Call(x, t, up, current)
  PROVE  /\ client' \in [Clients -> ClientSet] /\ busy' \in [Tasks -> BOOLEAN]
         /\ left' \subseteq Tasks
         /\ client[x].at = "idle" /\ client'[x].at = "submit" /\ client'[x].to = t
         /\ \A y \in Clients \ {x} : client'[y] = client[y]
         /\ \A u \in Tasks \ left' : busy'[u] => u \notin left /\ busy[u]
<1>1. [Away EXCEPT !.at = "submit", !.to = t, !.up = up, !.current = current] \in ClientSet
  BY DEF Away, ClientSet
<1> DEFINE c == [Away EXCEPT !.at = "submit", !.to = t, !.up = up, !.current = current]
<1>2. c.at = "submit" /\ c.to = t
  BY DEF Away
<1>3. client[x].at = "idle" /\ client' = [client EXCEPT ![x] = c]
  BY DEF Call
<1> HIDE DEF c
<1>4. client' \in [Clients -> ClientSet]
  BY <1>1, <1>3 DEF c, TypeOK
<1>5. /\ busy' \in [Tasks -> BOOLEAN] /\ left' \subseteq Tasks
      /\ \A u \in Tasks \ left' : busy'[u] => u \notin left /\ busy[u]
  <2>1. CASE current
    <3>1. busy' = [busy EXCEPT ![t] = FALSE] /\ left' = left \ {t}
      BY <2>1 DEF Call, Record
    <3> QED BY <3>1 DEF TypeOK
  <2>2. CASE ~current
    <3>1. busy' = busy /\ left' = left
      BY <2>2 DEF Call, Record
    <3> QED BY <3>1 DEF TypeOK
  <2> QED BY <2>1, <2>2
<1> QED BY <1>2, <1>3, <1>4, <1>5 DEF TypeOK

LEMMA ClientTypes ==
  ASSUME TypeOK, PlaceInv, NEW x \in Clients, ClientStep(x) \/ GiveUp(x)
  PROVE  TypeOK' /\ PlaceInv'
<1> USE DEF TypeOK
<1>0. /\ client[x] \in ClientSet /\ client[x].at # "idle" /\ client[x].to \in Tasks
  BY DEF ClientStep, Submit, SubmitFull, Enqueued, Receive, GiveUp, PlaceInv, CallsOk
<1>1. CASE Submit(x)
  <2> DEFINE t == client[x].to
             job == [by |-> x, up |-> client[x].up, current |-> client[x].current]
  <2>1. /\ Len(inbox[t]) < InboxSize /\ inbox' = [inbox EXCEPT ![t] = Append(@, job)]
        /\ client' = [client EXCEPT ![x].at = "enqueued", ![x].up = FALSE]
        /\ UNCHANGED << worker, stop, busy, left >>
    BY <1>1 DEF Submit, Room
  <2>2. job \in Job
    BY <1>0 DEF Job, ClientSet
  <2>3. client' \in [Clients -> ClientSet] /\ client'[x].to = t
        /\ \A y \in Clients \ {x} : client'[y] = client[y]
    BY <1>0, <2>1 DEF ClientSet
  <2> HIDE DEF job
  <2>4. ASSUME NEW u \in Tasks
        PROVE  inbox'[u] \in Seq(Job \cup {Pill}) /\ Len(inbox'[u]) <= InboxSize
    <3>1. inbox[u] \in Seq(Job \cup {Pill}) /\ Len(inbox[u]) <= InboxSize
      OBVIOUS
    <3>2. inbox'[u] = IF u = t THEN Append(inbox[u], job) ELSE inbox[u]
      BY <2>1
    <3> QED BY <2>1, <2>2, <3>1, <3>2, SizeType
  <2>10. TypeOK'
    BY <2>1, <2>3, <2>4
  <2>11. CallsOk'
    BY <1>0, <2>3 DEF PlaceInv, CallsOk
  <2>12. JobsOk'
    BY <2>1 DEF PlaceInv, JobsOk
  <2> QED BY <2>10, <2>11, <2>12 DEF PlaceInv
<1>2. CASE SubmitFull(x) \/ Receive(x)
  <2>1. client' = [client EXCEPT ![x] = Away] /\ UNCHANGED << inbox, worker, stop, busy, left >>
    BY <1>2 DEF SubmitFull, Receive
  <2>10. TypeOK'
    BY <2>1, AwayType
  <2>11. CallsOk'
    BY <2>1, AwayType DEF PlaceInv, CallsOk
  <2>12. JobsOk'
    BY <2>1 DEF PlaceInv, JobsOk
  <2> QED BY <2>10, <2>11, <2>12 DEF PlaceInv
<1>3. CASE Enqueued(x)
  <2>1. /\ client' = [client EXCEPT ![x].at = "wait", ![x].current = FALSE]
        /\ UNCHANGED << inbox, worker, stop, left >>
    BY <1>3 DEF Enqueued
  <2>2. busy' \in [Tasks -> BOOLEAN] /\ \A u \in Tasks : busy'[u] => busy[u]
    BY <1>3 DEF Enqueued, Record
  <2>3. client' \in [Clients -> ClientSet] /\ client'[x].to = client[x].to
        /\ \A y \in Clients \ {x} : client'[y] = client[y]
    BY <1>0, <2>1 DEF ClientSet
  <2>10. TypeOK'
    BY <2>1, <2>2, <2>3
  <2>11. CallsOk'
    BY <1>0, <2>3 DEF PlaceInv, CallsOk
  <2>12. JobsOk'
    BY <2>1, <2>2 DEF PlaceInv, JobsOk
  <2> QED BY <2>10, <2>11, <2>12 DEF PlaceInv
<1>4. CASE GiveUp(x)
  <2>1. /\ client' = [client EXCEPT ![x] = Away]
        /\ inbox' = [t \in Tasks |-> [i \in DOMAIN inbox[t] |-> Forget(inbox[t][i], x)]]
        /\ worker' = [t \in Tasks |-> [worker[t] EXCEPT !.job = Forget(worker[t].job, x)]]
        /\ UNCHANGED << stop, busy, left >>
    BY <1>4 DEF GiveUp
  <2>2. ASSUME NEW j \in Job \cup {Pill}
        PROVE  Forget(j, x) \in Job \cup {Pill} /\ (j \in Job => Forget(j, x) \in Job)
               /\ (j \in Job => Forget(j, x).current = j.current /\ Forget(j, x).by \in {j.by, None})
    BY NoJobType DEF Forget, Job
  <2>3. ASSUME NEW t \in Tasks
        PROVE  inbox'[t] \in Seq(Job \cup {Pill}) /\ Len(inbox'[t]) <= InboxSize
    <3>1. inbox[t] \in Seq(Job \cup {Pill}) /\ Len(inbox[t]) <= InboxSize
      OBVIOUS
    <3>2. inbox'[t] = [i \in 1..Len(inbox[t]) |-> Forget(inbox[t][i], x)]
      BY <2>1, <3>1
    <3> QED BY <2>2, <3>1, <3>2
  <2>4. ASSUME NEW t \in Tasks
        PROVE  /\ worker'[t] \in WorkerSet /\ worker'[t].at = worker[t].at
               /\ worker'[t].job.current = worker[t].job.current
               /\ worker'[t].job.by \in {worker[t].job.by, None}
    <3>1. worker[t] \in WorkerSet /\ worker'[t] = [worker[t] EXCEPT !.job = Forget(worker[t].job, x)]
      BY <2>1
    <3>2. Forget(worker[t].job, x) \in Job /\ worker[t].job \in Job
      BY <2>2, <3>1 DEF WorkerSet
    <3>3. worker'[t].job = Forget(worker[t].job, x)
      BY <3>1 DEF WorkerSet
    <3> QED BY <2>2, <3>1, <3>2, <3>3 DEF WorkerSet
  <2>5. worker' \in [Tasks -> WorkerSet]
    BY <2>1, <2>4
  <2>10. TypeOK'
    BY <2>1, <2>3, <2>5, AwayType
  <2>11. CallsOk'
    BY <2>1, AwayType DEF PlaceInv, CallsOk
  <2>12. JobsOk'
    BY <2>1, <2>4 DEF PlaceInv, JobsOk
  <2> QED BY <2>10, <2>11, <2>12 DEF PlaceInv
<1> QED BY <1>1, <1>2, <1>3, <1>4 DEF ClientStep

LEMMA WorkerTypes ==
  ASSUME TypeOK, PlaceInv, NEW t \in Tasks, WorkerStep(t)
  PROVE  TypeOK' /\ PlaceInv'
<1>0. /\ worker[t] \in WorkerSet /\ worker[t].job \in Job /\ worker \in [Tasks -> WorkerSet]
      /\ t \in Clients
  BY TasksAre DEF TypeOK, WorkerSet
<1>1. ASSUME NEW w \in WorkerSet, worker' = [worker EXCEPT ![t] = w],
             w.at \notin {"begin", "run", "nested", "answer"} => w.job.by = None,
             t \notin left' /\ busy'[t] =>
               w.at \in {"run", "nested", "answer", "done"} /\ w.job.current,
             \A u \in (Tasks \ left') \ {t} : busy'[u] => u \notin left /\ busy[u]
      PROVE  worker' \in [Tasks -> WorkerSet] /\ JobsOk'
  BY <1>0, <1>1 DEF PlaceInv, JobsOk
<1>2. ASSUME NEW a \in {"loop", "get", "begin", "run", "nested", "answer", "done", "leave", "stopped"},
             Place(t, a)
      PROVE  \E w \in WorkerSet : worker' = [worker EXCEPT ![t] = w] /\ w.at = a /\ w.job = worker[t].job
  <2>1. [worker[t] EXCEPT !.at = a] \in WorkerSet
    BY <1>0 DEF WorkerSet
  <2> QED BY <1>0, <1>2, <2>1 DEF Place, WorkerSet
<1>3. ASSUME UNCHANGED << inbox, client, stop, left >>
      PROVE  /\ worker' \in [Tasks -> WorkerSet] /\ busy' \in [Tasks -> BOOLEAN] => TypeOK'
             /\ JobsOk' => PlaceInv'
  BY <1>3 DEF TypeOK, PlaceInv, CallsOk
<1>4. ASSUME NEW current, NEW value \in BOOLEAN, NEW u \in Tasks, Record(u, current, value)
      PROVE  busy' \in [Tasks -> BOOLEAN]
  BY <1>4 DEF Record, TypeOK
<1>5. CASE Loop(t)
  <2>1. /\ worker[t].at = "loop" /\ UNCHANGED << inbox, client, stop, busy, left >>
        /\ Place(t, "leave") \/ Place(t, "get")
    BY <1>5 DEF Loop
  <2>2. PICK w \in WorkerSet : /\ worker' = [worker EXCEPT ![t] = w]
                               /\ w.at \in {"leave", "get"} /\ w.job = worker[t].job
    BY <1>2, <2>1
  <2> QED BY <1>0, <1>1, <1>3, <2>1, <2>2 DEF PlaceInv, JobsOk, TypeOK
<1>6. CASE Get(t)
  <2>1. /\ worker[t].at = "get" /\ inbox[t] # <<>> /\ inbox' = [inbox EXCEPT ![t] = Tail(@)]
        /\ UNCHANGED << client, stop, busy, left >>
    BY <1>6 DEF Get
  <2>2. PICK w : /\ w = IF Head(inbox[t]) = Pill THEN [at |-> "leave", job |-> NoJob]
                         ELSE [at |-> "begin", job |-> Head(inbox[t])]
                 /\ worker' = [worker EXCEPT ![t] = w]
    BY <1>6 DEF Get
  <2>3. Head(inbox[t]) \in Job \cup {Pill} /\ Tail(inbox[t]) \in Seq(Job \cup {Pill})
        /\ Len(Tail(inbox[t])) <= InboxSize
    BY <2>1, SizeType DEF TypeOK
  <2>4. w \in WorkerSet /\ (w.at = "begin" \/ (w.at = "leave" /\ w.job.by = None))
    BY <2>2, <2>3, NoJobType DEF WorkerSet
  <2>5. worker' \in [Tasks -> WorkerSet] /\ JobsOk'
    BY <1>1, <2>1, <2>2, <2>4 DEF PlaceInv, JobsOk
  <2>6. /\ inbox' \in [Tasks -> Seq(Job \cup {Pill})]
        /\ \A u \in Tasks : Len(inbox'[u]) <= InboxSize
    BY <2>1, <2>3 DEF TypeOK
  <2>7. TypeOK'
    BY <2>1, <2>5, <2>6 DEF TypeOK
  <2> QED BY <2>1, <2>5, <2>7 DEF PlaceInv, CallsOk
<1>7. CASE Processing(t)
  <2>1. /\ worker[t].at = "begin" /\ UNCHANGED << inbox, client, stop, left >> /\ Place(t, "run")
        /\ Record(t, worker[t].job.current, TRUE)
    BY <1>7 DEF Processing
  <2>2. PICK w \in WorkerSet : /\ worker' = [worker EXCEPT ![t] = w]
                               /\ w.at = "run" /\ w.job = worker[t].job
    BY <1>2, <2>1
  <2>3. /\ \A u \in Tasks \ {t} : busy'[u] = busy[u]
        /\ busy'[t] => busy[t] \/ worker[t].job.current
    BY <2>1 DEF Record, TypeOK
  <2> QED BY <1>0, <1>1, <1>3, <1>4, <2>1, <2>2, <2>3 DEF PlaceInv, JobsOk
<1>8. CASE HandlerEnds(t)
  <2>1. /\ worker[t].at = "run" /\ UNCHANGED << inbox, client, stop, busy, left >>
        /\ PlaceWith(t, "answer", [worker[t].job EXCEPT !.up = FALSE])
    BY <1>8 DEF HandlerEnds
  <2> DEFINE j == [worker[t].job EXCEPT !.up = FALSE]
             w == [at |-> "answer", job |-> j]
  <2>2. j \in Job /\ j.current = worker[t].job.current
    BY <1>0 DEF Job
  <2>3. worker' = [worker EXCEPT ![t] = w]
    BY <2>1 DEF PlaceWith
  <2> HIDE DEF j
  <2>4. w \in WorkerSet /\ w.at = "answer" /\ w.job = j
    BY <2>2 DEF WorkerSet
  <2> HIDE DEF w
  <2> QED BY <1>0, <1>1, <1>3, <2>1, <2>2, <2>3, <2>4 DEF PlaceInv, JobsOk, TypeOK
<1>9. CASE HandlerNests(t)
  <2>1. /\ worker[t].at = "run" /\ Below[t] \in Tasks /\ UNCHANGED << inbox, stop >>
        /\ Call(t, Below[t], TRUE, worker[t].job.current)
        /\ PlaceWith(t, "nested", [worker[t].job EXCEPT !.up = FALSE])
    BY <1>9, TasksAre DEF HandlerNests
  <2> DEFINE j == [worker[t].job EXCEPT !.up = FALSE]
             w == [at |-> "nested", job |-> j]
  <2>2. j \in Job /\ j.current = worker[t].job.current
    BY <1>0 DEF Job
  <2>3. worker' = [worker EXCEPT ![t] = w]
    BY <2>1 DEF PlaceWith
  <2> HIDE DEF j
  <2>4. w \in WorkerSet /\ w.at = "nested" /\ w.job = j
    BY <2>2 DEF WorkerSet
  <2> HIDE DEF w
  <2>5. worker[t].job.current \in BOOLEAN
    BY <1>0 DEF Job
  <2>6. /\ client' \in [Clients -> ClientSet] /\ busy' \in [Tasks -> BOOLEAN]
        /\ client'[t].to = Below[t]
        /\ \A y \in Clients \ {t} : client'[y] = client[y]
        /\ left' \subseteq Tasks /\ \A u \in Tasks \ left' : busy'[u] => u \notin left /\ busy[u]
    BY <1>0, <2>1, <2>5, CallTypes
  <2>7. worker' \in [Tasks -> WorkerSet] /\ JobsOk'
    BY <1>0, <1>1, <2>1, <2>2, <2>3, <2>4, <2>6 DEF PlaceInv, JobsOk
  <2>8. CallsOk'
    BY <2>1, <2>6 DEF PlaceInv, CallsOk
  <2> QED BY <2>1, <2>6, <2>7, <2>8 DEF TypeOK, PlaceInv
<1>10. CASE NestedEnds(t)
  <2>1. /\ worker[t].at = "nested" /\ UNCHANGED << inbox, client, stop, busy, left >> /\ Place(t, "answer")
    BY <1>10 DEF NestedEnds
  <2>2. PICK w \in WorkerSet : /\ worker' = [worker EXCEPT ![t] = w]
                               /\ w.at = "answer" /\ w.job = worker[t].job
    BY <1>2, <2>1
  <2> QED BY <1>0, <1>1, <1>3, <2>1, <2>2 DEF PlaceInv, JobsOk, TypeOK
<1>11. CASE Answer(t)
  <2>1. /\ worker[t].at = "answer" /\ UNCHANGED << inbox, stop, busy, left >>
        /\ PlaceWith(t, "done", [worker[t].job EXCEPT !.by = None])
        /\ client' = IF worker[t].job.by = None THEN client
                     ELSE [client EXCEPT ![worker[t].job.by].got = TRUE]
    BY <1>11 DEF Answer
  <2> DEFINE j == [worker[t].job EXCEPT !.by = None]
             w == [at |-> "done", job |-> j]
  <2>2. j \in Job /\ j.current = worker[t].job.current /\ j.by = None
    BY <1>0 DEF Job
  <2>3. worker' = [worker EXCEPT ![t] = w]
    BY <2>1 DEF PlaceWith
  <2> HIDE DEF j
  <2>4. w \in WorkerSet /\ w.at = "done" /\ w.job = j
    BY <2>2 DEF WorkerSet
  <2> HIDE DEF w
  <2>5. worker' \in [Tasks -> WorkerSet] /\ JobsOk'
    BY <1>0, <1>1, <2>1, <2>2, <2>3, <2>4 DEF PlaceInv, JobsOk
  <2>6. client' \in [Clients -> ClientSet] /\ CallsOk'
    <3>1. CASE worker[t].job.by = None
      BY <2>1, <3>1 DEF PlaceInv, CallsOk, TypeOK
    <3>2. CASE worker[t].job.by # None
      <4> PICK x \in Clients : x = worker[t].job.by
        BY <1>0, <3>2 DEF Job
      <4>1. client' = [client EXCEPT ![x] = [client[x] EXCEPT !.got = TRUE]] /\ client[x] \in ClientSet
        BY <2>1, <3>2 DEF TypeOK
      <4>2. /\ [client[x] EXCEPT !.got = TRUE] \in ClientSet
            /\ [client[x] EXCEPT !.got = TRUE].at = client[x].at
            /\ [client[x] EXCEPT !.got = TRUE].to = client[x].to
        BY <4>1 DEF ClientSet
      <4> QED BY <4>1, <4>2 DEF PlaceInv, CallsOk, TypeOK
    <3> QED BY <3>1, <3>2
  <2> QED BY <2>1, <2>5, <2>6 DEF TypeOK, PlaceInv
<1>12. CASE Completed(t)
  <2>1. /\ UNCHANGED << inbox, client, stop, left >> /\ Record(t, worker[t].job.current, FALSE)
        /\ worker' = [worker EXCEPT ![t] = [at |-> "loop", job |-> NoJob]]
    BY <1>12 DEF Completed, PlaceWith
  <2> DEFINE w == [at |-> "loop", job |-> NoJob]
  <2>2. w \in WorkerSet /\ w.job.by = None /\ worker' = [worker EXCEPT ![t] = w]
    BY <2>1, NoJobType DEF WorkerSet
  <2> HIDE DEF w
  <2>3. /\ t \notin left => ~busy'[t]
        /\ \A u \in Tasks \ {t} : busy'[u] = busy[u]
    BY <1>0, <2>1 DEF Record, TypeOK, PlaceInv, JobsOk, Job
  <2>4. worker' \in [Tasks -> WorkerSet] /\ JobsOk'
    BY <1>1, <2>1, <2>2, <2>3 DEF TypeOK
  <2>5. busy' \in [Tasks -> BOOLEAN]
    BY <1>4, <2>1
  <2> QED BY <1>3, <2>1, <2>4, <2>5
<1>13. CASE Leave(t)
  <2>1. /\ worker[t].at = "leave" /\ UNCHANGED << inbox, client, stop, left >>
        /\ Place(t, "stopped") /\ Record(t, TRUE, FALSE)
    BY <1>13 DEF Leave
  <2>2. PICK w \in WorkerSet : /\ worker' = [worker EXCEPT ![t] = w]
                               /\ w.at = "stopped" /\ w.job = worker[t].job
    BY <1>2, <2>1
  <2>3. ~busy'[t] /\ \A u \in Tasks \ {t} : busy'[u] = busy[u]
    BY <2>1 DEF Record, TypeOK
  <2> QED BY <1>0, <1>1, <1>3, <1>4, <2>1, <2>2, <2>3 DEF PlaceInv, JobsOk
<1> QED
  BY <1>5, <1>6, <1>7, <1>8, <1>9, <1>10, <1>11, <1>12, <1>13 DEF WorkerStep

LEMMA OtherTypes ==
  ASSUME TypeOK, PlaceInv,
         \/ \E c \in Callers : CallerCalls(c)
         \/ \E t \in Tasks : StopBegins(t) \/ StopStep(t)
         \/ StartAttach \/ ResetRuntime \/ UNCHANGED vars
  PROVE  TypeOK' /\ PlaceInv'
<1>1. ASSUME NEW c \in Callers, CallerCalls(c)
      PROVE  TypeOK' /\ PlaceInv'
  <2>1. PICK t \in Tasks, up \in BOOLEAN : Call(c, t, up, TRUE)
    BY <1>1, TasksAre, BusAssumption DEF CallerCalls
  <2>2. UNCHANGED << inbox, worker, stop >> /\ c \in Clients
    BY <1>1 DEF CallerCalls, Clients
  <2>3. /\ client' \in [Clients -> ClientSet] /\ busy' \in [Tasks -> BOOLEAN]
        /\ client'[c].to = t
        /\ \A y \in Clients \ {c} : client'[y] = client[y]
        /\ left' \subseteq Tasks /\ \A u \in Tasks \ left' : busy'[u] => u \notin left /\ busy[u]
    BY <2>1, <2>2, CallTypes
  <2>4. TypeOK'
    BY <2>2, <2>3 DEF TypeOK
  <2>5. CallsOk'
    BY <2>1, <2>3 DEF PlaceInv, CallsOk
  <2>6. JobsOk'
    BY <2>2, <2>3 DEF PlaceInv, JobsOk
  <2> QED BY <2>4, <2>5, <2>6 DEF PlaceInv
<1>2. ASSUME NEW t \in Tasks, StopBegins(t) \/ StopStep(t)
      PROVE  TypeOK' /\ PlaceInv'
  <2>1. UNCHANGED << worker, client, busy, left >>
    BY <1>2 DEF StopBegins, StopStep, StopPuts, StopMakesRoom
  <2>2. stop' \in [Tasks -> {"no", "put", "drop", "again", "done"}]
    BY <1>2 DEF StopBegins, StopStep, StopPuts, StopMakesRoom, TypeOK
  <2>3. inbox[t] \in Seq(Job \cup {Pill}) /\ Len(inbox[t]) <= InboxSize
    BY DEF TypeOK
  <2>4. \/ inbox' = inbox
        \/ inbox' = [inbox EXCEPT ![t] = Append(inbox[t], Pill)] /\ Len(inbox[t]) < InboxSize
        \/ inbox' = [inbox EXCEPT ![t] = Tail(inbox[t])] /\ inbox[t] # <<>>
    BY <1>2 DEF StopBegins, StopStep, StopPuts, StopMakesRoom, Room, TypeOK
  <2>5. /\ Append(inbox[t], Pill) \in Seq(Job \cup {Pill})
        /\ Len(inbox[t]) < InboxSize => Len(Append(inbox[t], Pill)) <= InboxSize
        /\ inbox[t] # <<>> => /\ Tail(inbox[t]) \in Seq(Job \cup {Pill})
                              /\ Len(Tail(inbox[t])) <= InboxSize
    BY <2>3, SizeType
  <2>6. /\ inbox' \in [Tasks -> Seq(Job \cup {Pill})]
        /\ \A u \in Tasks : Len(inbox'[u]) <= InboxSize
    BY <2>3, <2>4, <2>5 DEF TypeOK
  <2>7. TypeOK'
    BY <2>1, <2>2, <2>6 DEF TypeOK
  <2> QED BY <2>1, <2>7 DEF PlaceInv, CallsOk, JobsOk
<1>3. CASE StartAttach \/ ResetRuntime
  <2>1. /\ inbox' = [t \in Tasks |-> [i \in DOMAIN inbox[t] |-> Outdated(inbox[t][i])]]
        /\ worker' = [t \in Tasks |-> [worker[t] EXCEPT !.job = Outdated(worker[t].job)]]
        /\ client' = [x \in Clients |-> [client[x] EXCEPT !.current = FALSE]]
        /\ left' \subseteq Tasks /\ stop' = stop /\ busy' \in [Tasks -> BOOLEAN]
        /\ \A t \in Tasks \ left' : ~busy'[t]
    BY <1>3 DEF StartAttach, ResetRuntime, Supersede, TypeOK
  <2>2. ASSUME NEW j \in Job \cup {Pill}
        PROVE  /\ Outdated(j) \in Job \cup {Pill} /\ (j \in Job => Outdated(j) \in Job)
               /\ Outdated(j).by = j.by
    BY DEF Outdated, Job, Pill, NoJob
  <2>3. ASSUME NEW t \in Tasks
        PROVE  inbox'[t] \in Seq(Job \cup {Pill}) /\ Len(inbox'[t]) <= InboxSize
    <3>1. inbox[t] \in Seq(Job \cup {Pill}) /\ Len(inbox[t]) <= InboxSize
      BY DEF TypeOK
    <3>2. inbox'[t] = [i \in 1..Len(inbox[t]) |-> Outdated(inbox[t][i])]
      BY <2>1, <3>1
    <3> QED BY <2>2, <3>1, <3>2
  <2>4. ASSUME NEW t \in Tasks
        PROVE  /\ worker'[t] \in WorkerSet /\ worker'[t].at = worker[t].at
               /\ worker'[t].job.by = worker[t].job.by
    <3>1. worker[t] \in WorkerSet /\ worker'[t] = [worker[t] EXCEPT !.job = Outdated(worker[t].job)]
      BY <2>1 DEF TypeOK
    <3>2. Outdated(worker[t].job) \in Job /\ worker[t].job \in Job
      BY <2>2, <3>1 DEF WorkerSet
    <3>3. worker'[t].job = Outdated(worker[t].job)
      BY <3>1 DEF WorkerSet
    <3> QED BY <2>2, <3>1, <3>2, <3>3 DEF WorkerSet
  <2>5. \A x \in Clients : /\ [client[x] EXCEPT !.current = FALSE] \in ClientSet
                           /\ [client[x] EXCEPT !.current = FALSE].at = client[x].at
                           /\ [client[x] EXCEPT !.current = FALSE].to = client[x].to
    BY DEF TypeOK, ClientSet
  <2>6. worker' \in [Tasks -> WorkerSet] /\ client' \in [Clients -> ClientSet]
    BY <2>1, <2>4, <2>5
  <2>7. TypeOK'
    BY <2>1, <2>3, <2>6 DEF TypeOK
  <2>8. CallsOk'
    BY <2>1, <2>5 DEF PlaceInv, CallsOk
  <2>9. JobsOk'
    BY <2>1, <2>4 DEF PlaceInv, JobsOk
  <2> QED BY <2>7, <2>8, <2>9 DEF PlaceInv
<1>4. CASE UNCHANGED vars
  BY <1>4 DEF TypeOK, PlaceInv, CallsOk, JobsOk, vars
<1> QED BY <1>1, <1>2, <1>3, <1>4

LEMMA TypesStep == TypeOK /\ PlaceInv /\ [Next]_vars => TypeOK' /\ PlaceInv'
BY ClientTypes, WorkerTypes, OtherTypes DEF Next

LEMMA BusInvHolds == Spec => [](TypeOK /\ PlaceInv)
BY InitTypes, TypesStep, PTL DEF Spec

\* Once the transaction on display has made a request to a task, the task is only
\* shown BUSY while it is at work, in whatever order the events of old and new
\* requests come and although start_attach leaves the board as it was; and no
\* inbox ever holds more than its size.
THEOREM BoardIsTrue == Spec => []BusInv
<1>1. TypeOK /\ PlaceInv => BusInv
  BY DEF BusInv, BusyIsTrue, AtWork, PlaceInv, JobsOk, TypeOK
<1> QED BY <1>1, BusInvHolds, PTL

-----------------------------------------------------------------------------
(* One request, one answer.                                                *)

\* The request in place i of task t is that of x: 0 is the worker's own place.
Holds(x, t, i) ==
  \/ i = 0 /\ worker[t].job.by = x
  \/ i \in 1..Len(inbox[t]) /\ inbox[t][i].by = x

Waiting(x) == client[x].at \in {"enqueued", "wait"} /\ ~client[x].got

\* Only a requester that waits has a request about, with its task and once; and
\* as long as its task is not being stopped it does have one.
WaitOk(x) ==
  /\ client[x].got => client[x].at \in {"enqueued", "wait"}
  /\ \A t \in Tasks, i \in Nat : Holds(x, t, i) => Waiting(x) /\ t = client[x].to
  /\ \A t \in Tasks, i, j \in Nat : Holds(x, t, i) /\ Holds(x, t, j) => i = j
  /\ Waiting(x) /\ stop[client[x].to] = "no" => \E i \in Nat : Holds(x, client[x].to, i)

WaitInv == \A x \in Clients : WaitOk(x)

\* Steps that move no request of x.
LEMMA WaitKept ==
  ASSUME NEW x \in Clients, WaitOk(x),
         \A t \in Tasks, i \in Nat : Holds(x, t, i)' <=> Holds(x, t, i),
         Waiting(x)' <=> Waiting(x), Waiting(x) => client'[x].to = client[x].to,
         client'[x].got => client'[x].at \in {"enqueued", "wait"},
         CallsOk, TypeOK,
         \A t \in Tasks : stop'[t] = "no" => stop[t] = "no"
  PROVE  WaitOk(x)'
<1>1. Waiting(x) => client[x].to \in Tasks
  BY DEF Waiting, CallsOk
<1> QED BY <1>1 DEF WaitOk

LEMMA WaitInit == Init => WaitInv
<1> SUFFICES ASSUME Init, NEW x \in Clients PROVE WaitOk(x)
  BY DEF WaitInv
<1>1. ~Waiting(x) /\ ~client[x].got
  BY AwayType DEF Init, Waiting
<1>2. x # None
  BY BusAssumption
<1>3. \A t \in Tasks : inbox[t] = << >> /\ worker[t].job.by = None
  BY NoJobType DEF Init
<1>4. \A t \in Tasks, i \in Nat : ~Holds(x, t, i)
  BY <1>2, <1>3 DEF Holds
<1> QED BY <1>1, <1>4 DEF WaitOk

\* The steps of a requester.
LEMMA WaitClient ==
  ASSUME TypeOK, PlaceInv, WaitInv, NEW y \in Clients, ClientStep(y) \/ GiveUp(y)
  PROVE  WaitInv'
<1> SUFFICES ASSUME NEW x \in Clients PROVE WaitOk(x)'
  BY DEF WaitInv
<1>0. WaitOk(x) /\ CallsOk /\ client[y] \in ClientSet /\ client \in [Clients -> ClientSet]
  BY DEF WaitInv, PlaceInv, TypeOK
<1>1. CASE Submit(y)
  <2> DEFINE t == client[y].to
             job == [by |-> y, up |-> client[y].up, current |-> client[y].current]
             n == Len(inbox[t]) + 1
  <2>1. /\ client[y].at = "submit" /\ inbox' = [inbox EXCEPT ![t] = Append(@, job)]
        /\ client' = [client EXCEPT ![y].at = "enqueued", ![y].up = FALSE]
        /\ UNCHANGED << worker, stop, busy, left >>
    BY <1>1 DEF Submit
  <2>2. t \in Tasks /\ job.by = y
    BY <1>0, <2>1 DEF CallsOk
  <2>3. /\ client'[y].at = "enqueued" /\ client'[y].to = t /\ client'[y].got = client[y].got
        /\ \A z \in Clients \ {y} : client'[z] = client[z]
    BY <1>0, <2>1 DEF ClientSet
  <2>4. inbox \in [Tasks -> Seq(Job \cup {Pill})]
    BY DEF TypeOK
  <2> HIDE DEF job
  <2>5. /\ Len(inbox'[t]) = n /\ n \in Nat \ {0} /\ inbox'[t][n] = job
        /\ \A i \in 1..Len(inbox[t]) : inbox'[t][i] = inbox[t][i]
        /\ \A u \in Tasks \ {t} : inbox'[u] = inbox[u]
    BY <2>1, <2>2, <2>4
  <2> HIDE DEF t
  <2>6. ASSUME NEW u \in Tasks, NEW i \in Nat
        PROVE  Holds(x, u, i)' <=> Holds(x, u, i) \/ (x = y /\ u = t /\ i = n)
    BY <2>1, <2>2, <2>5 DEF Holds
  <2>7. CASE x # y
    BY <1>0, <2>1, <2>3, <2>6, <2>7, WaitKept DEF Waiting, WaitOk
  <2>8. CASE x = y
    <3>1. \A u \in Tasks, i \in Nat : ~Holds(x, u, i)
      BY <1>0, <2>1, <2>8 DEF WaitOk, Waiting
    <3>2. \A u \in Tasks, i \in Nat : Holds(x, u, i)' <=> u = t /\ i = n
      BY <2>6, <2>8, <3>1
    <3>3. ~client[y].got
      BY <1>0, <2>1, <2>8 DEF WaitOk
    <3>4. Waiting(x)' /\ client'[x].to = t /\ ~client'[x].got
      BY <2>3, <2>8, <3>3 DEF Waiting
    <3> QED BY <2>2, <2>5, <3>2, <3>4 DEF WaitOk
  <2> QED BY <2>7, <2>8
<1>2. CASE SubmitFull(y) \/ Receive(y)
  <2>1. /\ client' = [client EXCEPT ![y] = Away] /\ UNCHANGED << inbox, worker, stop >>
        /\ ~Waiting(y)
    BY <1>2 DEF SubmitFull, Receive, Waiting
  <2>2. \A u \in Tasks, i \in Nat : Holds(x, u, i)' <=> Holds(x, u, i)
    BY <2>1 DEF Holds
  <2>3. /\ Waiting(x)' <=> Waiting(x)
        /\ Waiting(x) => client'[x].to = client[x].to
        /\ client'[x].got => client'[x].at \in {"enqueued", "wait"}
    BY <1>0, <2>1, AwayType DEF Waiting, WaitOk
  <2> QED BY <1>0, <2>1, <2>2, <2>3, WaitKept
<1>3. CASE Enqueued(y)
  <2>1. /\ client' = [client EXCEPT ![y].at = "wait", ![y].current = FALSE]
        /\ client[y].at = "enqueued" /\ UNCHANGED << inbox, worker, stop, left >>
    BY <1>3 DEF Enqueued
  <2>2. /\ client'[y].at = "wait" /\ client'[y].to = client[y].to /\ client'[y].got = client[y].got
        /\ \A z \in Clients \ {y} : client'[z] = client[z]
    BY <1>0, <2>1 DEF ClientSet
  <2>3. \A u \in Tasks, i \in Nat : Holds(x, u, i)' <=> Holds(x, u, i)
    BY <2>1 DEF Holds
  <2> QED BY <1>0, <2>1, <2>2, <2>3, WaitKept DEF Waiting, WaitOk
<1>4. CASE GiveUp(y)
  <2>1. /\ client' = [client EXCEPT ![y] = Away] /\ stop' = stop
        /\ inbox' = [t \in Tasks |-> [i \in DOMAIN inbox[t] |-> Forget(inbox[t][i], y)]]
        /\ worker' = [t \in Tasks |-> [worker[t] EXCEPT !.job = Forget(worker[t].job, y)]]
    BY <1>4 DEF GiveUp
  <2>2. ASSUME NEW j \in Job \cup {Pill}
        PROVE  Forget(j, y).by = x <=> j.by = x /\ x # y
    BY BusAssumption, NoJobType DEF Forget, Job
  <2>3. ASSUME NEW u \in Tasks, NEW i \in Nat
        PROVE  Holds(x, u, i)' <=> Holds(x, u, i) /\ x # y
    <3>1. inbox[u] \in Seq(Job \cup {Pill}) /\ worker[u] \in WorkerSet /\ worker[u].job \in Job
      BY DEF TypeOK, WorkerSet
    <3>2. worker'[u].job = Forget(worker[u].job, y)
      BY <2>1, <3>1 DEF WorkerSet
    <3>3. inbox'[u] = [k \in 1..Len(inbox[u]) |-> Forget(inbox[u][k], y)]
          /\ Len(inbox'[u]) = Len(inbox[u])
      BY <2>1, <3>1
    <3>4. \A k \in 1..Len(inbox[u]) : inbox'[u][k].by = x <=> inbox[u][k].by = x /\ x # y
      BY <2>2, <3>1, <3>3
    <3>5. worker'[u].job.by = x <=> worker[u].job.by = x /\ x # y
      BY <2>2, <3>1, <3>2
    <3> QED BY <3>3, <3>4, <3>5 DEF Holds
  <2>4. CASE x # y
    BY <1>0, <2>1, <2>3, <2>4, WaitKept DEF Waiting, WaitOk
  <2>5. CASE x = y
    BY <1>0, <2>1, <2>3, <2>5, AwayType DEF Waiting, WaitOk
  <2> QED BY <2>4, <2>5
<1> QED BY <1>1, <1>2, <1>3, <1>4 DEF ClientStep

\* The steps of a worker: the request moves up to it, and is answered.
LEMMA WaitWorker ==
  ASSUME TypeOK, PlaceInv, WaitInv, NEW t \in Tasks, WorkerStep(t)
  PROVE  WaitInv'
<1> SUFFICES ASSUME NEW x \in Clients PROVE WaitOk(x)'
  BY DEF WaitInv
<1>0. /\ WaitOk(x) /\ CallsOk /\ x # None /\ x # "stop"
      /\ worker[t] \in WorkerSet /\ worker[t].job \in Job /\ inbox[t] \in Seq(Job \cup {Pill})
  BY BusAssumption DEF WaitInv, PlaceInv, TypeOK, WorkerSet
<1>1. CASE Get(t)
  <2>1. /\ worker[t].at = "get" /\ inbox[t] # <<>> /\ inbox' = [inbox EXCEPT ![t] = Tail(@)]
        /\ UNCHANGED << client, stop >>
        /\ worker' = [worker EXCEPT ![t] =
             IF Head(inbox[t]) = Pill THEN [at |-> "leave", job |-> NoJob]
                                      ELSE [at |-> "begin", job |-> Head(inbox[t])]]
    BY <1>1 DEF Get
  <2>2. worker[t].job.by = None
    BY <2>1 DEF PlaceInv, JobsOk
  <2>3. worker'[t].job.by = x <=> inbox[t][1].by = x
    <3>1. worker'[t].job = IF inbox[t][1] = Pill THEN NoJob ELSE inbox[t][1]
      BY <1>0, <2>1 DEF TypeOK
    <3> QED BY <1>0, <3>1, NoJobType
  <2>4. /\ Len(inbox[t]) \in Nat \ {0} /\ Len(inbox'[t]) = Len(inbox[t]) - 1
        /\ \A i \in 1..Len(inbox'[t]) : inbox'[t][i] = inbox[t][i + 1]
    BY <1>0, <2>1 DEF TypeOK
  <2>5. ASSUME NEW u \in Tasks, NEW i \in Nat
        PROVE  Holds(x, u, i)' <=> Holds(x, u, IF u = t THEN i + 1 ELSE i)
    <3>1. CASE u # t
      BY <2>1, <3>1 DEF Holds, TypeOK
    <3>2. CASE u = t /\ i = 0
      BY <2>3, <2>4, <3>2 DEF Holds
    <3>3. CASE u = t /\ i # 0
      BY <2>4, <3>3 DEF Holds
    <3> QED BY <3>1, <3>2, <3>3
  <2>6. ~Holds(x, t, 0)
    BY <1>0, <2>2 DEF Holds
  <2>7. (Waiting(x)' <=> Waiting(x)) /\ client' = client /\ stop' = stop
    BY <2>1 DEF Waiting
  <2>8. Waiting(x) => client[x].to \in Tasks
    BY <1>0 DEF Waiting, CallsOk
  <2>9. ASSUME NEW i \in Nat, NEW u \in Tasks, Holds(x, u, i)
        PROVE  \E k \in Nat : Holds(x, u, k)'
    <3>1. CASE u # t
      BY <2>5, <2>9, <3>1
    <3>2. CASE u = t
      <4>1. i - 1 \in Nat /\ (i - 1) + 1 = i
        BY <2>6, <2>9, <3>2
      <4> QED BY <2>5, <2>9, <3>2, <4>1
    <3> QED BY <3>1, <3>2
  <2>10. ASSUME NEW u \in Tasks, NEW i \in Nat, NEW j \in Nat, Holds(x, u, i)', Holds(x, u, j)'
         PROVE  i = j
    <3>1. (i + 1) \in Nat /\ (j + 1) \in Nat /\ (i + 1 = j + 1 => i = j)
      OBVIOUS
    <3> QED BY <1>0, <2>5, <2>10, <3>1 DEF WaitOk
  <2>11. ASSUME NEW u \in Tasks, NEW i \in Nat, Holds(x, u, i)'
         PROVE  Waiting(x) /\ u = client[x].to
    BY <1>0, <2>5, <2>11 DEF WaitOk
  <2>12. Waiting(x) /\ stop[client[x].to] = "no" => \E k \in Nat : Holds(x, client[x].to, k)'
    BY <1>0, <2>7, <2>8, <2>9 DEF WaitOk
  <2> QED BY <1>0, <2>7, <2>10, <2>11, <2>12 DEF WaitOk
<1>2. CASE Answer(t)
  <2>1. /\ UNCHANGED << inbox, stop >>
        /\ worker' = [worker EXCEPT ![t] =
              [at |-> "done", job |-> [worker[t].job EXCEPT !.by = None]]]
        /\ client' = IF worker[t].job.by = None THEN client
                     ELSE [client EXCEPT ![worker[t].job.by].got = TRUE]
    BY <1>2 DEF Answer, PlaceWith
  <2>2. worker'[t].job.by = None /\ \A u \in Tasks \ {t} : worker'[u] = worker[u]
    BY <1>0, <2>1 DEF TypeOK, Job
  <2>3. \A u \in Tasks, i \in Nat : Holds(x, u, i)' <=> Holds(x, u, i) /\ ~(u = t /\ i = 0)
    BY <1>0, <2>1, <2>2 DEF Holds
  <2>4. CASE worker[t].job.by # x
    <3>1. client'[x] = client[x]
      BY <1>0, <2>1, <2>4 DEF TypeOK
    <3>2. ~Holds(x, t, 0)
      BY <2>4 DEF Holds
    <3> QED BY <1>0, <2>1, <2>3, <3>1, <3>2, WaitKept DEF Waiting, WaitOk
  <2>5. CASE worker[t].job.by = x
    <3>1. Holds(x, t, 0) /\ Waiting(x)
      BY <1>0, <2>5 DEF Holds, WaitOk
    <3>2. client'[x].got /\ client'[x].at = client[x].at
      BY <1>0, <2>1, <2>5 DEF TypeOK, ClientSet
    <3>3. \A u \in Tasks, i \in Nat : ~Holds(x, u, i)'
      BY <1>0, <2>3, <3>1 DEF WaitOk
    <3> QED BY <1>0, <3>1, <3>2, <3>3 DEF WaitOk, Waiting
  <2> QED BY <2>4, <2>5
<1>3. CASE ~Get(t) /\ ~Answer(t)
  <2>1. /\ UNCHANGED << inbox, stop >>
        /\ \A u \in Tasks \ {t} : worker'[u] = worker[u]
    BY <1>3 DEF WorkerStep, Loop, Processing, HandlerEnds, HandlerNests, NestedEnds, Completed,
                Leave, Place, PlaceWith, TypeOK
  <2>2. worker'[t].job.by = worker[t].job.by
    <3>1. CASE HandlerEnds(t) \/ HandlerNests(t)
      <4>1. \E a : worker' = [worker EXCEPT ![t] = [at |-> a, job |-> [worker[t].job EXCEPT !.up = FALSE]]]
        BY <3>1 DEF HandlerEnds, HandlerNests, PlaceWith
      <4>2. [worker[t].job EXCEPT !.up = FALSE].by = worker[t].job.by
        BY <1>0 DEF Job
      <4> QED BY <4>1, <4>2 DEF TypeOK
    <3>2. CASE Completed(t)
      BY <3>2, NoJobType DEF Completed, PlaceWith, TypeOK, PlaceInv, JobsOk
    <3>3. CASE \E a : Place(t, a)
      BY <1>0, <3>3 DEF Place, TypeOK, WorkerSet
    <3> QED BY <1>3, <3>1, <3>2, <3>3 DEF WorkerStep, Loop, Processing, NestedEnds, Leave
  <2>3. \A u \in Tasks, i \in Nat : Holds(x, u, i)' <=> Holds(x, u, i)
    BY <2>1, <2>2 DEF Holds
  <2>4. client'[x] = client[x] \/ (client[x].at = "idle" /\ client'[x].at = "submit" /\ ~client'[x].got)
    <3>1. CASE HandlerNests(t)
      <4>1. PICK u, up, c : Call(t, u, up, c)
        BY <3>1 DEF HandlerNests
      <4>2. [Away EXCEPT !.at = "submit", !.to = u, !.up = up, !.current = c].at = "submit"
            /\ ~[Away EXCEPT !.at = "submit", !.to = u, !.up = up, !.current = c].got
        BY DEF Away
      <4> QED BY <4>1, <4>2, TasksAre DEF Call, TypeOK
    <3>2. CASE ~HandlerNests(t)
      BY <1>3, <3>2 DEF WorkerStep, Loop, Processing, HandlerEnds, NestedEnds, Completed, Leave
    <3> QED BY <3>1, <3>2
  <2> QED BY <1>0, <2>1, <2>3, <2>4, WaitKept DEF Waiting, WaitOk
<1> QED BY <1>1, <1>2, <1>3

LEMMA WaitOther ==
  ASSUME TypeOK, PlaceInv, WaitInv,
         \/ \E c \in Callers : CallerCalls(c)
         \/ \E t \in Tasks : StopBegins(t) \/ StopStep(t)
         \/ StartAttach \/ ResetRuntime \/ UNCHANGED vars
  PROVE  WaitInv'
<1> SUFFICES ASSUME NEW x \in Clients PROVE WaitOk(x)'
  BY DEF WaitInv
<1>0. WaitOk(x) /\ CallsOk /\ x # None /\ x # "stop"
  BY BusAssumption DEF WaitInv, PlaceInv
<1>1. ASSUME NEW y \in Callers, CallerCalls(y)
      PROVE  WaitOk(x)'
  <2>1. PICK u, up : Call(y, u, up, TRUE)
    BY <1>1 DEF CallerCalls
  <2>2. UNCHANGED << inbox, worker, stop >> /\ y \in Clients
    BY <1>1 DEF CallerCalls, Clients
  <2>3. client'[x] = client[x] \/ (client[x].at = "idle" /\ client'[x].at = "submit" /\ ~client'[x].got)
    <3>1. [Away EXCEPT !.at = "submit", !.to = u, !.up = up, !.current = TRUE].at = "submit"
          /\ ~[Away EXCEPT !.at = "submit", !.to = u, !.up = up, !.current = TRUE].got
      BY DEF Away
    <3> QED BY <2>1, <2>2, <3>1 DEF Call, TypeOK
  <2>4. \A t \in Tasks, i \in Nat : Holds(x, t, i)' <=> Holds(x, t, i)
    BY <2>2 DEF Holds
  <2> QED BY <1>0, <2>2, <2>3, <2>4, WaitKept DEF Waiting, WaitOk
<1>2. ASSUME NEW t \in Tasks, StopMakesRoom(t), stop[t] = "drop", inbox[t] # <<>>
      PROVE  WaitOk(x)'
  <2>1. /\ inbox' = [inbox EXCEPT ![t] = Tail(inbox[t])] /\ UNCHANGED << worker, client >>
        /\ stop' = [stop EXCEPT ![t] = "again"]
    BY <1>2 DEF StopMakesRoom, TypeOK
  <2>2. inbox[t] \in Seq(Job \cup {Pill})
    BY DEF TypeOK
  <2>3. /\ Len(inbox[t]) \in Nat \ {0} /\ Len(inbox'[t]) = Len(inbox[t]) - 1
        /\ \A i \in 1..Len(inbox'[t]) : inbox'[t][i] = inbox[t][i + 1]
    BY <1>2, <2>1, <2>2 DEF TypeOK
  <2>4. ASSUME NEW u \in Tasks, NEW i \in Nat
        PROVE  Holds(x, u, i)' <=> Holds(x, u, IF u = t /\ i > 0 THEN i + 1 ELSE i)
    <3>1. CASE u # t
      BY <2>1, <3>1 DEF Holds, TypeOK
    <3>2. CASE u = t /\ i = 0
      BY <2>1, <2>3, <3>2 DEF Holds
    <3>3. CASE u = t /\ i # 0
      BY <2>3, <3>3 DEF Holds
    <3> QED BY <3>1, <3>2, <3>3
  <2>5. ASSUME NEW u \in Tasks, NEW i \in Nat, NEW j \in Nat, Holds(x, u, i)', Holds(x, u, j)'
        PROVE  i = j
    <3> DEFINE k == IF u = t /\ i > 0 THEN i + 1 ELSE i
               l == IF u = t /\ j > 0 THEN j + 1 ELSE j
    <3>1. k \in Nat /\ l \in Nat /\ (k = l => i = j)
      OBVIOUS
    <3>2. Holds(x, u, k) /\ Holds(x, u, l)
      BY <2>4, <2>5
    <3> QED BY <1>0, <3>1, <3>2 DEF WaitOk
  <2>6. ASSUME NEW u \in Tasks, NEW i \in Nat, Holds(x, u, i)'
        PROVE  Waiting(x)' /\ u = client'[x].to
    <3> DEFINE k == IF u = t /\ i > 0 THEN i + 1 ELSE i
    <3>1. k \in Nat /\ Holds(x, u, k)
      BY <2>4, <2>6
    <3> HIDE DEF k
    <3> QED BY <1>0, <2>1, <3>1 DEF WaitOk, Waiting
  <2>7. Waiting(x)' /\ stop'[client'[x].to] = "no" => \E i \in Nat : Holds(x, client[x].to, i)'
    <3> SUFFICES ASSUME Waiting(x)', stop'[client'[x].to] = "no"
                 PROVE  \E i \in Nat : Holds(x, client[x].to, i)'
      OBVIOUS
    <3> PICK u \in Tasks : u = client[x].to
      BY <1>0, <2>1 DEF Waiting, CallsOk
    <3>1. Waiting(x) /\ stop[u] = "no" /\ u # t
      BY <2>1 DEF Waiting, TypeOK
    <3>2. PICK i \in Nat : Holds(x, u, i)
      BY <1>0, <3>1 DEF WaitOk
    <3>3. Holds(x, u, i)'
      BY <2>4, <3>1, <3>2
    <3> QED BY <2>1, <3>3
  <2> QED BY <1>0, <2>1, <2>5, <2>6, <2>7 DEF WaitOk
<1>3. ASSUME NEW t \in Tasks, StopBegins(t) \/ StopStep(t), ~(stop[t] = "drop" /\ inbox[t] # <<>>)
      PROVE  WaitOk(x)'
  <2>1. /\ UNCHANGED << worker, client >> /\ \A u \in Tasks : stop'[u] = "no" => stop[u] = "no"
        /\ inbox' = inbox \/ inbox' = [inbox EXCEPT ![t] = Append(inbox[t], Pill)]
    BY <1>3 DEF StopBegins, StopStep, StopPuts, StopMakesRoom, TypeOK
  <2>2. inbox \in [Tasks -> Seq(Job \cup {Pill})]
    BY DEF TypeOK
  <2>3. ASSUME NEW u \in Tasks, NEW i \in Nat
        PROVE  Holds(x, u, i)' <=> Holds(x, u, i)
    <3>1. CASE inbox'[u] = inbox[u]
      BY <2>1, <3>1 DEF Holds
    <3>2. CASE inbox'[u] # inbox[u]
      <4>1. inbox[u] \in Seq(Job \cup {Pill}) /\ inbox'[u] = Append(inbox[u], Pill)
        BY <2>1, <2>2, <3>2
      <4>2. /\ Len(inbox'[u]) = Len(inbox[u]) + 1 /\ Len(inbox[u]) \in Nat
            /\ inbox'[u][Len(inbox[u]) + 1] = Pill
            /\ \A k \in 1..Len(inbox[u]) : inbox'[u][k] = inbox[u][k]
        BY <4>1
      <4> QED BY <1>0, <2>1, <4>2, NoJobType DEF Holds
    <3> QED BY <3>1, <3>2
  <2> QED BY <1>0, <2>1, <2>3, WaitKept DEF Waiting, WaitOk
<1>4. CASE StartAttach \/ ResetRuntime
  <2>1. /\ inbox' = [t \in Tasks |-> [i \in DOMAIN inbox[t] |-> Outdated(inbox[t][i])]]
        /\ worker' = [t \in Tasks |-> [worker[t] EXCEPT !.job = Outdated(worker[t].job)]]
        /\ client' = [y \in Clients |-> [client[y] EXCEPT !.current = FALSE]]
        /\ stop' = stop
    BY <1>4 DEF StartAttach, ResetRuntime, Supersede
  <2>2. /\ client'[x].at = client[x].at /\ client'[x].to = client[x].to
        /\ client'[x].got = client[x].got
    BY <2>1 DEF TypeOK, ClientSet
  <2>3. ASSUME NEW u \in Tasks, NEW i \in Nat
        PROVE  Holds(x, u, i)' <=> Holds(x, u, i)
    <3>1. inbox[u] \in Seq(Job \cup {Pill}) /\ worker[u] \in WorkerSet /\ worker[u].job \in Job
      BY DEF TypeOK, WorkerSet
    <3>2. \A j \in Job \cup {Pill} : Outdated(j).by = j.by
      BY DEF Outdated, Job, Pill, NoJob
    <3>3. worker'[u].job.by = worker[u].job.by
      BY <2>1, <3>1, <3>2 DEF WorkerSet
    <3>4. inbox'[u] = [k \in 1..Len(inbox[u]) |-> Outdated(inbox[u][k])]
          /\ Len(inbox'[u]) = Len(inbox[u])
      BY <2>1, <3>1
    <3>5. \A k \in 1..Len(inbox[u]) : inbox'[u][k].by = inbox[u][k].by
      BY <3>1, <3>2, <3>4
    <3> QED BY <3>3, <3>4, <3>5 DEF Holds
  <2> QED BY <1>0, <2>1, <2>2, <2>3, WaitKept DEF Waiting, WaitOk
<1>5. CASE UNCHANGED vars
  BY <1>0, <1>5, WaitKept DEF vars, Waiting, Holds, WaitOk
<1> QED BY <1>1, <1>2, <1>3, <1>4, <1>5 DEF StopStep, StopBegins, StopPuts

LEMMA WaitStep == TypeOK /\ PlaceInv /\ WaitInv /\ [Next]_vars => WaitInv'
BY WaitClient, WaitWorker, WaitOther DEF Next

LEMMA OneAnswer == CallsOk /\ TypeOK /\ WaitInv => OwnAnswer
<1> SUFFICES ASSUME CallsOk, TypeOK, WaitInv, NEW x \in Clients
             PROVE
    /\ client[x].at \in {"idle", "submit"} \/ client[x].got => Pending(x) = {}
    /\ client[x].at \in {"enqueued", "wait"} /\ ~client[x].got =>
         \/ Cardinality(Pending(x)) = 1 /\ \A p \in Pending(x) : p[1] = client[x].to
         \/ Pending(x) = {} /\ stop[client[x].to] # "no"
  BY DEF OwnAnswer
<1>1. ASSUME NEW t \in Tasks
      PROVE  PendingAt(x, t) = { i \in Nat : Holds(x, t, i) }
  <2>1. DOMAIN inbox[t] = 1..Len(inbox[t]) /\ Len(inbox[t]) \in Nat
    BY DEF TypeOK
  <2> QED BY <2>1 DEF PendingAt, Holds
<1>2. \A p : p \in Pending(x) <=> \E t \in Tasks, i \in Nat : Holds(x, t, i) /\ p = << t, i >>
  BY <1>1 DEF Pending
<1>3. ~Waiting(x) => Pending(x) = {}
  BY <1>2 DEF WaitInv, WaitOk
<1>4. ASSUME Waiting(x), NEW t \in Tasks, NEW i \in Nat, Holds(x, t, i)
      PROVE  Cardinality(Pending(x)) = 1 /\ \A p \in Pending(x) : p[1] = client[x].to
  <2>1. t = client[x].to /\ Pending(x) = { << t, i >> }
    BY <1>2, <1>4 DEF WaitInv, WaitOk
  <2>2. Cardinality({ << t, i >> }) = 1
    BY FS_Singleton
  <2>3. << t, i >>[1] = t
    OBVIOUS
  <2> QED BY <2>1, <2>2, <2>3
<1>5. ASSUME Waiting(x), \A t \in Tasks, i \in Nat : ~Holds(x, t, i)
      PROVE  Pending(x) = {} /\ stop[client[x].to] # "no"
  <2>1. client[x].to \in Tasks
    BY <1>5 DEF Waiting, CallsOk
  <2> QED BY <1>2, <1>5, <2>1 DEF WaitInv, WaitOk
<1> QED BY <1>3, <1>4, <1>5 DEF Waiting

\* The answer a requester takes is that of the request it waits for: no other
\* can be put into its queue, and as long as its task is not being stopped the
\* one it waits for is on its way.
THEOREM AnswersAreOwn == Spec => []OwnAnswer
<1> DEFINE Inv == TypeOK /\ PlaceInv /\ WaitInv
<1>1. Init => Inv
  BY InitTypes, WaitInit
<1>2. Inv /\ [Next]_vars => Inv'
  BY TypesStep, WaitStep
<1>3. Inv => OwnAnswer
  BY OneAnswer DEF PlaceInv
<1> QED BY <1>1, <1>2, <1>3, PTL DEF Spec
=============================================================================
