--------------------------- MODULE StateStoreProofs ---------------------------
(***************************************************************************)
(* What StateStore promises, for any number of threads, Timers, browsers   *)
(* and any size of their queues: nothing a persist=True call returned for  *)
(* is lost, and no logged change is forgotten.                             *)
(*                                                                         *)
(* Neither is inductive.  The first needs that whoever writes the file     *)
(* holds the lock until it is replaced (FileLocked).  The second needs     *)
(* what the places of the threads say of their broadcasts (Places), and    *)
(* that the Timer the store remembers has yet to call its callback, unless *)
(* it was cancelled (TimerPending): only then may it stand for a refresh.  *)
(***************************************************************************)
EXTENDS StateStore, SequenceTheorems, TLAPS

USE StoreAssumption

Posting == {"put", "full", "again"}

\* Who writes or replaces the file holds the lock, and the file it has prepared,
\* and is about to put in place, has every change so far.
FileLocked ==
  \A a \in Actors :
    /\ pc[a].at \in {"write", "replace"} => lock = a
    /\ pc[a].at = "replace" => pc[a].holds

\* Only a broadcast has subscribers to serve, and an event that is not "state".
Places ==
  \A a \in Actors :
    /\ pc[a].at \notin Posting => pc[a].todo = {} /\ pc[a].cur = None /\ pc[a].stale = {}
    /\ pc[a].at \notin Posting \cup {"list"} => pc[a].ev = "state"
    /\ pc[a].at = "put" => pc[a].cur = None
    /\ pc[a].at \in {"full", "again"} => pc[a].cur \in Clients

\* The Timer the store remembers has not begun to broadcast.
TimerPending == noticeTimer # None => pc[noticeTimer].at \in {"idle", "armed", "flush"}

\* The places a thread can be in, as TypeOK has them.
Place ==
  [at : {"idle", "change", "write", "replace", "announce", "list", "put",
         "full", "again", "schedule", "armed", "flush"},
   ev : Events, todo : SUBSET Clients, cur : Clients \cup {None},
   stale : SUBSET Clients, need : BOOLEAN, durable : BOOLEAN, holds : BOOLEAN]

-----------------------------------------------------------------------------
(* Sequences                                                               *)

\* Taking the head from a sequence loses no other element.
LEMMA TailKeeps ==
  ASSUME NEW S, NEW s \in Seq(S), s # <<>>, NEW e \in ToSet(s), e # Head(s)
  PROVE  e \in ToSet(Tail(s))
<1>1. PICK i \in 1..Len(s) : s[i] = e
  BY DEF ToSet
<1>2. i # 1
  BY <1>1
<1>3. i - 1 \in 1..Len(Tail(s)) /\ Tail(s)[i - 1] = e
  BY <1>1, <1>2, HeadTailProperties
<1>4. DOMAIN Tail(s) = 1..Len(Tail(s))
  BY HeadTailProperties
<1> QED BY <1>3, <1>4 DEF ToSet

\* Appending keeps what is there and adds the new element.
LEMMA AppendKeeps ==
  ASSUME NEW S, NEW s \in Seq(S), NEW e \in S
  PROVE  ToSet(s) \subseteq ToSet(Append(s, e)) /\ e \in ToSet(Append(s, e))
<1>1. Append(s, e) \in Seq(S) /\ Len(Append(s, e)) = Len(s) + 1
  BY AppendProperties
<1>2. \A i \in 1..Len(s) : Append(s, e)[i] = s[i]
  BY AppendProperties
<1>3. Append(s, e)[Len(s) + 1] = e
  BY AppendProperties
<1> QED BY <1>1, <1>2, <1>3 DEF ToSet

-----------------------------------------------------------------------------
(* Types                                                                   *)

\* The initial state has the type.
LEMMA TypeInit == Init => TypeOK
<1> SUFFICES ASSUME Init PROVE TypeOK
  OBVIOUS
<1>1. pc \in [Actors -> Place]
  BY DEF Init, Idle, Place, Events
<1>2. <<>> \in Seq(Events) /\ Len(<<>>) = 0
  OBVIOUS
<1>3. queue \in [Clients -> Seq(Events)] /\ \A c \in Clients : Len(queue[c]) <= QueueSize
  BY <1>2 DEF Init
<1> QED BY <1>1, <1>3 DEF Init, TypeOK, Place

\* Every step keeps the type: a subscriber a thread gives up on is one it serves.
LEMMA TypeStep == TypeOK /\ Places /\ [Next]_vars => TypeOK'
<1> SUFFICES ASSUME TypeOK, Places, [Next]_vars PROVE TypeOK'
  OBVIOUS
<1>t. pc \in [Actors -> Place]
  BY DEF TypeOK, Place
<1>q. \A c \in Clients : queue[c] \in Seq(Events) /\ Len(queue[c]) \in Nat /\ Len(queue[c]) <= QueueSize
  BY DEF TypeOK
<1>i. Idle \in Place /\ \A ev \in Events : Broadcast(ev) \in Place
  BY DEF Idle, Broadcast, Events, Place
<1>g. ASSUME NEW a \in Actors, NEW rec \in Place, Goto(a, rec) PROVE pc' \in [Actors -> Place]
  BY <1>t, <1>g DEF Goto
<1>f. \A a \in Actors : pc[a] \in Place
  BY <1>t
<1>a. \A w \in Actors : AfterMutate(w) \in Place
  BY <1>i DEF AfterMutate, Idle, Events, Place
<1>1. CASE \E w \in Writers, p \in BOOLEAN : MutateCheck(w, p)
  <2> PICK w \in Writers, p \in BOOLEAN : MutateCheck(w, p)
    BY <1>1
  <2>1. pc' \in [Actors -> Place]
    BY <1>g, <1>i DEF MutateCheck, Idle, Place, Events, Actors
  <2> QED BY <2>1 DEF TypeOK, MutateCheck, storeVars, noticeVars, clientVars, Place
<1>2. CASE \E w \in Writers : LogChange(w) \/ MutateChange(w) \/ PersistWrite(w) \/ PersistReplace(w) \/ PersistFail(w)
  <2> PICK w \in Writers : LogChange(w) \/ MutateChange(w) \/ PersistWrite(w) \/ PersistReplace(w) \/ PersistFail(w)
    BY <1>2
  <2> w \in Actors
    BY DEF Actors
  <2>1. CASE LogChange(w)
    <3>1. pc' \in [Actors -> Place]
      BY <2>1, <1>g, <1>i DEF LogChange, Events
    <3> QED BY <2>1, <3>1 DEF TypeOK, LogChange, storeVars, noticeVars, Change, Place, Events
  <2>2. CASE MutateChange(w)
    <3>1. pc' \in [Actors -> Place]
      BY <2>2, <1>g, <1>a, <1>t DEF MutateChange, Place
    <3> QED BY <2>2, <3>1 DEF TypeOK, MutateChange, noticeVars, Change, Place, Events
  <2>3. CASE PersistWrite(w)
    <3>1. pc' \in [Actors -> Place]
      <4>1. [pc[w] EXCEPT !.at = "replace", !.holds = TRUE] \in Place
        BY <1>f DEF Place
      <4> QED BY <2>3, <1>g, <4>1 DEF PersistWrite
    <3> QED BY <2>3, <3>1 DEF TypeOK, PersistWrite, storeVars, noticeVars, clientVars, Place
  <2>4. CASE PersistReplace(w)
    <3>1. pc' \in [Actors -> Place]
      <4>1. \A a \in Actors : [pc[a] EXCEPT !.holds = FALSE] \in Place
        BY <1>f DEF Place
      <4> QED BY <2>4, <1>a, <4>1 DEF PersistReplace
    <3>2. saved' \in BOOLEAN
      BY <2>4, <1>t DEF PersistReplace, Place
    <3> QED BY <2>4, <3>1, <3>2 DEF TypeOK, PersistReplace, noticeVars, clientVars, Place
  <2>5. CASE PersistFail(w)
    <3>1. pc' \in [Actors -> Place]
      BY <2>5, <1>g, <1>i DEF PersistFail
    <3> QED BY <2>5, <3>1 DEF TypeOK, PersistFail, noticeVars, clientVars, Place
  <2> QED BY <2>1, <2>2, <2>3, <2>4, <2>5
<1>3. CASE \E w \in Writers : MutateAnnounce(w) \/ ScheduleNotice(w)
  <2> PICK w \in Writers : MutateAnnounce(w) \/ ScheduleNotice(w)
    BY <1>3
  <2> w \in Actors
    BY DEF Actors
  <2>1. CASE MutateAnnounce(w)
    <3>1. pc' \in [Actors -> Place]
      BY <2>1, <1>g, <1>i DEF MutateAnnounce, Events
    <3> QED BY <2>1, <3>1 DEF TypeOK, MutateAnnounce, storeVars, clientVars, Place
  <2>2. CASE ScheduleNotice(w)
    <3>1. pc' \in [Actors -> Place]
      <4>1. Cancelled(noticeTimer) \in [Actors -> Place]
        BY <1>t, <1>i DEF Cancelled
      <4>2. \A f \in [Actors -> Place], a \in Actors, rec \in Place : [f EXCEPT ![a] = rec] \in [Actors -> Place]
        OBVIOUS
      <4>3. [Idle EXCEPT !.at = "armed"] \in Place /\ Broadcast("state") \in Place
        BY <1>i DEF Idle, Place, Events
      <4>4. \A t \in Timers : [pc EXCEPT ![t] = [Idle EXCEPT !.at = "armed"], ![w] = Idle]
               = [[pc EXCEPT ![t] = [Idle EXCEPT !.at = "armed"]] EXCEPT ![w] = Idle]
        OBVIOUS
      <4>5. Timers \subseteq Actors
        BY DEF Actors
      <4> QED BY <2>2, <1>t, <1>i, <4>1, <4>2, <4>3, <4>4, <4>5 DEF ScheduleNotice, Goto
    <3>2. fresh' \in BOOLEAN /\ noticeTimer' \in Timers \cup {None}
      BY <2>2 DEF ScheduleNotice, TypeOK, noticeVars
    <3> QED BY <2>2, <3>1, <3>2 DEF TypeOK, ScheduleNotice, storeVars, clientVars, Place
  <2> QED BY <2>1, <2>2
<1>4. CASE \E t \in Timers : TimerFires(t) \/ FlushNotice(t)
  <2> PICK t \in Timers : TimerFires(t) \/ FlushNotice(t)
    BY <1>4
  <2>1. pc' \in [Actors -> Place]
    BY <1>g, <1>i DEF TimerFires, FlushNotice, Idle, Place, Events, Actors
  <2> QED BY <2>1 DEF TypeOK, TimerFires, FlushNotice, storeVars, noticeVars, clientVars, Place
<1>5. CASE \E a \in Actors : Broadcasting(a)
  <2> PICK a \in Actors : Broadcasting(a)
    BY <1>5
  <2>p. ASSUME NEW c \in Clients, NEW ev \in Events, ~Full(c), Put(c, ev)
        PROVE  queue' \in [Clients -> Seq(Events)] /\ \A d \in Clients : Len(queue'[d]) <= QueueSize
    <3>1. Append(queue[c], ev) \in Seq(Events) /\ Len(Append(queue[c], ev)) = Len(queue[c]) + 1
      BY <1>q, AppendProperties
    <3> QED BY <3>1, <1>q, <2>p DEF Put, Full, TypeOK
  <2>1. CASE ListClients(a)
    <3>1. pc' \in [Actors -> Place]
      <4>1. [pc[a] EXCEPT !.at = "put", !.todo = subscribers] \in Place
        BY <1>f DEF Place, TypeOK
      <4> QED BY <2>1, <1>g, <4>1 DEF ListClients
    <3> QED BY <2>1, <3>1 DEF TypeOK, ListClients, storeVars, noticeVars, clientVars, Place
  <2>2. CASE PutEvent(a)
    <3> PICK c \in pc[a].todo : IF Full(c)
         THEN Goto(a, [pc[a] EXCEPT !.at = "full", !.cur = c, !.todo = @ \ {c}]) /\ UNCHANGED queue
         ELSE Put(c, pc[a].ev) /\ Goto(a, [pc[a] EXCEPT !.todo = @ \ {c}])
      BY <2>2 DEF PutEvent
    <3>0. c \in Clients /\ pc[a].ev \in Events
      BY <1>t DEF Place
    <3>1. pc' \in [Actors -> Place]
      <4>1. /\ [pc[a] EXCEPT !.at = "full", !.cur = c, !.todo = @ \ {c}] \in Place
            /\ [pc[a] EXCEPT !.todo = @ \ {c}] \in Place
        BY <1>f, <3>0 DEF Place
      <4> QED BY <1>g, <4>1
    <3>2. queue' \in [Clients -> Seq(Events)] /\ \A d \in Clients : Len(queue'[d]) <= QueueSize
      BY <2>p, <3>0 DEF TypeOK
    <3> QED BY <2>2, <3>1, <3>2 DEF TypeOK, PutEvent, storeVars, noticeVars, Place
  <2>3. CASE DropOldest(a) \/ PutAgain(a)
    <3> DEFINE c == pc[a].cur
    <3>0. pc[a].ev \in Events /\ c \in Clients \cup {None}
      BY <1>t DEF Place
    <3>1. pc' \in [Actors -> Place]
      <4>1. /\ c = None \/ c \in Clients
            /\ [pc[a] EXCEPT !.at = "again"] \in Place
            /\ [pc[a] EXCEPT !.at = "put", !.cur = None] \in Place
        BY <1>f DEF Place
      <4>2. c \in Clients /\ [pc[a] EXCEPT !.at = "put", !.cur = None, !.stale = @ \cup {c}] \in Place
        BY <2>3, <1>f DEF Place, Places, DropOldest, PutAgain, At
      <4> QED BY <2>3, <1>g, <4>1, <4>2 DEF DropOldest, PutAgain, GiveUpOn
    <3>2. queue' \in [Clients -> Seq(Events)] /\ \A d \in Clients : Len(queue'[d]) <= QueueSize
      <4>1. CASE UNCHANGED queue
        BY <4>1 DEF TypeOK
      <4>2. CASE DropOldest(a) /\ queue[c] # <<>> /\ queue' = [queue EXCEPT ![c] = Tail(@)]
        <5>1. c \in Clients => Tail(queue[c]) \in Seq(Events) /\ Len(Tail(queue[c])) = Len(queue[c]) - 1
          BY <4>2, <1>q, HeadTailProperties
        <5>2. \A d \in Clients : queue'[d] = IF d = c THEN Tail(queue[d]) ELSE queue[d]
          BY <4>2 DEF TypeOK
        <5>3. DOMAIN queue' = Clients
          BY <4>2 DEF TypeOK
        <5>4. \A d \in Clients : queue'[d] \in Seq(Events) /\ Len(queue'[d]) <= QueueSize
          <6> SUFFICES ASSUME NEW d \in Clients PROVE queue'[d] \in Seq(Events) /\ Len(queue'[d]) <= QueueSize
            OBVIOUS
          <6>1. CASE d = c
            <7>1. queue'[d] = Tail(queue[c])
              BY <6>1, <5>2
            <7>2. Len(queue[c]) \in Nat /\ Len(queue[c]) <= QueueSize
              BY <6>1, <1>q
            <7>3. c \in Clients
              BY <6>1
            <7> HIDE DEF c
            <7> QED BY <7>1, <7>2, <7>3, <5>1
          <6>2. CASE d # c
            BY <6>2, <5>2, <1>q
          <6> QED BY <6>1, <6>2
        <5> QED BY <4>2, <5>3, <5>4 DEF TypeOK
      <4>3. CASE PutAgain(a) /\ ~Full(c) /\ Put(c, pc[a].ev)
        <5>1. CASE c \in Clients
          BY <5>1, <4>3, <2>p, <3>0
        <5>2. CASE c \notin Clients
          BY <5>2, <4>3 DEF Put, TypeOK
        <5> QED BY <5>1, <5>2
      <4> QED BY <2>3, <4>1, <4>2, <4>3 DEF DropOldest, PutAgain
    <3> QED BY <2>3, <3>1, <3>2 DEF TypeOK, DropOldest, PutAgain, storeVars, noticeVars, Place
  <2>4. CASE EndBroadcast(a)
    <3>1. pc' \in [Actors -> Place]
      BY <2>4, <1>g, <1>i DEF EndBroadcast, Idle, Place, Events
    <3> QED BY <2>4, <3>1 DEF TypeOK, EndBroadcast, storeVars, noticeVars, Place
  <2> QED BY <2>1, <2>2, <2>3, <2>4 DEF Broadcasting
<1>6. CASE \E c \in Clients : Subscribe(c) \/ FirstState(c) \/ HandleEvent(c) \/ Disconnect(c)
  <2> PICK c \in Clients : Subscribe(c) \/ FirstState(c) \/ HandleEvent(c) \/ Disconnect(c)
    BY <1>6
  <2>1. CASE Subscribe(c)
    BY <2>1, <1>q DEF TypeOK, Subscribe, storeVars, noticeVars
  <2>2. CASE FirstState(c)
    BY <2>2 DEF TypeOK, FirstState, storeVars, noticeVars
  <2>3. CASE HandleEvent(c)
    <3>1. Tail(queue[c]) \in Seq(Events) /\ Len(Tail(queue[c])) = Len(queue[c]) - 1
      BY <2>3, <1>q, HeadTailProperties DEF HandleEvent
    <3>2. queue' \in [Clients -> Seq(Events)] /\ \A d \in Clients : Len(queue'[d]) <= QueueSize
      BY <2>3, <3>1, <1>q DEF HandleEvent, TypeOK
    <3> QED BY <2>3, <3>2 DEF TypeOK, HandleEvent, storeVars, noticeVars
  <2>4. CASE Disconnect(c)
    BY <2>4 DEF TypeOK, Disconnect, storeVars, noticeVars
  <2> QED BY <2>1, <2>2, <2>3, <2>4
<1>7. CASE WindowEnds
  BY <1>7 DEF TypeOK, WindowEnds, storeVars, clientVars
<1>8. CASE Crash
  <2>1. pc' \in [Actors -> Place]
    BY <1>8, <1>i DEF Crash
  <2>2. <<>> \in Seq(Events) /\ Len(<<>>) = 0
    OBVIOUS
  <2>3. queue' \in [Clients -> Seq(Events)] /\ \A c \in Clients : Len(queue'[c]) <= QueueSize
    BY <1>8, <2>2 DEF Crash
  <2> QED BY <1>8, <2>1, <2>3 DEF TypeOK, Crash, Place
<1>9. CASE UNCHANGED vars
  BY <1>9 DEF TypeOK, vars, storeVars, noticeVars, clientVars
<1> QED BY <1>1, <1>2, <1>3, <1>4, <1>5, <1>6, <1>7, <1>8, <1>9 DEF Next, WriterStep, TimerStep, Actors

-----------------------------------------------------------------------------
(* What the places say                                                     *)

\* In the initial state every thread is idle.
LEMMA PlacesInit == Init => FileLocked /\ Places /\ TimerPending
BY DEF Init, FileLocked, Places, TimerPending, Idle, Posting

\* One thread moves: it is enough to look at its new place.
LEMMA OneMoves ==
  ASSUME TypeOK, FileLocked, Places, NEW a \in Actors, NEW rec, Goto(a, rec),
         rec.at \notin Posting => rec.todo = {} /\ rec.cur = None /\ rec.stale = {},
         rec.at \notin Posting \cup {"list"} => rec.ev = "state",
         rec.at = "put" => rec.cur = None,
         rec.at \in {"full", "again"} => rec.cur \in Clients,
         rec.at \in {"write", "replace"} => lock' = a,
         rec.at = "replace" => rec.holds,
         \A b \in Actors \ {a} : lock = b => lock' = b
  PROVE  FileLocked' /\ Places'
<1>1. \A b \in Actors : pc'[b] = IF b = a THEN rec ELSE pc[b]
  BY DEF Goto, TypeOK
<1> QED BY <1>1 DEF FileLocked, Places

\* Every step keeps FileLocked and Places.
LEMMA PlacesStep ==
  ASSUME TypeOK, FileLocked, Places, [Next]_vars
  PROVE  FileLocked' /\ Places'
<1> USE DEF At, Idle, Broadcast, Posting
<1>t. \A a \in Actors : pc[a] \in Place
  BY DEF TypeOK, Place
<1>1. ASSUME NEW w \in Writers, (\E p \in BOOLEAN : MutateCheck(w, p)) \/ LogChange(w) PROVE FileLocked' /\ Places'
  BY <1>1, OneMoves DEF MutateCheck, LogChange, Actors, storeVars
<1>2. ASSUME NEW w \in Writers, WriterStep(w), ~Broadcasting(w) PROVE FileLocked' /\ Places'
  <2> w \in Actors /\ w # None
    BY DEF Actors
  <2>1. CASE MutateChange(w)
    <3>1. lock = None /\ \A b \in Actors : lock # b
      BY <2>1 DEF MutateChange, Actors
    <3>2. CASE pc[w].durable
      <4>1. pc[w].todo = {} /\ pc[w].cur = None /\ pc[w].stale = {} /\ pc[w].ev = "state"
        BY <2>1 DEF MutateChange, Places
      <4> DEFINE rec == [pc[w] EXCEPT !.at = "write"]
      <4>2. rec.at = "write" /\ rec.todo = {} /\ rec.cur = None /\ rec.stale = {} /\ rec.ev = "state"
        BY <4>1, <1>t DEF Place
      <4>3. lock' = w /\ Goto(w, rec)
        BY <2>1, <3>2 DEF MutateChange
      <4> HIDE DEF rec
      <4> QED BY <3>1, <4>2, <4>3, OneMoves
    <3>3. CASE ~pc[w].durable
      BY <2>1, <3>1, <3>3, OneMoves DEF MutateChange, AfterMutate
    <3> QED BY <3>2, <3>3
  <2>2. CASE PersistWrite(w)
    BY <2>2, <1>t, OneMoves DEF PersistWrite, Place, Places, FileLocked, storeVars
  <2>3. CASE PersistReplace(w)
    <3>1. \A b \in Actors \ {w} : pc[b].at \notin {"write", "replace"}
      BY <2>3 DEF PersistReplace, FileLocked
    <3>2. \A b \in Actors : pc'[b] = IF b = w THEN AfterMutate(w) ELSE [pc[b] EXCEPT !.holds = FALSE]
      BY <2>3 DEF PersistReplace
    <3>3. \A b \in Actors \ {w} : /\ pc'[b].at = pc[b].at /\ pc'[b].todo = pc[b].todo /\ pc'[b].cur = pc[b].cur
                                  /\ pc'[b].stale = pc[b].stale /\ pc'[b].ev = pc[b].ev
      <4> SUFFICES ASSUME NEW b \in Actors, b # w
                   PROVE  /\ pc'[b].at = pc[b].at /\ pc'[b].todo = pc[b].todo /\ pc'[b].cur = pc[b].cur
                          /\ pc'[b].stale = pc[b].stale /\ pc'[b].ev = pc[b].ev
        OBVIOUS
      <4>1. pc'[b] = [pc[b] EXCEPT !.holds = FALSE] /\ pc[b] \in Place
        BY <3>2, <1>t
      <4> QED BY <4>1 DEF Place
    <3>4. /\ pc'[w].at \in {"idle", "announce"} /\ pc'[w].todo = {} /\ pc'[w].cur = None
          /\ pc'[w].stale = {} /\ pc'[w].ev = "state"
      <4>1. pc'[w] = IF pc[w].need THEN [Idle EXCEPT !.at = "announce"] ELSE Idle
        BY <3>2 DEF AfterMutate
      <4> QED BY <4>1
    <3>5. Places'
      BY <3>3, <3>4 DEF Places
    <3>6. FileLocked'
      BY <3>1, <3>3, <3>4 DEF FileLocked
    <3> QED BY <3>5, <3>6
  <2>4. CASE PersistFail(w) \/ MutateAnnounce(w)
    BY <2>4, OneMoves DEF PersistFail, MutateAnnounce, storeVars
  <2>5. CASE ScheduleNotice(w)
    <3>1. \A b \in Actors : pc'[b] \in {pc[b], Idle, Broadcast("state"), [Idle EXCEPT !.at = "armed"]}
      BY <2>5 DEF ScheduleNotice, Cancelled, Goto, TypeOK
    <3>2. lock' = lock
      BY <2>5 DEF ScheduleNotice, storeVars
    <3>3. ASSUME NEW b \in Actors, pc'[b] # pc[b]
          PROVE  /\ pc'[b].at \in {"idle", "list", "armed"} /\ pc'[b].ev = "state"
                 /\ pc'[b].todo = {} /\ pc'[b].cur = None /\ pc'[b].stale = {}
      <4>1. pc'[b] = Idle \/ pc'[b] = Broadcast("state") \/ pc'[b] = [Idle EXCEPT !.at = "armed"]
        BY <3>1, <3>3
      <4>2. CASE pc'[b] = Idle
        BY <4>2
      <4>3. CASE pc'[b] = Broadcast("state")
        BY <4>3
      <4>4. CASE pc'[b] = [Idle EXCEPT !.at = "armed"]
        BY <4>4
      <4> QED BY <4>1, <4>2, <4>3, <4>4
    <3>4. FileLocked'
      BY <3>2, <3>3 DEF FileLocked
    <3>5. Places'
      BY <3>3 DEF Places
    <3> QED BY <3>4, <3>5
  <2> QED BY <1>2, <2>1, <2>2, <2>3, <2>4, <2>5 DEF WriterStep
<1>3. ASSUME NEW t \in Timers, TimerFires(t) \/ FlushNotice(t) PROVE FileLocked' /\ Places'
  BY <1>3, OneMoves DEF TimerFires, FlushNotice, Actors, storeVars
<1>4. ASSUME NEW a \in Actors, Broadcasting(a) PROVE FileLocked' /\ Places'
  <2>1. CASE ListClients(a)
    <3> DEFINE rec == [pc[a] EXCEPT !.at = "put", !.todo = subscribers]
    <3>1. rec.at = "put" /\ rec.cur = None
      BY <2>1, <1>t DEF ListClients, Places, Place
    <3>2. Goto(a, rec) /\ lock' = lock
      BY <2>1 DEF ListClients, storeVars
    <3> HIDE DEF rec
    <3> QED BY <3>1, <3>2, OneMoves
  <2>2. CASE PutEvent(a)
    <3> PICK c \in pc[a].todo : \/ Goto(a, [pc[a] EXCEPT !.at = "full", !.cur = c, !.todo = @ \ {c}])
                                \/ Goto(a, [pc[a] EXCEPT !.todo = @ \ {c}])
      BY <2>2 DEF PutEvent
    <3>0. c \in Clients /\ pc[a].at = "put" /\ pc[a].cur = None /\ lock' = lock
      BY <2>2, <1>t DEF PutEvent, Places, Place, storeVars
    <3>1. CASE Goto(a, [pc[a] EXCEPT !.at = "full", !.cur = c, !.todo = @ \ {c}])
      <4> DEFINE rec == [pc[a] EXCEPT !.at = "full", !.cur = c, !.todo = @ \ {c}]
      <4>1. rec.at = "full" /\ rec.cur = c
        BY <1>t DEF Place
      <4> HIDE DEF rec
      <4> QED BY <3>0, <3>1, <4>1, OneMoves DEF rec
    <3>2. CASE Goto(a, [pc[a] EXCEPT !.todo = @ \ {c}])
      <4> DEFINE rec == [pc[a] EXCEPT !.todo = @ \ {c}]
      <4>1. rec.at = "put" /\ rec.cur = None
        BY <3>0, <1>t DEF Place
      <4> HIDE DEF rec
      <4> QED BY <3>0, <3>2, <4>1, OneMoves DEF rec
    <3> QED BY <3>1, <3>2
  <2>3. CASE DropOldest(a) \/ PutAgain(a)
    <3> PICK rec : /\ Goto(a, rec)
                   /\ rec \in {[pc[a] EXCEPT !.at = "put", !.cur = None, !.stale = @ \cup {pc[a].cur}],
                               [pc[a] EXCEPT !.at = "again"], [pc[a] EXCEPT !.at = "put", !.cur = None]}
      BY <2>3 DEF DropOldest, PutAgain, GiveUpOn
    <3>1. pc[a].cur \in Clients /\ lock' = lock
      BY <2>3 DEF DropOldest, PutAgain, Places, storeVars
    <3>2. \/ rec.at = "put" /\ rec.cur = None
          \/ rec.at = "again" /\ rec.cur = pc[a].cur
      BY <1>t DEF Place
    <3> QED BY <3>1, <3>2, OneMoves
  <2>4. CASE EndBroadcast(a)
    BY <2>4, OneMoves DEF EndBroadcast, storeVars
  <2> QED BY <1>4, <2>1, <2>2, <2>3, <2>4 DEF Broadcasting
<1>5. ASSUME NEW c \in Clients, Subscribe(c) \/ FirstState(c) \/ HandleEvent(c) \/ Disconnect(c)
      PROVE  FileLocked' /\ Places'
  BY <1>5 DEF Subscribe, FirstState, HandleEvent, Disconnect, FileLocked, Places, storeVars
<1>6. CASE WindowEnds \/ UNCHANGED vars
  BY <1>6 DEF WindowEnds, vars, FileLocked, Places, storeVars
<1>7. CASE Crash
  BY <1>7 DEF Crash, FileLocked, Places
<1> QED BY <1>1, <1>2, <1>3, <1>4, <1>5, <1>6, <1>7 DEF Next, WriterStep, TimerStep, Actors

\* The type invariant: no queue outgrows its size, every thread is somewhere.
THEOREM StoreTypeCorrect == Spec => []TypeOK
<1>1. Init => TypeOK /\ FileLocked /\ Places
  BY TypeInit, PlacesInit
<1>2. TypeOK /\ FileLocked /\ Places /\ [Next]_vars => (TypeOK /\ FileLocked /\ Places)'
  BY TypeStep, PlacesStep
<1> QED BY <1>1, <1>2, PTL DEF Spec

-----------------------------------------------------------------------------
(* The file                                                                *)

\* What a persist=True call has returned for is in the state file, whoever
\* prepares the file and wherever the process ends.
THEOREM AckedIsDurableHolds == Spec => []AckedIsDurable
<1> DEFINE Inv == TypeOK /\ FileLocked /\ Places /\ AckedIsDurable
<1>1. Init => Inv
  BY TypeInit, PlacesInit DEF Init, AckedIsDurable
<1>2. Inv /\ [Next]_vars => Inv'
  <2> SUFFICES ASSUME Inv, [Next]_vars PROVE AckedIsDurable'
    BY TypeStep, PlacesStep
  <2>1. ASSUME NEW w \in Writers, PersistReplace(w) PROVE AckedIsDurable'
    BY <2>1 DEF PersistReplace, At, FileLocked, AckedIsDurable, Actors
  <2>2. CASE UNCHANGED saved
    BY <2>2 DEF AckedIsDurable
  <2> QED
    BY <2>1, <2>2 DEF Next, WriterStep, TimerStep, Broadcasting, MutateCheck, LogChange, MutateChange,
      PersistWrite, PersistFail, MutateAnnounce, ScheduleNotice, TimerFires, FlushNotice, ListClients, PutEvent,
      DropOldest, PutAgain, EndBroadcast, Subscribe, FirstState, HandleEvent, Disconnect, WindowEnds, Crash,
      vars, storeVars
<1> QED BY <1>1, <1>2, PTL DEF Spec

-----------------------------------------------------------------------------
(* The notices                                                             *)

\* Every step keeps TimerPending.
LEMMA TimerPendingStep ==
  ASSUME TypeOK, Places, TimerPending, [Next]_vars
  PROVE  TimerPending'
<1> USE DEF At, Idle, Broadcast, TimerPending
<1>t. /\ \A a \in Actors : pc[a] \in Place
      /\ noticeTimer \in Timers \cup {None}
      /\ DOMAIN pc = Actors
  BY DEF TypeOK, Place
<1>w. \A w \in Writers : w \in Actors /\ w \notin Timers /\ w # None
  BY DEF Actors
<1>1. ASSUME NEW t \in Timers, TimerStep(t) PROVE TimerPending'
  <2>0. t \in Actors
    BY DEF Actors
  <2>1. CASE TimerFires(t)
    BY <2>1, <2>0, <1>t DEF TimerFires, Goto, noticeVars, Actors
  <2>2. CASE FlushNotice(t)
    BY <2>2 DEF FlushNotice
  <2>3. CASE Broadcasting(t)
    <3>1. pc[t].at \notin {"idle", "armed", "flush"} /\ noticeTimer' = noticeTimer
      BY <2>3 DEF Broadcasting, ListClients, PutEvent, DropOldest, PutAgain, EndBroadcast, noticeVars
    <3>2. \A b \in Actors \ {t} : pc'[b] = pc[b]
      BY <2>3, <1>t DEF Broadcasting, ListClients, PutEvent, DropOldest, PutAgain, EndBroadcast, Goto, GiveUpOn
    <3> QED BY <3>1, <3>2, <1>t DEF Actors
  <2> QED BY <1>1, <2>1, <2>2, <2>3 DEF TimerStep
<1>2. ASSUME NEW w \in Writers,
             (\E p \in BOOLEAN : MutateCheck(w, p)) \/ LogChange(w) \/ WriterStep(w), ~ScheduleNotice(w)
      PROVE  TimerPending'
  <2>1. noticeTimer' = noticeTimer
    BY <1>2 DEF MutateCheck, LogChange, WriterStep, MutateChange, PersistWrite, PersistReplace, PersistFail,
      MutateAnnounce, Broadcasting, ListClients, PutEvent, DropOldest, PutAgain, EndBroadcast, noticeVars
  <2>2. \A t \in Timers : pc'[t].at = pc[t].at
    <3>1. CASE PersistReplace(w)
      <4> SUFFICES ASSUME NEW t \in Timers PROVE pc'[t].at = pc[t].at
        OBVIOUS
      <4>1. pc'[t] = [pc[t] EXCEPT !.holds = FALSE] /\ pc[t] \in Place
        BY <3>1, <1>t, <1>w DEF PersistReplace, Actors
      <4> QED BY <4>1 DEF Place
    <3>2. CASE ~PersistReplace(w)
      BY <1>2, <3>2, <1>t, <1>w DEF MutateCheck, LogChange, WriterStep, MutateChange, PersistWrite, PersistFail,
        MutateAnnounce, Broadcasting, ListClients, PutEvent, DropOldest, PutAgain, EndBroadcast, Goto, GiveUpOn, Actors
    <3> QED BY <3>1, <3>2
  <2> QED BY <2>1, <2>2, <1>t
<1>3. ASSUME NEW w \in Writers, ScheduleNotice(w) PROVE TimerPending'
  <2>1. CASE noticeTimer' = None
    BY <2>1
  <2>2. CASE UNCHANGED noticeVars /\ Goto(w, Idle)
    BY <2>2, <1>t, <1>w DEF Goto, noticeVars, Actors
  <2>3. CASE \E t \in Timers : noticeTimer' = t /\ pc' = [pc EXCEPT ![t] = [Idle EXCEPT !.at = "armed"], ![w] = Idle]
    BY <2>3, <1>t, <1>w DEF Actors
  <2> QED BY <1>3, <2>1, <2>2, <2>3 DEF ScheduleNotice
<1>4. CASE UNCHANGED <<noticeTimer, pc>>
  BY <1>4
<1>5. CASE Crash
  BY <1>5 DEF Crash
<1> QED BY <1>1, <1>2, <1>3, <1>4, <1>5 DEF Next, WriterStep, Subscribe, FirstState, HandleEvent, Disconnect,
      WindowEnds, vars, noticeVars

\* A refresh that one step has put on its way, or left there, reaches everybody.
LEMMA RefreshHolds ==
  ASSUME NEW c \in Clients,
         \/ \E a \in Actors : pc'[a].at \in {"list", "schedule"}
         \/ \E t \in Timers : pc'[t].at \in {"armed", "flush"}
         \/ \E a \in Actors : pc'[a].ev = "log" /\ pc'[a].at # "idle"
         \/ \E a \in Actors : pc'[a].ev = "state" /\ c \in pc'[a].todo \cup {pc'[a].cur} \cup pc'[a].stale
         \/ "state" \in ToSet(queue'[c])
  PROVE  RefreshUnderWay(c)'
BY DEF RefreshUnderWay, At

\* A step that moves one thread only, and takes no "state" from the queue of c,
\* leaves the refresh of c under way unless that thread was bringing it.
LEMMA OthersKeep ==
  ASSUME TypeOK, NEW c \in Clients, NEW a \in Actors, NEW rec, Goto(a, rec), RefreshUnderWay(c),
         "state" \in ToSet(queue[c]) => "state" \in ToSet(queue'[c]),
         (\/ pc[a].at \in {"list", "schedule", "armed", "flush"}
          \/ pc[a].ev = "log" /\ pc[a].at # "idle") => RefreshUnderWay(c)',
         pc[a].ev = "state" /\ c \in pc[a].todo \cup {pc[a].cur} \cup pc[a].stale => RefreshUnderWay(c)'
  PROVE  RefreshUnderWay(c)'
<1>1. \A b \in Actors \ {a} : pc'[b] = pc[b]
  BY DEF Goto, TypeOK
<1> QED BY <1>1, RefreshHolds DEF RefreshUnderWay, At, Actors

\* Every step leaves a refresh under way to a browser that lacks a logged change.
LEMMA LogRefreshStep ==
  ASSUME TypeOK, Places, TimerPending, LogRefreshUnderWay, [Next]_vars
  PROVE  LogRefreshUnderWay'
<1> SUFFICES ASSUME NEW c \in Clients, Reading(c)', "log" \in missing'[c] PROVE RefreshUnderWay(c)'
  BY DEF LogRefreshUnderWay
<1> USE DEF At, Reading
<1>t. /\ \A a \in Actors : pc[a] \in Place /\ pc[a].ev \in Events
      /\ DOMAIN pc = Actors
      /\ \A d \in Clients : queue[d] \in Seq(Events)
  BY DEF TypeOK, Place
<1>k. ASSUME Reading(c), "log" \in missing[c] PROVE RefreshUnderWay(c)
  BY <1>k DEF LogRefreshUnderWay
<1>p. \A a \in Actors : pc[a].at \notin Posting \cup {"list"} => pc[a].ev = "state" /\ c \notin pc[a].todo \cup {pc[a].cur} \cup pc[a].stale
  BY DEF Places
<1>1. ASSUME NEW w \in Writers, (\E p \in BOOLEAN : MutateCheck(w, p)) \/ MutateChange(w) \/ PersistWrite(w) \/ PersistFail(w)
      PROVE  RefreshUnderWay(c)'
  <2>0. w \in Actors
    BY DEF Actors
  <2>1. PICK rec : Goto(w, rec)
    BY <1>1 DEF MutateCheck, MutateChange, PersistWrite, PersistFail
  <2>2. Reading(c) /\ "log" \in missing[c] /\ queue' = queue
    <3>1. subscribers' = subscribers /\ client' = client /\ queue' = queue
      BY <1>1 DEF MutateCheck, MutateChange, PersistWrite, PersistFail, clientVars
    <3>2. missing'[c] = missing[c] \/ missing'[c] = missing[c] \cup {"state"}
      BY <1>1 DEF MutateCheck, MutateChange, PersistWrite, PersistFail, Change, clientVars
    <3> QED BY <3>1, <3>2
  <2>3. pc[w].at \in {"idle", "change", "write", "replace"}
    BY <1>1 DEF MutateCheck, MutateChange, PersistWrite, PersistFail
  <2> QED BY <2>0, <2>1, <2>2, <2>3, <1>k, <1>p, OthersKeep DEF Posting
<1>2. ASSUME NEW w \in Writers, PersistReplace(w) PROVE RefreshUnderWay(c)'
  <2>0. w \in Actors /\ pc[w].at = "replace"
    BY <1>2 DEF Actors, PersistReplace
  <2>1. RefreshUnderWay(c) /\ queue' = queue
    BY <1>2, <1>k DEF PersistReplace, clientVars
  <2>2. ASSUME NEW b \in Actors, b # w
        PROVE  /\ pc'[b].at = pc[b].at /\ pc'[b].ev = pc[b].ev /\ pc'[b].todo = pc[b].todo
               /\ pc'[b].cur = pc[b].cur /\ pc'[b].stale = pc[b].stale
    <3>1. pc'[b] = [pc[b] EXCEPT !.holds = FALSE] /\ pc[b] \in Place
      BY <1>2, <1>t, <2>2 DEF PersistReplace
    <3> QED BY <3>1 DEF Place
  <2>3. Timers \subseteq Actors \ {w}
    BY DEF Actors
  <2> QED BY <2>0, <2>1, <2>2, <2>3, <1>p, RefreshHolds DEF RefreshUnderWay, Posting
<1>3. ASSUME NEW w \in Writers, LogChange(w) \/ MutateAnnounce(w) PROVE RefreshUnderWay(c)'
  <2>1. w \in Actors /\ pc'[w].at = "list"
    BY <1>3, <1>t DEF Actors, LogChange, MutateAnnounce, Goto, Broadcast, Idle
  <2> QED BY <2>1, RefreshHolds
<1>4. ASSUME NEW w \in Writers, ScheduleNotice(w) PROVE RefreshUnderWay(c)'
  <2>0. w \in Actors /\ w \notin Timers /\ Timers \subseteq Actors /\ subscribers # {}
    BY <1>4 DEF Actors, ScheduleNotice, clientVars
  <2>1. CASE pc' = [Cancelled(noticeTimer) EXCEPT ![w] = Broadcast("state")]
    <3>1. pc'[w].at = "list"
      BY <2>0, <2>1, <1>t DEF Cancelled, Broadcast, Idle
    <3> QED BY <2>0, <3>1, RefreshHolds
  <2>2. CASE Alive(noticeTimer) /\ Goto(w, Idle)
    <3>1. noticeTimer \in Timers /\ pc[noticeTimer].at \in {"armed", "flush"}
      BY <2>2 DEF Alive, TimerPending, TypeOK
    <3>2. pc'[noticeTimer] = pc[noticeTimer]
      BY <2>0, <2>2, <3>1, <1>t DEF Goto
    <3> QED BY <3>1, <3>2, RefreshHolds
  <2>3. CASE \E t \in Timers : pc' = [pc EXCEPT ![t] = [Idle EXCEPT !.at = "armed"], ![w] = Idle]
    <3> PICK t \in Timers : pc' = [pc EXCEPT ![t] = [Idle EXCEPT !.at = "armed"], ![w] = Idle]
      BY <2>3
    <3>1. pc'[t].at = "armed"
      BY <2>0, <1>t DEF Idle
    <3> QED BY <3>1, RefreshHolds
  <2> QED BY <1>4, <2>0, <2>1, <2>2, <2>3 DEF ScheduleNotice
<1>5. ASSUME NEW t \in Timers, TimerFires(t) \/ FlushNotice(t) PROVE RefreshUnderWay(c)'
  <2>1. t \in Actors /\ pc'[t].at \in {"flush", "list"}
    BY <1>5, <1>t DEF Actors, TimerFires, FlushNotice, Goto, Broadcast, Idle, clientVars
  <2> QED BY <2>1, RefreshHolds
<1>6. ASSUME NEW a \in Actors, Broadcasting(a) PROVE RefreshUnderWay(c)'
  <2>0. RefreshUnderWay(c)
    BY <1>6, <1>k DEF Broadcasting, ListClients, PutEvent, DropOldest, PutAgain, EndBroadcast, clientVars
  <2>1. CASE ListClients(a)
    <3>1. pc'[a] = [pc[a] EXCEPT !.at = "put", !.todo = subscribers] /\ c \in subscribers
      BY <2>1, <1>t DEF ListClients, Goto, clientVars
    <3>2. pc'[a].at = "put" /\ pc'[a].ev = pc[a].ev /\ c \in pc'[a].todo
      BY <3>1, <1>t DEF Place
    <3> QED BY <3>2, <1>t, RefreshHolds DEF Events
  <2>2. CASE PutEvent(a)
    <3> PICK d \in pc[a].todo : \/ Goto(a, [pc[a] EXCEPT !.at = "full", !.cur = d, !.todo = @ \ {d}]) /\ queue' = queue
                                \/ Goto(a, [pc[a] EXCEPT !.todo = @ \ {d}]) /\ Put(d, pc[a].ev)
      BY <2>2 DEF PutEvent
    <3>0. d \in Clients /\ pc[a].at = "put" /\ pc[a].cur = None
      BY <2>2, <1>t DEF PutEvent, Place, Places
    <3>1. CASE Goto(a, [pc[a] EXCEPT !.at = "full", !.cur = d, !.todo = @ \ {d}]) /\ queue' = queue
      <4> DEFINE rec == [pc[a] EXCEPT !.at = "full", !.cur = d, !.todo = @ \ {d}]
      <4>1. /\ rec.at = "full" /\ rec.ev = pc[a].ev /\ rec.cur = d /\ rec.todo = pc[a].todo \ {d}
            /\ rec.stale = pc[a].stale
        BY <1>t DEF Place
      <4>2. pc'[a] = rec /\ Goto(a, rec)
        BY <3>1, <1>t DEF Goto
      <4> HIDE DEF rec
      <4>3. pc[a].ev = "log" => RefreshUnderWay(c)'
        BY <4>1, <4>2, RefreshHolds
      <4>4. pc[a].ev = "state" /\ c \in pc[a].todo \cup {pc[a].cur} \cup pc[a].stale => RefreshUnderWay(c)'
        BY <3>0, <4>1, <4>2, RefreshHolds
      <4> QED BY <2>0, <3>0, <3>1, <4>2, <4>3, <4>4, OthersKeep
    <3>2. CASE Goto(a, [pc[a] EXCEPT !.todo = @ \ {d}]) /\ Put(d, pc[a].ev)
      <4> DEFINE rec == [pc[a] EXCEPT !.todo = @ \ {d}]
      <4>1. rec.at = "put" /\ rec.ev = pc[a].ev /\ rec.cur = None /\ rec.todo = pc[a].todo \ {d} /\ rec.stale = pc[a].stale
        BY <3>0, <1>t DEF Place
      <4>2. pc'[a] = rec /\ Goto(a, rec)
        BY <3>2, <1>t DEF Goto
      <4> HIDE DEF rec
      <4>3. queue'[c] = IF d = c THEN Append(queue[c], pc[a].ev) ELSE queue[c]
        BY <3>0, <3>2 DEF Put, TypeOK
      <4>4. /\ ToSet(queue[c]) \subseteq ToSet(Append(queue[c], pc[a].ev))
            /\ pc[a].ev \in ToSet(Append(queue[c], pc[a].ev))
        BY <1>t, AppendKeeps
      <4>5. pc[a].ev = "log" => RefreshUnderWay(c)'
        BY <4>1, <4>2, RefreshHolds
      <4>6. pc[a].ev = "state" /\ c \in pc[a].todo \cup {pc[a].cur} \cup pc[a].stale => RefreshUnderWay(c)'
        BY <3>0, <4>1, <4>2, <4>3, <4>4, RefreshHolds
      <4> QED BY <2>0, <3>0, <4>2, <4>3, <4>4, <4>5, <4>6, OthersKeep
    <3> QED BY <3>1, <3>2
  <2>3. CASE DropOldest(a) \/ PutAgain(a)
    <3> DEFINE d == pc[a].cur
    <3>0. pc[a].at \in {"full", "again"} /\ d \in Clients
      BY <2>3 DEF DropOldest, PutAgain, Places
    <3>1. PICK rec : /\ Goto(a, rec)
                     /\ \/ rec = [pc[a] EXCEPT !.at = "put", !.cur = None, !.stale = @ \cup {d}] /\ queue' = queue
                        \/ rec = [pc[a] EXCEPT !.at = "again"] /\ queue' = [queue EXCEPT ![d] = Tail(@)]
                        \/ rec = [pc[a] EXCEPT !.at = "put", !.cur = None] /\ Put(d, pc[a].ev)
      BY <2>3 DEF DropOldest, PutAgain, GiveUpOn
    <3>2. pc'[a] = rec /\ rec.ev = pc[a].ev /\ rec.at \in {"put", "again"} /\ rec.todo = pc[a].todo
      BY <3>1, <1>t DEF Goto, Place
    <3>3. CASE pc[a].ev = "log"
      BY <3>2, <3>3, RefreshHolds
    <3>4. CASE pc[a].ev = "state" /\ d = c
      <4>1. CASE c \in {rec.cur} \cup rec.stale
        BY <3>2, <3>4, <4>1, RefreshHolds
      <4>2. CASE c \notin {rec.cur} \cup rec.stale
        <5>1. rec = [pc[a] EXCEPT !.at = "put", !.cur = None] /\ Put(c, pc[a].ev)
          <6>1. pc[a] \in Place
            BY <1>t
          <6>2. \A x : [pc[a] EXCEPT !.at = "put", !.cur = None, !.stale = @ \cup {x}].stale = pc[a].stale \cup {x}
            BY <6>1 DEF Place
          <6>3. [pc[a] EXCEPT !.at = "again"].cur = pc[a].cur
            BY <6>1 DEF Place
          <6> QED BY <3>1, <3>4, <4>2, <6>2, <6>3
        <5>2. queue'[c] = Append(queue[c], "state")
          BY <5>1, <3>4 DEF Put, TypeOK
        <5>3. "state" \in ToSet(queue'[c])
          BY <5>2, <1>t, AppendKeeps DEF Events
        <5> QED BY <5>3, RefreshHolds
      <4> QED BY <4>1, <4>2
    <3>5. CASE pc[a].ev = "state" /\ d # c
      <4>1. queue'[c] = queue[c]
        BY <3>1, <3>5 DEF Put, TypeOK
      <4>2. pc[a].stale \subseteq rec.stale
        <5>1. pc[a] \in Place
          BY <1>t
        <5>2. \A x : [pc[a] EXCEPT !.at = "put", !.cur = None, !.stale = @ \cup {x}].stale = pc[a].stale \cup {x}
          BY <5>1 DEF Place
        <5>3. /\ [pc[a] EXCEPT !.at = "again"].stale = pc[a].stale
              /\ [pc[a] EXCEPT !.at = "put", !.cur = None].stale = pc[a].stale
          BY <5>1 DEF Place
        <5> QED BY <3>1, <5>2, <5>3
      <4>3. c \in pc[a].todo \cup {pc[a].cur} \cup pc[a].stale => RefreshUnderWay(c)'
        BY <3>2, <3>5, <4>2, RefreshHolds
      <4> QED BY <2>0, <3>0, <3>1, <3>5, <4>1, <4>3, OthersKeep
    <3> QED BY <3>3, <3>4, <3>5, <1>t DEF Events
  <2>4. CASE EndBroadcast(a)
    <3>1. CASE pc[a].ev = "log"
      <4>1. pc'[a].at = "schedule"
        BY <2>4, <3>1, <1>t DEF EndBroadcast, Goto, Idle
      <4> QED BY <4>1, RefreshHolds
    <3>2. CASE pc[a].ev = "state"
      <4>1. /\ pc[a].at = "put" /\ c \notin pc[a].todo \cup {pc[a].cur} \cup pc[a].stale
            /\ Goto(a, Idle) /\ queue' = queue
        BY <2>4, <3>2 DEF EndBroadcast, Places
      <4> QED BY <2>0, <3>2, <4>1, OthersKeep
    <3> QED BY <3>1, <3>2, <1>t DEF Events
  <2> QED BY <1>6, <2>1, <2>2, <2>3, <2>4 DEF Broadcasting
<1>7. ASSUME NEW d \in Clients, Subscribe(d) \/ FirstState(d) \/ HandleEvent(d) \/ Disconnect(d)
      PROVE  RefreshUnderWay(c)'
  <2>1. Reading(c) /\ "log" \in missing[c] /\ pc' = pc
    BY <1>7 DEF Subscribe, FirstState, HandleEvent, Disconnect, TypeOK
  <2>2. "state" \in ToSet(queue[c]) => "state" \in ToSet(queue'[c])
    <3>1. CASE queue'[c] = queue[c]
      BY <3>1
    <3>2. CASE d = c /\ HandleEvent(c)
      <4>1. queue[c] # <<>> /\ Head(queue[c]) # "state" /\ queue'[c] = Tail(queue[c])
        BY <3>2 DEF HandleEvent, TypeOK
      <4> QED BY <4>1, <1>t, TailKeeps
    <3> QED BY <1>7, <3>1, <3>2 DEF Subscribe, FirstState, HandleEvent, Disconnect, TypeOK
  <2> QED BY <2>1, <2>2, <1>k DEF RefreshUnderWay
<1>8. CASE WindowEnds \/ UNCHANGED vars
  BY <1>8, <1>k DEF WindowEnds, vars, clientVars, RefreshUnderWay
<1>9. CASE Crash
  BY <1>9 DEF Crash
<1> QED BY <1>1, <1>2, <1>3, <1>4, <1>5, <1>6, <1>7, <1>8, <1>9 DEF Next, WriterStep, TimerStep, Actors

\* A subscribed browser that lacks a logged change has a refresh coming, however
\* many threads log, however notices are merged, cancelled or dropped.
THEOREM LogRefreshUnderWayHolds == Spec => []LogRefreshUnderWay
<1> DEFINE Inv == TypeOK /\ FileLocked /\ Places /\ TimerPending /\ LogRefreshUnderWay
<1>1. Init => Inv
  BY TypeInit, PlacesInit DEF Init, LogRefreshUnderWay, Reading
<1>2. Inv /\ [Next]_vars => Inv'
  BY TypeStep, PlacesStep, TimerPendingStep, LogRefreshStep
<1> QED BY <1>1, <1>2, PTL DEF Spec
=============================================================================
