---------------------------- MODULE NasExchange ----------------------------
(***************************************************************************)
(* The eight request/response exchanges of an Attach, from the UE's        *)
(* _exchange through the RRC, L2 and L1 tasks and the socket to the        *)
(* eNB/MME peer (build_enb_response) and back, with the NAS security       *)
(* contexts both sides keep (nas_security.py) and the fault one FaultConfig*)
(* injects into one message of a transaction (fault_injection/core.py).    *)
(*                                                                         *)
(* AttachEngine models the orchestration thread's bookkeeping and leaves   *)
(* open what an exchange returns; this module models what it returns.  The *)
(* guard of an exchange may expire at any moment, a socket may time out at *)
(* any moment, and a request that nobody waits for any more may reach the  *)
(* peer late or never.  A message is named for the stage it belongs to,    *)
(* and its fields are abstracted to whether the peer's policy accepts      *)
(* them; a protected PDU is known by the transaction whose keys protect it,*)
(* its direction, kind and COUNT.                                          *)
(***************************************************************************)
EXTENDS Integers, FiniteSets, Sequences, ReplayWindow

CONSTANTS MaxTx,        \* bound: the number of Attach transactions
          MaxRequests,  \* bound: the number of cancelling operations
          Capacity,     \* max_transactions of the peer (16)
          Faults,       \* the faults that may be configured
          Serial,       \* does one request thread act at a time?
          None

Tx == 1..MaxTx

ASSUME MaxTxAssumption == MaxTx \in Nat
ASSUME MaxRequestsAssumption == MaxRequests \in Nat
ASSUME CapacityAssumption == Capacity \in Nat /\ Capacity >= 2
ASSUME SerialAssumption == Serial \in BOOLEAN

\* The keys of CATALOG, in the order _run_attach goes through them.
Stages == << "mib_sib_read", "random_access", "rrc_connection",
             "rrc_complete", "nas_attach_request", "authentication",
             "security_mode", "attach_complete" >>

StageNames == { Stages[i] : i \in 1..8 }

\* The messages whose payload travels in a protected PDU.
Protected == {"security_mode", "attach_complete"}

\* The types whose policy looks at no field but ueId, or has a default for it.
Lenient == {"mib_sib_read", "rrc_complete", "nas_attach_request", "attach_complete"}

(* A fault hits the message or the response of one stage.  A string in     *)
(* StageNames stands for the wire type the message is given instead of its *)
(* own, "unknown" for a type the peer does not know.  A fault that changes *)
(* a field nobody checks, or only delays, is no fault here.                *)
SocketFaults == {"wrong", "tampered", "dropped", "unknown"} \cup StageNames
PrimitiveFaults == {"spoiled", "duplicated", "withheld"}

NoFault == [stage |-> "none", what |-> "none"]

PossibleFaults ==
  { f \in [stage : StageNames, what : SocketFaults \cup PrimitiveFaults] :
      /\ f.what # f.stage
      /\ f.what = "tampered" => f.stage \in Protected } \cup {NoFault}

ASSUME FaultsAssumption == Faults \subseteq PossibleFaults /\ Faults # {}

VARIABLES
  current,    \* _current_ctx
  cancelled,  \* the transactions whose cancel event is set
  made,       \* the number of transactions created
  requests,   \* the number of cancelling operations begun
  clearing,   \* how many of them have still to call security.disable()
  phase,      \* phase[t]: where the orchestration thread of t is
  done,       \* done[t]: the number of exchanges it has finished
  fault,      \* fault[t]: the FaultConfig of t
  answer,     \* answer[t]: what the current exchange of t has come to
  uplink,     \* the transactions whose message waits for the RRC task
  l1,         \* the message the RRC, L2 and L1 tasks are busy with
  ueNas,      \* the NAS context of SecurityContext
  wire,       \* the requests sent to the peer and not yet served
  mme,        \* mme[t]: _transactions, None where there is none
  order,      \* _order: the transactions of mme, oldest first
  sent,       \* the protected uplink PDUs as they were sent
  accepted,   \* accepted[t]: the types of the messages accepted by the peer
  late        \* the transactions that met a timeout

ctxVars == << current, cancelled, made, requests, clearing >>
threadVars == << phase, done, fault, answer >>
taskVars == << uplink, l1 >>
peerVars == << wire, mme, order >>
ghostVars == << sent, accepted, late >>
vars == << ctxVars, threadVars, taskVars, ueNas, peerVars, ghostVars >>

Ended == {"attached", "failed", "cancelled"}
Phases == {"none", "starting", "aborted", "ready", "waiting"} \cup Ended

IdleL1 == [at |-> "idle", tx |-> None, pdu |-> None, reply |-> None]

Init ==
  /\ current = None /\ cancelled = {} /\ made = 0 /\ requests = 0 /\ clearing = 0
  /\ phase = [t \in Tx |-> "none"] /\ done = [t \in Tx |-> 0]
  /\ fault = [t \in Tx |-> NoFault] /\ answer = [t \in Tx |-> "none"]
  /\ uplink = << >> /\ l1 = IdleL1 /\ ueNas = None
  /\ wire = {} /\ mme = [t \in Tx |-> None] /\ order = << >>
  /\ sent = {} /\ accepted = [t \in Tx |-> << >>] /\ late = {}

-----------------------------------------------------------------------------
(* Request threads.                                                        *)

\* What _checkpoint requires.
Alive(t) == current = t /\ t \notin cancelled

\* operation_stop is set when the thread of t fails or ends.
Stopped(t) == phase[t] \in Ended

\* No request thread is in the middle of an operation.
RequestsIdle == clearing = 0 /\ \A t \in Tx : phase[t] # "starting"

\* start_attach up to the point where the new context is current.
Start ==
  /\ Serial => RequestsIdle
  /\ current = None \/ current \in cancelled
  /\ made < MaxTx
  /\ made' = made + 1 /\ current' = made + 1
  /\ phase' = [phase EXCEPT ![made + 1] = "starting"]
  /\ \E f \in Faults : fault' = [fault EXCEPT ![made + 1] = f]
  /\ UNCHANGED << cancelled, requests, clearing, done, answer, taskVars, ueNas,
                  peerVars, ghostVars >>

\* The rest of it: disable(), and the thread unless a checkpoint forbids it.
Launch(t) ==
  /\ phase[t] = "starting"
  /\ ueNas' = None
  /\ phase' = [phase EXCEPT ![t] = IF Alive(t) THEN "ready" ELSE "aborted"]
  /\ UNCHANGED << ctxVars, done, fault, answer, taskVars, peerVars, ghostVars >>

\* cancel_attach, of stop_attach or of reset and set_cfun_zero, which go on
\* to call security.disable() when they have waited for the thread.
Request ==
  /\ Serial => RequestsIdle
  /\ requests < MaxRequests
  /\ requests' = requests + 1
  /\ cancelled' = IF current = None THEN cancelled ELSE cancelled \cup {current}
  /\ clearing' \in {clearing, clearing + 1}
  /\ UNCHANGED << current, made, threadVars, taskVars, ueNas, peerVars, ghostVars >>

\* security.disable() of reset and set_cfun_zero.
Disable ==
  /\ clearing > 0
  /\ clearing' = clearing - 1
  /\ ueNas' = None
  /\ UNCHANGED << current, cancelled, made, requests, threadVars, taskVars,
                  peerVars, ghostVars >>

-----------------------------------------------------------------------------
(* The orchestration thread in _exchange.                                  *)

StageOf(t) == Stages[done[t] + 1]

\* The guard is started and a deliver thread asks the RRC task to send.
BeginExchange(t) ==
  /\ phase[t] = "ready" /\ Alive(t)
  /\ phase' = [phase EXCEPT ![t] = "waiting"]
  /\ answer' = [answer EXCEPT ![t] = "none"]
  /\ uplink' = Append(uplink, t)
  /\ UNCHANGED << ctxVars, done, fault, l1, ueNas, peerVars, ghostVars >>

\* The response was processed; after the last one _finish_success follows.
Advance(t) ==
  /\ phase[t] = "waiting" /\ Alive(t) /\ answer[t] = "good"
  /\ done' = [done EXCEPT ![t] = @ + 1]
  /\ phase' = [phase EXCEPT ![t] = IF done[t] + 1 = 8 THEN "attached" ELSE "ready"]
  /\ UNCHANGED << ctxVars, fault, answer, taskVars, ueNas, peerVars, ghostVars >>

\* deliver handed over an exception other than AttachCancelled.
Fail(t) ==
  /\ phase[t] = "waiting" /\ Alive(t) /\ answer[t] = "bad"
  /\ phase' = [phase EXCEPT ![t] = "failed"]
  /\ UNCHANGED << ctxVars, done, fault, answer, taskVars, ueNas, peerVars, ghostVars >>

\* The guard expired, whatever the deliver thread has come to.
Expire(t) ==
  /\ phase[t] = "waiting" /\ Alive(t)
  /\ phase' = [phase EXCEPT ![t] = "failed"]
  /\ late' = late \cup {t}
  /\ UNCHANGED << ctxVars, done, fault, answer, taskVars, ueNas, peerVars, sent, accepted >>

\* AttachCancelled, from a checkpoint of its own or handed over by deliver.
Abandon(t) ==
  /\ \/ phase[t] \in {"ready", "waiting"} /\ ~Alive(t)
     \/ phase[t] = "waiting" /\ answer[t] = "gone"
  /\ phase' = [phase EXCEPT ![t] = "cancelled"]
  /\ UNCHANGED << ctxVars, done, fault, answer, taskVars, ueNas, peerVars, ghostVars >>

\* The finally clause of _run_attach.
Exit(t) ==
  /\ phase[t] \in Ended /\ current = t
  /\ current' = None
  /\ UNCHANGED << cancelled, made, requests, clearing, threadVars, taskVars,
                  ueNas, peerVars, ghostVars >>

-----------------------------------------------------------------------------
(* NAS security: NasSecurityContext and the two calls of SecurityContext.  *)

NasWidth == 32
NasHalf == 128

\* The COUNT values whose bit is set in a window.
Received(w) == { w.highest - d : d \in w.bits }

\* Mutant: the MAC is not compared.
OpensUnchecked(w, p, t, dir, kind) ==
  /\ p # None
  /\ ~Rejects(w, NasWidth, p.count)

\* unprotect succeeds: the COUNT guessed from the sequence number makes the
\* MAC right, it is new, and kind and mode of protection are the expected.
Opens(w, p, t, dir, kind) ==
  /\ p # None
  /\ p.genuine /\ p.tx = t /\ p.dir = dir
  /\ Estimate(w.highest, p.count % (2 * NasHalf), NasHalf) = p.count
  /\ ~Rejects(w, NasWidth, p.count)
  /\ p.kind = kind
  /\ p.ciphered = (dir = "up" \/ kind = "security_mode")

\* prepare_nas_context: the context of t, a new one unless it exists.
UeContext(t) ==
  IF ueNas # None /\ ueNas.tx = t THEN ueNas
  ELSE [tx |-> t, up |-> 0, down |-> EmptyWindow]

\* protect on the UE side.
UplinkPdu(t) ==
  [tx |-> t, dir |-> "up", kind |-> StageOf(t), count |-> UeContext(t).up,
   ciphered |-> TRUE, genuine |-> TRUE]

-----------------------------------------------------------------------------
(* The RRC, L2 and L1 tasks: each waits for the next, so they serve one    *)
(* message at a time, and _network runs to its end in the L1 task.         *)

\* The handlers' checkpoints; the deliver thread gets the AttachCancelled.
L1Take ==
  /\ l1.at = "idle" /\ uplink # << >>
  /\ uplink' = Tail(uplink)
  /\ LET t == Head(uplink)
     IN  IF Alive(t)
         THEN /\ l1' = [IdleL1 EXCEPT !.tx = t,
                          !.at = IF StageOf(t) \in Protected THEN "protecting" ELSE "sending"]
              /\ UNCHANGED answer
         ELSE answer' = [answer EXCEPT ![t] = "gone"] /\ UNCHANGED l1
  /\ UNCHANGED << ctxVars, phase, done, fault, ueNas, peerVars, ghostVars >>

\* protect_nas_uplink
L1Protect ==
  /\ l1.at = "protecting"
  /\ ueNas' = [UeContext(l1.tx) EXCEPT !.up = @ + 1]
  /\ l1' = [l1 EXCEPT !.at = "sending", !.pdu = UplinkPdu(l1.tx)]
  /\ UNCHANGED << ctxVars, threadVars, uplink, peerVars, ghostVars >>

Hit(t, what) == fault[t] = [stage |-> StageOf(t), what |-> what]

\* intercept at the socket layer: the type the message of t goes out with.
WireType(t) ==
  IF fault[t].stage = StageOf(t) /\ fault[t].what \in StageNames \cup {"unknown"}
  THEN fault[t].what ELSE StageOf(t)

\* The payload on the wire, with the fields the peer's policy looks at.
Message(t, pdu) ==
  [tx |-> t, stage |-> StageOf(t), type |-> WireType(t),
   valid |-> ~Hit(t, "wrong") /\ WireType(t) \in Lenient \cup {StageOf(t)},
   pdu |-> IF Hit(t, "tampered") THEN [pdu EXCEPT !.genuine = FALSE] ELSE pdu]

\* Mutant: the checkpoint before the socket is left out.
SendsAnyway(t) == ~Stopped(t)

\* The checkpoint that follows the construction of the message.
MaySend(t) == Alive(t) /\ ~Stopped(t)

L1Send ==
  /\ l1.at = "sending"
  /\ LET t == l1.tx
         m == Message(t, l1.pdu)
     IN  \/ /\ Hit(t, "dropped")
            /\ l1' = [l1 EXCEPT !.at = "silent"]
            /\ UNCHANGED << answer, wire, sent >>
         \/ /\ ~Hit(t, "dropped") /\ MaySend(t)
            /\ wire' = wire \cup {m}
            /\ sent' = IF m.pdu = None THEN sent ELSE sent \cup {m.pdu}
            /\ l1' = [l1 EXCEPT !.at = "sent"]
            /\ UNCHANGED answer
         \/ /\ ~Hit(t, "dropped") /\ ~MaySend(t)
            /\ answer' = [answer EXCEPT ![t] = "gone"]
            /\ l1' = IdleL1
            /\ UNCHANGED << wire, sent >>
  /\ UNCHANGED << ctxVars, phase, done, fault, uplink, ueNas, mme, order, accepted, late >>

\* A dropped message: AttachCancelled when operation_stop is set, or the
\* wait for it is over.
L1Wake ==
  /\ l1.at = "silent"
  /\ answer' = [answer EXCEPT ![l1.tx] = "gone"]
  /\ l1' = IdleL1
  /\ UNCHANGED << ctxVars, phase, done, fault, uplink, ueNas, peerVars, ghostVars >>

\* The socket timed out, or the connection broke.
L1Timeout ==
  /\ l1.at = "sent"
  /\ answer' = [answer EXCEPT ![l1.tx] = "bad"]
  /\ late' = late \cup {l1.tx}
  /\ l1' = IdleL1
  /\ UNCHANGED << ctxVars, phase, done, fault, uplink, ueNas, peerVars, sent, accepted >>

\* Mutant: a reject of the right message is taken for an acceptance.
MatchesType(t, r) == r.type = StageOf(t)

\* What _consume_response and the camping decision ask of a response: it is
\* no reject and has the kind and the fields expected.
Matches(t, r) == r.verdict = "accept" /\ r.type = StageOf(t)

Arrived(t, r) == IF Matches(t, r) THEN "matching" ELSE "other"

\* The response is read and, when its kind asks for it, its PDU verified.
L1Receive ==
  /\ l1.at = "sent" /\ l1.reply # None
  /\ LET t == l1.tx
         p == l1.reply.pdu
         c == UeContext(t)
     IN  \/ /\ ~MaySend(t)
            /\ answer' = [answer EXCEPT ![t] = "gone"]
            /\ UNCHANGED ueNas
         \/ /\ MaySend(t) /\ p = None
            /\ answer' = [answer EXCEPT ![t] = Arrived(t, l1.reply)]
            /\ UNCHANGED ueNas
         \/ /\ MaySend(t) /\ p # None
            /\ IF Opens(c.down, p, t, "down", l1.reply.type)
               THEN /\ ueNas' = [c EXCEPT !.down = Commit(@, NasWidth, p.count)]
                    /\ answer' = [answer EXCEPT ![t] = Arrived(t, l1.reply)]
               ELSE /\ ueNas' = c
                    /\ answer' = [answer EXCEPT ![t] = "bad"]
  /\ l1' = IdleL1
  /\ UNCHANGED << ctxVars, phase, done, fault, uplink, peerVars, ghostVars >>

-----------------------------------------------------------------------------
(* The deliver thread and the task that consumes the primitive.            *)

\* The checks of deliver and of the consumer, and intercept between them.  A
\* second copy is refused as a duplicate; without a copy nothing is put into
\* the queue.
Consume(t) ==
  /\ answer[t] \in {"matching", "other"}
  /\ LET verdict == IF ~MaySend(t) THEN "gone"
                    ELSE IF Hit(t, "withheld") THEN "never"
                    ELSE IF Hit(t, "spoiled") \/ Hit(t, "duplicated") THEN "bad"
                    ELSE IF answer[t] = "matching" THEN "good" ELSE "bad"
     IN  answer' = [answer EXCEPT ![t] = verdict]
  /\ UNCHANGED << ctxVars, phase, done, fault, taskVars, ueNas, peerVars, ghostVars >>

-----------------------------------------------------------------------------
(* The eNB/MME peer.  It holds the lock of NetworkControlPlaneContext from *)
(* the first check to the response, so serving a request is one step.      *)

NewContext ==
  [cell |-> "IDLE", ra |-> "IDLE", rrc |-> "IDLE", attach |-> "IDLE",
   auth |-> "IDLE", sec |-> "IDLE", nas |-> None]

\* Mutant: the authentication response needs no challenge before it.
ReadyUnchallenged(c, type) ==
  CASE type = "random_access" -> c.cell = "CAMPED"
    [] type = "rrc_connection" -> c.ra = "COMPLETE"
    [] type = "rrc_complete" -> c.rrc = "SETUP_SENT"
    [] type = "nas_attach_request" -> c.rrc = "CONNECTED"
    [] type = "security_mode" -> c.auth = "AUTHENTICATED"
    [] type = "attach_complete" -> c.sec = "ACTIVE" /\ c.attach = "ACCEPTED"
    [] OTHER -> TRUE

\* The checks of the message against the context.
Ready(c, type) ==
  CASE type = "mib_sib_read" -> TRUE
    [] type = "random_access" -> c.cell = "CAMPED"
    [] type = "rrc_connection" -> c.ra = "COMPLETE"
    [] type = "rrc_complete" -> c.rrc = "SETUP_SENT"
    [] type = "nas_attach_request" -> c.rrc = "CONNECTED"
    [] type = "authentication" -> c.auth = "CHALLENGE_SENT"
    [] type = "security_mode" -> c.auth = "AUTHENTICATED"
    [] type = "attach_complete" -> c.sec = "ACTIVE" /\ c.attach = "ACCEPTED"

\* What an accepted message does to the context; the PDU of a Security Mode
\* Command or an Attach Accept takes a downlink COUNT.
Granted(c, type) ==
  CASE type = "mib_sib_read" -> [c EXCEPT !.cell = "CAMPED"]
    [] type = "random_access" -> [c EXCEPT !.ra = "COMPLETE"]
    [] type = "rrc_connection" -> [c EXCEPT !.rrc = "SETUP_SENT"]
    [] type = "rrc_complete" -> [c EXCEPT !.rrc = "CONNECTED"]
    [] type = "nas_attach_request" ->
         [c EXCEPT !.attach = "ATTACHING", !.auth = "CHALLENGE_SENT"]
    [] type = "authentication" ->
         [c EXCEPT !.auth = "AUTHENTICATED", !.sec = "COMMAND_SENT",
                   !.nas = [down |-> 1, up |-> EmptyWindow]]
    [] type = "security_mode" ->
         [c EXCEPT !.sec = "ACTIVE", !.attach = "ACCEPTED", !.nas.down = @ + 1]
    [] type = "attach_complete" -> [c EXCEPT !.attach = "ATTACHED"]

\* What a rejected one does.
Rejected(c, type) ==
  CASE type = "mib_sib_read" -> [c EXCEPT !.cell = "REJECTED"]
    [] type = "random_access" -> [c EXCEPT !.ra = "REJECTED"]
    [] type \in {"rrc_connection", "rrc_complete"} -> [c EXCEPT !.rrc = "REJECTED"]
    [] type = "authentication" -> [c EXCEPT !.auth = "REJECTED"]
    [] type = "security_mode" -> [c EXCEPT !.sec = "REJECTED"]
    [] type \in {"nas_attach_request", "attach_complete"} ->
         [c EXCEPT !.attach = "REJECTED"]

\* verify_nas_uplink
Verified(c, m) == c.nas # None /\ Opens(c.nas.up, m.pdu, m.tx, "up", m.type)

\* Mutant: the COUNT is not remembered.
AfterVerifyForgets(c, m) == c

\* The receiver state it leaves: only a PDU that opens is committed, even
\* when the policy then rejects the message.
AfterVerify(c, m) ==
  IF m.type \in Protected /\ Verified(c, m)
  THEN [c EXCEPT !.nas.up = Commit(@, NasWidth, m.pdu.count)] ELSE c

\* Mutant: the fields of the message are not looked at.
AcceptableAnyFields(c, m) ==
  /\ m.type # "unknown" /\ Ready(c, m.type)
  /\ m.type \in Protected => Verified(c, m)

\* All checks of the decision.
Acceptable(c, m) ==
  /\ m.type # "unknown" /\ m.valid /\ Ready(c, m.type)
  /\ m.type \in Protected => Verified(c, m)

Decided(c, m) ==
  LET v == AfterVerify(c, m)
  IN  IF Acceptable(c, m) THEN Granted(v, m.type)
      ELSE IF m.type = "unknown" THEN v ELSE Rejected(v, m.type)

\* attach_nas_downlink
DownlinkPdu(c, m) ==
  IF Acceptable(c, m) /\ m.type \in {"authentication", "security_mode"}
  THEN [tx |-> m.tx, dir |-> "down", kind |-> m.type, genuine |-> TRUE,
        count |-> Decided(c, m).nas.down - 1, ciphered |-> m.type = "security_mode"]
  ELSE None

Response(c, m) ==
  [type |-> m.type, verdict |-> IF Acceptable(c, m) THEN "accept" ELSE "reject",
   pdu |-> DownlinkPdu(c, m)]

\* Mutant: room is made one transaction too early.
FullEarly(n) == n >= Capacity

\* There are more transactions than the peer keeps.
Full(n) == n > Capacity

\* Mutant: the oldest context stays in the map.
StoreLeaks(t, d) ==
  /\ mme' = [mme EXCEPT ![t] = d]
  /\ order' = IF mme[t] # None THEN order
              ELSE IF Full(Len(order) + 1) THEN Append(Tail(order), t)
              ELSE Append(order, t)

\* locked, for the transaction t whose context becomes d.
Store(t, d) ==
  IF mme[t] # None
  THEN mme' = [mme EXCEPT ![t] = d] /\ UNCHANGED order
  ELSE LET longer == Append(order, t)
       IN  IF Full(Len(longer))
           THEN /\ order' = Tail(longer)
                /\ mme' = [mme EXCEPT ![t] = d, ![Head(longer)] = None]
           ELSE /\ order' = longer
                /\ mme' = [mme EXCEPT ![t] = d]

\* One request is served.  The response reaches the L1 task if it is still
\* waiting for it.
Serve(m) ==
  /\ m \in wire
  /\ wire' = wire \ {m}
  /\ LET c == IF mme[m.tx] = None THEN NewContext ELSE mme[m.tx]
     IN  /\ Store(m.tx, Decided(c, m))
         /\ accepted' = IF Acceptable(c, m)
                        THEN [accepted EXCEPT ![m.tx] = Append(@, m.type)] ELSE accepted
         /\ l1' = IF l1.at = "sent" /\ l1.tx = m.tx /\ StageOf(m.tx) = m.stage
                  THEN [l1 EXCEPT !.reply = Response(c, m)] ELSE l1
  /\ UNCHANGED << ctxVars, threadVars, uplink, ueNas, sent, late >>

-----------------------------------------------------------------------------
ThreadStep(t) ==
  \/ Launch(t) \/ BeginExchange(t) \/ Advance(t) \/ Fail(t) \/ Expire(t)
  \/ Abandon(t) \/ Exit(t) \/ Consume(t)

TaskStep == L1Take \/ L1Protect \/ L1Send \/ L1Wake \/ L1Timeout \/ L1Receive

Next ==
  \/ Start \/ Request \/ Disable \/ TaskStep
  \/ \E t \in Tx : ThreadStep(t)
  \/ \E m \in wire : Serve(m)

Spec == Init /\ [][Next]_vars

-----------------------------------------------------------------------------
PduSet ==
  [tx : Tx, dir : {"up", "down"}, kind : StageNames, count : Nat,
   ciphered : BOOLEAN, genuine : BOOLEAN]

ResponseSet ==
  [type : StageNames \cup {"unknown"}, verdict : {"accept", "reject"},
   pdu : PduSet \cup {None}]

MessageSet ==
  [tx : Tx, stage : StageNames, type : StageNames \cup {"unknown"},
   valid : BOOLEAN, pdu : PduSet \cup {None}]

UeNasSet == [tx : Tx, up : Nat, down : Windows(NasWidth)]

PeerNasSet == [down : Nat, up : Windows(NasWidth)]

ContextSet ==
  [cell : {"IDLE", "CAMPED", "REJECTED"}, ra : {"IDLE", "COMPLETE", "REJECTED"},
   rrc : {"IDLE", "SETUP_SENT", "CONNECTED", "REJECTED"},
   attach : {"IDLE", "ATTACHING", "ACCEPTED", "ATTACHED", "REJECTED"},
   auth : {"IDLE", "CHALLENGE_SENT", "AUTHENTICATED", "REJECTED"},
   sec : {"IDLE", "COMMAND_SENT", "ACTIVE", "REJECTED"},
   nas : PeerNasSet \cup {None}]

\* None is no number and none of the records it may stand in for.
ASSUME NoneAssumption ==
  None \notin Nat \cup PduSet \cup ResponseSet \cup UeNasSet \cup PeerNasSet \cup ContextSet

\* The types of the variables.
TypeOK ==
  /\ current \in Tx \cup {None} /\ cancelled \subseteq Tx
  /\ made \in 0..MaxTx /\ requests \in 0..MaxRequests /\ clearing \in Nat
  /\ phase \in [Tx -> Phases] /\ done \in [Tx -> 0..8] /\ fault \in [Tx -> PossibleFaults]
  /\ answer \in [Tx -> {"none", "matching", "other", "good", "bad", "gone", "never"}]
  /\ uplink \in Seq(Tx)
  /\ l1 \in [at : {"idle", "protecting", "sending", "silent", "sent"},
             tx : Tx \cup {None}, pdu : PduSet \cup {None},
             reply : ResponseSet \cup {None}]
  /\ ueNas \in UeNasSet \cup {None}
  /\ wire \subseteq MessageSet
  /\ mme \in [Tx -> ContextSet \cup {None}]
  /\ order \in Seq(Tx)
  /\ sent \subseteq PduSet /\ late \subseteq Tx
  /\ accepted \in [Tx -> Seq(StageNames)]

\* A context of the peer ends ATTACHED only by going through every procedure
\* itself: one that was evicted in mid Attach and made anew never gets there.
AttachedContextComplete ==
  \A t \in Tx : mme[t] # None /\ mme[t].attach = "ATTACHED" =>
    /\ mme[t].cell = "CAMPED" /\ mme[t].ra = "COMPLETE" /\ mme[t].rrc = "CONNECTED"
    /\ mme[t].auth = "AUTHENTICATED" /\ mme[t].sec = "ACTIVE"

\* _order lists the transactions that have a context, each once, and no more
\* of them than the peer keeps, whatever late requests bring back.
OrderMatchesContexts ==
  /\ { order[i] : i \in 1..Len(order) } = { t \in Tx : mme[t] # None }
  /\ Cardinality({ t \in Tx : mme[t] # None }) = Len(order)
  /\ Len(order) <= Capacity

\* Types, and the peer's table with its order of eviction.
ContextsInv == TypeOK /\ OrderMatchesContexts

\* A UE that is attached is attached at the peer, too, with security active
\* and both protected messages of each direction received.
AttachedAgree ==
  \A t \in Tx : phase[t] = "attached" /\ mme[t] # None =>
    /\ mme[t].attach = "ATTACHED" /\ mme[t].sec = "ACTIVE"
    /\ mme[t].nas.down = 2 /\ Received(mme[t].nas.up) = {0, 1}

\* The peer counts as received only what the UE sent in this transaction and
\* nobody altered: a PDU whose check fails leaves COUNT and window alone.
OnlyGenuineCommitted ==
  \A t \in Tx : mme[t] # None /\ mme[t].nas # None =>
    \A n \in Received(mme[t].nas.up) :
      \E p \in sent : p.tx = t /\ p.count = n /\ p.genuine

\* An Attach ends in success only when no fault was configured that UE or
\* network can see: no reject, timeout or altered field gets lost on the way
\* from the peer through the tasks to the orchestration thread.
VisibleFaultNeverAttaches ==
  \A t \in Tx : phase[t] = "attached" => fault[t] = NoFault

\* Without a fault and a timeout no Attach fails, whatever transactions were
\* cancelled before it and whatever they left in the tasks, on the wire, in
\* the peer and in SecurityContext: as long as the peer has not had to make
\* room, for late requests can then cost an Attach in progress its context.
CleanRunSucceeds ==
  \A t \in Tx : phase[t] = "failed" =>
    fault[t] # NoFault \/ t \in late \/ made > Capacity

\* The uplink COUNT advances: no two different PDUs go out under the keys of
\* one transaction with one COUNT (docs/SECURITY.md, 6.3).
UplinkCountAdvances ==
  \A p, q \in sent : p.tx = q.tx /\ p.count = q.count => p.kind = q.kind

-----------------------------------------------------------------------------
HandshakeStatus(t) ==
  CASE phase[t] = "none" -> "idle"
    [] phase[t] \in {"starting", "ready", "waiting"} -> "running"
    [] phase[t] = "attached" -> "attached"
    [] OTHER -> "stopped"

\* The exchanges implement AttachHandshake: the messages the peer has accepted
\* are counted by their type.
Handshake == INSTANCE AttachHandshake WITH
  Exchanges <- 8, ue <- done,
  network <- [t \in Tx |-> Cardinality({ accepted[t][i] : i \in 1..Len(accepted[t]) })],
  status <- [t \in Tx |-> HandshakeStatus(t)]

ImplementsHandshake == Handshake!Spec
=============================================================================
