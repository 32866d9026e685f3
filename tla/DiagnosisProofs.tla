-------------------------- MODULE DiagnosisProofs --------------------------
(***************************************************************************)
(* Theorems about Diagnosis for every set of faults and however often the  *)
(* clock reaches a full second.                                            *)
(***************************************************************************)
EXTENDS Diagnosis, FiniteSetTheorems, SequenceTheorems, TLAPS

Times == [sec : Nat, frac : Nat]
Steps == {"mib_sib_read", "system_info_validate", "authentication"}
Places ==
  {"request", "transmit", "sent", "response", "consume", "validate",
   "answered", "raised", "done"}
Endings == {"VALIDATION_FAILED", "SOCKET_TIMEOUT", "SOCKET_ERROR"}
BadAnswers == {"PRIMITIVE_MALFORMED", "UNEXPECTED_PRIMITIVE"}

Whats == {f.what : f \in AllFaults}
Roots ==
  {None, "SOCKET_DROP", "SOCKET_TIMEOUT", "SOCKET_ERROR", "NETWORK_REJECT",
   "PRIMITIVE_MISSING", "TIMER_EXPIRED", "PRIMITIVE_PARAMETER_INVALID",
   "DUPLICATE_PRIMITIVE"} \cup BadAnswers
Causes ==
  {None, "SOCKET_MESSAGE_DROPPED", "PRIMITIVE_DELIVERY_SUPPRESSED"} \cup
  {Cause(s) : s \in Steps}

Records ==
  [ event : DecisiveEvents \cup {"FAULT_INJECTED", "SOCKET_RX"},
    corr : Exchanges, step : Steps \cup {None}, root : Roots,
    decision : {None, "ACCEPT", "REJECT", "DROP"}, cause : Causes,
    fault : Whats, time : Times ]

\* Every variable has its type.
TypeInv ==
  /\ fault \in [what : Whats, stage : Exchanges, mirror : BOOLEAN]
  /\ [what |-> fault.what, stage |-> fault.stage] \in AllFaults
  /\ hit \in BOOLEAN /\ stop \in BOOLEAN /\ at \in 1..3
  /\ pc \in Places /\ todo \in Seq(Records)
  /\ peer \in [at : {"idle", "asked", "serving", "answered"}, todo : Seq(Records)]
  /\ guard \in [Exchanges -> [at : {"idle", "running", "taken", "published", "expired"},
                              time : Times]]
  /\ status \in [Exchanges -> {"IDLE", "RUNNING", "STOPPED", "EXPIRED"}]
  /\ run \in {"running", "failing", "failed", "attached"}
  /\ now \in Times /\ log \in Seq(Records) /\ seen \in 0..Len(log)

-----------------------------------------------------------------------------
(* The clock: a row is recorded at a time that no other has.               *)

Earlier(t, u) == t.sec < u.sec \/ (t.sec = u.sec /\ t.frac < u.frac)

ClockInv ==
  /\ \A r \in Rows(log) : r.time = now \/ Earlier(r.time, now)
  /\ \A q, r \in Rows(log) : q.time = r.time => q = r
  /\ Cardinality({r.time : r \in Rows(log)}) = Len(log)
  /\ \A s \in Exchanges :
       guard[s].at = "published" =>
         /\ guard[s].time = now \/ Earlier(guard[s].time, now)
         /\ \A r \in Rows(log) : r.time # guard[s].time
  /\ \A s, t \in Exchanges :
       guard[s].at = "published" /\ guard[t].at = "published" /\ s # t =>
         guard[s].time # guard[t].time

-----------------------------------------------------------------------------
(* The guards and their published status.                                  *)

GuardInv ==
  /\ \A s \in Exchanges :
       /\ guard[s].at \in {"published", "expired"} => status[s] \in {"EXPIRED", "STOPPED"}
       /\ guard[s].at = "running" => status[s] = "RUNNING"
       /\ guard[s].at = "idle" => status[s] \in {"IDLE", "STOPPED"}
       /\ guard[s].at = "taken" => status[s] \in {"RUNNING", "STOPPED"}
  /\ at < 3 => guard["authentication"].at = "idle"
  /\ run = "running" /\ InExchange /\ guard[Step].at \in {"published", "expired"} =>
       status[Step] = "EXPIRED"
  /\ run = "running" /\ InExchange /\ guard[Step].at = "expired" =>
       \E r \in Rows(log) : r.event = "TIMER_EXPIRED" /\ r.corr = Corr

-----------------------------------------------------------------------------
(* Where the threads stand, and how far an injected fault lets them come.   *)

PlaceInv ==
  /\ peer.at # "serving" => peer.todo = <<>>
  /\ pc \in {"request", "transmit", "response", "consume", "validate", "answered"} =>
       peer.at = "idle"
  /\ at = 2 => pc \in {"validate", "answered", "raised"}
  /\ pc = "validate" => at = 2
  /\ run = "attached" => at = 3 /\ pc = "done"
  /\ pc = "raised" =>
       \E r \in Rows(log) \cup Rows(todo) : r.event \in Endings /\ r.corr = Corr

DoomInv ==
  hit =>
    /\ fault.what # None
    /\ fault.what = "socket_field" =>
         /\ Step = fault.stage /\ run # "attached"
         /\ pc \in {"transmit", "sent", "response", "consume", "raised", "done"}
    /\ fault.what = "sib" =>
         /\ at \in {1, 2} /\ run # "attached"
         /\ at = 2 => pc \in {"validate", "raised"}
    /\ fault.what \in {"socket_drop", "drop", "timer_timeout"} =>
         pc = "done" /\ run # "attached"

-----------------------------------------------------------------------------
(* The rows that are recorded or about to be.                              *)

Consumed == {"socket_field", "field", "sib", "duplicate"}
Dropped == {"socket_drop", "drop", "timer_timeout"}
FaultRoot ==
  CASE fault.what = "socket_field" -> "NETWORK_REJECT"
    [] fault.what = "duplicate" -> "DUPLICATE_PRIMITIVE"
    [] OTHER -> "PRIMITIVE_PARAMETER_INVALID"

Genuine(r) ==
  /\ r.event = "FAULT_INJECTED" =>
       hit /\ r.root = None /\ r.decision = None /\ r.fault = fault.what
  /\ r.event = "SOCKET_DROP" =>
       hit /\ fault.what = "socket_drop" /\ pc = "done" /\ r.corr = Corr
  /\ r.event \in Endings => pc = "raised" /\ r.corr = Corr
  /\ r.event = "VALIDATION_FAILED" =>
       r.root \in BadAnswers \/ (hit /\ fault.what \in Consumed /\ r.root = FaultRoot)
  /\ r.event = "DELIVERY_DECISION" =>
       hit /\ fault.what \in Dropped /\ r.decision = "DROP"
  /\ r.event = "UE_DECISION" =>
       \/ r.decision = "ACCEPT"
       \/ /\ hit /\ fault.what = "sib"
          /\ r.decision = "REJECT" /\ r.cause = Cause("system_info_validate")
  /\ r.event \in {"DECISION", "GENERATED", "SOCKET_RX"} =>
       \/ r.decision = "ACCEPT"
       \/ /\ hit /\ fault.what = "socket_field"
          /\ r.decision = "REJECT" /\ r.cause = Cause(fault.stage)
  /\ r.event = "SOCKET_RX" => r.decision = "ACCEPT" \/ r.step = fault.stage

\* What a thread is about to record is about the activity the run is in.
Made(r) == Genuine(r) /\ r.corr = Corr /\ r.event # "TIMER_EXPIRED"

RowsInv ==
  /\ \A r \in Rows(log) : Genuine(r)
  /\ \A r \in Rows(todo) \cup Rows(peer.todo) : Made(r)

\* But for the callback of its guard, nothing of an exchange is recorded once the
\* next has begun.
OrderInv ==
  /\ at < 3 => \A r \in Rows(log) : r.corr = "mib_sib_read"
  /\ \A q \in Rows(log) :
       at = 3 /\ q.corr = "mib_sib_read" /\ q.event # "TIMER_EXPIRED" =>
         /\ \A r \in Rows(log) : r.corr = "authentication" => Earlier(q.time, r.time)
         /\ guard["authentication"].at = "published" =>
              Earlier(q.time, guard["authentication"].time)

\* A run fails by an exception or by the guard of the exchange it is in, and the
\* evidence of it is recorded before the state is analysed.
EndInv ==
  /\ run \in {"failing", "failed"} =>
       \E r \in IF run = "failing" THEN Rows(log) ELSE Snapshot :
         /\ r.corr = Corr
         /\ \/ r.event \in Endings
            \/ /\ r.event = "TIMER_EXPIRED" /\ InExchange
               /\ guard[Step].at = "expired" /\ status[Step] = "EXPIRED"

DiagnosisInv ==
  TypeInv /\ ClockInv /\ GuardInv /\ PlaceInv /\ DoomInv /\ RowsInv /\ OrderInv /\ EndInv
-----------------------------------------------------------------------------
(* Rows and sequences of them.                                             *)

\* A recorded row keeps all but its time.
LEMMA Timed ==
  ASSUME NEW r \in Records, NEW t \in Times
  PROVE  LET x == [r EXCEPT !.time = t]
         IN  /\ x \in Records /\ x.time = t
             /\ x.event = r.event /\ x.corr = r.corr /\ x.step = r.step /\ x.root = r.root
             /\ x.decision = r.decision /\ x.cause = r.cause /\ x.fault = r.fault
BY DEF Records

\* Append, Tail, concatenation and tuples as sets of rows.
LEMMA RowsOfAppend ==
  ASSUME NEW U, NEW s \in Seq(U), NEW x \in U
  PROVE  Rows(Append(s, x)) = Rows(s) \cup {x}
<1>1. /\ DOMAIN Append(s, x) = 1..(Len(s) + 1) /\ DOMAIN s = 1..Len(s)
      /\ Append(s, x)[Len(s) + 1] = x
      /\ \A i \in 1..Len(s) : Append(s, x)[i] = s[i]
  OBVIOUS
<1>2. Len(s) \in Nat /\ 1..(Len(s) + 1) = 1..Len(s) \cup {Len(s) + 1}
  OBVIOUS
<1> QED BY <1>1, <1>2 DEF Rows, ToSet

LEMMA RowsOfTail ==
  ASSUME NEW U, NEW s \in Seq(U), s # <<>>
  PROVE  /\ Tail(s) \in Seq(U) /\ Head(s) \in U
         /\ Rows(s) = Rows(Tail(s)) \cup {Head(s)}
<1>1. Tail(s) \in Seq(U) /\ Head(s) \in U
  OBVIOUS
<1>2. /\ DOMAIN Tail(s) = 1..(Len(s) - 1) /\ DOMAIN s = 1..Len(s)
      /\ Head(s) = s[1] /\ Len(s) \in Nat \ {0}
      /\ \A i \in 1..(Len(s) - 1) : Tail(s)[i] = s[i + 1]
  OBVIOUS
<1>3. ASSUME NEW x \in Rows(s) PROVE x \in Rows(Tail(s)) \cup {Head(s)}
  <2>1. PICK i \in 1..Len(s) : x = s[i]
    BY <1>2, <1>3 DEF Rows, ToSet
  <2>2. i # 1 => i - 1 \in 1..(Len(s) - 1) /\ Tail(s)[i - 1] = x
    <3>1. i # 1 => i - 1 \in 1..(Len(s) - 1) /\ (i - 1) + 1 = i
      BY <1>2
    <3> QED BY <1>2, <2>1, <3>1
  <2> QED BY <1>2, <2>1, <2>2 DEF Rows, ToSet
<1>4. ASSUME NEW x \in Rows(Tail(s)) \cup {Head(s)} PROVE x \in Rows(s)
  <2>1. CASE x = Head(s)
    BY <1>2, <2>1 DEF Rows, ToSet
  <2>2. CASE x \in Rows(Tail(s))
    <3>1. PICK i \in 1..(Len(s) - 1) : x = Tail(s)[i]
      BY <1>2, <2>2 DEF Rows, ToSet
    <3>2. i + 1 \in 1..Len(s) /\ x = s[i + 1]
      BY <1>2, <3>1
    <3> QED BY <1>2, <3>2 DEF Rows, ToSet
  <2> QED BY <1>4, <2>1, <2>2
<1> QED BY <1>1, <1>3, <1>4

LEMMA RowsOfConcat ==
  ASSUME NEW U, NEW s \in Seq(U), NEW t \in Seq(U)
  PROVE  s \o t \in Seq(U) /\ Rows(s \o t) = Rows(s) \cup Rows(t)
<1>1. /\ s \o t \in Seq(U) /\ Len(s \o t) = Len(s) + Len(t)
      /\ Len(s) \in Nat /\ Len(t) \in Nat
      /\ DOMAIN (s \o t) = 1..(Len(s) + Len(t))
      /\ DOMAIN s = 1..Len(s) /\ DOMAIN t = 1..Len(t)
      /\ \A i \in 1..(Len(s) + Len(t)) :
           (s \o t)[i] = IF i <= Len(s) THEN s[i] ELSE t[i - Len(s)]
  BY ConcatProperties
<1>2. ASSUME NEW x \in Rows(s \o t) PROVE x \in Rows(s) \cup Rows(t)
  <2>1. PICK i \in 1..(Len(s) + Len(t)) : x = (s \o t)[i]
    BY <1>1, <1>2 DEF Rows, ToSet
  <2>2. i <= Len(s) => i \in 1..Len(s) /\ x = s[i]
    BY <1>1, <2>1
  <2>3. ~(i <= Len(s)) => i - Len(s) \in 1..Len(t) /\ x = t[i - Len(s)]
    BY <1>1, <2>1
  <2> QED BY <1>1, <2>2, <2>3 DEF Rows, ToSet
<1>3. ASSUME NEW x \in Rows(s) PROVE x \in Rows(s \o t)
  <2>1. PICK i \in 1..Len(s) : x = s[i]
    BY <1>1, <1>3 DEF Rows, ToSet
  <2>2. i \in 1..(Len(s) + Len(t)) /\ x = (s \o t)[i]
    BY <1>1, <2>1
  <2> QED BY <1>1, <2>2 DEF Rows, ToSet
<1>4. ASSUME NEW x \in Rows(t) PROVE x \in Rows(s \o t)
  <2>1. PICK i \in 1..Len(t) : x = t[i]
    BY <1>1, <1>4 DEF Rows, ToSet
  <2>2. i + Len(s) \in 1..(Len(s) + Len(t)) /\ (i + Len(s)) - Len(s) = i /\ ~(i + Len(s) <= Len(s))
    BY <1>1
  <2>3. x = (s \o t)[i + Len(s)]
    BY <1>1, <2>1, <2>2
  <2> QED BY <1>1, <2>2, <2>3 DEF Rows, ToSet
<1> QED BY <1>1, <1>2, <1>3, <1>4

LEMMA RowsOfTuples ==
  /\ Rows(<<>>) = {}
  /\ \A a : Rows(<<a>>) = {a}
  /\ \A a, b : Rows(<<a, b>>) = {a, b}
  /\ \A a, b, c : Rows(<<a, b, c>>) = {a, b, c}
<1>1. Rows(<<>>) = {}
  BY DEF Rows, ToSet
<1>2. ASSUME NEW a PROVE Rows(<<a>>) = {a}
  <2>1. DOMAIN <<a>> = {1}
    OBVIOUS
  <2> QED BY <2>1 DEF Rows, ToSet
<1>3. ASSUME NEW a, NEW b PROVE Rows(<<a, b>>) = {a, b}
  <2>1. DOMAIN <<a, b>> = {1, 2}
    OBVIOUS
  <2> QED BY <2>1 DEF Rows, ToSet
<1>4. ASSUME NEW a, NEW b, NEW c PROVE Rows(<<a, b, c>>) = {a, b, c}
  <2>1. DOMAIN <<a, b, c>> = {1, 2, 3}
    OBVIOUS
  <2> QED BY <2>1 DEF Rows, ToSet
<1> QED BY <1>1, <1>2, <1>3, <1>4

LEMMA RowsAreFinite ==
  ASSUME NEW U, NEW s \in Seq(U)
  PROVE  IsFiniteSet(Rows(s)) /\ Rows(s) \subseteq U
<1>1. Len(s) \in Nat /\ DOMAIN s = 1..Len(s) /\ \A i \in 1..Len(s) : s[i] \in U
  OBVIOUS
<1>2. s \in [1..Len(s) -> Rows(s)]
  <2>1. s = [i \in 1..Len(s) |-> s[i]]
    BY <1>1
  <2> QED BY <1>1, <2>1 DEF Rows, ToSet
<1>3. s \in Surjection(1..Len(s), Rows(s))
  BY <1>1, <1>2 DEF Surjection, Rows, ToSet
<1>4. IsFiniteSet(1..Len(s))
  BY <1>1, FS_Interval
<1> QED BY <1>1, <1>3, <1>4, FS_Surjection DEF Rows, ToSet

\* Finitely many rows of different times have a last one.
LEMMA LastExists ==
  ASSUME NEW S, IsFiniteSet(S), S # {}, \A r \in S : r.time \in Times,
         \A q, r \in S : q.time = r.time => q = r
  PROVE  LastOf(S) \in S /\ \A q \in S \ {LastOf(S)} : Before(q, LastOf(S))
<1> DEFINE After(r) == {q \in S : Before(r, q)}
           T == {After(r) : r \in S}
<1>1. \A q, r \in S : q # r => Before(q, r) \/ Before(r, q)
  <2>1. ASSUME NEW q \in S, NEW r \in S, q # r
        PROVE  Before(q, r) \/ Before(r, q)
    <3>1. q.time \in Times /\ r.time \in Times /\ q.time # r.time
      BY <2>1
    <3>2. q.time.sec # r.time.sec \/ q.time.frac # r.time.frac
      BY <3>1 DEF Times
    <3> QED BY <3>1, <3>2 DEF Times, Before
  <2> QED BY <2>1
<1>2. ASSUME NEW p \in S, NEW q \in S, NEW r \in S, Before(p, q), Before(q, r)
      PROVE  Before(p, r)
  <2>1. p.time \in Times /\ q.time \in Times /\ r.time \in Times
    OBVIOUS
  <2> QED BY <1>2, <2>1 DEF Times, Before
<1>3. ASSUME NEW r \in S PROVE ~Before(r, r)
  <2>1. r.time \in Times
    OBVIOUS
  <2> QED BY <2>1 DEF Times, Before
<1>4. T \subseteq SUBSET S /\ T # {}
  <2>1. PICK r : r \in S
    OBVIOUS
  <2>2. After(r) \in T
    BY <2>1
  <2> QED BY <2>2
<1>5. PICK U \in T : \A V \in T : ~(<<V, U>> \in StrictSubsetOrdering(S))
  <2>1. IsWellFoundedOn(StrictSubsetOrdering(S), SUBSET S)
    BY FS_StrictSubsetOrderingWellFounded, FS_FiniteSubsetsOfFinite
  <2> HIDE DEF T
  <2> QED BY <1>4, <2>1, WFMin
<1>6. PICK r \in S : U = After(r)
  BY <1>5
<1>7. After(r) = {}
  <2> SUFFICES ASSUME NEW q \in After(r) PROVE FALSE
    OBVIOUS
  <2>1. q \in S /\ Before(r, q)
    OBVIOUS
  <2>2. After(q) \subseteq After(r) /\ After(q) # After(r)
    BY <1>2, <1>3, <2>1
  <2>3. <<After(q), U>> \in (SUBSET S) \X (SUBSET S)
    BY <1>6
  <2>4. <<After(q), U>> \in StrictSubsetOrdering(S)
    BY <1>6, <2>2, <2>3 DEF StrictSubsetOrdering
  <2> QED BY <1>5, <2>1, <2>4
<1>8. \A q \in S \ {r} : Before(q, r)
  BY <1>1, <1>7
<1> HIDE DEF After, T
<1> QED BY <1>8 DEF LastOf

\* A row carries the step and correlation id of the activity it is made in.
LEMMA RowsAreRecords ==
  ASSUME at \in 1..3, fault \in [what : Whats, stage : Exchanges,
                                 mirror : BOOLEAN]
  PROVE  /\ Step \in Steps /\ Corr \in Exchanges /\ None \in Whats
         /\ FaultRow \in Records
         /\ \A e \in DecisiveEvents \cup {"SOCKET_RX"} : Row(e) \in Records
<1>1. Step \in Steps /\ Corr \in Exchanges
  BY DEF Step, Corr, Activities, Steps, Exchanges
<1>2. Unrecorded \in Times
  BY DEF Unrecorded, Times
<1>3. None \in Whats
  <2>1. NoFault \in AllFaults /\ NoFault.what = None
    BY DEF AllFaults, NoFault
  <2> QED BY <2>1 DEF Whats
<1>4. \A e \in DecisiveEvents \cup {"SOCKET_RX", "FAULT_INJECTED"} : Row(e) \in Records
  <2> HIDE DEF Step, Corr
  <2> QED BY <1>1, <1>2, <1>3 DEF Row, Records, Roots, Causes
<1>5. FaultRow \in Records
  <2>1. Row("FAULT_INJECTED") \in Records /\ fault.what \in Whats
    BY <1>4
  <2> QED BY <2>1 DEF FaultRow, Records
<1> QED BY <1>1, <1>3, <1>4, <1>5

-----------------------------------------------------------------------------
(* The type of every variable.                                             *)

LEMMA TicksAreLater ==
  ASSUME now \in Times, NEW t \in Ticks
  PROVE  t \in Times /\ Earlier(now, t)
<1>1. CASE t = [now EXCEPT !.frac = @ + 1]
  BY <1>1 DEF Times, Earlier
<1>2. CASE t = [sec |-> now.sec + 1, frac |-> 0]
  BY <1>2 DEF Times, Earlier
<1> QED BY <1>1, <1>2 DEF Ticks

LEMMA DecisionIsRecord ==
  ASSUME TypeInv, NEW e \in DecisiveEvents \cup {"SOCKET_RX"},
         NEW v \in {"ACCEPT", "REJECT", "DROP"},
         NEW root \in {None, "NETWORK_REJECT", "SOCKET_DROP", "PRIMITIVE_MISSING",
                       "PRIMITIVE_PARAMETER_INVALID"},
         NEW cause \in Causes
  PROVE  LET d == Decision(e, v, root, cause)
         IN  /\ d \in Records /\ d.event = e /\ d.corr = Corr /\ d.step = Step
             /\ d.decision = v /\ d.root = root /\ d.cause = cause
<1>1. Row(e) \in Records /\ Row(e).event = e /\ Row(e).corr = Corr /\ Row(e).step = Step
  BY RowsAreRecords DEF TypeInv, Row
<1>2. root \in Roots /\ v \in {None, "ACCEPT", "REJECT", "DROP"}
  BY DEF Roots
<1> QED BY <1>1, <1>2 DEF Decision, Records

LEMMA FailureIsRecord ==
  ASSUME TypeInv, NEW e \in DecisiveEvents,
         NEW root \in {"NETWORK_REJECT", "SOCKET_DROP", "SOCKET_TIMEOUT", "SOCKET_ERROR",
                       "PRIMITIVE_PARAMETER_INVALID", "DUPLICATE_PRIMITIVE"} \cup BadAnswers
  PROVE  LET d == Failure(e, root)
         IN  /\ d \in Records /\ d.event = e /\ d.corr = Corr /\ d.step = Step
             /\ d.decision = None /\ d.root = root
<1>1. /\ Row(e) \in Records /\ Row(e).event = e /\ Row(e).corr = Corr
      /\ Row(e).step = Step /\ Row(e).decision = None
  BY RowsAreRecords DEF TypeInv, Row
<1>2. root \in Roots
  BY DEF Roots
<1> QED BY <1>1, <1>2 DEF Failure, Records

LEMMA FaultRowIsRecord ==
  ASSUME TypeInv
  PROVE  /\ FaultRow \in Records /\ FaultRow.event = "FAULT_INJECTED"
         /\ FaultRow.corr = Corr /\ FaultRow.root = None /\ FaultRow.decision = None
         /\ FaultRow.fault = fault.what
<1>1. FaultRow \in Records
  BY RowsAreRecords DEF TypeInv
<1> QED BY <1>1 DEF FaultRow, Row

LEMMA NetworkDecisionIsRecord ==
  ASSUME TypeInv
  PROVE  /\ NetworkDecision \in Records /\ NetworkDecision.event = "DECISION"
         /\ NetworkDecision.corr = Corr /\ NetworkDecision.decision = Verdict
         /\ NetworkDecision.cause = IF Rejecting THEN Cause(Step) ELSE None
         /\ Verdict = IF Rejecting THEN "REJECT" ELSE "ACCEPT"
         /\ Step \in Steps /\ Cause(Step) \in Causes
<1>1. Step \in Steps
  BY RowsAreRecords DEF TypeInv
<1>2. "DECISION" \in DecisiveEvents
  BY DEF DecisiveEvents, DecisionEvents
<1>3. None \in Causes /\ Cause(Step) \in Causes
  BY <1>1 DEF Causes
<1> HIDE DEF Rejecting, Step
<1> QED BY <1>1, <1>2, <1>3, DecisionIsRecord DEF NetworkDecision, Verdict

LEMMA ExpiryIsRecord ==
  ASSUME TypeInv, NEW s \in Exchanges
  PROVE  /\ ExpiryRow(s) \in Records /\ ExpiryRow(s).event = "TIMER_EXPIRED"
         /\ ExpiryRow(s).corr = s
<1>1. None \in Whats
  BY RowsAreRecords DEF TypeInv
<1>2. s \in Steps
  BY DEF Exchanges, Steps
<1> QED BY <1>1, <1>2 DEF ExpiryRow, Records, Roots, Causes, DecisiveEvents, Unrecorded, Times

LEMMA InitIsTyped == Init => DiagnosisInv
<1> SUFFICES ASSUME Init PROVE DiagnosisInv
  OBVIOUS
<1>1. [what |-> fault.what, stage |-> fault.stage] \in AllFaults
  BY DiagnosisAssumption DEF Init
<1>2. fault \in [what : Whats, stage : Exchanges, mirror : BOOLEAN]
  <2>1. {f.what : f \in Faults} \subseteq Whats
    BY DiagnosisAssumption DEF Whats
  <2> QED BY <2>1 DEF Init
<1>3. Step = "mib_sib_read" /\ InExchange
  BY DEF Init, Step, Activities, InExchange, Exchanges
<1>4. now \in Times /\ log \in Seq(Records) /\ todo \in Seq(Records) /\ Len(log) = 0
      /\ peer \in [at : {"idle", "asked", "serving", "answered"}, todo : Seq(Records)]
  BY DEF Init, Times
<1>5. /\ guard \in [Exchanges -> [at : {"idle", "running", "taken", "published", "expired"},
                                  time : Times]]
      /\ status \in [Exchanges -> {"IDLE", "RUNNING", "STOPPED", "EXPIRED"}]
      /\ \A s \in Exchanges : guard[s].at = IF s = "mib_sib_read" THEN "running" ELSE "idle"
  BY <1>4 DEF Init
<1>6. TypeInv
  <2>1. /\ hit \in BOOLEAN /\ stop \in BOOLEAN /\ at \in 1..3 /\ pc \in Places
        /\ run \in {"running", "failing", "failed", "attached"} /\ seen = 0
    <3>1. /\ hit = FALSE /\ at = 1 /\ stop = FALSE /\ pc = "request"
          /\ seen = 0 /\ run = "running"
      BY DEF Init
    <3>2. hit \in BOOLEAN /\ stop \in BOOLEAN
      BY <3>1
    <3>3. at \in 1..3
      BY <3>1
    <3>4. pc \in Places /\ run \in {"running", "failing", "failed", "attached"}
      BY <3>1 DEF Places
    <3> QED BY <3>1, <3>2, <3>3, <3>4
  <2>2. seen \in 0..Len(log)
    BY <1>4, <2>1
  <2> QED BY <1>1, <1>2, <1>4, <1>5, <2>1, <2>2 DEF TypeInv
<1>7. Rows(log) = {} /\ Rows(todo) = {} /\ Rows(peer.todo) = {}
  BY RowsOfTuples DEF Init
<1>8. ClockInv
  <2>1. {r.time : r \in Rows(log)} = {}
    BY <1>7
  <2> QED BY <1>4, <1>5, <1>7, <2>1, FS_EmptySet DEF ClockInv
<1>9. GuardInv
  BY <1>3, <1>5 DEF GuardInv, Init, Exchanges
<1>10. PlaceInv /\ DoomInv
  BY DEF PlaceInv, DoomInv, Init
<1>11. RowsInv /\ OrderInv /\ EndInv
  BY <1>7 DEF RowsInv, OrderInv, EndInv, Init
<1> QED BY <1>6, <1>8, <1>9, <1>10, <1>11 DEF DiagnosisInv

-----------------------------------------------------------------------------
(* What each step is about to record.                                      *)

LEMMA CorrIsKept ==
  ASSUME at' = at
  PROVE  Step' = Step /\ Corr' = Corr /\ InExchange' = InExchange
BY DEF Step, Corr, InExchange

LEMMA FaultRowIsMade ==
  ASSUME TypeInv, at' = at, fault' = fault, hit', NEW r, r = FaultRow
  PROVE  r \in Records /\ Made(r)'
BY FaultRowIsRecord, CorrIsKept DEF Made, Genuine, Endings

LEMMA DropIsMade ==
  ASSUME TypeInv, at' = at, fault' = fault, hit', fault.what = "socket_drop", pc' = "done",
         NEW r, r = Failure("SOCKET_DROP", "SOCKET_DROP")
  PROVE  r \in Records /\ Made(r)'
<1>1. /\ r \in Records /\ r.event = "SOCKET_DROP" /\ r.corr = Corr
      /\ r.decision = None /\ r.root = "SOCKET_DROP"
  BY FailureIsRecord DEF DecisiveEvents
<1> QED BY <1>1, CorrIsKept DEF Made, Genuine, Endings

LEMMA DeliveryIsMade ==
  ASSUME TypeInv, at' = at, fault' = fault, hit', fault.what \in Dropped,
         NEW root \in {"SOCKET_DROP", "PRIMITIVE_MISSING"},
         NEW cause \in {"SOCKET_MESSAGE_DROPPED", "PRIMITIVE_DELIVERY_SUPPRESSED"},
         NEW r, r = Decision("DELIVERY_DECISION", "DROP", root, cause)
  PROVE  r \in Records /\ Made(r)'
<1>1. cause \in Causes
  BY DEF Causes
<1>2. /\ r \in Records /\ r.event = "DELIVERY_DECISION" /\ r.corr = Corr
      /\ r.decision = "DROP"
  BY <1>1, DecisionIsRecord DEF DecisiveEvents, DecisionEvents
<1> QED BY <1>2, CorrIsKept DEF Made, Genuine, Endings

LEMMA EndingIsMade ==
  ASSUME TypeInv, at' = at, fault' = fault, hit => hit', pc' = "raised",
         NEW e \in Endings,
         NEW root \in {"SOCKET_TIMEOUT", "SOCKET_ERROR"} \cup BadAnswers \cup
                      {"NETWORK_REJECT", "DUPLICATE_PRIMITIVE", "PRIMITIVE_PARAMETER_INVALID"},
         e = "VALIDATION_FAILED" =>
           root \in BadAnswers \/ (hit' /\ fault.what \in Consumed /\ root = FaultRoot),
         NEW r, r = Failure(e, root)
  PROVE  r \in Records /\ Made(r)' /\ r.event = e /\ r.corr = Corr
<1>1. /\ r \in Records /\ r.event = e /\ r.corr = Corr
      /\ r.decision = None /\ r.root = root
  BY FailureIsRecord DEF DecisiveEvents, Endings
<1>2. FaultRoot' = FaultRoot
  BY DEF FaultRoot
<1> QED BY <1>1, <1>2, CorrIsKept DEF Made, Genuine, Endings

LEMMA VerdictIsMade ==
  ASSUME TypeInv, at' = at, fault' = fault, hit' = hit,
         NEW e \in {"DECISION", "GENERATED", "SOCKET_RX"},
         NEW r \in Records, r.event = e, r.corr = Corr,
         r.decision = Verdict, r.cause = NetworkDecision.cause,
         e = "SOCKET_RX" => r.step = Step
  PROVE  Made(r)'
<1>1. Rejecting => hit /\ fault.what = "socket_field" /\ fault.stage = Step
  BY DEF Rejecting
<1>2. /\ ~Rejecting => r.decision = "ACCEPT"
      /\ Rejecting => r.decision = "REJECT" /\ r.cause = Cause(fault.stage)
  <2> HIDE DEF Rejecting
  <2> QED BY <1>1, NetworkDecisionIsRecord
<1> HIDE DEF Rejecting
<1> QED BY <1>1, <1>2, CorrIsKept DEF Made, Genuine, Endings

LEMMA UeDecisionIsMade ==
  ASSUME TypeInv, at' = at, fault' = fault, hit => hit', NEW r, pc = "validate", at = 2,
         \/ r = Decision("UE_DECISION", "ACCEPT", None, None)
         \/ /\ hit' /\ fault.what = "sib"
            /\ r = Decision("UE_DECISION", "REJECT", "PRIMITIVE_PARAMETER_INVALID", Cause(Step))
  PROVE  r \in Records /\ Made(r)'
<1>1. Step = "system_info_validate" /\ None \in Causes /\ Cause(Step) \in Causes
  BY DEF Step, Activities, Causes, Steps
<1>2. "UE_DECISION" \in DecisiveEvents
  BY DEF DecisiveEvents, DecisionEvents
<1>3. CASE r = Decision("UE_DECISION", "ACCEPT", None, None)
  <2>1. r \in Records /\ r.event = "UE_DECISION" /\ r.corr = Corr /\ r.decision = "ACCEPT"
    BY <1>1, <1>2, <1>3, DecisionIsRecord
  <2> QED BY <2>1, CorrIsKept DEF Made, Genuine, Endings
<1>4. CASE /\ hit' /\ fault.what = "sib"
           /\ r = Decision("UE_DECISION", "REJECT", "PRIMITIVE_PARAMETER_INVALID", Cause(Step))
  <2>1. /\ r \in Records /\ r.event = "UE_DECISION" /\ r.corr = Corr
        /\ r.decision = "REJECT" /\ r.cause = Cause(Step)
    BY <1>1, <1>2, <1>4, DecisionIsRecord
  <2> QED BY <1>1, <1>4, <2>1, CorrIsKept DEF Made, Genuine, Endings
<1> QED BY <1>3, <1>4

\* The rows of a step's todo', whatever it is made of.
LEMMA NoRows == <<>> \in Seq(Records) /\ Rows(<<>>) = {}
BY RowsOfTuples

LEMMA OneRow ==
  ASSUME NEW a \in Records
  PROVE  <<a>> \in Seq(Records) /\ Rows(<<a>>) = {a}
BY RowsOfTuples

LEMMA TwoRows ==
  ASSUME NEW a \in Records, NEW b \in Records
  PROVE  <<a, b>> \in Seq(Records) /\ Rows(<<a, b>>) = {a, b}
BY RowsOfTuples

LEMMA ThreeRows ==
  ASSUME NEW a \in Records, NEW b \in Records, NEW c \in Records
  PROVE  <<a, b, c>> \in Seq(Records) /\ Rows(<<a, b, c>>) = {a, b, c}
BY RowsOfTuples

Writes == pc' \in Places /\ todo' \in Seq(Records) /\ \A r \in Rows(todo') : Made(r)'

LEMMA SendWrites ==
  ASSUME TypeInv, Send
  PROVE  Writes /\ hit' \in BOOLEAN /\ (hit => hit')
<1>0. hit' \in BOOLEAN /\ (hit => hit') /\ (Hits("socket") => hit') /\ at' = at /\ fault' = fault
  BY DEF Send, Others, TypeInv
<1>1. CASE ~Hits("socket")
  <2>1. pc' = "transmit" /\ todo' = <<>>
    BY <1>1 DEF Send, Goto
  <2> QED BY <1>0, <2>1, NoRows DEF Writes, Places
<1>2. CASE Hits("socket") /\ fault.what = "socket_field"
  <2>1. pc' = "transmit" /\ todo' = <<FaultRow>>
    BY <1>2 DEF Send, Goto
  <2> QED BY <1>0, <1>2, <2>1, OneRow, FaultRowIsMade DEF Writes, Places
<1>3. CASE Hits("socket") /\ fault.what = "socket_drop"
  <2> DEFINE a == FaultRow
             b == Failure("SOCKET_DROP", "SOCKET_DROP")
             c == Decision("DELIVERY_DECISION", "DROP", "SOCKET_DROP", "SOCKET_MESSAGE_DROPPED")
  <2>1. pc' = "done" /\ todo' = <<a, b, c>>
    BY <1>3 DEF Send, Goto
  <2>2. a \in Records /\ b \in Records /\ c \in Records
    BY <1>0, <1>3, <2>1, FaultRowIsMade, DropIsMade, DeliveryIsMade DEF Dropped
  <2>3. \A r \in {a, b, c} : Made(r)'
    BY <1>0, <1>3, <2>1, FaultRowIsMade, DropIsMade, DeliveryIsMade DEF Dropped
  <2>4. todo' \in Seq(Records) /\ Rows(todo') = {a, b, c}
    <3> HIDE DEF a, b, c
    <3> QED BY <2>1, <2>2, ThreeRows
  <2> QED BY <1>0, <2>1, <2>3, <2>4 DEF Writes, Places
<1>4. CASE Hits("socket") /\ fault.what \notin {"socket_field", "socket_drop"}
  <2>1. pc' \in {"transmit", "done"} /\ todo' = <<FaultRow>>
    BY <1>4 DEF Send, Goto
  <2> QED BY <1>0, <1>4, <2>1, OneRow, FaultRowIsMade DEF Writes, Places
<1> QED BY <1>0, <1>1, <1>2, <1>3, <1>4

LEMMA SocketFailsWrites ==
  ASSUME TypeInv, SocketFails
  PROVE  Writes /\ \E r \in Rows(todo') : r.event \in Endings /\ r.corr = Corr
<1>1. PICK e \in {"SOCKET_TIMEOUT", "SOCKET_ERROR"} :
        pc' = "raised" /\ todo' = <<Failure(e, e)>>
  BY DEF SocketFails, Goto
<1>2. at' = at /\ fault' = fault /\ hit' = hit
  BY DEF SocketFails, Others
<1>3. Failure(e, e) \in Records /\ Failure(e, e).event = e /\ Failure(e, e).corr = Corr
  <2>1. e \in DecisiveEvents
    BY DEF DecisiveEvents
  <2> QED BY <2>1, FailureIsRecord
<1>4. \A r \in {Failure(e, e)} : Made(r)'
  BY <1>1, <1>2, EndingIsMade DEF Endings
<1>5. todo' \in Seq(Records) /\ Rows(todo') = {Failure(e, e)}
  BY <1>1, <1>3, OneRow
<1> QED BY <1>1, <1>3, <1>4, <1>5 DEF Writes, Places, Endings

LEMMA AnswerIsBadWrites ==
  ASSUME TypeInv, AnswerIsBad
  PROVE  Writes /\ \E r \in Rows(todo') : r.event \in Endings /\ r.corr = Corr
<1>1. PICK root \in BadAnswers :
        pc' = "raised" /\ todo' = <<Failure("VALIDATION_FAILED", root)>>
  BY DEF AnswerIsBad, Goto, BadAnswers
<1>2. at' = at /\ fault' = fault /\ hit' = hit
  BY DEF AnswerIsBad, Others
<1> DEFINE f == Failure("VALIDATION_FAILED", root)
<1>3. f \in Records /\ f.event = "VALIDATION_FAILED" /\ f.corr = Corr
  <2>1. "VALIDATION_FAILED" \in DecisiveEvents
    BY DEF DecisiveEvents
  <2>2. root \in {"NETWORK_REJECT", "SOCKET_DROP", "SOCKET_TIMEOUT", "SOCKET_ERROR",
                  "PRIMITIVE_PARAMETER_INVALID", "DUPLICATE_PRIMITIVE"} \cup BadAnswers
    BY <1>1
  <2> QED BY <2>1, <2>2, FailureIsRecord
<1>4. \A r \in {f} : Made(r)'
  BY <1>1, <1>2, EndingIsMade DEF Endings
<1>5. todo' \in Seq(Records) /\ Rows(todo') = {f}
  BY <1>1, <1>3, OneRow
<1> QED BY <1>1, <1>3, <1>4, <1>5 DEF Writes, Places, Endings

LEMMA ReceiveWrites ==
  ASSUME TypeInv, Receive
  PROVE  Writes
<1>1. at' = at /\ fault' = fault /\ hit' = hit
  BY DEF Receive, Others
<1>2. CASE stop
  <2>1. pc' = "done" /\ todo' = <<>>
    BY <1>2 DEF Receive, Goto
  <2> QED BY <2>1, NoRows DEF Writes, Places
<1>3. CASE ~stop
  <2> DEFINE a == Decision("SOCKET_RX", Verdict, None, NetworkDecision.cause)
             b == IF fault.mirror THEN <<NetworkDecision>> ELSE <<>>
  <2>1. pc' = "response" /\ todo' = <<a>> \o b
    BY <1>3 DEF Receive, Goto
  <2>2. /\ NetworkDecision \in Records /\ NetworkDecision.event = "DECISION"
        /\ NetworkDecision.corr = Corr /\ NetworkDecision.decision = Verdict
        /\ NetworkDecision.cause \in Causes /\ Verdict \in {"ACCEPT", "REJECT", "DROP"}
    BY NetworkDecisionIsRecord DEF Records
  <2>3. /\ a \in Records /\ a.event = "SOCKET_RX" /\ a.corr = Corr /\ a.step = Step
        /\ a.decision = Verdict /\ a.cause = NetworkDecision.cause
    BY <2>2, DecisionIsRecord
  <2>4. \A r \in {a, NetworkDecision} : Made(r)'
    <3> HIDE DEF a
    <3> QED BY <1>1, <2>2, <2>3, VerdictIsMade
  <2>5. <<a>> \in Seq(Records) /\ b \in Seq(Records) /\ Rows(<<a>>) = {a}
        /\ Rows(b) \subseteq {NetworkDecision}
    <3> HIDE DEF a
    <3> QED BY <2>2, <2>3, NoRows, OneRow
  <2>6. todo' \in Seq(Records) /\ Rows(todo') \subseteq {a, NetworkDecision}
    <3>1. <<a>> \o b \in Seq(Records) /\ Rows(<<a>> \o b) = Rows(<<a>>) \cup Rows(b)
      <4> HIDE DEF a, b
      <4>1. \A s, t \in Seq(Records) :
              s \o t \in Seq(Records) /\ Rows(s \o t) = Rows(s) \cup Rows(t)
        BY RowsOfConcat
      <4> QED BY <2>5, <4>1
    <3> HIDE DEF a, b
    <3> QED BY <2>1, <2>5, <3>1
  <2> QED BY <2>1, <2>4, <2>6 DEF Writes, Places
<1> QED BY <1>2, <1>3

LEMMA InterceptWrites ==
  ASSUME TypeInv, Intercept
  PROVE  Writes /\ hit' \in BOOLEAN /\ (hit => hit')
<1>0. hit' \in BOOLEAN /\ (hit => hit') /\ at' = at /\ fault' = fault
  BY DEF Intercept, Others, TypeInv
<1>1. CASE stop \/ ~Hits("primitive")
  <2>1. pc' \in {"done", "consume"} /\ todo' = <<>>
    BY <1>1 DEF Intercept, Goto
  <2> QED BY <1>0, <2>1, NoRows DEF Writes, Places
<1>2. CASE ~stop /\ Hits("primitive") /\ fault.what \in {"drop", "timer_timeout"}
  <2> DEFINE a == FaultRow
             b == Decision("DELIVERY_DECISION", "DROP", "PRIMITIVE_MISSING",
                           "PRIMITIVE_DELIVERY_SUPPRESSED")
  <2>1. pc' = "done" /\ todo' = <<a, b>> /\ hit'
    BY <1>2 DEF Intercept, Goto
  <2>2. a \in Records /\ b \in Records
    BY <1>0, <1>2, <2>1, FaultRowIsMade, DeliveryIsMade DEF Dropped
  <2>3. \A r \in {a, b} : Made(r)'
    BY <1>0, <1>2, <2>1, FaultRowIsMade, DeliveryIsMade DEF Dropped
  <2>4. todo' \in Seq(Records) /\ Rows(todo') = {a, b}
    <3> HIDE DEF a, b
    <3> QED BY <2>1, <2>2, TwoRows
  <2> QED BY <1>0, <2>1, <2>3, <2>4 DEF Writes, Places
<1>3. CASE ~stop /\ Hits("primitive") /\ fault.what \notin {"drop", "timer_timeout"}
  <2>1. pc' \in {"consume", "done"} /\ todo' = <<FaultRow>> /\ hit'
    BY <1>3 DEF Intercept, Goto
  <2> QED BY <1>0, <1>3, <2>1, OneRow, FaultRowIsMade DEF Writes, Places
<1> QED BY <1>0, <1>1, <1>2, <1>3

LEMMA ConsumeWrites ==
  ASSUME TypeInv, Consume
  PROVE  Writes /\ (pc' = "raised" =>
                      \E r \in Rows(todo') : r.event \in Endings /\ r.corr = Corr)
<1>1. at' = at /\ fault' = fault /\ hit' = hit
  BY DEF Consume, Others
<1> DEFINE what == IF hit /\ fault.stage = Step THEN fault.what ELSE None
<1>2. CASE stop \/ FailureOf(what) = None
  <2>1. pc' \in {"done", "answered"} /\ todo' = <<>>
    BY <1>2 DEF Consume, Goto
  <2> QED BY <2>1, NoRows DEF Writes, Places
<1>3. CASE ~stop /\ FailureOf(what) # None
  <2> DEFINE root == FailureOf(what)
             f == Failure("VALIDATION_FAILED", root)
  <2>1. pc' = "raised" /\ todo' = <<f>>
    BY <1>3 DEF Consume, Goto
  <2>2. /\ hit /\ fault.what \in Consumed /\ root = FaultRoot
        /\ root \in {"NETWORK_REJECT", "DUPLICATE_PRIMITIVE", "PRIMITIVE_PARAMETER_INVALID"}
    <3>1. CASE Rejecting
      <4>1. hit /\ fault.what = "socket_field" /\ fault.stage = Step /\ what = "socket_field"
        BY <3>1 DEF Rejecting
      <4> QED BY <3>1, <4>1 DEF FailureOf, FaultRoot, Consumed
    <3>2. CASE ~Rejecting
      <4>1. what \in {"field", "duplicate"}
        BY <1>3, <3>2 DEF FailureOf
      <4>2. hit /\ fault.what = what
        BY <4>1 DEF None
      <4> HIDE DEF what
      <4> QED BY <3>2, <4>1, <4>2 DEF FailureOf, FaultRoot, Consumed
    <3> QED BY <3>1, <3>2
  <2>3. f \in Records /\ f.event = "VALIDATION_FAILED" /\ f.corr = Corr
    <3> HIDE DEF root
    <3> QED BY <2>2, FailureIsRecord DEF DecisiveEvents
  <2>4. \A r \in {f} : Made(r)'
    <3> HIDE DEF root
    <3> QED BY <1>1, <2>1, <2>2, EndingIsMade DEF Endings
  <2>5. todo' \in Seq(Records) /\ Rows(todo') = {f}
    <3> HIDE DEF f
    <3> QED BY <2>1, <2>3, OneRow
  <2> QED BY <2>1, <2>3, <2>4, <2>5 DEF Writes, Places, Endings
<1> QED BY <1>2, <1>3

LEMMA ValidateWrites ==
  ASSUME TypeInv, PlaceInv, Validate
  PROVE  Writes /\ (pc' = "raised" =>
                      \E r \in Rows(todo') : r.event \in Endings /\ r.corr = Corr)
<1>1. at' = at /\ fault' = fault /\ hit' = hit /\ pc = "validate" /\ at = 2
  BY DEF Validate, Others, PlaceInv
<1>2. Step = "system_info_validate" /\ None \in Causes /\ Cause(Step) \in Causes
  BY <1>1 DEF Step, Activities, Causes, Steps
<1>3. CASE ~(hit /\ fault.what = "sib")
  <2> DEFINE a == Decision("UE_DECISION", "ACCEPT", None, None)
  <2>1. pc' = "answered" /\ todo' = <<a>>
    BY <1>3 DEF Validate, Goto
  <2>2. a \in Records /\ \A r \in {a} : Made(r)'
    BY <1>1, UeDecisionIsMade
  <2>3. todo' \in Seq(Records) /\ Rows(todo') = {a}
    <3> HIDE DEF a
    <3> QED BY <2>1, <2>2, OneRow
  <2> QED BY <2>1, <2>2, <2>3 DEF Writes, Places
<1>4. CASE hit /\ fault.what = "sib"
  <2> DEFINE a == Decision("UE_DECISION", "REJECT", "PRIMITIVE_PARAMETER_INVALID", Cause(Step))
             f == Failure("VALIDATION_FAILED", "PRIMITIVE_PARAMETER_INVALID")
  <2>1. pc' = "raised" /\ todo' = <<a, f>>
    BY <1>4 DEF Validate, Goto
  <2>2. a \in Records /\ \A r \in {a} : Made(r)'
    BY <1>1, <1>4, UeDecisionIsMade
  <2>3. FaultRoot = "PRIMITIVE_PARAMETER_INVALID"
    BY <1>4 DEF FaultRoot
  <2>4. /\ f \in Records /\ f.event = "VALIDATION_FAILED" /\ f.corr = Corr
        /\ \A r \in {f} : Made(r)'
    BY <1>1, <1>4, <2>1, <2>3, EndingIsMade DEF Endings, Consumed
  <2>5. todo' \in Seq(Records) /\ Rows(todo') = {a, f}
    <3> HIDE DEF a, f
    <3> QED BY <2>1, <2>2, <2>4, TwoRows
  <2> QED BY <2>1, <2>2, <2>4, <2>5 DEF Writes, Places, Endings
<1> QED BY <1>3, <1>4

-----------------------------------------------------------------------------
(* What the steps of each thread change.                                   *)

\* A step of the deliver thread that does not record a row.
Advances ==
  /\ todo = <<>> /\ Writes /\ hit' \in BOOLEAN /\ (hit => hit')
  /\ pc \notin {"raised", "done", "answered"}
  /\ peer' \in [at : {"idle", "asked", "serving", "answered"}, todo : Seq(Records)]
  /\ peer'.todo = peer.todo
  /\ pc' = "raised" => \E r \in Rows(todo') : r.event \in Endings /\ r.corr = Corr
  /\ UNCHANGED <<Others, now, log>>

LEMMA TransmitWrites == ASSUME TypeInv, Transmit PROVE Writes
<1>1. pc' \in {"done", "sent"} /\ todo' = <<>>
  BY DEF Transmit, Goto
<1> QED BY <1>1, NoRows DEF Writes, Places

LEMMA DeliverSteps ==
  ASSUME TypeInv, PlaceInv, Deliver
  PROVE  RecordRow \/ Advances
<1>1. CASE Send
  <2>1. pc' # "raised"
    BY <1>1 DEF Send, Goto
  <2> QED BY <1>1, <2>1, SendWrites DEF Advances, Send, TypeInv
<1>2. CASE Transmit
  <2>1. pc' # "raised"
    BY <1>2 DEF Transmit, Goto
  <2>2. /\ peer' \in [at : {"idle", "asked", "serving", "answered"}, todo : Seq(Records)]
        /\ peer'.todo = peer.todo
    BY <1>2 DEF Transmit, TypeInv
  <2> QED BY <1>2, <2>1, <2>2, TransmitWrites DEF Advances, Transmit, TypeInv
<1>3. CASE SocketFails
  BY <1>3, SocketFailsWrites DEF Advances, SocketFails, TypeInv
<1>4. CASE AnswerIsBad
  <2>1. /\ peer' \in [at : {"idle", "asked", "serving", "answered"}, todo : Seq(Records)]
        /\ peer'.todo = peer.todo
    BY <1>4 DEF AnswerIsBad, TypeInv
  <2> QED BY <1>4, <2>1, AnswerIsBadWrites DEF Advances, AnswerIsBad, TypeInv
<1>5. CASE Receive
  <2>1. pc' # "raised"
    BY <1>5 DEF Receive, Goto
  <2>2. /\ peer' \in [at : {"idle", "asked", "serving", "answered"}, todo : Seq(Records)]
        /\ peer'.todo = peer.todo
    BY <1>5 DEF Receive, TypeInv
  <2> QED BY <1>5, <2>1, <2>2, ReceiveWrites DEF Advances, Receive, TypeInv
<1>6. CASE Intercept
  <2>1. pc' # "raised"
    BY <1>6 DEF Intercept, Goto
  <2> QED BY <1>6, <2>1, InterceptWrites DEF Advances, Intercept, TypeInv
<1>7. CASE Consume
  BY <1>7, ConsumeWrites DEF Advances, Consume, TypeInv
<1>8. CASE Validate
  BY <1>8, ValidateWrites DEF Advances, Validate, TypeInv
<1> QED BY <1>1, <1>2, <1>3, <1>4, <1>5, <1>6, <1>7, <1>8 DEF Deliver

\* What the orchestration thread does when an activity has ended.
Moves ==
  /\ run = "running" /\ todo = <<>>
  /\ UNCHANGED <<fault, hit, todo, peer, now, log, seen>>
  /\ InExchange => guard[Step].at # "expired"
  /\ \/ /\ pc = "raised" /\ run' = "failing" /\ UNCHANGED <<at, pc, stop>>
        /\ \A s \in Exchanges :
             IF s = Step /\ InExchange
             THEN status'[s] = "STOPPED" /\ guard'[s] = StopGuard(guard, s)[s]
             ELSE status'[s] = status[s] /\ guard'[s] = guard[s]
     \/ /\ pc = "answered" /\ at < 3 /\ run' = "running"
        /\ at' = at + 1 /\ stop' = FALSE
        /\ pc' = (IF at = 1 THEN "validate" ELSE "request")
        /\ \A s \in Exchanges :
             IF s = Step /\ InExchange
             THEN status'[s] = "STOPPED" /\ guard'[s] = StopGuard(guard, s)[s]
             ELSE IF at = 2 /\ s = "authentication"
             THEN status'[s] = "RUNNING" /\ guard'[s] = [guard[s] EXCEPT !.at = "running"]
             ELSE status'[s] = status[s] /\ guard'[s] = guard[s]
     \/ /\ pc = "answered" /\ at = 3 /\ run' = "attached" /\ stop' = TRUE
        /\ pc' = "done" /\ at' = at
        /\ \A s \in Exchanges :
             IF s = Step /\ InExchange
             THEN status'[s] = "STOPPED" /\ guard'[s] = StopGuard(guard, s)[s]
             ELSE status'[s] = status[s] /\ guard'[s] = guard[s]
  /\ guard' \in [Exchanges -> [at : {"idle", "running", "taken", "published", "expired"},
                               time : Times]]
  /\ status' \in [Exchanges -> {"IDLE", "RUNNING", "STOPPED", "EXPIRED"}]

LEMMA GuardsStopped ==
  ASSUME TypeInv, NEW s \in Exchanges
  PROVE  /\ StopGuard(guard, s) \in
              [Exchanges -> [at : {"idle", "running", "taken", "published", "expired"},
                             time : Times]]
         /\ \A t \in Exchanges : t # s => StopGuard(guard, s)[t] = guard[t]
         /\ StopGuard(guard, s)[s].time = guard[s].time
         /\ StopGuard(guard, s)[s].at = IF guard[s].at = "running" THEN "idle" ELSE guard[s].at
BY DEF StopGuard, TypeInv

LEMMA StepsInOrder ==
  ASSUME at \in 1..3
  PROVE  /\ Len(Activities) = 3
         /\ at = 1 => /\ Step = "mib_sib_read" /\ InExchange /\ Corr = "mib_sib_read"
                      /\ Activities[at + 1] = "system_info_validate"
         /\ at = 2 => /\ Step = "system_info_validate" /\ ~InExchange /\ Corr = "mib_sib_read"
                      /\ Activities[at + 1] = "authentication"
         /\ at = 3 => Step = "authentication" /\ InExchange /\ Corr = "authentication"
         /\ "system_info_validate" \notin Exchanges /\ None \notin Exchanges
<1>1. Len(Activities) = 3 /\ Activities[1] = "mib_sib_read"
      /\ Activities[2] = "system_info_validate" /\ Activities[3] = "authentication"
  BY DEF Activities
<1>2. at = 1 \/ at = 2 \/ at = 3
  OBVIOUS
<1> HIDE DEF Activities
<1> QED BY <1>1, <1>2 DEF Step, Corr, InExchange, Exchanges, None

LEMMA TakeResultMoves ==
  ASSUME TypeInv, TakeResult
  PROVE  Moves
<1> DEFINE stopped == IF InExchange THEN StopGuard(guard, Step) ELSE guard
           shown == IF InExchange THEN [status EXCEPT ![Step] = "STOPPED"] ELSE status
           next == IF at < Len(Activities) THEN Activities[at + 1] ELSE None
           Guards == [Exchanges -> [at : {"idle", "running", "taken", "published", "expired"},
                                    time : Times]]
           Status == [Exchanges -> {"IDLE", "RUNNING", "STOPPED", "EXPIRED"}]
<1>1. at = 1 \/ at = 2 \/ at = 3
  BY DEF TypeInv
<1>2. /\ run = "running" /\ todo = <<>> /\ pc \in {"answered", "raised"}
      /\ UNCHANGED <<fault, hit, todo, peer, now, log, seen>>
      /\ InExchange => guard[Step].at # "expired"
  BY DEF TakeResult
<1>3. /\ stopped \in Guards /\ shown \in Status
      /\ \A s \in Exchanges :
           IF s = Step /\ InExchange
           THEN shown[s] = "STOPPED" /\ stopped[s] = StopGuard(guard, s)[s]
           ELSE shown[s] = status[s] /\ stopped[s] = guard[s]
  BY GuardsStopped DEF TypeInv, InExchange
<1>a. IF pc = "answered" /\ next \in Exchanges
      THEN /\ guard' = [stopped EXCEPT ![next].at = "running"]
           /\ status' = [shown EXCEPT ![next] = "RUNNING"]
      ELSE guard' = stopped /\ status' = shown
  BY DEF TakeResult
<1>b. /\ pc = "raised" => run' = "failing" /\ UNCHANGED <<at, pc, stop>>
      /\ pc = "answered" /\ at < 3 => Begin(at + 1) /\ run' = run
      /\ pc = "answered" /\ at = 3 =>
           run' = "attached" /\ stop' = TRUE /\ pc' = "done" /\ at' = at
  BY <1>1, StepsInOrder DEF TakeResult, TypeInv
<1>c. /\ at = 1 => next = "system_info_validate"
      /\ at = 2 => next = "authentication"
      /\ at = 3 => next = None
  BY <1>1, StepsInOrder DEF TypeInv
<1> HIDE DEF stopped, shown, next
<1>4. CASE pc = "raised"
  <2>1. guard' = stopped /\ status' = shown /\ run' = "failing" /\ UNCHANGED <<at, pc, stop>>
    BY <1>4, <1>a, <1>b
  <2> QED BY <1>2, <1>3, <1>4, <2>1 DEF Moves
<1>5. CASE pc = "answered" /\ at = 3
  <2>1. /\ guard' = stopped /\ status' = shown
        /\ run' = "attached" /\ stop' = TRUE /\ pc' = "done" /\ at' = at
    BY <1>5, <1>a, <1>b, <1>c, StepsInOrder
  <2> QED BY <1>2, <1>3, <1>5, <2>1 DEF Moves
<1>6. CASE pc = "answered" /\ at = 1
  <2>1. Begin(at + 1) /\ run' = run /\ guard' = stopped /\ status' = shown
    BY <1>6, <1>a, <1>b, <1>c, StepsInOrder
  <2>2. at' = at + 1 /\ stop' = FALSE /\ pc' = "validate"
    BY <1>6, <2>1, StepsInOrder DEF Begin
  <2> QED BY <1>2, <1>3, <1>6, <2>1, <2>2 DEF Moves
<1>7. CASE pc = "answered" /\ at = 2
  <2>1. /\ Begin(at + 1) /\ run' = run
        /\ guard' = [stopped EXCEPT !["authentication"].at = "running"]
        /\ status' = [shown EXCEPT !["authentication"] = "RUNNING"]
    BY <1>7, <1>a, <1>b, <1>c DEF Exchanges
  <2>2. at' = at + 1 /\ stop' = FALSE /\ pc' = "request"
    BY <1>7, <2>1, StepsInOrder DEF Begin, Exchanges
  <2>3. "authentication" \in Exchanges /\ ~InExchange
    BY <1>7, StepsInOrder DEF Exchanges
  <2>4. /\ guard' \in Guards /\ status' \in Status
        /\ \A s \in Exchanges :
             IF s = "authentication"
             THEN status'[s] = "RUNNING" /\ guard'[s] = [stopped[s] EXCEPT !.at = "running"]
             ELSE status'[s] = shown[s] /\ guard'[s] = stopped[s]
    BY <1>3, <2>1, <2>3
  <2>5. \A s \in Exchanges :
          IF s = "authentication"
          THEN status'[s] = "RUNNING" /\ guard'[s] = [guard[s] EXCEPT !.at = "running"]
          ELSE status'[s] = status[s] /\ guard'[s] = guard[s]
    BY <1>3, <2>3, <2>4
  <2> QED BY <1>2, <1>7, <2>1, <2>2, <2>3, <2>4, <2>5 DEF Moves
<1> QED BY <1>1, <1>2, <1>4, <1>5, <1>6, <1>7

LEMMA RecordAdds ==
  ASSUME TypeInv, NEW row \in Records, NEW t \in Times, Record(row, t)
  PROVE  LET x == [row EXCEPT !.time = t]
         IN  /\ log' \in Seq(Records) /\ Len(log') = Len(log) + 1
             /\ Rows(log') = Rows(log) \cup {x} /\ x \in Records /\ x.time = t
             /\ x.event = row.event /\ x.corr = row.corr
             /\ Genuine(row) => Genuine(x)
             /\ \A n \in 0..Len(log) : SubSeq(log', 1, n) = SubSeq(log, 1, n)
<1> DEFINE x == [row EXCEPT !.time = t]
<1>1. /\ x \in Records /\ x.time = t
      /\ x.event = row.event /\ x.corr = row.corr /\ x.step = row.step /\ x.root = row.root
      /\ x.decision = row.decision /\ x.cause = row.cause /\ x.fault = row.fault
  BY Timed
<1>2. log' = Append(log, x) /\ log \in Seq(Records)
  BY DEF Record, TypeInv
<1> HIDE DEF x
<1>3. /\ log' \in Seq(Records) /\ Len(log') = Len(log) + 1
      /\ \A i \in 1..Len(log) : log'[i] = log[i]
  BY <1>1, <1>2
<1>4. Rows(log') = Rows(log) \cup {x}
  BY <1>1, <1>2, RowsOfAppend
<1>5. Genuine(row) => Genuine(x)
  BY <1>1 DEF Genuine
<1>6. ASSUME NEW n \in 0..Len(log) PROVE SubSeq(log', 1, n) = SubSeq(log, 1, n)
  <2>1. Len(log) \in Nat /\ \A i \in 1..n : log'[i] = log[i]
    BY <1>2, <1>3
  <2>2. SubSeq(log', 1, n) = [i \in 1..n |-> log'[i]] /\ SubSeq(log, 1, n) = [i \in 1..n |-> log[i]]
    BY <1>2, <1>3, <2>1
  <2> QED BY <2>1, <2>2
<1> QED BY <1>1, <1>3, <1>4, <1>5, <1>6 DEF x

LEMMA RecordAddsRow ==
  ASSUME TypeInv, NEW row \in Records, NEW t \in Times, Record(row, t)
  PROVE  \E x \in Records :
           /\ log' \in Seq(Records) /\ Len(log') = Len(log) + 1
           /\ Rows(log') = Rows(log) \cup {x} /\ x.time = t
           /\ x.event = row.event /\ x.corr = row.corr
           /\ Genuine(row) => Genuine(x)
<1> DEFINE x == [row EXCEPT !.time = t]
<1>1. /\ log' \in Seq(Records) /\ Len(log') = Len(log) + 1
      /\ Rows(log') = Rows(log) \cup {x} /\ x \in Records /\ x.time = t
      /\ x.event = row.event /\ x.corr = row.corr
      /\ Genuine(row) => Genuine(x)
  BY RecordAdds
<1> HIDE DEF x
<1> QED BY <1>1

LEMMA ServeWrites ==
  ASSUME TypeInv, Serve
  PROVE  /\ peer' \in [at : {"idle", "asked", "serving", "answered"}, todo : Seq(Records)]
         /\ peer'.at = "serving" /\ \A r \in Rows(peer'.todo) : Made(r)'
<1> DEFINE a == ByPeer(NetworkDecision)
           g == Decision("GENERATED", Verdict, None, NetworkDecision.cause)
           b == ByPeer(g)
<1>1. at' = at /\ fault' = fault /\ hit' = hit
      /\ peer' = [at |-> "serving", todo |-> IF fault.mirror THEN <<>> ELSE <<a, b>>]
  BY DEF Serve, Others, PeerRows
<1>2. /\ NetworkDecision \in Records /\ NetworkDecision.event = "DECISION"
      /\ NetworkDecision.corr = Corr /\ NetworkDecision.decision = Verdict
      /\ NetworkDecision.cause \in Causes /\ Verdict \in {"ACCEPT", "REJECT", "DROP"}
  BY NetworkDecisionIsRecord DEF Records
<1>3. /\ g \in Records /\ g.event = "GENERATED" /\ g.corr = Corr
      /\ g.decision = Verdict /\ g.cause = NetworkDecision.cause
  <2>1. "GENERATED" \in DecisiveEvents
    BY DEF DecisiveEvents
  <2> QED BY <1>2, <2>1, DecisionIsRecord
<1> HIDE DEF g
<1>4. /\ a \in Records /\ a.event = "DECISION" /\ a.corr = Corr
      /\ a.decision = Verdict /\ a.cause = NetworkDecision.cause
      /\ b \in Records /\ b.event = "GENERATED" /\ b.corr = Corr
      /\ b.decision = Verdict /\ b.cause = NetworkDecision.cause
  BY <1>2, <1>3 DEF ByPeer, Records
<1> HIDE DEF a, b
<1>5. \A r \in {a, b} : Made(r)'
  BY <1>1, <1>4, VerdictIsMade
<1>6. <<a, b>> \in Seq(Records) /\ Rows(<<a, b>>) = {a, b}
  BY <1>4, TwoRows
<1>7. peer'.todo \in Seq(Records) /\ Rows(peer'.todo) \subseteq {a, b}
  BY <1>1, <1>6, NoRows
<1> QED BY <1>1, <1>5, <1>7

\* A step that records the next row of the deliver thread or the peer, at a new time.
Notes(r) ==
  /\ r \in Records /\ now' \in Ticks /\ Record(r, now')
  /\ \/ r \in Rows(todo) /\ todo # <<>> /\ Rows(todo) = Rows(todo') \cup {r} /\ peer' = peer
     \/ /\ r \in Rows(peer.todo) /\ peer.todo # <<>> /\ peer'.at = peer.at
        /\ Rows(peer.todo) = Rows(peer'.todo) \cup {r} /\ todo' = todo
  /\ todo' \in Seq(Records)
  /\ peer' \in [at : {"idle", "asked", "serving", "answered"}, todo : Seq(Records)]
  /\ UNCHANGED <<Others, hit, pc>>

LEMMA NotesRow ==
  ASSUME TypeInv, RecordRow \/ PeerRecord
  PROVE  \E r \in Records : Notes(r)
<1>1. CASE RecordRow
  <2>1. /\ Tail(todo) \in Seq(Records) /\ Head(todo) \in Records
        /\ Rows(todo) = Rows(Tail(todo)) \cup {Head(todo)}
    BY <1>1, RowsOfTail DEF RecordRow, TypeInv
  <2>2. Notes(Head(todo))
    BY <1>1, <2>1 DEF RecordRow, Notes, TypeInv
  <2> QED BY <2>1, <2>2
<1>2. CASE PeerRecord
  <2>1. /\ Tail(peer.todo) \in Seq(Records) /\ Head(peer.todo) \in Records
        /\ Rows(peer.todo) = Rows(Tail(peer.todo)) \cup {Head(peer.todo)}
    BY <1>2, RowsOfTail DEF PeerRecord, TypeInv
  <2>2. /\ peer'.todo = Tail(peer.todo) /\ peer'.at = peer.at
        /\ peer' \in [at : {"idle", "asked", "serving", "answered"}, todo : Seq(Records)]
    BY <1>2, <2>1 DEF PeerRecord, TypeInv
  <2>3. Notes(Head(peer.todo))
    BY <1>2, <2>1, <2>2 DEF PeerRecord, Notes, TypeInv
  <2> QED BY <2>1, <2>3
<1> QED BY <1>1, <1>2

LEMMA StepKinds ==
  ASSUME TypeInv, PlaceInv, [Next]_vars
  PROVE  \/ \E r \in Records : Notes(r)
         \/ Advances \/ Serve \/ Answer
         \/ \E s \in Exchanges : Expire(s) \/ Publish(s) \/ CallBack(s)
         \/ Expired \/ Moves \/ FinishFailure
         \/ UNCHANGED vars
BY NotesRow, DeliverSteps, TakeResultMoves DEF Next, Peer, Timer

GuardType == [Exchanges -> [at : {"idle", "running", "taken", "published", "expired"},
                            time : Times]]
StatusType == [Exchanges -> {"IDLE", "RUNNING", "STOPPED", "EXPIRED"}]

LEMMA FailureStops ==
  ASSUME TypeInv, FinishFailure
  PROVE  /\ guard' \in GuardType /\ status' \in StatusType
         /\ \A s \in Exchanges :
              /\ guard'[s].time = guard[s].time
              /\ IF guard[s].at = "running"
                 THEN guard'[s].at = "idle" /\ status'[s] = "STOPPED"
                 ELSE guard'[s].at = guard[s].at /\ status'[s] = status[s]
<1>1. guard' = [s \in Exchanges |-> StopGuard(guard, s)[s]]
  BY DEF FinishFailure
<1>2. \A s \in Exchanges :
        /\ StopGuard(guard, s)[s] \in
             [at : {"idle", "running", "taken", "published", "expired"}, time : Times]
        /\ StopGuard(guard, s)[s].time = guard[s].time
        /\ StopGuard(guard, s)[s].at = IF guard[s].at = "running" THEN "idle" ELSE guard[s].at
  BY GuardsStopped
<1>3. status' = [s \in Exchanges |-> IF guard[s].at = "running" THEN "STOPPED" ELSE status[s]]
  BY DEF FinishFailure
<1>4. status' \in StatusType
  BY <1>3 DEF StatusType, TypeInv
<1>5. guard' \in GuardType
  <2> HIDE DEF StopGuard
  <2> QED BY <1>1, <1>2 DEF GuardType
<1> QED BY <1>1, <1>2, <1>3, <1>4, <1>5

LEMMA TypeStep ==
  ASSUME TypeInv, PlaceInv, [Next]_vars
  PROVE  TypeInv'
<1>0. /\ fault \in [what : Whats, stage : Exchanges, mirror : BOOLEAN]
      /\ [what |-> fault.what, stage |-> fault.stage] \in AllFaults
      /\ hit \in BOOLEAN /\ stop \in BOOLEAN /\ at \in 1..3
      /\ pc \in Places /\ todo \in Seq(Records)
      /\ peer \in [at : {"idle", "asked", "serving", "answered"}, todo : Seq(Records)]
      /\ guard \in GuardType /\ status \in StatusType
      /\ run \in {"running", "failing", "failed", "attached"}
      /\ now \in Times /\ log \in Seq(Records) /\ seen \in 0..Len(log) /\ Len(log) \in Nat
  BY DEF TypeInv, GuardType, StatusType
<1> SUFFICES
      /\ fault' = fault
      /\ hit' \in BOOLEAN /\ stop' \in BOOLEAN /\ at' \in 1..3
      /\ pc' \in Places /\ todo' \in Seq(Records)
      /\ peer' \in [at : {"idle", "asked", "serving", "answered"}, todo : Seq(Records)]
      /\ guard' \in GuardType /\ status' \in StatusType
      /\ run' \in {"running", "failing", "failed", "attached"}
      /\ now' \in Times /\ log' \in Seq(Records) /\ seen' \in 0..Len(log')
  BY <1>0 DEF TypeInv, GuardType, StatusType
<1>1. ASSUME NEW r \in Records, Notes(r)
      PROVE  /\ now' \in Times /\ log' \in Seq(Records) /\ seen' \in 0..Len(log')
  <2>1. now' \in Times /\ Record(r, now') /\ seen' = seen
    BY <1>0, <1>1, TicksAreLater DEF Notes, Others
  <2>2. log' \in Seq(Records) /\ Len(log') = Len(log) + 1
    BY <2>1, RecordAdds
  <2> QED BY <1>0, <2>1, <2>2
<1>2. CASE \E r \in Records : Notes(r)
  BY <1>0, <1>1, <1>2 DEF Notes, Others
<1>3. CASE Advances
  BY <1>0, <1>3 DEF Advances, Writes, Others
<1>4. CASE Serve
  BY <1>0, <1>4, ServeWrites DEF Serve, Others
<1>5. CASE Answer
  BY <1>0, <1>5 DEF Answer, Others
<1>6. ASSUME NEW s \in Exchanges, Expire(s)
      PROVE  guard' \in GuardType
  BY <1>0, <1>6 DEF Expire, GuardType
<1>7. ASSUME NEW s \in Exchanges, Publish(s)
      PROVE  guard' \in GuardType /\ status' \in StatusType /\ now' \in Times
  <2>1. now' \in Times
    BY <1>0, <1>7, TicksAreLater DEF Publish
  <2> QED BY <1>0, <1>7, <2>1 DEF Publish, GuardType, StatusType
<1>8. ASSUME NEW s \in Exchanges, CallBack(s)
      PROVE  guard' \in GuardType /\ log' \in Seq(Records) /\ seen' \in 0..Len(log')
  <2>1. guard' \in GuardType /\ guard[s].time \in Times /\ seen' = seen
        /\ Record(ExpiryRow(s), guard[s].time)
    BY <1>0, <1>8 DEF CallBack, GuardType, TimerRest
  <2>2. log' \in Seq(Records) /\ Len(log') = Len(log) + 1
    BY <2>1, ExpiryIsRecord, RecordAdds
  <2> QED BY <1>0, <2>1, <2>2
<1>9. CASE \E s \in Exchanges : Expire(s) \/ Publish(s) \/ CallBack(s)
  <2>1. PICK s \in Exchanges : Expire(s) \/ Publish(s) \/ CallBack(s)
    BY <1>9
  <2>2. CASE Expire(s)
    BY <1>0, <1>6, <2>2 DEF Expire, TimerRest
  <2>3. CASE Publish(s)
    BY <1>0, <1>7, <2>3 DEF Publish, TimerRest
  <2>4. CASE CallBack(s)
    BY <1>0, <1>8, <2>4 DEF CallBack, TimerRest
  <2> QED BY <2>1, <2>2, <2>3, <2>4
<1>10. CASE Expired
  BY <1>0, <1>10 DEF Expired
<1>11. CASE Moves
  <2>1. /\ fault' = fault /\ hit' = hit /\ todo' = todo /\ peer' = peer /\ now' = now
        /\ log' = log /\ seen' = seen
    BY <1>11 DEF Moves
  <2>2. guard' \in GuardType /\ status' \in StatusType
    BY <1>11 DEF Moves, GuardType, StatusType
  <2>3. /\ at' \in 1..3 /\ pc' \in Places /\ stop' \in BOOLEAN
        /\ run' \in {"running", "failing", "failed", "attached"}
    <3>1. CASE pc = "raised" /\ run' = "failing" /\ UNCHANGED <<at, pc, stop>>
      BY <1>0, <3>1
    <3>2. CASE /\ pc = "answered" /\ at < 3 /\ run' = "running" /\ at' = at + 1
               /\ stop' = FALSE /\ pc' = (IF at = 1 THEN "validate" ELSE "request")
      <4>1. at' \in 1..3
        BY <1>0, <3>2
      <4>2. pc' \in Places
        BY <3>2 DEF Places
      <4>3. stop' \in BOOLEAN
        BY <3>2
      <4> QED BY <3>2, <4>1, <4>2, <4>3
    <3>3. CASE /\ run' = "attached" /\ stop' = TRUE /\ pc' = "done" /\ at' = at
      BY <1>0, <3>3 DEF Places
    <3> QED BY <1>11, <3>1, <3>2, <3>3 DEF Moves
  <2> QED BY <1>0, <2>1, <2>2, <2>3
<1>12. CASE FinishFailure
  <2>1. seen' = Len(log) /\ log' = log
    BY <1>12 DEF FinishFailure
  <2> QED BY <1>0, <1>12, <2>1, FailureStops DEF FinishFailure
<1>13. CASE UNCHANGED vars
  BY <1>0, <1>13 DEF vars
<1> QED BY StepKinds, <1>2, <1>3, <1>4, <1>5, <1>9, <1>10, <1>11, <1>12, <1>13

-----------------------------------------------------------------------------
(* The clock.                                                              *)

LEMMA EarlierIsOrder ==
  /\ \A t, u, v \in Times : Earlier(t, u) /\ Earlier(u, v) => Earlier(t, v)
  /\ \A t \in Times : ~Earlier(t, t)
BY DEF Times, Earlier

LEMMA OneMoreTime ==
  ASSUME TypeInv, ClockInv, NEW x \in Records, Rows(log') = Rows(log) \cup {x},
         Len(log') = Len(log) + 1, \A r \in Rows(log) : r.time # x.time
  PROVE  /\ Cardinality({r.time : r \in Rows(log')}) = Len(log')
         /\ \A q, r \in Rows(log') : q.time = r.time => q = r
<1> DEFINE T == {r.time : r \in Rows(log)}
           f == [r \in Rows(log) |-> r.time]
<1>1. IsFiniteSet(T)
  <2>1. IsFiniteSet(Rows(log))
    BY RowsAreFinite DEF TypeInv
  <2>2. f \in Surjection(Rows(log), T)
    BY DEF Surjection
  <2> QED BY <2>1, <2>2, FS_Surjection
<1>2. {r.time : r \in Rows(log')} = T \cup {x.time} /\ x.time \notin T
  OBVIOUS
<1>3. Cardinality(T) = Len(log)
  BY DEF ClockInv
<1> HIDE DEF T
<1>4. Cardinality(T \cup {x.time}) = Len(log) + 1
  BY <1>1, <1>2, <1>3, FS_AddElement
<1> QED BY <1>2, <1>4 DEF ClockInv

\* The clock is as it was, and no guard has published since.
LEMMA ClockIsKept ==
  ASSUME ClockInv, log' = log, now' = now,
         \A s \in Exchanges : guard'[s].at = "published" =>
           guard[s].at = "published" /\ guard'[s].time = guard[s].time
  PROVE  ClockInv'
BY DEF ClockInv

LEMMA ClockStep ==
  ASSUME TypeInv, PlaceInv, ClockInv, [Next]_vars
  PROVE  ClockInv'
<1>0. /\ now \in Times /\ \A s \in Exchanges : guard[s].time \in Times
      /\ \A r \in Rows(log) : r.time \in Times
  <2>1. Rows(log) \subseteq Records
    BY RowsAreFinite DEF TypeInv
  <2> QED BY <2>1 DEF TypeInv, Records
<1>1. ASSUME NEW r \in Records, Notes(r) PROVE ClockInv'
  <2>1. now' \in Times /\ Earlier(now, now') /\ Record(r, now') /\ guard' = guard
    BY <1>0, <1>1, TicksAreLater DEF Notes, Others
  <2>2. PICK x \in Records : /\ Rows(log') = Rows(log) \cup {x} /\ x.time = now'
                             /\ Len(log') = Len(log) + 1
    BY <2>1, RecordAdds
  <2>3. /\ \A q \in Rows(log) : q.time # now' /\ Earlier(q.time, now')
        /\ \A s \in Exchanges : guard[s].at = "published" =>
             guard[s].time # now' /\ Earlier(guard[s].time, now')
    BY <1>0, <2>1, EarlierIsOrder DEF ClockInv
  <2>4. /\ Cardinality({q.time : q \in Rows(log')}) = Len(log')
        /\ \A p, q \in Rows(log') : p.time = q.time => p = q
    BY <2>2, <2>3, OneMoreTime
  <2> QED BY <2>1, <2>2, <2>3, <2>4 DEF ClockInv
<1>2. ASSUME NEW s \in Exchanges, Expire(s) PROVE ClockInv'
  <2>1. /\ log' = log /\ now' = now
        /\ \A t \in Exchanges : guard'[t].at = "published" =>
             guard[t].at = "published" /\ guard'[t].time = guard[t].time
    BY <1>2 DEF Expire, TypeInv
  <2> QED BY <2>1, ClockIsKept
<1>3. ASSUME NEW s \in Exchanges, Publish(s) PROVE ClockInv'
  <2>1. now' \in Times /\ Earlier(now, now') /\ log' = log
    BY <1>0, <1>3, TicksAreLater DEF Publish
  <2>2. /\ guard'[s].time = now'
        /\ \A t \in Exchanges : t # s => guard'[t] = guard[t]
    BY <1>3 DEF Publish, TypeInv
  <2>3. /\ \A q \in Rows(log) : q.time # now' /\ Earlier(q.time, now')
        /\ \A t \in Exchanges : guard[t].at = "published" =>
             guard[t].time # now' /\ Earlier(guard[t].time, now')
    BY <1>0, <2>1, EarlierIsOrder DEF ClockInv
  <2> QED BY <2>1, <2>2, <2>3 DEF ClockInv
<1>4. ASSUME NEW s \in Exchanges, CallBack(s) PROVE ClockInv'
  <2>1. /\ guard[s].at = "published" /\ Record(ExpiryRow(s), guard[s].time)
        /\ now' = now /\ guard'[s].at = "expired"
        /\ \A t \in Exchanges : t # s => guard'[t] = guard[t]
    BY <1>4 DEF CallBack, TypeInv
  <2>2. PICK x \in Records : /\ Rows(log') = Rows(log) \cup {x} /\ x.time = guard[s].time
                             /\ Len(log') = Len(log) + 1
    <3>1. ExpiryRow(s) \in Records /\ guard[s].time \in Times
      BY <1>0, ExpiryIsRecord
    <3> QED BY <2>1, <3>1, RecordAdds
  <2>3. /\ \A q \in Rows(log) : q.time # guard[s].time
        /\ guard[s].time = now \/ Earlier(guard[s].time, now)
        /\ \A t \in Exchanges : t # s /\ guard[t].at = "published" =>
             guard[t].time # guard[s].time
    BY <2>1 DEF ClockInv
  <2>4. /\ Cardinality({q.time : q \in Rows(log')}) = Len(log')
        /\ \A p, q \in Rows(log') : p.time = q.time => p = q
    BY <2>2, <2>3, OneMoreTime
  <2> QED BY <2>1, <2>2, <2>3, <2>4 DEF ClockInv
<1>5. CASE Moves
  <2>1. \A s \in Exchanges : guard'[s].at = "published" =>
             guard[s].at = "published" /\ guard'[s].time = guard[s].time
    <3> SUFFICES ASSUME NEW s \in Exchanges
                 PROVE  guard'[s].at = "published" =>
                          guard[s].at = "published" /\ guard'[s].time = guard[s].time
      OBVIOUS
    <3>1. \/ guard'[s] = guard[s] \/ guard'[s] = StopGuard(guard, s)[s]
          \/ guard'[s] = [guard[s] EXCEPT !.at = "running"]
      BY <1>5 DEF Moves
    <3> QED BY <3>1, GuardsStopped DEF TypeInv
  <2> QED BY <1>5, <2>1, ClockIsKept DEF Moves
<1>6. CASE FinishFailure
  BY <1>6, FailureStops, ClockIsKept DEF FinishFailure
<1>7. CASE Advances \/ Serve \/ Answer \/ Expired \/ UNCHANGED vars
  <2>1. log' = log /\ now' = now /\ guard' = guard
    BY <1>7 DEF Advances, Serve, Answer, Expired, vars, Others
  <2> QED BY <2>1, ClockIsKept
<1> QED BY StepKinds, <1>1, <1>2, <1>3, <1>4, <1>5, <1>6, <1>7

-----------------------------------------------------------------------------
(* The guards.                                                             *)

LEMMA GuardIsKept ==
  ASSUME TypeInv, GuardInv, at' = at, Rows(log) \subseteq Rows(log'), status' = status,
         guard' = guard, run' = run \/ run' # "running"
  PROVE  GuardInv'
BY CorrIsKept DEF GuardInv, InExchange

LEMMA GuardStep ==
  ASSUME TypeInv, PlaceInv, GuardInv, [Next]_vars
  PROVE  GuardInv'
<1>0. at \in 1..3 /\ (InExchange => Step \in Exchanges /\ Corr = Step)
  BY StepsInOrder DEF TypeInv, InExchange
<1>1. ASSUME NEW r \in Records, Notes(r) PROVE GuardInv'
  <2>1. now' \in Times /\ Record(r, now')
    BY <1>1, TicksAreLater DEF Notes, TypeInv
  <2>2. Rows(log) \subseteq Rows(log')
    BY <2>1, RecordAdds
  <2> QED BY <1>1, <2>2, GuardIsKept DEF Notes, Others
<1>2. ASSUME NEW s \in Exchanges, Expire(s) PROVE GuardInv'
  <2>1. /\ guard[s].at = "running" /\ guard'[s].at = "taken"
        /\ \A t \in Exchanges : t # s => guard'[t] = guard[t]
        /\ at' = at /\ run' = run /\ status' = status /\ log' = log
    BY <1>2 DEF Expire, TypeInv, TimerRest
  <2>2. Step' = Step /\ Corr' = Corr /\ InExchange' = InExchange
    BY <2>1, CorrIsKept
  <2>5. \A t \in Exchanges :
         /\ guard'[t].at \in {"published", "expired"} => status'[t] \in {"EXPIRED", "STOPPED"}
         /\ guard'[t].at = "running" => status'[t] = "RUNNING"
         /\ guard'[t].at = "idle" => status'[t] \in {"IDLE", "STOPPED"}
         /\ guard'[t].at = "taken" => status'[t] \in {"RUNNING", "STOPPED"}
    BY <2>1 DEF GuardInv
  <2>6. at' < 3 => guard'["authentication"].at = "idle"
    BY <2>1 DEF GuardInv, Exchanges
  <2>7. run' = "running" /\ InExchange' /\ guard'[Step'].at \in {"published", "expired"} =>
          status'[Step'] = "EXPIRED"
    BY <1>0, <2>1, <2>2 DEF GuardInv
  <2>8. run' = "running" /\ InExchange' /\ guard'[Step'].at = "expired" =>
          \E r \in Rows(log') : r.event = "TIMER_EXPIRED" /\ r.corr = Corr'
    BY <1>0, <2>1, <2>2 DEF GuardInv
  <2> QED BY <2>5, <2>6, <2>7, <2>8 DEF GuardInv
<1>3. ASSUME NEW s \in Exchanges, Publish(s) PROVE GuardInv'
  <2>1. /\ guard[s].at = "taken" /\ guard'[s].at = "published"
        /\ \A t \in Exchanges : t # s => guard'[t] = guard[t] /\ status'[t] = status[t]
        /\ at' = at /\ run' = run /\ status'[s] = "EXPIRED" /\ log' = log
    BY <1>3 DEF Publish, TypeInv, TimerRest
  <2>2. Step' = Step /\ Corr' = Corr /\ InExchange' = InExchange
    BY <2>1, CorrIsKept
  <2>5. \A t \in Exchanges :
         /\ guard'[t].at \in {"published", "expired"} => status'[t] \in {"EXPIRED", "STOPPED"}
         /\ guard'[t].at = "running" => status'[t] = "RUNNING"
         /\ guard'[t].at = "idle" => status'[t] \in {"IDLE", "STOPPED"}
         /\ guard'[t].at = "taken" => status'[t] \in {"RUNNING", "STOPPED"}
    BY <2>1 DEF GuardInv
  <2>6. at' < 3 => guard'["authentication"].at = "idle"
    BY <2>1 DEF GuardInv, Exchanges
  <2>7. run' = "running" /\ InExchange' /\ guard'[Step'].at \in {"published", "expired"} =>
          status'[Step'] = "EXPIRED"
    BY <1>0, <2>1, <2>2 DEF GuardInv
  <2>8. run' = "running" /\ InExchange' /\ guard'[Step'].at = "expired" =>
          \E r \in Rows(log') : r.event = "TIMER_EXPIRED" /\ r.corr = Corr'
    BY <1>0, <2>1, <2>2 DEF GuardInv
  <2> QED BY <2>5, <2>6, <2>7, <2>8 DEF GuardInv
<1>4. ASSUME NEW s \in Exchanges, CallBack(s) PROVE GuardInv'
  <2>1. /\ guard[s].at = "published" /\ guard'[s].at = "expired"
        /\ \A t \in Exchanges : t # s => guard'[t] = guard[t]
        /\ at' = at /\ run' = run /\ status' = status
        /\ Record(ExpiryRow(s), guard[s].time) /\ guard[s].time \in Times
    BY <1>4 DEF CallBack, TypeInv, TimerRest
  <2>2. Step' = Step /\ Corr' = Corr /\ InExchange' = InExchange
    BY <2>1, CorrIsKept
  <2>3. /\ ExpiryRow(s) \in Records /\ ExpiryRow(s).event = "TIMER_EXPIRED"
        /\ ExpiryRow(s).corr = s
    BY ExpiryIsRecord
  <2>4. PICK x \in Records : /\ Rows(log') = Rows(log) \cup {x}
                             /\ x.event = "TIMER_EXPIRED" /\ x.corr = s
    BY <2>1, <2>3, RecordAddsRow
  <2>5. \A t \in Exchanges :
         /\ guard'[t].at \in {"published", "expired"} => status'[t] \in {"EXPIRED", "STOPPED"}
         /\ guard'[t].at = "running" => status'[t] = "RUNNING"
         /\ guard'[t].at = "idle" => status'[t] \in {"IDLE", "STOPPED"}
         /\ guard'[t].at = "taken" => status'[t] \in {"RUNNING", "STOPPED"}
    BY <2>1 DEF GuardInv
  <2>6. at' < 3 => guard'["authentication"].at = "idle"
    BY <2>1 DEF GuardInv, Exchanges
  <2>7. run' = "running" /\ InExchange' /\ guard'[Step'].at \in {"published", "expired"} =>
          status'[Step'] = "EXPIRED"
    BY <1>0, <2>1, <2>2, <2>4 DEF GuardInv
  <2>8. run' = "running" /\ InExchange' /\ guard'[Step'].at = "expired" =>
          \E r \in Rows(log') : r.event = "TIMER_EXPIRED" /\ r.corr = Corr'
    BY <1>0, <2>1, <2>2, <2>4 DEF GuardInv
  <2> QED BY <2>5, <2>6, <2>7, <2>8 DEF GuardInv
<1>5. CASE Moves
  <2>1. /\ log' = log /\ \A s \in Exchanges :
             \/ guard'[s] = guard[s] /\ status'[s] = status[s]
             \/ guard'[s] = StopGuard(guard, s)[s] /\ status'[s] = "STOPPED"
             \/ /\ at = 2 /\ s = "authentication" /\ status'[s] = "RUNNING"
                /\ guard'[s] = [guard[s] EXCEPT !.at = "running"]
    BY <1>5 DEF Moves
  <2>2. \A s \in Exchanges :
             \/ guard'[s].at = guard[s].at /\ status'[s] = status[s]
             \/ /\ guard'[s].at = IF guard[s].at = "running" THEN "idle" ELSE guard[s].at
                /\ status'[s] = "STOPPED"
             \/ guard'[s].at = "running" /\ status'[s] = "RUNNING"
    <3> SUFFICES ASSUME NEW s \in Exchanges
                 PROVE \/ guard'[s].at = guard[s].at /\ status'[s] = status[s]
                       \/ /\ guard'[s].at = IF guard[s].at = "running" THEN "idle" ELSE guard[s].at
                          /\ status'[s] = "STOPPED"
                       \/ guard'[s].at = "running" /\ status'[s] = "RUNNING"
      OBVIOUS
    <3>1. StopGuard(guard, s)[s].at = IF guard[s].at = "running" THEN "idle" ELSE guard[s].at
      BY GuardsStopped
    <3>2. [guard[s] EXCEPT !.at = "running"].at = "running"
      BY DEF TypeInv
    <3> QED BY <2>1, <3>1, <3>2
  <2>3. \A s \in Exchanges :
         /\ guard'[s].at \in {"published", "expired"} => status'[s] \in {"EXPIRED", "STOPPED"}
         /\ guard'[s].at = "running" => status'[s] = "RUNNING"
         /\ guard'[s].at = "idle" => status'[s] \in {"IDLE", "STOPPED"}
         /\ guard'[s].at = "taken" => status'[s] \in {"RUNNING", "STOPPED"}
    <3> SUFFICES ASSUME NEW s \in Exchanges
                 PROVE
         /\ guard'[s].at \in {"published", "expired"} => status'[s] \in {"EXPIRED", "STOPPED"}
         /\ guard'[s].at = "running" => status'[s] = "RUNNING"
         /\ guard'[s].at = "idle" => status'[s] \in {"IDLE", "STOPPED"}
         /\ guard'[s].at = "taken" => status'[s] \in {"RUNNING", "STOPPED"}
      OBVIOUS
    <3>1. /\ guard[s].at \in {"published", "expired"} => status[s] \in {"EXPIRED", "STOPPED"}
          /\ guard[s].at = "running" => status[s] = "RUNNING"
          /\ guard[s].at = "idle" => status[s] \in {"IDLE", "STOPPED"}
          /\ guard[s].at = "taken" => status[s] \in {"RUNNING", "STOPPED"}
      BY DEF GuardInv
    <3> QED BY <2>2, <3>1
  <2>4. run' = "running" => at' = at + 1 /\ at < 3
    BY <1>5 DEF Moves
  <2>5. at' < 3 => guard'["authentication"].at = "idle"
    <3> SUFFICES ASSUME at' < 3 PROVE guard'["authentication"].at = "idle"
      OBVIOUS
    <3>1. at < 3 /\ (at = 2 => at' = at)
      BY <1>0, <1>5 DEF Moves
    <3>2. guard["authentication"].at = "idle"
      BY <3>1 DEF GuardInv
    <3>3. "authentication" \in Exchanges
      BY DEF Exchanges
    <3>4. \/ guard'["authentication"] = guard["authentication"]
          \/ guard'["authentication"] = StopGuard(guard, "authentication")["authentication"]
      BY <1>5, <3>1, <3>3 DEF Moves
    <3> QED BY <3>2, <3>3, <3>4, GuardsStopped
  <2>6. ASSUME run' = "running", InExchange' PROVE at' = 3 /\ guard'[Step'].at = "running"
    <3>1. at' \in 1..3 /\ at' # 1
      BY <1>0, <2>4, <2>6
    <3>2. at' # 2
      <4>1. at' = 2 => Step' = "system_info_validate" /\ "system_info_validate" \notin Exchanges
        BY StepsInOrder DEF Step, Activities, Exchanges
      <4> QED BY <2>6, <4>1 DEF InExchange
    <3>3. at' = 3 /\ at = 2
      BY <1>0, <2>4, <2>6, <3>1, <3>2
    <3>4. Step' = "authentication"
      BY <3>3 DEF Step, Activities
    <3>5. guard'["authentication"].at = "running"
      <4>1. "authentication" \in Exchanges /\ ~InExchange
        BY <3>3, StepsInOrder DEF Exchanges
      <4>2. guard'["authentication"] = [guard["authentication"] EXCEPT !.at = "running"]
        BY <1>5, <3>3, <4>1 DEF Moves
      <4> QED BY <4>1, <4>2 DEF TypeInv
    <3> QED BY <3>3, <3>4, <3>5
  <2> QED BY <2>3, <2>5, <2>6 DEF GuardInv
<1>6. CASE FinishFailure
  <2>1. at' = at /\ run' = "failed"
    BY <1>6 DEF FinishFailure
  <2>2. "authentication" \in Exchanges
    BY DEF Exchanges
  <2> QED BY <1>6, <2>1, <2>2, FailureStops DEF GuardInv
<1>7. CASE Advances \/ Serve \/ Answer \/ Expired \/ UNCHANGED vars
  <2>1. /\ log' = log /\ guard' = guard /\ status' = status /\ at' = at
        /\ run' = run \/ run' # "running"
    BY <1>7 DEF Advances, Serve, Answer, Expired, vars, Others
  <2> QED BY <2>1, GuardIsKept
<1> QED BY StepKinds, <1>1, <1>2, <1>3, <1>4, <1>5, <1>6, <1>7

-----------------------------------------------------------------------------
(* Where the threads stand.                                                *)

\* The steps of the deliver thread in the order of an exchange.
Path ==
  \/ pc = "request" /\ pc' \in {"transmit", "done"} /\ peer' = peer
  \/ pc = "transmit" /\ pc' = "done" /\ peer' = peer
  \/ pc = "transmit" /\ pc' = "sent"
  \/ pc = "sent" /\ pc' = "raised"
  \/ pc = "sent" /\ pc' \in {"done", "response"} /\ peer'.at = "idle"
  \/ pc = "response" /\ pc' \in {"done", "consume"} /\ peer' = peer
  \/ pc = "consume" /\ pc' \in {"done", "answered", "raised"} /\ peer' = peer
  \/ pc = "validate" /\ pc' \in {"answered", "raised"} /\ peer' = peer

LEMMA PathIsTaken ==
  ASSUME TypeInv, PlaceInv, Deliver
  PROVE  RecordRow \/ (Path /\ (peer'.at = "serving" \/ peer.at = "serving" => peer' = peer))
<1>1. CASE Send
  BY <1>1 DEF Send, Goto, Path
<1>2. CASE Transmit
  BY <1>2 DEF Transmit, Goto, Path, TypeInv, PlaceInv
<1>3. CASE SocketFails
  BY <1>3 DEF SocketFails, Goto, Path
<1>4. CASE AnswerIsBad
  BY <1>4 DEF AnswerIsBad, Goto, Path, TypeInv
<1>5. CASE Receive
  BY <1>5 DEF Receive, Goto, Path, TypeInv
<1>6. CASE Intercept
  BY <1>6 DEF Intercept, Goto, Path
<1>7. CASE Consume
  BY <1>7 DEF Consume, Goto, Path
<1>8. CASE Validate
  BY <1>8 DEF Validate, Goto, Path
<1> QED BY <1>1, <1>2, <1>3, <1>4, <1>5, <1>6, <1>7, <1>8 DEF Deliver

LEMMA PlaceStep ==
  ASSUME TypeInv, PlaceInv, [Next]_vars
  PROVE  PlaceInv'
<1>0. at \in 1..3
  BY DEF TypeInv
<1>1. ASSUME NEW r \in Records, Notes(r) PROVE PlaceInv'
  <2>1. now' \in Times /\ Record(r, now') /\ at' = at /\ pc' = pc /\ run' = run
    BY <1>1, TicksAreLater DEF Notes, TypeInv, Others
  <2>2. PICK x \in Records : /\ Rows(log') = Rows(log) \cup {x}
                             /\ x.event = r.event /\ x.corr = r.corr
    BY <2>1, RecordAddsRow
  <2>3. Corr' = Corr
    BY <2>1, CorrIsKept
  <2>4. peer'.at = peer.at /\ (peer.at # "serving" => peer'.todo = <<>>)
    BY <1>1 DEF Notes, PlaceInv
  <2>5. pc' = "raised" => \E q \in Rows(log') \cup Rows(todo') : q.event \in Endings /\ q.corr = Corr'
    <3> SUFFICES ASSUME pc = "raised"
                 PROVE  \E q \in Rows(log') \cup Rows(todo') : q.event \in Endings /\ q.corr = Corr
      BY <2>1, <2>3
    <3>1. PICK q \in Rows(log) \cup Rows(todo) : q.event \in Endings /\ q.corr = Corr
      BY DEF PlaceInv
    <3>2. Rows(todo) \subseteq Rows(todo') \cup {r}
      BY <1>1 DEF Notes
    <3> QED BY <2>2, <3>1, <3>2
  <2> QED BY <2>1, <2>4, <2>5 DEF PlaceInv
<1>2. CASE Deliver /\ ~RecordRow
  <2>1. Path /\ (peer'.at = "serving" \/ peer.at = "serving" => peer' = peer) /\ Advances
    BY <1>2, PathIsTaken, DeliverSteps
  <2>2. at' = at /\ run' = run /\ peer'.todo = peer.todo /\ todo = <<>> /\ log' = log
    BY <2>1 DEF Advances, Others
  <2>3. Corr' = Corr
    BY <2>2, CorrIsKept
  <2>4. pc' = "raised" => \E q \in Rows(log') \cup Rows(todo') : q.event \in Endings /\ q.corr = Corr'
    BY <2>1, <2>3 DEF Advances
  <2>5. peer'.at # "serving" => peer'.todo = <<>>
    BY <2>1, <2>2 DEF PlaceInv
  <2> QED BY <2>1, <2>2, <2>4, <2>5 DEF PlaceInv, Path
<1>3. CASE Serve \/ Answer
  <2>1. UNCHANGED <<at, pc, run, todo, log>> /\ peer.at \in {"asked", "serving"}
    BY <1>3 DEF Serve, Answer, Others
  <2>2. peer'.at # "serving" => peer'.todo = <<>>
    BY <1>3 DEF Serve, Answer, TypeInv
  <2> QED BY <2>1, <2>2, CorrIsKept DEF PlaceInv
<1>4. CASE \E s \in Exchanges : Expire(s) \/ Publish(s) \/ CallBack(s)
  <2>1. UNCHANGED <<at, pc, run, todo, peer>> /\ Rows(log) \subseteq Rows(log')
    <3>1. PICK s \in Exchanges : Expire(s) \/ Publish(s) \/ CallBack(s)
      BY <1>4
    <3>2. CASE CallBack(s)
      <4>1. ExpiryRow(s) \in Records /\ guard[s].time \in Times
        BY ExpiryIsRecord DEF TypeInv
      <4> QED BY <3>2, <4>1, RecordAddsRow DEF CallBack, TimerRest
    <3> QED BY <3>1, <3>2 DEF Expire, Publish, TimerRest
  <2> QED BY <2>1, CorrIsKept DEF PlaceInv
<1>5. CASE Moves
  <2>1. UNCHANGED <<todo, peer, log>>
    BY <1>5 DEF Moves
  <2>2. CASE pc = "raised" /\ run' = "failing" /\ UNCHANGED <<at, pc, stop>>
    BY <2>1, <2>2, CorrIsKept DEF PlaceInv
  <2>3. CASE /\ pc = "answered" /\ at < 3 /\ run' = "running" /\ at' = at + 1
             /\ pc' = (IF at = 1 THEN "validate" ELSE "request")
    BY <1>0, <2>1, <2>3 DEF PlaceInv
  <2>4. CASE /\ pc = "answered" /\ at = 3 /\ run' = "attached" /\ pc' = "done" /\ at' = at
    BY <2>1, <2>4 DEF PlaceInv
  <2> QED BY <1>5, <2>2, <2>3, <2>4 DEF Moves
<1>6. CASE Expired \/ FinishFailure \/ UNCHANGED vars
  <2>1. UNCHANGED <<at, pc, todo, peer, log>> /\ (run' = run \/ run' # "attached")
    BY <1>6 DEF Expired, FinishFailure, vars
  <2> QED BY <2>1, CorrIsKept DEF PlaceInv
<1> QED BY StepKinds, NotesRow, TakeResultMoves, <1>1, <1>2, <1>3, <1>4, <1>5, <1>6
      DEF Next, Peer, Timer

-----------------------------------------------------------------------------
(* How far an injected fault lets the run come.                            *)

LEMMA FaultIsReal ==
  ASSUME TypeInv
  PROVE  fault.what = "sib" => fault.stage = "mib_sib_read"
<1>1. [what |-> fault.what, stage |-> fault.stage] \in AllFaults
  BY DEF TypeInv
<1> QED BY <1>1 DEF AllFaults, NoFault, None

LEMMA DoomIsKept ==
  ASSUME DoomInv, UNCHANGED <<fault, hit, at, pc>>, run' = run \/ run' # "attached"
  PROVE  DoomInv'
BY CorrIsKept DEF DoomInv

LEMMA DoomStep ==
  ASSUME TypeInv, PlaceInv, DoomInv, [Next]_vars
  PROVE  DoomInv'
<1>0. at \in 1..3
  BY DEF TypeInv
<1>1. ASSUME NEW r \in Records, Notes(r) PROVE DoomInv'
  BY <1>1, DoomIsKept DEF Notes, Others
<1>2. CASE Send
  <2>1. UNCHANGED <<fault, at, run>> /\ pc = "request" /\ run # "attached"
    BY <1>2 DEF Send, Others, PlaceInv
  <2>2. Step' = Step
    BY <2>1, CorrIsKept
  <2>3. CASE ~Hits("socket")
    <3>1. hit' = hit /\ pc' = "transmit"
      BY <1>2, <2>3 DEF Send, Goto, TypeInv
    <3>2. hit => fault.what \notin {"drop", "timer_timeout", "socket_drop", "socket_field"}
      BY <2>1 DEF DoomInv
    <3>3. at # 2
      BY <2>1 DEF PlaceInv
    <3> QED BY <2>1, <2>2, <3>1, <3>2, <3>3 DEF DoomInv
  <2>4. CASE Hits("socket")
    <3>1. /\ fault.stage = Step /\ fault.what \in {"socket_field", "socket_drop", "socket_delay"}
      BY <2>4 DEF Hits
    <3>2. /\ fault.what = "socket_field" => pc' = "transmit"
          /\ fault.what = "socket_drop" => pc' = "done"
      BY <1>2, <2>4 DEF Send, Goto
    <3> QED BY <2>1, <2>2, <3>1, <3>2 DEF DoomInv, None
  <2> QED BY <2>3, <2>4
<1>3. CASE Transmit \/ SocketFails \/ AnswerIsBad \/ Receive
  <2>1. /\ UNCHANGED <<fault, hit, at, run>>
        /\ pc \in {"transmit", "sent"} /\ pc' \in {"sent", "raised", "done", "response"}
        /\ run # "attached"
    BY <1>3 DEF Transmit, SocketFails, AnswerIsBad, Receive, Others, Goto, PlaceInv
  <2>2. at # 2
    BY <2>1 DEF PlaceInv
  <2> QED BY <2>1, <2>2, CorrIsKept DEF DoomInv
<1>4. CASE Intercept
  <2>1. UNCHANGED <<fault, at, run>> /\ pc = "response" /\ run # "attached" /\ at # 2
    BY <1>4 DEF Intercept, Others, PlaceInv
  <2>2. Step' = Step
    BY <2>1, CorrIsKept
  <2>3. CASE stop \/ ~Hits("primitive")
    <3>1. hit' = hit /\ pc' \in {"done", "consume"}
      BY <1>4, <2>3 DEF Intercept, Goto, TypeInv
    <3>2. hit => fault.what \notin {"drop", "timer_timeout", "socket_drop"}
      BY <2>1 DEF DoomInv
    <3> QED BY <2>1, <2>2, <3>1, <3>2 DEF DoomInv
  <2>4. CASE ~stop /\ Hits("primitive")
    <3>1. /\ fault.stage = Step
          /\ fault.what \in {"field", "sib", "drop", "timer_timeout", "delay", "duplicate"}
      BY <2>4 DEF Hits
    <3>2. fault.what \in {"drop", "timer_timeout"} => pc' = "done"
      BY <1>4, <2>4 DEF Intercept, Goto
    <3>3. fault.what = "sib" => at = 1
      BY <1>0, <3>1, FaultIsReal, StepsInOrder
    <3> QED BY <2>1, <2>2, <3>1, <3>2, <3>3 DEF DoomInv, None
  <2> QED BY <2>3, <2>4
<1>5. CASE Consume
  <2>1. UNCHANGED <<fault, hit, at, run>> /\ pc = "consume" /\ run # "attached" /\ at # 2
    BY <1>5 DEF Consume, Others, PlaceInv
  <2>2. Step' = Step
    BY <2>1, CorrIsKept
  <2>3. hit => fault.what \notin {"drop", "timer_timeout", "socket_drop"}
    BY <2>1 DEF DoomInv
  <2>4. hit /\ fault.what = "socket_field" => pc' \in {"raised", "done"}
    <3> SUFFICES ASSUME hit, fault.what = "socket_field" PROVE pc' \in {"raised", "done"}
      OBVIOUS
    <3>1. Rejecting /\ fault.stage = Step
      BY DEF DoomInv, Rejecting
    <3>2. FailureOf("socket_field") = "NETWORK_REJECT"
      BY <3>1 DEF FailureOf
    <3> QED BY <1>5, <3>1, <3>2 DEF Consume, Goto, None
  <2> QED BY <2>1, <2>2, <2>3, <2>4 DEF DoomInv
<1>6. CASE Validate
  <2>1. UNCHANGED <<fault, hit, at, run>> /\ pc = "validate" /\ run # "attached"
    BY <1>6 DEF Validate, Others, PlaceInv
  <2>2. Step' = Step
    BY <2>1, CorrIsKept
  <2>3. hit => fault.what \notin {"drop", "timer_timeout", "socket_drop", "socket_field"}
    BY <2>1 DEF DoomInv
  <2>4. hit /\ fault.what = "sib" => pc' = "raised"
    BY <1>6 DEF Validate, Goto
  <2> QED BY <2>1, <2>2, <2>3, <2>4 DEF DoomInv
<1>7. CASE Moves
  <2>1. UNCHANGED <<fault, hit>>
    BY <1>7 DEF Moves
  <2>2. CASE pc = "raised" /\ run' = "failing" /\ UNCHANGED <<at, pc, stop>>
    BY <2>1, <2>2, DoomIsKept
  <2>3. CASE /\ pc = "answered" /\ at < 3 /\ run' = "running" /\ at' = at + 1
             /\ pc' = (IF at = 1 THEN "validate" ELSE "request")
    <3>1. hit => fault.what \notin {"drop", "timer_timeout", "socket_drop", "socket_field"}
      BY <2>3 DEF DoomInv
    <3>2. hit /\ fault.what = "sib" => at = 1
      BY <1>0, <2>3 DEF DoomInv
    <3> QED BY <2>1, <2>3, <3>1, <3>2 DEF DoomInv
  <2>4. CASE /\ pc = "answered" /\ at = 3 /\ run' = "attached" /\ pc' = "done" /\ at' = at
    <3>1. hit => fault.what \notin {"drop", "timer_timeout", "socket_drop", "socket_field", "sib"}
      BY <2>4 DEF DoomInv
    <3> QED BY <2>1, <2>4, <3>1 DEF DoomInv
  <2> QED BY <1>7, <2>2, <2>3, <2>4 DEF Moves
<1>8. CASE \/ Serve \/ Answer \/ \E s \in Exchanges : Expire(s) \/ Publish(s) \/ CallBack(s)
           \/ Expired \/ FinishFailure \/ UNCHANGED vars
  <2>1. UNCHANGED <<fault, hit, at, pc>> /\ (run' = run \/ run' # "attached")
    BY <1>8 DEF Serve, Answer, Expire, Publish, CallBack, Expired, FinishFailure, vars,
                Others, TimerRest
  <2> QED BY <2>1, DoomIsKept
<1> QED BY StepKinds, NotesRow, TakeResultMoves, <1>1, <1>2, <1>3, <1>4, <1>5, <1>6, <1>7, <1>8
      DEF Next, Peer, Timer, Deliver

-----------------------------------------------------------------------------
(* The rows.                                                               *)

\* An exchange that has raised or been dropped is the last one.
LEMMA LastPlaces ==
  ASSUME TypeInv, PlaceInv, [Next]_vars
  PROVE  /\ fault' = fault /\ (hit => hit')
         /\ pc \in {"raised", "done"} => pc' = pc /\ at' = at
<1>1. CASE \E r \in Records : Notes(r)
  BY <1>1 DEF Notes, Others
<1>2. CASE Advances
  BY <1>2 DEF Advances, Others
<1>3. CASE Serve \/ Answer
  BY <1>3 DEF Serve, Answer, Others
<1>4. CASE \E s \in Exchanges : Expire(s) \/ Publish(s) \/ CallBack(s)
  BY <1>4 DEF Expire, Publish, CallBack, TimerRest
<1>5. CASE Moves
  BY <1>5 DEF Moves
<1>6. CASE Expired \/ FinishFailure \/ UNCHANGED vars
  BY <1>6 DEF Expired, FinishFailure, vars
<1> QED BY StepKinds, <1>1, <1>2, <1>3, <1>4, <1>5, <1>6

LEMMA GenuineIsKept ==
  ASSUME TypeInv, PlaceInv, [Next]_vars, NEW r, Genuine(r)
  PROVE  Genuine(r)' /\ (Made(r) /\ at' = at => Made(r)')
<1>1. /\ fault' = fault /\ (hit => hit')
      /\ pc \in {"raised", "done"} => pc' = pc /\ Corr' = Corr
      /\ at' = at => Corr' = Corr
  BY LastPlaces, CorrIsKept
<1>2. FaultRoot' = FaultRoot
  BY <1>1 DEF FaultRoot
<1>3. Genuine(r)'
  BY <1>1, <1>2 DEF Genuine
<1> QED BY <1>1, <1>3 DEF Made

LEMMA RowsStep ==
  ASSUME TypeInv, PlaceInv, RowsInv, [Next]_vars
  PROVE  RowsInv'
<1>1. /\ \A r \in Rows(log) : Genuine(r)'
      /\ \A r \in Rows(todo) \cup Rows(peer.todo) : Genuine(r)' /\ (at' = at => Made(r)')
  <2>1. ASSUME NEW r \in Rows(log) PROVE Genuine(r)'
    BY GenuineIsKept DEF RowsInv
  <2>2. ASSUME NEW r \in Rows(todo) \cup Rows(peer.todo)
        PROVE  Genuine(r)' /\ (at' = at => Made(r)')
    <3>1. Made(r) /\ Genuine(r)
      BY DEF RowsInv, Made
    <3> QED BY <3>1, GenuineIsKept
  <2> QED BY <2>1, <2>2
<1>2. ASSUME NEW r \in Records, Notes(r) PROVE RowsInv'
  <2>1. now' \in Times /\ Record(r, now') /\ at' = at
    BY <1>2, TicksAreLater DEF Notes, TypeInv, Others
  <2>2. PICK x \in Records : Rows(log') = Rows(log) \cup {x} /\ (Genuine(r) => Genuine(x))
    BY <2>1, RecordAddsRow
  <2>3. r \in Rows(todo) \cup Rows(peer.todo)
        /\ Rows(todo') \subseteq Rows(todo) /\ Rows(peer'.todo) \subseteq Rows(peer.todo)
    BY <1>2 DEF Notes
  <2>4. Genuine(x)'
    BY <2>2, <2>3, GenuineIsKept DEF RowsInv, Made
  <2> QED BY <1>1, <2>1, <2>2, <2>3, <2>4 DEF RowsInv
<1>3. CASE Advances
  <2>1. at' = at /\ log' = log /\ peer'.todo = peer.todo /\ \A r \in Rows(todo') : Made(r)'
    BY <1>3 DEF Advances, Writes, Others
  <2> QED BY <1>1, <2>1 DEF RowsInv
<1>4. CASE Serve
  <2>1. at' = at /\ log' = log /\ todo' = todo
    BY <1>4 DEF Serve, Others
  <2> QED BY <1>1, <1>4, <2>1, ServeWrites DEF RowsInv
<1>5. CASE Answer
  <2>1. at' = at /\ log' = log /\ todo' = todo /\ peer'.todo = peer.todo
    BY <1>5 DEF Answer, Others, TypeInv
  <2> QED BY <1>1, <2>1 DEF RowsInv
<1>6. ASSUME NEW s \in Exchanges, CallBack(s) PROVE RowsInv'
  <2>1. /\ ExpiryRow(s) \in Records /\ guard[s].time \in Times
        /\ Record(ExpiryRow(s), guard[s].time) /\ UNCHANGED <<at, todo, peer>>
    BY <1>6, ExpiryIsRecord DEF CallBack, TimerRest, TypeInv
  <2>2. Genuine(ExpiryRow(s))
    BY DEF ExpiryRow, Genuine, Endings
  <2>3. PICK x \in Records : Rows(log') = Rows(log) \cup {x} /\ Genuine(x)
    BY <2>1, <2>2, RecordAddsRow
  <2>4. Genuine(x)'
    BY <2>3, GenuineIsKept
  <2> QED BY <1>1, <2>1, <2>3, <2>4 DEF RowsInv
<1>7. CASE Moves
  <2>1. UNCHANGED <<todo, peer, log>> /\ todo = <<>>
    BY <1>7 DEF Moves
  <2>2. at' = at \/ Rows(peer.todo) = {}
    BY <1>7, NoRows DEF Moves, PlaceInv
  <2> QED BY <1>1, <2>1, <2>2, NoRows DEF RowsInv
<1>8. CASE \/ \E s \in Exchanges : Expire(s) \/ Publish(s)
           \/ Expired \/ FinishFailure \/ UNCHANGED vars
  <2>1. UNCHANGED <<at, todo, peer, log>>
    BY <1>8 DEF Expire, Publish, Expired, FinishFailure, vars, TimerRest
  <2> QED BY <1>1, <2>1 DEF RowsInv
<1> QED BY StepKinds, <1>2, <1>3, <1>4, <1>5, <1>6, <1>7, <1>8

-----------------------------------------------------------------------------
(* The order of the exchanges, and the evidence of a failure.              *)

\* No row of an exchange but its guard's is recorded once the next has begun.
LEMMA OrderStep ==
  ASSUME TypeInv, PlaceInv, ClockInv, GuardInv, RowsInv, OrderInv, [Next]_vars
  PROVE  OrderInv'
<1>0. /\ at \in 1..3 /\ now \in Times
      /\ \A s \in Exchanges : guard[s].time \in Times
      /\ \A r \in Rows(log) : r.time \in Times /\ r.corr \in Exchanges
      /\ "authentication" \in Exchanges
  <2>1. Rows(log) \subseteq Records
    BY RowsAreFinite DEF TypeInv
  <2> QED BY <2>1 DEF TypeInv, Records, Exchanges
<1>1. /\ at < 3 => Corr = "mib_sib_read"
      /\ at = 3 => Corr = "authentication"
  BY <1>0, StepsInOrder
<1>2. ASSUME NEW r \in Records, Notes(r) PROVE OrderInv'
  <2>1. now' \in Times /\ Earlier(now, now') /\ Record(r, now') /\ at' = at /\ guard' = guard
    BY <1>0, <1>2, TicksAreLater DEF Notes, Others
  <2>2. PICK x \in Records : /\ Rows(log') = Rows(log) \cup {x} /\ x.time = now'
                             /\ x.corr = r.corr
    BY <2>1, RecordAddsRow
  <2>3. r.corr = Corr
    BY <1>2 DEF Notes, RowsInv, Made
  <2>4. \A q \in Rows(log) : Earlier(q.time, now')
    BY <1>0, <2>1, EarlierIsOrder DEF ClockInv
  <2> QED BY <1>0, <1>1, <2>1, <2>2, <2>3, <2>4 DEF OrderInv
<1>3. ASSUME NEW s \in Exchanges, Expire(s) PROVE OrderInv'
  <2>1. /\ at' = at /\ log' = log
        /\ \A t \in Exchanges : guard'[t].at = "published" => guard'[t] = guard[t]
    BY <1>3 DEF Expire, TimerRest, TypeInv
  <2> QED BY <1>0, <2>1 DEF OrderInv
<1>4. ASSUME NEW s \in Exchanges, Publish(s) PROVE OrderInv'
  <2>1. /\ at' = at /\ log' = log /\ now' \in Times /\ Earlier(now, now')
        /\ guard'[s].time = now' /\ \A t \in Exchanges : t # s => guard'[t] = guard[t]
    BY <1>0, <1>4, TicksAreLater DEF Publish, TimerRest, TypeInv
  <2>2. \A q \in Rows(log) : Earlier(q.time, now')
    BY <1>0, <2>1, EarlierIsOrder DEF ClockInv
  <2> QED BY <1>0, <2>1, <2>2 DEF OrderInv
<1>5. ASSUME NEW s \in Exchanges, CallBack(s) PROVE OrderInv'
  <2>1. /\ at' = at /\ guard[s].at = "published" /\ Record(ExpiryRow(s), guard[s].time)
        /\ ExpiryRow(s) \in Records /\ ExpiryRow(s).event = "TIMER_EXPIRED"
        /\ ExpiryRow(s).corr = s
        /\ \A t \in Exchanges : guard'[t].at = "published" => guard'[t] = guard[t]
    BY <1>5, ExpiryIsRecord DEF CallBack, TimerRest, TypeInv
  <2>2. PICK x \in Records : /\ Rows(log') = Rows(log) \cup {x} /\ x.time = guard[s].time
                             /\ x.event = "TIMER_EXPIRED" /\ x.corr = s
    BY <1>0, <2>1, RecordAddsRow
  <2>3. s = "mib_sib_read" \/ s = "authentication"
    BY DEF Exchanges
  <2>4. at < 3 => s = "mib_sib_read"
    BY <2>1, <2>3 DEF GuardInv
  <2> QED BY <1>0, <2>1, <2>2, <2>3, <2>4 DEF OrderInv
<1>6. CASE Moves
  <2>1. log' = log
    BY <1>6 DEF Moves
  <2>2. CASE at' = at
    <3>1. guard'["authentication"].at = "published" =>
            /\ guard["authentication"].at = "published"
            /\ guard'["authentication"].time = guard["authentication"].time
      <4>1. \/ guard'["authentication"] = guard["authentication"]
            \/ guard'["authentication"] = StopGuard(guard, "authentication")["authentication"]
        BY <1>0, <1>6, <2>2 DEF Moves
      <4> QED BY <1>0, <4>1, GuardsStopped
    <3> QED BY <1>0, <2>1, <2>2, <3>1 DEF OrderInv
  <2>3. CASE at' # at
    <3>1. at < 3 /\ at' = at + 1 /\ pc = "answered"
      BY <1>6, <2>3 DEF Moves
    <3>2. \A r \in Rows(log) : r.corr = "mib_sib_read"
      BY <3>1 DEF OrderInv
    <3>3. at' = 3 => guard'["authentication"].at = "running"
      <4> SUFFICES ASSUME at = 2 PROVE guard'["authentication"].at = "running"
        BY <1>0, <3>1
      <4>1. guard'["authentication"] = [guard["authentication"] EXCEPT !.at = "running"]
        BY <1>0, <1>6, <3>1, StepsInOrder DEF Moves
      <4> QED BY <1>0, <4>1 DEF TypeInv
    <3> QED BY <2>1, <3>2, <3>3 DEF OrderInv
  <2> QED BY <2>2, <2>3
<1>7. CASE FinishFailure
  <2>1. at' = at /\ log' = log
    BY <1>7 DEF FinishFailure
  <2>2. guard'["authentication"].at = "published" =>
          /\ guard["authentication"].at = "published"
          /\ guard'["authentication"].time = guard["authentication"].time
    BY <1>0, <1>7, FailureStops
  <2> QED BY <1>0, <2>1, <2>2 DEF OrderInv
<1>8. CASE Advances \/ Serve \/ Answer \/ Expired \/ UNCHANGED vars
  <2>1. log' = log /\ guard' = guard /\ at' = at
    BY <1>8 DEF Advances, Serve, Answer, Expired, vars, Others
  <2> QED BY <2>1 DEF OrderInv
<1> QED BY StepKinds, <1>2, <1>3, <1>4, <1>5, <1>6, <1>7, <1>8

LEMMA SnapshotIsKept ==
  ASSUME TypeInv, seen' = seen,
         log' = log \/ \E row \in Records, t \in Times : Record(row, t)
  PROVE  Snapshot' = Snapshot
<1>1. CASE log' = log
  BY <1>1 DEF Snapshot
<1>2. ASSUME NEW row \in Records, NEW t \in Times, Record(row, t)
      PROVE  Snapshot' = Snapshot
  <2>1. \A n \in 0..Len(log) : SubSeq(log', 1, n) = SubSeq(log, 1, n)
    BY <1>2, RecordAdds
  <2> QED BY <2>1 DEF Snapshot, TypeInv
<1> QED BY <1>1, <1>2

LEMMA RowsOfPrefix ==
  ASSUME TypeInv, NEW n \in 0..Len(log)
  PROVE  /\ Rows(SubSeq(log, 1, n)) \subseteq Rows(log)
         /\ n = Len(log) => Rows(SubSeq(log, 1, n)) = Rows(log)
<1>1. /\ Len(log) \in Nat /\ DOMAIN log = 1..Len(log)
      /\ SubSeq(log, 1, n) = [i \in 1..n |-> log[i]]
  BY DEF TypeInv
<1>2. DOMAIN SubSeq(log, 1, n) = 1..n /\ \A i \in 1..n : SubSeq(log, 1, n)[i] = log[i]
  BY <1>1
<1>3. 1..n \subseteq 1..Len(log)
  BY <1>1
<1> QED BY <1>1, <1>2, <1>3 DEF Rows, ToSet

\* The evidence of a failure stays.
LEMMA EndIsKept ==
  ASSUME TypeInv, EndInv, at' = at, run' = run, seen' = seen,
         log' = log \/ \E row \in Records, t \in Times : Record(row, t),
         InExchange /\ guard[Step].at = "expired" /\ status[Step] = "EXPIRED" =>
           guard'[Step].at = "expired" /\ status'[Step] = "EXPIRED"
  PROVE  EndInv'
<1>1. Step' = Step /\ Corr' = Corr /\ InExchange' = InExchange
  BY CorrIsKept
<1>2. Snapshot' = Snapshot
  BY SnapshotIsKept
<1>3. Rows(log) \subseteq Rows(log')
  BY RecordAddsRow
<1> QED BY <1>1, <1>2, <1>3 DEF EndInv

LEMMA EndStep ==
  ASSUME TypeInv, PlaceInv, GuardInv, EndInv, [Next]_vars
  PROVE  EndInv'
<1>0. now \in Times /\ \A s \in Exchanges : guard[s].time \in Times
  BY DEF TypeInv
<1>1. ASSUME NEW r \in Records, Notes(r) PROVE EndInv'
  <2>1. now' \in Times /\ Record(r, now') /\ UNCHANGED <<at, run, seen, guard, status>>
    BY <1>0, <1>1, TicksAreLater DEF Notes, Others
  <2> QED BY <2>1, EndIsKept
<1>2. ASSUME NEW s \in Exchanges, Expire(s) PROVE EndInv'
  <2>1. /\ UNCHANGED <<at, run, seen, log, status>> /\ guard[s].at = "running"
        /\ \A t \in Exchanges : t # s => guard'[t] = guard[t]
    BY <1>2 DEF Expire, TimerRest, TypeInv
  <2> QED BY <2>1, EndIsKept DEF InExchange
<1>3. ASSUME NEW s \in Exchanges, Publish(s) PROVE EndInv'
  <2>1. /\ UNCHANGED <<at, run, seen, log>> /\ guard[s].at = "taken"
        /\ \A t \in Exchanges : t # s => guard'[t] = guard[t] /\ status'[t] = status[t]
    BY <1>3 DEF Publish, TimerRest, TypeInv
  <2> QED BY <2>1, EndIsKept DEF InExchange
<1>4. ASSUME NEW s \in Exchanges, CallBack(s) PROVE EndInv'
  <2>1. /\ UNCHANGED <<at, run, seen, status>> /\ guard'[s].at = "expired"
        /\ \A t \in Exchanges : t # s => guard'[t] = guard[t]
        /\ Record(ExpiryRow(s), guard[s].time)
    BY <1>4 DEF CallBack, TimerRest, TypeInv
  <2>2. ExpiryRow(s) \in Records
    BY ExpiryIsRecord
  <2> QED BY <1>0, <2>1, <2>2, EndIsKept DEF InExchange
<1>5. CASE Expired
  <2>1. /\ run = "running" /\ InExchange /\ guard[Step].at = "expired"
        /\ run' = "failing" /\ UNCHANGED <<at, guard, status, log>>
    BY <1>5 DEF Expired
  <2> QED BY <2>1, CorrIsKept DEF EndInv, GuardInv
<1>6. CASE Moves
  <2>1. CASE pc = "raised" /\ run' = "failing" /\ at' = at
    <3>1. todo = <<>> /\ log' = log
      BY <1>6 DEF Moves
    <3>2. \E r \in Rows(log) : r.event \in Endings /\ r.corr = Corr
      BY <2>1, <3>1, NoRows DEF PlaceInv
    <3> QED BY <2>1, <3>1, <3>2, CorrIsKept DEF EndInv
  <2>2. CASE run' \in {"running", "attached"}
    BY <2>2 DEF EndInv
  <2> QED BY <1>6, <2>1, <2>2 DEF Moves
<1>7. CASE FinishFailure
  <2>1. run = "failing" /\ run' = "failed" /\ UNCHANGED <<at, log>> /\ seen' = Len(log)
    BY <1>7 DEF FinishFailure
  <2>2. Snapshot' = Rows(log)
    <3>1. Len(log) \in 0..Len(log)
      BY DEF TypeInv
    <3> QED BY <2>1, <3>1, RowsOfPrefix DEF Snapshot
  <2>3. InExchange /\ guard[Step].at = "expired" /\ status[Step] = "EXPIRED" =>
           guard'[Step].at = "expired" /\ status'[Step] = "EXPIRED"
    BY <1>7, FailureStops DEF InExchange
  <2> QED BY <2>1, <2>2, <2>3, CorrIsKept DEF EndInv
<1>8. CASE Advances \/ Serve \/ Answer \/ UNCHANGED vars
  <2>1. UNCHANGED <<at, run, seen, log, guard, status>>
    BY <1>8 DEF Advances, Serve, Answer, vars, Others
  <2> QED BY <2>1, EndIsKept
<1> QED BY StepKinds, <1>1, <1>2, <1>3, <1>4, <1>5, <1>6, <1>7, <1>8

THEOREM DiagnosisInvHolds == Spec => []DiagnosisInv
<1>1. Init => DiagnosisInv
  BY InitIsTyped
<1>2. DiagnosisInv /\ [Next]_vars => DiagnosisInv'
  BY TypeStep, ClockStep, GuardStep, PlaceStep, DoomStep, RowsStep, OrderStep, EndStep
     DEF DiagnosisInv
<1> QED BY <1>1, <1>2, PTL DEF Spec

-----------------------------------------------------------------------------
(* What analyze finds in a set of recorded rows.                           *)

LEMMA LastIsThere ==
  ASSUME DiagnosisInv, NEW S, S \subseteq Rows(log)
  PROVE  /\ S = {} => LastOf(S) = NoRow
         /\ S # {} => LastOf(S) \in S /\ \A q \in S \ {LastOf(S)} : Before(q, LastOf(S))
         /\ LastOf(S) = NoRow <=> S = {}
         /\ S \subseteq Records
<1>1. Rows(log) \subseteq Records /\ IsFiniteSet(Rows(log))
  BY RowsAreFinite DEF DiagnosisInv, TypeInv
<1>2. S \subseteq Records /\ IsFiniteSet(S)
  BY <1>1, FS_Subset
<1>3. S = {} => LastOf(S) = NoRow
  BY DEF LastOf
<1>4. S # {} => LastOf(S) \in S /\ \A q \in S \ {LastOf(S)} : Before(q, LastOf(S))
  <2>1. \A r \in S : r.time \in Times
    BY <1>2 DEF Records
  <2>2. \A q, r \in S : q.time = r.time => q = r
    BY DEF DiagnosisInv, ClockInv
  <2> QED BY <1>2, <2>1, <2>2, LastExists
<1>5. NoRow \notin Records
  BY DEF NoRow, Records, None, DecisiveEvents, DecisionEvents
<1> QED BY <1>2, <1>3, <1>4, <1>5

\* The answers that were received and carried a rejection.
Refused(S) == {r \in S : r.event = "SOCKET_RX" /\ r.decision \in {"REJECT", "DROP"}}

LEMMA RecordedRows ==
  ASSUME DiagnosisInv
  PROVE  /\ \A r \in Rows(log) : Genuine(r) /\ r \in Records
         /\ Snapshot \subseteq Rows(log)
         /\ Step \in Steps /\ Corr \in Exchanges /\ Corr # None
<1>1. Rows(log) \subseteq Records
  BY RowsAreFinite DEF DiagnosisInv, TypeInv
<1>2. Snapshot \subseteq Rows(log)
  BY RowsOfPrefix DEF DiagnosisInv, TypeInv, Snapshot
<1>3. Step \in Steps /\ Corr \in Exchanges
  BY RowsAreRecords DEF DiagnosisInv, TypeInv
<1>4. None \notin Exchanges
  BY DEF None, Exchanges
<1> QED BY <1>1, <1>2, <1>3, <1>4 DEF DiagnosisInv, RowsInv

\* What the one who refused has recorded, or said in his answer.
RefusalCause ==
  IF fault.what = "sib" THEN Cause("system_info_validate") ELSE Cause(fault.stage)

LEMMA Refusals ==
  ASSUME DiagnosisInv, NEW S, S \subseteq Rows(log), NEW d \in Failed(S) \cup Refused(S)
  PROVE  /\ hit /\ d \in S /\ d.event # "FAULT_INJECTED"
         /\ \/ d.decision = "DROP" /\ fault.what \in Dropped
            \/ d.decision = "REJECT" /\ fault.what \in {"socket_field", "sib"}
               /\ d.cause = RefusalCause
<1>1. d \in Rows(log) /\ Genuine(d) /\ d.decision \in {"REJECT", "DROP"}
      /\ d.event \in DecisionEvents \cup {"SOCKET_RX"}
  BY RecordedRows DEF Failed, Refused
<1> QED BY <1>1 DEF Genuine, Failed, Refused, RefusalCause, DecisionEvents

LEMMA RelatedRows ==
  ASSUME NEW E
  PROVE  Related(E) \subseteq E
BY DEF Related, LastRows

\* The decision that is named is one of the evidence, whenever there is one.
LEMMA DecisionIsFound ==
  ASSUME DiagnosisInv, NEW E, E \subseteq Rows(log)
  PROVE  /\ Failed(E) \cup Refused(E) # {} => DecisionOf(E, Step) \in Failed(E) \cup Refused(E)
         /\ Failed(E) \cup Refused(E) = {} => DecisionOf(E, Step) = NoRow
<1> DEFINE rel == Related(E)
           ofStep == {r \in E : r.step = Step}
           others == Recovered(ofStep \ rel)
<1>1. rel \subseteq E /\ ofStep \subseteq E
  BY RelatedRows
<1> HIDE DEF rel, ofStep
<1>2. /\ Failed(rel) \subseteq Failed(E) /\ Failed(ofStep) \subseteq Failed(E)
      /\ Refused(rel) \subseteq Refused(E) /\ Refused(ofStep \ rel) \subseteq Refused(E)
  BY <1>1 DEF Failed, Refused
<1>3. /\ Failed(E) \subseteq Rows(log) /\ Failed(rel) \subseteq Rows(log)
      /\ Failed(ofStep) \subseteq Rows(log)
      /\ Refused(rel) \subseteq Rows(log) /\ Refused(ofStep \ rel) \subseteq Rows(log)
  BY <1>1 DEF Failed, Refused
<1>4. /\ Failed(E) # {} => LastOf(Failed(E)) \in Failed(E)
      /\ Failed(rel) # {} => LastOf(Failed(rel)) \in Failed(rel)
      /\ Failed(ofStep) # {} => LastOf(Failed(ofStep)) \in Failed(ofStep)
  BY <1>3, LastIsThere
<1>5. /\ others = LastOf(Refused(ofStep \ rel)) /\ Recovered(rel) = LastOf(Refused(rel))
  BY DEF Recovered, Refused
<1>6. /\ others = NoRow <=> Refused(ofStep \ rel) = {}
      /\ others # NoRow => others \in Refused(ofStep \ rel)
      /\ Refused(rel) = {} => Recovered(rel) = NoRow
      /\ Refused(rel) # {} => Recovered(rel) \in Refused(rel)
  BY <1>3, <1>5, LastIsThere
<1>7. Refused(E) \subseteq Refused(rel) \cup Refused(ofStep \ rel)
  <2> SUFFICES ASSUME NEW r \in Refused(E) PROVE r.step = Step
    BY <1>1 DEF Refused, ofStep
  <2>1. r \in Rows(log) /\ Genuine(r)
    BY RecordedRows DEF Refused
  <2>2. hit /\ fault.what = "socket_field" /\ r.step = fault.stage
    BY <2>1 DEF Genuine, Refused
  <2> QED BY <2>2 DEF DiagnosisInv, DoomInv
<1>8. /\ Failed(rel) # {} => DecisionOf(E, Step) = LastOf(Failed(rel))
      /\ Failed(rel) = {} /\ Failed(ofStep) # {} => DecisionOf(E, Step) = LastOf(Failed(ofStep))
      /\ Failed(rel) = {} /\ Failed(ofStep) = {} /\ Failed(E) # {} =>
           DecisionOf(E, Step) = LastOf(Failed(E))
      /\ Failed(rel) = {} /\ Failed(ofStep) = {} /\ Failed(E) = {} =>
           DecisionOf(E, Step) = IF others # NoRow THEN others ELSE Recovered(rel)
  BY DEF DecisionOf, rel, ofStep
<1> HIDE DEF others
<1> QED BY <1>2, <1>4, <1>6, <1>7, <1>8

\* The report of a run is about a set of rows that holds the evidence of its end.
Evidence(E) ==
  /\ E \subseteq Rows(log)
  /\ \E r \in E : r.corr = Corr /\ r.event \in Endings \cup {"TIMER_EXPIRED"}

LEMMA FailureIsRelated ==
  ASSUME DiagnosisInv, ~LateGuard, ~FullSecond, NEW E, Evidence(E)
  PROVE  /\ Decisive(E).corr = Corr /\ Decisive(E) # NoRow
         /\ Related(E) = {r \in E : r.corr = Corr}
<1> DEFINE C == {r \in E : r.event \in DecisiveEvents \/ r.root # None}
           d == LastOf(C)
<1>1. PICK e \in E : e.corr = Corr /\ e.event \in Endings \cup {"TIMER_EXPIRED"}
  BY DEF Evidence
<1>2. C \subseteq Rows(log) /\ e \in C
  BY <1>1 DEF Evidence, DecisiveEvents, Endings
<1>3. d \in C /\ \A q \in C \ {d} : Before(q, d)
  <2> HIDE DEF C
  <2> QED BY <1>2, LastIsThere
<1>4. d.corr = Corr
  <2> SUFFICES ASSUME d.corr # Corr PROVE FALSE
    OBVIOUS
  <2>1. d \in Rows(log) /\ e \in Rows(log) /\ d \in Records /\ e \in Records
    BY <1>2, <1>3, RecordedRows
  <2>2. d.event # "TIMER_EXPIRED"
    BY <2>1 DEF LateGuard
  <2>3. at = 3 /\ d.corr = "mib_sib_read" /\ e.corr = "authentication"
    <3>1. at \in 1..3 /\ d.corr \in {"mib_sib_read", "authentication"}
      BY <2>1 DEF DiagnosisInv, TypeInv, Records, Exchanges
    <3>2. at < 3 => d.corr = Corr
      BY <2>1, <3>1, StepsInOrder DEF DiagnosisInv, OrderInv
    <3>3. at = 3 /\ Corr = "authentication"
      BY <3>1, <3>2, StepsInOrder
    <3> QED BY <1>1, <3>1, <3>3
  <2>4. Earlier(d.time, e.time)
    BY <2>1, <2>2, <2>3 DEF DiagnosisInv, OrderInv
  <2>5. Before(e, d)
    BY <1>2, <1>3, <2>3
  <2>6. d.time \in Times /\ e.time \in Times /\ d.time.frac # 0 /\ e.time.frac # 0
    BY <2>1 DEF Records, FullSecond
  <2> QED BY <2>4, <2>5, <2>6 DEF Earlier, Before, Times
<1>5. Decisive(E) = d
  BY DEF Decisive
<1>6. d # NoRow
  BY <1>2, <1>3, LastIsThere
<1> HIDE DEF d, C
<1> QED BY <1>4, <1>5, <1>6, RecordedRows DEF Related

LEMMA WholeIsSeen ==
  ASSUME NEW S
  PROVE  Events(S, FALSE) = S /\ Events(S, TRUE) = {r \in S : r.event # "FAULT_INJECTED"}
BY DEF Events

LEMMA SnapshotIsEvidence ==
  ASSUME DiagnosisInv, Reported
  PROVE  Evidence(Snapshot) /\ Evidence(Events(Snapshot, TRUE))
<1>1. \E r \in Snapshot : r.corr = Corr /\ r.event \in Endings \cup {"TIMER_EXPIRED"}
  BY DEF DiagnosisInv, EndInv, Reported
<1>2. Snapshot \subseteq Rows(log)
  BY RecordedRows
<1> QED BY <1>1, <1>2, WholeIsSeen DEF Evidence, Endings

-----------------------------------------------------------------------------
(* The report.                                                             *)

\* analyze names the exchange that failed, in every instance: the only rows that
\* may draw it to an earlier one are a late callback of that one's guard and a
\* row that was recorded in a full second.
THEOREM ReportsAreAboutTheFailure == Spec => []ReportIsAboutTheFailure
<1>1. DiagnosisInv => ReportIsAboutTheFailure
  <2> SUFFICES ASSUME DiagnosisInv, Orderly PROVE Report.corr = Corr
    BY DEF ReportIsAboutTheFailure
  <2>1. Evidence(Snapshot) /\ Events(Snapshot, FALSE) = Snapshot
    BY SnapshotIsEvidence, WholeIsSeen DEF Orderly
  <2>2. Decisive(Snapshot).corr = Corr
    BY <2>1, FailureIsRelated DEF Orderly
  <2> QED BY <2>1, <2>2 DEF Report, Analyze
<1> QED BY <1>1, DiagnosisInvHolds, PTL

\* What Analyze makes of the decision it finds.
LEMMA VerdictOfRefusal ==
  ASSUME DiagnosisInv, NEW S, NEW blind \in BOOLEAN, Events(S, blind) \subseteq Rows(log),
         Failed(Events(S, blind)) \cup Refused(Events(S, blind)) # {}
  PROVE  LET a == Analyze(S, Step, blind)
         IN  /\ a.decision \in {"REJECT", "DROP"}
             /\ fault.what \in {"socket_field", "sib"} =>
                  a.decision = "REJECT" /\ a.verdict = RefusalCause
             /\ fault.what \notin {"socket_field", "sib"} => a.decision = "DROP"
<1> DEFINE E == Events(S, blind)
           d == DecisionOf(E, Step)
<1>1. d \in Failed(E) \cup Refused(E)
  BY DecisionIsFound
<1>2. \/ d.decision = "DROP" /\ fault.what \in Dropped
      \/ d.decision = "REJECT" /\ fault.what \in {"socket_field", "sib"} /\ d.cause = RefusalCause
  BY <1>1, Refusals
<1>3. /\ Analyze(S, Step, blind).decision = d.decision
      /\ d.decision = "REJECT" => Analyze(S, Step, blind).verdict = d.cause
  <2> HIDE DEF d
  <2> QED BY DEF Analyze, d
<1> HIDE DEF d
<1> QED BY <1>2, <1>3 DEF Dropped

\* analyze names a rejection exactly when there is one in the evidence, and keeps
\* its verdict when the events that state it are lost and only the answer on the
\* wire carries it.
THEOREM RejectionsAreKept == Spec => []RejectionIsKept
<1>1. DiagnosisInv => RejectionIsFound
  <2> SUFFICES ASSUME DiagnosisInv
               PROVE  (Report.decision \in {"REJECT", "DROP"}) <=>
                        (Failed(Snapshot) # {} \/ Recovered(Snapshot) # NoRow)
    BY DEF RejectionIsFound
  <2>1. Events(Snapshot, FALSE) = Snapshot /\ Snapshot \subseteq Rows(log)
    BY WholeIsSeen, RecordedRows
  <2>2. Recovered(Snapshot) # NoRow <=> Refused(Snapshot) # {}
    <3>1. Refused(Snapshot) \subseteq Rows(log)
      BY <2>1 DEF Refused
    <3>2. Recovered(Snapshot) = LastOf(Refused(Snapshot))
      BY DEF Recovered, Refused
    <3> QED BY <3>1, <3>2, LastIsThere
  <2>3. CASE Failed(Snapshot) \cup Refused(Snapshot) # {}
    BY <2>1, <2>2, <2>3, VerdictOfRefusal DEF Report
  <2>4. CASE Failed(Snapshot) \cup Refused(Snapshot) = {}
    <3>1. DecisionOf(Snapshot, Step) = NoRow
      BY <2>1, <2>4, DecisionIsFound
    <3>2. Report.decision = NoRow.decision
      BY <2>1, <3>1 DEF Report, Analyze
    <3>3. NoRow.decision \notin {"REJECT", "DROP"}
      BY DEF NoRow, None
    <3> QED BY <2>2, <2>4, <3>2, <3>3
  <2> QED BY <2>3, <2>4
<1>2. DiagnosisInv => MirrorLossIsHarmless
  <2> DEFINE lost == {r \in Snapshot : r.event \notin {"DECISION", "GENERATED"}}
  <2> SUFFICES ASSUME DiagnosisInv, Recovered(Snapshot) # NoRow
               PROVE  Analyze(lost, Step, FALSE).verdict = Report.verdict
    BY DEF MirrorLossIsHarmless
  <2>1. /\ Events(Snapshot, FALSE) = Snapshot /\ Snapshot \subseteq Rows(log)
        /\ Events(lost, FALSE) = lost /\ lost \subseteq Rows(log)
    BY WholeIsSeen, RecordedRows
  <2>2. PICK r \in Snapshot : r \in Refused(Snapshot)
    <3>1. Refused(Snapshot) \subseteq Rows(log) /\ Recovered(Snapshot) = LastOf(Refused(Snapshot))
      BY <2>1 DEF Refused, Recovered
    <3>2. Refused(Snapshot) # {}
      BY <3>1, LastIsThere
    <3> QED BY <3>2 DEF Refused
  <2>3. r \in Refused(lost) /\ fault.what = "socket_field"
    <3>1. r.event = "SOCKET_RX" /\ r.decision \in {"REJECT", "DROP"} /\ Genuine(r)
      BY <2>1, <2>2, RecordedRows DEF Refused
    <3> QED BY <2>2, <3>1 DEF Refused, Genuine
  <2> HIDE DEF lost
  <2>4. Report.verdict = RefusalCause
    BY <2>1, <2>2, <2>3, VerdictOfRefusal DEF Report
  <2>5. Analyze(lost, Step, FALSE).verdict = RefusalCause
    BY <2>1, <2>3, VerdictOfRefusal
  <2> QED BY <2>4, <2>5
<1> QED BY <1>1, <1>2, DiagnosisInvHolds, PTL DEF RejectionIsKept

\* The root cause of a run whose socket was in order: the drop, what the consumer
\* found, or the guard's expiry.
LEMMA RootOfEvidence ==
  ASSUME DiagnosisInv, Orderly, ~SocketTrouble, NEW E, E \subseteq Snapshot, Evidence(E)
  PROVE  LET rel == {r \in E : r.corr = Corr}
             ofTimer == IF LastOf(Of(rel, "FAULT_INJECTED")).fault = "drop"
                        THEN "PRIMITIVE_MISSING" ELSE "TIMER_EXPIRED"
         IN  \/ Of(rel, "SOCKET_DROP") # {} /\ Root(E, Step) = "SOCKET_DROP"
             \/ /\ Of(rel, "SOCKET_DROP") = {} /\ Of(rel, "VALIDATION_FAILED") # {}
                /\ hit /\ fault.what \in Consumed /\ Root(E, Step) = FaultRoot
             \/ /\ Of(rel, "SOCKET_DROP") = {} /\ Of(rel, "VALIDATION_FAILED") = {}
                /\ Root(E, Step) = ofTimer
                /\ \E r \in E : r.event = "TIMER_EXPIRED" /\ r.corr = Corr
<1> DEFINE rel == {r \in E : r.corr = Corr}
           failure == LastOf(Of(rel, "VALIDATION_FAILED"))
           faultRow == LastOf(Of(rel, "FAULT_INJECTED"))
           decisive == Decisive(E)
           decision == DecisionOf(E, Step)
<1>1. Related(E) = rel
  BY FailureIsRelated DEF Orderly
<1>2. rel \subseteq Rows(log) /\ rel \subseteq Snapshot
  BY RecordedRows
<1>3. Of(rel, "SOCKET_TIMEOUT") = {} /\ Of(rel, "SOCKET_ERROR") = {}
  BY <1>2 DEF SocketTrouble, Of
<1>4. /\ Of(rel, "VALIDATION_FAILED") = {} => failure = NoRow
      /\ Of(rel, "VALIDATION_FAILED") # {} => failure \in Of(rel, "VALIDATION_FAILED")
      /\ failure = NoRow <=> Of(rel, "VALIDATION_FAILED") = {}
  <2>1. Of(rel, "VALIDATION_FAILED") \subseteq Rows(log)
    BY <1>2 DEF Of
  <2> QED BY <2>1, LastIsThere
<1>5. failure # NoRow => hit /\ fault.what \in Consumed /\ failure.root = FaultRoot
  <2> SUFFICES ASSUME failure # NoRow
               PROVE  hit /\ fault.what \in Consumed /\ failure.root = FaultRoot
    OBVIOUS
  <2>1. failure \in rel /\ failure.event = "VALIDATION_FAILED"
    BY <1>4 DEF Of
  <2> HIDE DEF failure
  <2>2. Genuine(failure) /\ failure.root \notin BadAnswers
    BY <1>2, <2>1, RecordedRows DEF SocketTrouble, BadAnswers
  <2> QED BY <2>1, <2>2 DEF Genuine
<1>6. PICK e \in rel : e.event \in Endings \cup {"TIMER_EXPIRED"}
  BY DEF Evidence
<1>7. Of(rel, "VALIDATION_FAILED") = {} => e.event = "TIMER_EXPIRED"
  BY <1>3, <1>6 DEF Of, Endings
<1> HIDE DEF rel, failure, faultRow, decisive, decision
<1>8. Root(E, Step) =
        CASE Of(rel, "SOCKET_DROP") # {} -> "SOCKET_DROP"
          [] Of(rel, "SOCKET_DROP") = {} /\ Of(rel, "SOCKET_TIMEOUT") # {} -> "SOCKET_TIMEOUT"
          [] OTHER ->
               IF failure # NoRow THEN failure.root
               ELSE IF Of(rel, "TIMER_EXPIRED") # {}
               THEN IF faultRow.fault = "drop" THEN "PRIMITIVE_MISSING" ELSE "TIMER_EXPIRED"
               ELSE IF decision.decision = "REJECT" THEN "NETWORK_REJECT"
               ELSE IF decisive = NoRow THEN "INSUFFICIENT_EVIDENCE"
               ELSE IF decisive.root # None THEN decisive.root ELSE decisive.event
  BY <1>1 DEF Root, failure, faultRow, decisive, decision
<1>9. CASE Of(rel, "SOCKET_DROP") # {}
  <2>1. Root(E, Step) = "SOCKET_DROP"
    BY <1>8, <1>9
  <2> QED BY <1>9, <2>1 DEF rel
<1>10. CASE Of(rel, "SOCKET_DROP") = {} /\ Of(rel, "VALIDATION_FAILED") # {}
  <2>1. Root(E, Step) = failure.root /\ failure # NoRow
    BY <1>3, <1>4, <1>8, <1>10
  <2> QED BY <1>5, <1>10, <2>1 DEF rel
<1>11. CASE Of(rel, "SOCKET_DROP") = {} /\ Of(rel, "VALIDATION_FAILED") = {}
  <2>1. e.event = "TIMER_EXPIRED" /\ Of(rel, "TIMER_EXPIRED") # {} /\ failure = NoRow
    BY <1>4, <1>6, <1>7, <1>11 DEF Of
  <2>2. Root(E, Step) = IF faultRow.fault = "drop" THEN "PRIMITIVE_MISSING" ELSE "TIMER_EXPIRED"
    BY <1>3, <1>8, <1>11, <2>1
  <2>3. e \in E /\ e.corr = Corr
    BY <1>6 DEF rel
  <2> QED BY <1>11, <2>1, <2>2, <2>3 DEF rel, faultRow
<1> QED BY <1>9, <1>10, <1>11

\* Once a fault has hit, and the socket was in order, the root cause is the one the
\* fault stands for, or the expiry of the guard that came before its effects.
THEOREM RootsNameTheFault == Spec => []RootNamesTheFault
<1>1. DiagnosisInv => RootNamesTheFault
  <2> DEFINE rel == {r \in Snapshot : r.corr = Corr}
  <2> SUFFICES ASSUME DiagnosisInv, Orderly, ~SocketTrouble,
                      NEW f \in Of(Snapshot, "FAULT_INJECTED"), f.corr = Corr
               PROVE  \/ Report.root = RootOfFault[fault.what]
                      \/ /\ Report.root = "TIMER_EXPIRED" /\ fault.what # "drop"
                         /\ Of(Snapshot, "VALIDATION_FAILED") = {}
                         /\ Of(Snapshot, "SOCKET_DROP") = {}
    BY DEF RootNamesTheFault
  <2>1. Evidence(Snapshot) /\ Events(Snapshot, FALSE) = Snapshot /\ Snapshot \subseteq Rows(log)
    BY SnapshotIsEvidence, WholeIsSeen, RecordedRows DEF Orderly
  <2>2. Report.root = Root(Snapshot, Step)
    BY <2>1 DEF Report, Analyze
  <2>3. hit /\ f \in rel /\ f.event = "FAULT_INJECTED"
    BY <2>1, RecordedRows DEF Of, Genuine
  <2>4. /\ fault.what \in {"socket_field", "socket_drop", "socket_delay", "field", "sib", "drop",
                           "timer_timeout", "delay", "duplicate"}
    <3>1. [what |-> fault.what, stage |-> fault.stage] \in AllFaults /\ fault.what # None
      BY <2>3 DEF DiagnosisInv, TypeInv, DoomInv
    <3> QED BY <3>1 DEF AllFaults, NoFault
  <2>5. /\ Of(Snapshot, "VALIDATION_FAILED") = Of(rel, "VALIDATION_FAILED")
        /\ Of(Snapshot, "SOCKET_DROP") = Of(rel, "SOCKET_DROP")
    <3> SUFFICES ASSUME NEW r \in Snapshot, r.event \in {"VALIDATION_FAILED", "SOCKET_DROP"}
                 PROVE  r.corr = Corr
      BY DEF Of
    <3>1. Genuine(r)
      BY <2>1, RecordedRows
    <3> QED BY <3>1 DEF Genuine, Endings
  <2>6. LastOf(Of(rel, "FAULT_INJECTED")).fault = fault.what
    <3>1. Of(rel, "FAULT_INJECTED") \subseteq Rows(log) /\ Of(rel, "FAULT_INJECTED") # {}
      BY <2>1, <2>3 DEF Of
    <3>2. LastOf(Of(rel, "FAULT_INJECTED")) \in Of(rel, "FAULT_INJECTED")
      BY <3>1, LastIsThere
    <3>3. \A r \in Of(rel, "FAULT_INJECTED") : r.fault = fault.what
      BY <3>1, RecordedRows DEF Of, Genuine
    <3> QED BY <3>2, <3>3
  <2>7. \/ Of(rel, "SOCKET_DROP") # {} /\ Report.root = "SOCKET_DROP"
        \/ /\ fault.what \in Consumed /\ Report.root = FaultRoot
        \/ /\ Of(rel, "SOCKET_DROP") = {} /\ Of(rel, "VALIDATION_FAILED") = {}
           /\ Report.root = IF fault.what = "drop" THEN "PRIMITIVE_MISSING" ELSE "TIMER_EXPIRED"
    BY <2>1, <2>2, <2>6, RootOfEvidence
  <2>8. Of(rel, "SOCKET_DROP") # {} => fault.what = "socket_drop"
    BY <2>1, RecordedRows DEF Of, Genuine
  <2> HIDE DEF rel
  <2>9. CASE Of(rel, "SOCKET_DROP") # {} /\ Report.root = "SOCKET_DROP"
    <3>1. fault.what = "socket_drop"
      BY <2>8, <2>9
    <3>2. RootOfFault["socket_drop"] = "SOCKET_DROP"
      BY DEF RootOfFault
    <3> QED BY <2>9, <3>1, <3>2
  <2>10. CASE fault.what \in Consumed /\ Report.root = FaultRoot
    BY <2>10 DEF Consumed, FaultRoot, RootOfFault
  <2>11. CASE /\ Of(rel, "SOCKET_DROP") = {} /\ Of(rel, "VALIDATION_FAILED") = {}
              /\ Report.root = IF fault.what = "drop" THEN "PRIMITIVE_MISSING" ELSE "TIMER_EXPIRED"
    <3>1. RootOfFault["drop"] = "PRIMITIVE_MISSING"
      BY DEF RootOfFault
    <3> QED BY <2>5, <2>11, <3>1
  <2> QED BY <2>7, <2>9, <2>10, <2>11
<1> QED BY <1>1, DiagnosisInvHolds, PTL

\* Without the rows of the injection the same rows have the same last decisive
\* event and the same decision.
LEMMA BlindSeesDecision ==
  ASSUME DiagnosisInv, Orderly
  PROVE  LET E == Events(Snapshot, TRUE)
         IN  /\ Decisive(E) = Decisive(Snapshot)
             /\ Related(E) = {r \in Related(Snapshot) : r.event # "FAULT_INJECTED"}
             /\ DecisionOf(E, Step) = DecisionOf(Snapshot, Step)
<1> DEFINE S == Snapshot
           E == Events(Snapshot, TRUE)
           rel == Related(S)
           blindRel == Related(E)
           ofStep(T) == {r \in T : r.step = Step}
<1>1. /\ S \subseteq Rows(log) /\ E = {r \in S : r.event # "FAULT_INJECTED"}
      /\ Evidence(S) /\ Evidence(E)
  BY RecordedRows, WholeIsSeen, SnapshotIsEvidence DEF Orderly
<1>2. \A r \in S : r.event = "FAULT_INJECTED" => r.root = None /\ r.event \notin DecisiveEvents
  <2> SUFFICES ASSUME NEW r \in S, r.event = "FAULT_INJECTED"
               PROVE  r.root = None /\ r.event \notin DecisiveEvents
    OBVIOUS
  <2>1. Genuine(r)
    BY <1>1, RecordedRows
  <2> QED BY <2>1 DEF Genuine, DecisiveEvents, DecisionEvents
<1> HIDE DEF S, E
<1>3. Decisive(E) = Decisive(S)
  <2>1. {r \in E : r.event \in DecisiveEvents \/ r.root # None} =
        {r \in S : r.event \in DecisiveEvents \/ r.root # None}
    BY <1>1, <1>2
  <2> QED BY <2>1 DEF Decisive
<1>4. /\ rel = {r \in S : r.corr = Corr} /\ blindRel = {r \in E : r.corr = Corr}
      /\ blindRel = {r \in rel : r.event # "FAULT_INJECTED"}
  <2>1. rel = {r \in S : r.corr = Corr} /\ blindRel = {r \in E : r.corr = Corr}
    BY <1>1, FailureIsRelated DEF Orderly
  <2> HIDE DEF rel, blindRel
  <2> QED BY <1>1, <2>1
<1> HIDE DEF rel, blindRel
<1>5. /\ Failed(blindRel) = Failed(rel) /\ Failed(E) = Failed(S)
      /\ Failed(ofStep(E)) = Failed(ofStep(S))
  BY <1>1, <1>4 DEF Failed, DecisionEvents
<1>6. /\ Recovered(blindRel) = Recovered(rel)
      /\ Recovered(ofStep(E) \ blindRel) = Recovered(ofStep(S) \ rel)
  <2>1. /\ Refused(blindRel) = Refused(rel)
        /\ Refused(ofStep(E) \ blindRel) = Refused(ofStep(S) \ rel)
    BY <1>1, <1>4 DEF Refused
  <2> QED BY <2>1 DEF Recovered, Refused
<1>7. \A T : DecisionOf(T, Step) =
        CASE Failed(Related(T)) # {} -> LastOf(Failed(Related(T)))
          [] Failed(Related(T)) = {} /\ Failed(ofStep(T)) # {} -> LastOf(Failed(ofStep(T)))
          [] Failed(Related(T)) = {} /\ Failed(ofStep(T)) = {} /\ Failed(T) # {} ->
               LastOf(Failed(T))
          [] OTHER -> IF Recovered(ofStep(T) \ Related(T)) # NoRow
                      THEN Recovered(ofStep(T) \ Related(T)) ELSE Recovered(Related(T))
  BY DEF DecisionOf
<1> HIDE DEF ofStep
<1>8. DecisionOf(E, Step) = DecisionOf(S, Step)
  BY <1>5, <1>6, <1>7 DEF rel, blindRel
<1> QED BY <1>3, <1>4, <1>8 DEF S, E, rel, blindRel

\* The root cause without them is the same but for a dropped primitive.
LEMMA BlindSeesRoot ==
  ASSUME DiagnosisInv, Orderly
  PROVE  \/ Root(Events(Snapshot, TRUE), Step) = Root(Snapshot, Step)
         \/ /\ Root(Snapshot, Step) = "PRIMITIVE_MISSING"
            /\ Root(Events(Snapshot, TRUE), Step) = "TIMER_EXPIRED"
<1> DEFINE S == Snapshot
           E == Events(Snapshot, TRUE)
           rel == Related(S)
           blindRel == Related(E)
           fault1 == LastOf(Of(rel, "FAULT_INJECTED")).fault
           fault2 == LastOf(Of(blindRel, "FAULT_INJECTED")).fault
<1>1. /\ Decisive(E) = Decisive(S) /\ DecisionOf(E, Step) = DecisionOf(S, Step)
      /\ blindRel = {r \in rel : r.event # "FAULT_INJECTED"}
  BY BlindSeesDecision
<1> HIDE DEF S, E, rel, blindRel
<1>2. \A e \in {"SOCKET_DROP", "SOCKET_TIMEOUT", "VALIDATION_FAILED", "TIMER_EXPIRED"} :
        Of(blindRel, e) = Of(rel, e)
  BY <1>1 DEF Of
<1>3. fault2 # "drop"
  <2>1. Of(blindRel, "FAULT_INJECTED") = {}
    BY <1>1 DEF Of
  <2>2. LastOf(Of(blindRel, "FAULT_INJECTED")) = NoRow
    BY <2>1 DEF LastOf
  <2> QED BY <2>2 DEF NoRow, None
<1>4. \A T : Root(T, Step) =
        CASE Of(Related(T), "SOCKET_DROP") # {} -> "SOCKET_DROP"
          [] Of(Related(T), "SOCKET_DROP") = {} /\ Of(Related(T), "SOCKET_TIMEOUT") # {} ->
               "SOCKET_TIMEOUT"
          [] OTHER ->
               IF LastOf(Of(Related(T), "VALIDATION_FAILED")) # NoRow
               THEN LastOf(Of(Related(T), "VALIDATION_FAILED")).root
               ELSE IF Of(Related(T), "TIMER_EXPIRED") # {}
               THEN IF LastOf(Of(Related(T), "FAULT_INJECTED")).fault = "drop"
                    THEN "PRIMITIVE_MISSING" ELSE "TIMER_EXPIRED"
               ELSE IF DecisionOf(T, Step).decision = "REJECT" THEN "NETWORK_REJECT"
               ELSE IF Decisive(T) = NoRow THEN "INSUFFICIENT_EVIDENCE"
               ELSE IF Decisive(T).root # None THEN Decisive(T).root ELSE Decisive(T).event
  BY DEF Root
<1>5. \/ Root(E, Step) = Root(S, Step)
      \/ Root(S, Step) = "PRIMITIVE_MISSING" /\ Root(E, Step) = "TIMER_EXPIRED"
  BY <1>1, <1>2, <1>3, <1>4 DEF rel, blindRel
<1> QED BY <1>5 DEF S, E

\* The rerun that may not see the injection comes to the same verdict on the same
\* rows, but for a dropped primitive; and when it is made later, on more rows, it
\* still names the rejection.
THEOREM BlindRerunsAgree == Spec => []BlindRerunAgrees
<1>1. DiagnosisInv => BlindRerunAgrees
  <2> SUFFICES ASSUME DiagnosisInv, Orderly
               PROVE  /\ Report.decision = "REJECT" => Rerun.verdict = Report.verdict
                      /\ \/ Analyze(Snapshot, Step, TRUE).verdict = Report.verdict
                         \/ /\ Report.root = "PRIMITIVE_MISSING"
                            /\ Analyze(Snapshot, Step, TRUE).root = "TIMER_EXPIRED"
    BY DEF BlindRerunAgrees
  <2>1. /\ Events(Snapshot, FALSE) = Snapshot /\ Snapshot \subseteq Rows(log)
        /\ Events(Rows(log), TRUE) = {r \in Rows(log) : r.event # "FAULT_INJECTED"}
    BY WholeIsSeen, RecordedRows
  <2>2. ASSUME Report.decision = "REJECT" PROVE Rerun.verdict = Report.verdict
    <3>1. Failed(Snapshot) \cup Refused(Snapshot) # {}
      <4> SUFFICES ASSUME Failed(Snapshot) \cup Refused(Snapshot) = {} PROVE FALSE
        OBVIOUS
      <4>1. DecisionOf(Snapshot, Step) = NoRow
        BY <2>1, DecisionIsFound
      <4>2. Report.decision = NoRow.decision
        BY <2>1, <4>1 DEF Report, Analyze
      <4> QED BY <2>2, <4>2 DEF NoRow, None
    <3>2. PICK d \in Failed(Snapshot) \cup Refused(Snapshot) : TRUE
      BY <3>1
    <3>3. d \in Snapshot /\ d.event # "FAULT_INJECTED"
      BY <2>1, Refusals
    <3>4. d \in Failed(Events(Rows(log), TRUE)) \cup Refused(Events(Rows(log), TRUE))
      BY <2>1, <3>2, <3>3 DEF Failed, Refused
    <3>5. fault.what \in {"socket_field", "sib"} /\ Report.verdict = RefusalCause
      BY <2>1, <2>2, <3>1, VerdictOfRefusal DEF Report
    <3>6. Events(Rows(log), TRUE) \subseteq Rows(log)
      BY <2>1
    <3>7. Rerun.verdict = RefusalCause
      BY <3>4, <3>5, <3>6, VerdictOfRefusal DEF Rerun
    <3> QED BY <3>5, <3>7
  <2>3. \/ Analyze(Snapshot, Step, TRUE).verdict = Report.verdict
        \/ /\ Report.root = "PRIMITIVE_MISSING"
           /\ Analyze(Snapshot, Step, TRUE).root = "TIMER_EXPIRED"
    <3> DEFINE root1 == Root(Snapshot, Step)
               root2 == Root(Events(Snapshot, TRUE), Step)
               d == DecisionOf(Snapshot, Step)
               V(root) == IF d.decision = "REJECT" THEN d.cause
                          ELSE IF root = "INSUFFICIENT_EVIDENCE" THEN None ELSE root
    <3>1. DecisionOf(Events(Snapshot, TRUE), Step) = d
      BY BlindSeesDecision
    <3>2. Report.root = root1 /\ Report.verdict = V(root1)
      BY <2>1 DEF Report, Analyze
    <3>3. /\ Analyze(Snapshot, Step, TRUE).root = root2
          /\ Analyze(Snapshot, Step, TRUE).verdict = V(root2)
      BY <3>1 DEF Analyze
    <3>4. root1 = root2 \/ (root1 = "PRIMITIVE_MISSING" /\ root2 = "TIMER_EXPIRED")
      BY BlindSeesRoot
    <3> HIDE DEF root1, root2, d, V
    <3> QED BY <3>2, <3>3, <3>4
  <2> QED BY <2>2, <2>3
<1> QED BY <1>1, DiagnosisInvHolds, PTL

-----------------------------------------------------------------------------
(* The system check.                                                       *)

LEMMA MaxIsThere ==
  ASSUME NEW n \in Nat, NEW S, S \subseteq 1..n, S # {}
  PROVE  Max(S) \in S
<1> DEFINE Above(x) == {y \in S : y > x}
           T == {Above(x) : x \in S}
<1>1. T \subseteq SUBSET S /\ T # {}
  <2>1. PICK x : x \in S
    OBVIOUS
  <2>2. Above(x) \in T
    BY <2>1
  <2> QED BY <2>2
<1>2. IsFiniteSet(S)
  <2>1. 1 \in Int /\ n \in Int
    OBVIOUS
  <2>2. IsFiniteSet(1..n)
    BY <2>1, FS_Interval
  <2> QED BY <2>2, FS_Subset
<1>3. PICK U \in T : \A V \in T : ~(<<V, U>> \in StrictSubsetOrdering(S))
  <2>1. IsWellFoundedOn(StrictSubsetOrdering(S), SUBSET S)
    BY <1>2, FS_StrictSubsetOrderingWellFounded, FS_FiniteSubsetsOfFinite
  <2> HIDE DEF T
  <2> QED BY <1>1, <2>1, WFMin
<1>4. PICK x \in S : U = Above(x)
  BY <1>3
<1>5. Above(x) = {}
  <2> SUFFICES ASSUME NEW y \in Above(x) PROVE FALSE
    OBVIOUS
  <2>1. Above(y) \subseteq Above(x) /\ y \notin Above(y)
    <3>1. \A z \in S : z \in Int
      OBVIOUS
    <3>2. x \in Int /\ y \in Int /\ y \in S /\ y > x
      BY <3>1
    <3>3. ASSUME NEW z \in Above(y) PROVE z \in Above(x)
      <4>1. z \in S /\ z > y /\ z \in Int
        BY <3>1
      <4> QED BY <3>2, <4>1
    <3>4. y \notin Above(y)
      BY <3>2
    <3> QED BY <3>3, <3>4
  <2>2. Above(y) # Above(x)
    BY <2>1
  <2>3. <<Above(y), U>> \in (SUBSET S) \X (SUBSET S) /\ Above(y) \in T
    BY <1>4
  <2>4. <<Above(y), U>> \in StrictSubsetOrdering(S)
    BY <1>4, <2>1, <2>2, <2>3 DEF StrictSubsetOrdering
  <2> QED BY <1>3, <2>3, <2>4
<1>6. \A y \in S : x >= y
  BY <1>5
<1> HIDE DEF Above, T
<1> QED BY <1>6 DEF Max

\* The life of every guard and its published status, and the system check that is
\* made from them: a run that its guard has ended shows an expired timer, whatever
\* cancel_all does, and an Attach with all guards stopped in time shows no failure.
THEOREM StatusesAreTrue == Spec => []StatusIsTrue
<1>1. DiagnosisInv => TypeOK
  <2> SUFFICES ASSUME DiagnosisInv PROVE TypeOK
    OBVIOUS
  <2>1. /\ hit \in BOOLEAN /\ stop \in BOOLEAN /\ at \in 1..Len(Activities)
        /\ pc \in Places /\ peer.at \in {"idle", "asked", "serving", "answered"}
        /\ run \in {"running", "failing", "failed", "attached"} /\ seen \in 0..Len(log)
    BY StepsInOrder DEF DiagnosisInv, TypeInv
  <2>2. ASSUME NEW s \in Exchanges
        PROVE  /\ guard[s].at \in {"idle", "running", "taken", "published", "expired"}
               /\ status[s] \in {"IDLE", "RUNNING", "STOPPED", "EXPIRED"}
               /\ guard[s].at \in {"published", "expired"} => status[s] \in {"EXPIRED", "STOPPED"}
               /\ guard[s].at = "running" <=> status[s] = "RUNNING" /\ guard[s].at # "taken"
    <3>1. /\ guard[s].at \in {"idle", "running", "taken", "published", "expired"}
          /\ status[s] \in {"IDLE", "RUNNING", "STOPPED", "EXPIRED"}
      BY DEF DiagnosisInv, TypeInv
    <3>2. /\ guard[s].at \in {"published", "expired"} => status[s] \in {"EXPIRED", "STOPPED"}
          /\ guard[s].at = "running" => status[s] = "RUNNING"
          /\ guard[s].at = "idle" => status[s] \in {"IDLE", "STOPPED"}
      BY DEF DiagnosisInv, GuardInv
    <3> QED BY <3>1, <3>2
  <2>3. Cardinality({r.time : r \in Rows(log)}) = Len(log)
    BY DEF DiagnosisInv, ClockInv
  <2> QED BY <2>1, <2>2, <2>3 DEF TypeOK, Places
<1>2. ASSUME DiagnosisInv, Orderly, ~SocketTrouble,
             Report.root \in {"TIMER_EXPIRED", "PRIMITIVE_MISSING"}
      PROVE  TimerLevel = "FAIL"
  <2>1. PICK e \in Snapshot :
          /\ e.corr = Corr
          /\ \/ e.event \in Endings
             \/ /\ e.event = "TIMER_EXPIRED" /\ InExchange
                /\ guard[Step].at = "expired" /\ status[Step] = "EXPIRED"
    BY <1>2 DEF DiagnosisInv, EndInv, Orderly, Reported
  <2>2. CASE InExchange /\ status[Step] = "EXPIRED"
    BY <2>2 DEF TimerLevel, InExchange
  <2>3. CASE e.event \in Endings
    <3>1. e.event = "VALIDATION_FAILED"
      BY <1>2, <2>3 DEF Endings, SocketTrouble
    <3>2. e \in Of({r \in Snapshot : r.corr = Corr}, "VALIDATION_FAILED")
      BY <2>1, <3>1 DEF Of
    <3>3. Report.root = Root(Snapshot, Step) /\ Evidence(Snapshot)
      BY <1>2, WholeIsSeen, SnapshotIsEvidence DEF Report, Analyze, Orderly
    <3>4. Report.root \in {"SOCKET_DROP", FaultRoot}
      BY <1>2, <3>2, <3>3, RootOfEvidence
    <3> QED BY <1>2, <3>4 DEF FaultRoot
  <2> QED BY <2>1, <2>2, <2>3
<1>3. ASSUME DiagnosisInv, run = "attached", \A s \in Exchanges : guard[s].at = "idle"
      PROVE  Overall # "FAIL"
  <2>1. FlowLevel = "PASS"
    BY <1>3 DEF FlowLevel
  <2>2. TimerLevel = "PASS"
    BY <1>3 DEF TimerLevel, DiagnosisInv, GuardInv
  <2>3. DecisionLevel # "FAIL"
    <3> DEFINE decisions == {i \in DOMAIN log : log[i].event \in DecisionEvents}
    <3>1. Len(log) \in Nat /\ DOMAIN log = 1..Len(log)
      BY <1>3 DEF DiagnosisInv, TypeInv
    <3>2. ASSUME decisions # {}
          PROVE  log[Max(decisions)].decision \notin {"REJECT", "DROP"}
      <4>1. Max(decisions) \in decisions
        <5>1. decisions \subseteq 1..Len(log)
          BY <3>1
        <5> HIDE DEF decisions
        <5> QED BY <3>1, <3>2, <5>1, MaxIsThere
      <4>2. PICK r \in Rows(log) : r = log[Max(decisions)] /\ r.event \in DecisionEvents
        BY <4>1 DEF Rows, ToSet
      <4> HIDE DEF decisions
      <4> SUFFICES ASSUME r.decision \in {"REJECT", "DROP"} PROVE FALSE
        BY <4>2
      <4>3. r \in Failed(Rows(log))
        BY <4>2 DEF Failed
      <4>4. hit /\ fault.what \in Dropped \cup {"socket_field", "sib"}
        BY <1>3, <4>3, Refusals
      <4> QED BY <1>3, <4>4 DEF DiagnosisInv, DoomInv, Dropped
    <3>3. DecisionLevel = IF decisions = {} THEN "INFO"
            ELSE IF log[Max(decisions)].decision \in {"REJECT", "DROP"} THEN "FAIL" ELSE "PASS"
      BY DEF DecisionLevel
    <3> HIDE DEF decisions
    <3> QED BY <3>2, <3>3
  <2>4. FaultLevel # "FAIL"
    BY DEF FaultLevel
  <2> QED BY <2>1, <2>2, <2>3, <2>4 DEF Overall, Levels
<1>4. DiagnosisInv => SystemCheckAgrees
  BY <1>2, <1>3 DEF SystemCheckAgrees
<1> QED BY <1>1, <1>4, DiagnosisInvHolds, PTL DEF StatusIsTrue
=============================================================================
