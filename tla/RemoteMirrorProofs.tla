-------------------------- MODULE RemoteMirrorProofs --------------------------
(***************************************************************************)
(* Theorems about RemoteMirror for any number of transactions, any bounds  *)
(* of the streams, snapshots and pages, and any calls that fail: what the  *)
(* controller shows of the agent is so, and what it archives is made of    *)
(* whole evidence.                                                         *)
(***************************************************************************)
EXTENDS RemoteMirror, WellFoundedInduction, SequenceTheorems, TLAPS

-----------------------------------------------------------------------------
(* Induction over the natural numbers, from the minimum of a set: the      *)
(* library's own theorem takes an operator as a parameter.                 *)

LEMMA Minimum ==
  ASSUME NEW T \in SUBSET Nat, T # {}
  PROVE  \E n \in T : \A m \in T : ~(m < n)
<1>1. PICK n \in T : \A m \in T : ~(<<m, n>> \in OpToRel(<, Nat))
  BY WFMin, NatLessThanWellFounded
<1>2. QED
  BY <1>1 DEF OpToRel

LEMMA Induction ==
  ASSUME NEW S, 0 \in S, \A n \in Nat : n \in S => n + 1 \in S
  PROVE  \A n \in Nat : n \in S
<1> DEFINE T == Nat \ S
<1> SUFFICES ASSUME T # {} PROVE FALSE
  OBVIOUS
<1>1. PICK n \in T : \A m \in T : ~(m < n)
  BY Minimum
<1>2. n # 0 /\ n - 1 \in Nat /\ n - 1 < n /\ (n - 1) + 1 = n
  BY <1>1
<1>3. n - 1 \in S
  BY <1>1, <1>2
<1>4. QED
  BY <1>2, <1>3

-----------------------------------------------------------------------------
(* The rows of a transaction                                               *)

\* The loop of TransactionRows, up to row n.
KeptUpTo(rows, tx, n, kept) ==
  kept = [i \in 0..n |->
            IF i = 0 THEN <<>>
            ELSE IF rows[i].tx = tx THEN Append(kept[i - 1], rows[i])
            ELSE kept[i - 1]]

LEMMA KeptExists ==
  ASSUME NEW rows, NEW tx
  PROVE  \A n \in Nat : \E kept : KeptUpTo(rows, tx, n, kept)
<1> DEFINE S == {n \in Nat : \E kept : KeptUpTo(rows, tx, n, kept)}
<1>1. 0 \in S
  <2> DEFINE k == [i \in 0..0 |-> <<>>]
  <2>1. KeptUpTo(rows, tx, 0, k)
    BY DEF KeptUpTo
  <2>2. QED
    BY <2>1
<1>2. ASSUME NEW n \in Nat, n \in S PROVE n + 1 \in S
  <2>1. PICK kept : KeptUpTo(rows, tx, n, kept)
    BY <1>2
  <2> DEFINE new == IF rows[n + 1].tx = tx THEN Append(kept[n], rows[n + 1]) ELSE kept[n]
             k == [i \in 0..(n + 1) |-> IF i <= n THEN kept[i] ELSE new]
             f == [i \in 0..(n + 1) |->
                     IF i = 0 THEN <<>>
                     ELSE IF rows[i].tx = tx THEN Append(k[i - 1], rows[i])
                     ELSE k[i - 1]]
  <2>2. ASSUME NEW i \in 0..(n + 1) PROVE k[i] = f[i]
    <3>1. CASE i = 0
      BY <2>1, <3>1 DEF KeptUpTo
    <3>2. CASE i # 0 /\ i <= n
      <4>1. i \in 0..n /\ i - 1 \in 0..n /\ i - 1 \in 0..(n + 1) /\ i - 1 <= n
        BY <3>2
      <4>2. kept[i] = IF rows[i].tx = tx THEN Append(kept[i - 1], rows[i]) ELSE kept[i - 1]
        BY <2>1, <3>2, <4>1 DEF KeptUpTo
      <4>3. k[i] = kept[i] /\ k[i - 1] = kept[i - 1]
        BY <4>1, <3>2
      <4>4. QED
        BY <3>2, <4>2, <4>3
    <3>3. CASE i = n + 1
      <4>1. n \in 0..(n + 1) /\ n <= n /\ ~(n + 1 <= n) /\ i - 1 = n /\ n + 1 \in 0..(n + 1) /\ n + 1 # 0
        BY <3>3
      <4>2. k[n] = kept[n] /\ k[n + 1] = new
        BY <4>1
      <4> HIDE DEF k
      <4>3. QED
        BY <3>3, <4>1, <4>2
    <3>4. QED
      BY <3>1, <3>2, <3>3
  <2>3. k = f
    BY <2>2
  <2>4. KeptUpTo(rows, tx, n + 1, k)
    BY <2>3 DEF KeptUpTo
  <2>5. QED
    BY <2>4
<1>3. \A n \in Nat : n \in S
  <2> HIDE DEF S
  <2>1. QED
    BY <1>1, <1>2, Induction
<1>4. QED
  BY <1>3

LEMMA TransactionRowsIsLast ==
  ASSUME NEW rows, NEW tx, Len(rows) \in Nat
  PROVE  \E kept : KeptUpTo(rows, tx, Len(rows), kept)
                   /\ TransactionRows(rows, tx) = kept[Len(rows)]
<1> DEFINE kept == CHOOSE k : KeptUpTo(rows, tx, Len(rows), k)
<1>1. KeptUpTo(rows, tx, Len(rows), kept)
  BY KeptExists
<1>2. TransactionRows(rows, tx) = kept[Len(rows)]
  BY DEF TransactionRows, KeptUpTo
<1>3. QED
  BY <1>1, <1>2

\* They are rows of the transaction.
LEMMA RowsAreOfTx ==
  ASSUME NEW R, NEW rows \in Seq(R), NEW tx
  PROVE  TransactionRows(rows, tx) \in Seq({row \in R : row.tx = tx})
<1> DEFINE Of == {row \in R : row.tx = tx}
<1>1. PICK kept : /\ KeptUpTo(rows, tx, Len(rows), kept)
                  /\ TransactionRows(rows, tx) = kept[Len(rows)]
  BY TransactionRowsIsLast
<1> DEFINE S == {n \in Nat : n <= Len(rows) => kept[n] \in Seq(Of)}
<1>2. 0 \in S
  <2>0. <<>> \in Seq(Of)
    <3> HIDE DEF Of
    <3>1. QED
      OBVIOUS
  <2>1. kept[0] = <<>>
    BY <1>1 DEF KeptUpTo
  <2>2. QED
    BY <2>1, <2>0
<1>3. ASSUME NEW n \in Nat, n \in S PROVE n + 1 \in S
  <2> SUFFICES ASSUME n + 1 <= Len(rows) PROVE kept[n + 1] \in Seq(Of)
    OBVIOUS
  <2>1. kept[n] \in Seq(Of)
    BY <1>3
  <2>2. n + 1 \in 0..Len(rows) /\ n + 1 # 0 /\ (n + 1) - 1 = n /\ rows[n + 1] \in R
    OBVIOUS
  <2>3. kept[n + 1] = IF rows[n + 1].tx = tx THEN Append(kept[n], rows[n + 1]) ELSE kept[n]
    BY <1>1, <2>2 DEF KeptUpTo
  <2>4. QED
    BY <2>1, <2>2, <2>3
<1>4. \A n \in Nat : n \in S
  <2> HIDE DEF S
  <2>1. QED
    BY <1>2, <1>3, Induction
<1>5. QED
  BY <1>1, <1>4

\* Where the rows of the transaction come last, they are a final part.
LEMMA RowsAreLast ==
  ASSUME NEW R, NEW rows \in Seq(R), NEW tx,
         \A i, j \in DOMAIN rows : rows[i].tx = tx /\ j >= i => rows[j].tx = tx
  PROVE  \E c \in 0..Len(rows) :
           /\ TransactionRows(rows, tx) = SubSeq(rows, c + 1, Len(rows))
           /\ \A i \in DOMAIN rows : rows[i].tx = tx <=> i > c
<1>1. PICK kept : /\ KeptUpTo(rows, tx, Len(rows), kept)
                  /\ TransactionRows(rows, tx) = kept[Len(rows)]
  BY TransactionRowsIsLast
<1> DEFINE From(n, c) == /\ kept[n] = SubSeq(rows, c + 1, n)
                         /\ \A i \in 1..n : rows[i].tx = tx <=> i > c
           S == {n \in Nat : n <= Len(rows) => \E c \in 0..n : From(n, c)}
<1>2. 0 \in S
  <2>1. kept[0] = <<>>
    BY <1>1 DEF KeptUpTo
  <2>2. SubSeq(rows, 0 + 1, 0) = <<>>
    BY SubSeqEmpty
  <2>3. From(0, 0)
    BY <2>1, <2>2
  <2> HIDE DEF From
  <2>4. QED
    BY <2>3, 0 \in 0..0
<1>3. ASSUME NEW n \in Nat, n \in S PROVE n + 1 \in S
  <2> SUFFICES ASSUME n + 1 <= Len(rows) PROVE \E c \in 0..(n + 1) : From(n + 1, c)
    OBVIOUS
  <2>1. PICK c \in 0..n : From(n, c)
    BY <1>3
  <2>2. n + 1 \in 0..Len(rows) /\ n + 1 # 0 /\ (n + 1) - 1 = n /\ rows[n + 1] \in R
    OBVIOUS
  <2>3. kept[n + 1] = IF rows[n + 1].tx = tx THEN Append(kept[n], rows[n + 1]) ELSE kept[n]
    BY <1>1, <2>2 DEF KeptUpTo
  <2>4. CASE rows[n + 1].tx = tx
    <3>1. kept[n + 1] = Append(SubSeq(rows, c + 1, n), rows[n + 1])
      BY <2>1, <2>3, <2>4
    <3>2. SubSeq(rows, c + 1, n + 1) = Append(SubSeq(rows, c + 1, n), rows[n + 1])
      <4> DEFINE a == SubSeq(rows, c + 1, n)
                 b == SubSeq(rows, c + 1, n + 1)
      <4>1. /\ a \in Seq(R) /\ Len(a) = n - c
            /\ \A i \in 1..(n - c) : a[i] = rows[c + i]
        <5>1. \A i \in (c + 1)..n : rows[i] \in R
          OBVIOUS
        <5>2. QED
          BY <5>1, SubSeqProperties
      <4>2. /\ b \in Seq(R) /\ Len(b) = n + 1 - c
            /\ \A i \in 1..(n + 1 - c) : b[i] = rows[c + i]
        <5>1. \A i \in (c + 1)..(n + 1) : rows[i] \in R
          OBVIOUS
        <5>2. QED
          BY <5>1, SubSeqProperties
      <4> HIDE DEF a, b
      <4>3. QED
        BY <4>1, <4>2, <2>2
    <3>3. \A i \in 1..(n + 1) : rows[i].tx = tx <=> i > c
      BY <2>1, <2>4
    <3>4. From(n + 1, c)
      BY <3>1, <3>2, <3>3
    <3> HIDE DEF From
    <3>5. QED
      BY <3>4, c \in 0..(n + 1)
  <2>5. CASE rows[n + 1].tx # tx
    <3>1. \A i \in 1..n : rows[i].tx # tx
      BY <2>2, <2>5
    <3>2. kept[n + 1] = <<>>
      <4>1. c = n
        BY <2>1, <3>1
      <4>2. QED
        BY <2>1, <2>3, <2>5, <4>1, SubSeqEmpty
    <3>3. SubSeq(rows, n + 1 + 1, n + 1) = <<>>
      BY SubSeqEmpty
    <3>4. From(n + 1, n + 1)
      BY <3>1, <3>2, <3>3, <2>5
    <3>5. QED
      BY <3>4
  <2>6. QED
    BY <2>4, <2>5
<1>4. \A n \in Nat : n \in S
  <2> HIDE DEF S
  <2>1. QED
    BY <1>2, <1>3, Induction
<1>5. PICK c \in 0..Len(rows) : From(Len(rows), c)
  <2>1. Len(rows) \in Nat /\ Len(rows) \in S
    <3> HIDE DEF S
    <3>1. QED
      BY <1>4
  <2> HIDE DEF From
  <2>2. QED
    BY <2>1
<1>6. QED
  BY <1>1, <1>5

\* rows[-n:] leaves out the first rows.
Dropped(rows, n) == IF Len(rows) > n THEN Len(rows) - n ELSE 0

LEMMA LastRowsAre ==
  ASSUME NEW R, NEW rows \in Seq(R), NEW n \in Nat
  PROVE  /\ Dropped(rows, n) \in 0..Len(rows)
         /\ LastRows(rows, n) \in Seq(R)
         /\ Len(LastRows(rows, n)) = Len(rows) - Dropped(rows, n)
         /\ Len(LastRows(rows, n)) <= n
         /\ \A i \in 1..(Len(rows) - Dropped(rows, n)) :
              LastRows(rows, n)[i] = rows[Dropped(rows, n) + i]
<1> DEFINE d == Dropped(rows, n)
<1>1. d \in 0..Len(rows) /\ Len(rows) \in Nat /\ Len(rows) - d <= n
  BY DEF Dropped
<1>2. LastRows(rows, n) = SubSeq(rows, 1 + d, Len(rows))
  BY DEF LastRows, Dropped
<1>3. \A i \in (1 + d)..Len(rows) : rows[i] \in R
  BY <1>1
<1>4. /\ SubSeq(rows, 1 + d, Len(rows)) \in Seq(R)
      /\ Len(SubSeq(rows, 1 + d, Len(rows))) = Len(rows) - d
      /\ \A i \in 1..(Len(rows) - d) : SubSeq(rows, 1 + d, Len(rows))[i] = rows[d + i]
  <2> HIDE DEF d
  <2>1. QED
    BY <1>1, <1>3, SubSeqProperties
<1> HIDE DEF d
<1>5. QED
  BY <1>1, <1>2, <1>4 DEF d

-----------------------------------------------------------------------------
(* The invariant                                                           *)

\* The rows of the current transaction are the last ones of a stream, and
\* numbered up to the one made last.
Numbered(rows, made, tx, begun) ==
  /\ made > 0 => rows # <<>> /\ rows[Len(rows)].tx = tx
  /\ \A i \in DOMAIN rows :
       /\ rows[i].tx <= begun
       /\ rows[i].tx = tx =>
            /\ rows[i].n + Len(rows) = made + i
            /\ \A j \in DOMAIN rows : j >= i => rows[j].tx = tx

AgentInv ==
  /\ agent.tx # NoTx => agent.tx = agent.begun
  /\ \A s \in Stream :
       /\ agent.final[s] <= agent.made[s]
       /\ Numbered(agent.rows[s], agent.made[s], agent.tx, agent.begun)

\* The rows are all of the transaction, and reach its end as long as it is
\* the current one of the agent.
Good(rows, tx, current, final) ==
  /\ \A i \in DOMAIN rows : rows[i].tx = tx
  /\ tx = current => Whole(rows, final)

\* The evidence of a run is good, its events are archived as they are, and no
\* row of the log is missing for an older one that is there.
Fits(events, logs, verified) ==
  /\ events = verified["events"]
  /\ \A r \in ToSet(verified["logs"]) \ logs, q \in logs : ~Older(q, r)

\* The transfer is that of a run which has ended and is not archived; the
\* streams taken so far are good.
TransferInv ==
  /\ mirror.at \in {"wait", "backoff"} => mirror.got = Empty
  /\ mirror.at \in {"page", "merge", "archive"} =>
       /\ flags.lastTerminal < mirror.tx /\ mirror.tx <= agent.begun
       /\ mirror.tx = agent.tx => ~agent.running
       /\ local.tx = mirror.tx /\ ~local.running
  /\ mirror.at = "page" => mirror.next <= Len(Streams)
  /\ mirror.at = "merge" => mirror.next > Len(Streams)
  /\ mirror.at \in {"page", "merge"} =>
       \A k \in 1..Len(Streams) :
         k < mirror.next =>
           Good(mirror.got[Streams[k]], mirror.tx, agent.tx, agent.final[Streams[k]])
  /\ mirror.at = "archive" =>
       /\ \A s \in Stream : Good(mirror.got[s], mirror.tx, agent.tx, agent.final[s])
       /\ Fits(mirror.snapshot.events, mirror.snapshot.logs, mirror.got)

\* The runs archived are no later than the last one noted, and good.
RunsInv ==
  /\ flags.lastTerminal <= agent.begun
  /\ \A i \in DOMAIN runs :
       /\ runs[i].tx <= flags.lastTerminal
       /\ runs[i].tx = agent.tx => ~agent.running
       /\ \A s \in Stream :
            Good(runs[i].verified[s], runs[i].tx, agent.tx, agent.final[s])
       /\ Fits(runs[i].events, runs[i].logs, runs[i].verified)
       /\ \A j \in DOMAIN runs : runs[i].tx = runs[j].tx => i = j

\* What the dashboard says is so, and a loss of the agent already reported
\* is still shown.
DashboardInv ==
  /\ TransferIsTrue /\ ReverseIsEarned /\ OfflineIsShown
  /\ ~flags.online /\ flags.reported =>
       local.agentStatus = "OFFLINE" /\ local.reverse # "CONNECTED"

MirrorInv == TypeOK /\ AgentInv /\ TransferInv /\ RunsInv /\ DashboardInv
-----------------------------------------------------------------------------
(* Types                                                                   *)

LEMMA Constants ==
  /\ MaxTx \in Nat /\ Window \in Nat /\ Saved \in Nat /\ Keep \in Nat \ {0} /\ PageSize \in Nat \ {0}
  /\ MaxRows \in [Stream -> Nat]
BY MirrorAssumption

LEMMA TxType ==
  /\ AnyTx = 0..MaxTx /\ MaxTx \in Nat
  /\ \A tx \in Tx : tx \in AnyTx /\ tx # NoTx /\ tx \in Nat /\ tx > 0
  /\ \A tx \in AnyTx : tx \in Nat /\ (tx # NoTx => tx \in Tx)
  /\ NoTx = 0 /\ NoTx \in AnyTx
BY Constants DEF AnyTx, Tx, NoTx

LEMMA StreamType ==
  /\ Stream = {"events", "logs"} /\ Len(Streams) = 2
  /\ Streams[1] = "events" /\ Streams[2] = "logs"
BY DEF Stream, Streams, ToSet

LEMMA EmptyType == Empty \in Streamed /\ \A s \in Stream : Empty[s] = <<>>
BY DEF Empty, Streamed

LEMMA StreamRowType ==
  ASSUME NEW rows \in Streamed, NEW s \in Stream
  PROVE  rows[s] \in Seq(Row)
BY DEF Streamed

LEMMA StreamedExcept ==
  ASSUME NEW streams \in Streamed, NEW s \in Stream, NEW rows \in Seq(Row)
  PROVE  /\ [streams EXCEPT ![s] = rows] \in Streamed
         /\ \A t \in Stream :
              [streams EXCEPT ![s] = rows][t] = IF t = s THEN rows ELSE streams[t]
BY DEF Streamed

LEMMA TransactionRowsType ==
  ASSUME NEW rows \in Seq(Row), NEW tx
  PROVE  /\ TransactionRows(rows, tx) \in Seq(Row)
         /\ \A i \in DOMAIN TransactionRows(rows, tx) : TransactionRows(rows, tx)[i].tx = tx
<1> DEFINE Of == {row \in Row : row.tx = tx}
<1>1. TransactionRows(rows, tx) \in Seq(Of)
  BY RowsAreOfTx
<1>2. \A row \in Of : row \in Row /\ row.tx = tx
  OBVIOUS
<1> HIDE DEF Of
<1>3. QED
  BY <1>1, <1>2

LEMMA PageType ==
  ASSUME TypeOK, NEW s \in Stream, NEW tx, NEW cursor \in Nat, NEW size \in Nat
  PROVE  /\ Page(s, tx, cursor, size).items \in Seq(Row)
         /\ Page(s, tx, cursor, size).digest = Rows(s, tx)
         /\ Page(s, tx, cursor, size).more \in BOOLEAN
         /\ Rows(s, tx) \in Seq(Row)
<1> DEFINE rows == Rows(s, tx)
           last == IF cursor + size < Len(rows) THEN cursor + size ELSE Len(rows)
<1>1. rows \in Seq(Row)
  BY TransactionRowsType, StreamRowType DEF Rows, TypeOK, AgentSet
<1>2. SubSeq(rows, cursor + 1, last) \in Seq(Row)
  <2> HIDE DEF rows
  <2>1. \A i \in (cursor + 1)..last : rows[i] \in Row
    BY <1>1
  <2>2. QED
    BY <1>1, <2>1, SubSeqProperties
<1> HIDE DEF rows
<1>3. Page(s, tx, cursor, size) =
        [items |-> SubSeq(rows, cursor + 1, last), more |-> last < Len(rows), digest |-> rows]
  BY DEF Page, rows
<1>4. QED
  BY <1>1, <1>2, <1>3 DEF rows

LEMMA ToSetType ==
  ASSUME NEW R, NEW rows \in Seq(R)
  PROVE  ToSet(rows) \subseteq R
BY DEF ToSet

\* What is left of a log is part of it, and newer than what is not.
LEMMA CutsAre ==
  ASSUME NEW rows, NEW kept \in Cuts(rows)
  PROVE  kept \subseteq rows /\ \A r \in rows \ kept, q \in kept : ~Older(q, r)
BY DEF Cuts

LEMMA MergedAre ==
  ASSUME TypeOK, NEW rows \in Seq(Row), NEW logs \in Merged(rows)
  PROVE  /\ logs \in SUBSET Row
         /\ \A r \in ToSet(rows) \ logs, q \in logs : ~Older(q, r)
<1>1. ToSet(rows) \subseteq Row /\ local.logs \subseteq Row
  BY ToSetType DEF TypeOK, LocalSet
<1>2. logs \in Cuts(local.logs \cup ToSet(rows))
  BY DEF Merged
<1>3. /\ logs \subseteq local.logs \cup ToSet(rows)
      /\ \A r \in (local.logs \cup ToSet(rows)) \ logs, q \in logs : ~Older(q, r)
  BY <1>2, CutsAre
<1>4. QED
  BY <1>1, <1>3

LEMMA NoSnapshotType == NoSnapshot \in SnapshotSet
<1>1. <<>> \in Seq(Row) /\ {} \in SUBSET Row
  OBVIOUS
<1>2. QED
  BY <1>1 DEF NoSnapshot, SnapshotSet

LEMMA InitTypes == Init => TypeOK
BY Constants, TxType, StreamType, EmptyType, NoSnapshotType
   DEF Init, TypeOK, AgentSet, MirrorSet, LocalSet, FlagSet, Idle, FreshLocal, FreshFlags, NoTransfer

LEMMA AgentFields ==
  ASSUME TypeOK
  PROVE  /\ agent.tx \in AnyTx /\ agent.begun \in AnyTx /\ agent.running \in BOOLEAN
         /\ agent.rows \in Streamed
         /\ agent.made \in [Stream -> Nat] /\ agent.final \in [Stream -> Nat]
BY DEF TypeOK, AgentSet

\* What an action of the agent makes of it.
LEMMA StartAttachIs ==
  ASSUME TypeOK, StartAttach
  PROVE  /\ ~agent.running /\ agent.begun < MaxTx
         /\ agent' = [tx |-> agent.begun + 1, begun |-> agent.begun + 1, running |-> TRUE,
                      rows |-> [agent.rows EXCEPT !["events"] = <<>>],
                      made |-> [s \in Stream |-> 0], final |-> [s \in Stream |-> 0]]
BY DEF TypeOK, AgentSet, StartAttach

LEMMA AddRowIs ==
  ASSUME TypeOK, NEW s \in Stream, AddRow(s)
  PROVE  /\ agent.tx # NoTx
         /\ \E row \in Row, rows \in Seq(Row) :
              /\ row = [tx |-> agent.tx, n |-> agent.made[s] + 1]
              /\ rows = LastRows(Append(agent.rows[s], row), Keep)
              /\ agent' = [tx |-> agent.tx, begun |-> agent.begun, running |-> agent.running,
                           rows |-> [agent.rows EXCEPT ![s] = rows],
                           made |-> [agent.made EXCEPT ![s] = @ + 1], final |-> agent.final]
<1> DEFINE row == [tx |-> agent.tx, n |-> agent.made[s] + 1]
           rows == LastRows(Append(agent.rows[s], row), Keep)
<1>1. row \in Row
  BY TxType DEF AddRow, Row, TypeOK, AgentSet
<1>2. rows \in Seq(Row)
  <2>1. Append(agent.rows[s], row) \in Seq(Row)
    BY <1>1, StreamRowType DEF TypeOK, AgentSet
  <2>2. QED
    BY <2>1, LastRowsAre, Constants
<1>3. agent' = [tx |-> agent.tx, begun |-> agent.begun, running |-> agent.running,
                rows |-> [agent.rows EXCEPT ![s] = rows],
                made |-> [agent.made EXCEPT ![s] = @ + 1], final |-> agent.final]
  BY DEF TypeOK, AgentSet, AddRow
<1>4. QED
  BY <1>1, <1>2, <1>3 DEF AddRow

LEMMA FinishIs ==
  ASSUME TypeOK, Finish
  PROVE  /\ agent.running
         /\ agent' = [tx |-> agent.tx, begun |-> agent.begun, running |-> FALSE,
                      rows |-> agent.rows, made |-> agent.made, final |-> agent.made]
BY DEF TypeOK, AgentSet, Finish

LEMMA AgentResetIs ==
  ASSUME TypeOK, AgentReset
  PROVE  \E n \in Nat :
           agent' = [tx |-> NoTx, begun |-> agent.begun, running |-> FALSE,
                     rows |-> [Empty EXCEPT !["logs"] = LastRows(agent.rows["logs"], n)],
                     made |-> [s \in Stream |-> 0], final |-> [s \in Stream |-> 0]]
<1>1. PICK n \in {0, Saved} :
        agent' = [agent EXCEPT !.tx = NoTx, !.running = FALSE,
                               !.rows = [Empty EXCEPT !["logs"] = LastRows(agent.rows["logs"], n)],
                               !.made = [s \in Stream |-> 0], !.final = [s \in Stream |-> 0]]
  BY DEF AgentReset
<1>2. n \in Nat
  BY Constants
<1> DEFINE rows == [Empty EXCEPT !["logs"] = LastRows(agent.rows["logs"], n)]
<1> HIDE DEF rows
<1>3. agent' = [agent EXCEPT !.tx = NoTx, !.running = FALSE, !.rows = rows,
                             !.made = [s \in Stream |-> 0], !.final = [s \in Stream |-> 0]]
  BY <1>1 DEF rows
<1>4. agent' = [tx |-> NoTx, begun |-> agent.begun, running |-> FALSE, rows |-> rows,
                made |-> [s \in Stream |-> 0], final |-> [s \in Stream |-> 0]]
  BY <1>3 DEF TypeOK, AgentSet
<1>5. QED
  BY <1>2, <1>4 DEF rows

\* What a reset leaves of the log is the last rows of it.
LEMMA ResetRows ==
  ASSUME TypeOK, NEW n \in Nat
  PROVE  LET rows == [Empty EXCEPT !["logs"] = LastRows(agent.rows["logs"], n)]
         IN /\ rows \in Streamed
            /\ \A s \in Stream :
                 rows[s] = IF s = "logs" THEN LastRows(agent.rows["logs"], n) ELSE <<>>
            /\ \A s \in Stream : Len(rows[s]) <= Keep
<1> DEFINE old == agent.rows["logs"]
           left == LastRows(old, n)
           rows == [Empty EXCEPT !["logs"] = left]
<1>1. old \in Seq(Row) /\ "logs" \in Stream /\ Len(old) <= Keep
  BY AgentFields, StreamType, StreamRowType DEF TypeOK
<1> HIDE DEF old
<1>2. left \in Seq(Row) /\ Len(left) = Len(old) - Dropped(old, n) /\ Dropped(old, n) \in 0..Len(old)
  BY <1>1, LastRowsAre
<1>3. Len(left) <= Keep
  BY <1>1, <1>2, Constants
<1> HIDE DEF left
<1>4. /\ rows \in Streamed
      /\ \A s \in Stream : rows[s] = IF s = "logs" THEN left ELSE Empty[s]
  BY <1>1, <1>2, EmptyType DEF Streamed
<1>5. \A s \in Stream : Empty[s] = <<>> /\ Len(Empty[s]) = 0
  BY EmptyType
<1> HIDE DEF rows
<1>6. \A s \in Stream : Len(rows[s]) <= Keep
  BY <1>3, <1>4, <1>5, Constants
<1>7. QED
  BY <1>4, <1>5, <1>6 DEF rows, left, old

LEMMA AgentMade ==
  ASSUME NEW tx \in AnyTx, NEW begun \in AnyTx, NEW running \in BOOLEAN, NEW rows \in Streamed,
         NEW made \in [Stream -> Nat], NEW final \in [Stream -> Nat]
  PROVE  [tx |-> tx, begun |-> begun, running |-> running, rows |-> rows,
          made |-> made, final |-> final] \in AgentSet
BY DEF AgentSet

LEMMA NoneMade == [s \in Stream |-> 0] \in [Stream -> Nat]
OBVIOUS

LEMMA AgentTypes ==
  ASSUME TypeOK, AgentStep
  PROVE  TypeOK'
<1>1. UNCHANGED <<mirror, local, flags, runs, earlier>>
  BY DEF AgentStep, StartAttach, AddRow, Finish, AgentReset, Controller
<1>2. agent' \in AgentSet /\ \A s \in Stream : Len(agent'.rows[s]) <= Keep
  <2>1. CASE StartAttach
    <3> DEFINE cleared == [agent.rows EXCEPT !["events"] = <<>>]
    <3>1. <<>> \in Seq(Row) /\ Len(<<>>) = 0
      OBVIOUS
    <3>a. "events" \in Stream /\ agent.rows \in Streamed
      BY StreamType, AgentFields
    <3>2. cleared \in Streamed /\ \A s \in Stream : Len(cleared[s]) <= Keep
      <4>1. /\ cleared \in Streamed
            /\ \A t \in Stream : cleared[t] = IF t = "events" THEN <<>> ELSE agent.rows[t]
        <5>1. PICK none \in Seq(Row) : none = <<>>
          BY <3>1
        <5>2. PICK s \in Stream : s = "events"
          BY <3>a
        <5>3. PICK streams \in Streamed : streams = agent.rows
          BY <3>a
        <5>4. cleared = [streams EXCEPT ![s] = none]
          BY <5>1, <5>2, <5>3
        <5> HIDE DEF cleared
        <5>5. /\ cleared \in Streamed
              /\ \A t \in Stream : cleared[t] = IF t = s THEN none ELSE streams[t]
          BY <5>4 DEF Streamed
        <5>6. QED
          BY <5>1, <5>2, <5>3, <5>5
      <4>2. \A t \in Stream : Len(agent.rows[t]) <= Keep
        BY DEF TypeOK
      <4> HIDE DEF cleared
      <4>3. QED
        BY <3>1, <3>a, <4>1, <4>2, Constants
    <3> HIDE DEF cleared
    <3>3. agent' = [tx |-> agent.begun + 1, begun |-> agent.begun + 1, running |-> TRUE,
                    rows |-> cleared, made |-> [s \in Stream |-> 0], final |-> [s \in Stream |-> 0]]
      BY <2>1, StartAttachIs DEF cleared
    <3>4. agent.begun + 1 \in AnyTx
      BY StartAttachIs, <2>1, TxType DEF TypeOK, AgentSet
    <3>5. QED
      BY <3>2, <3>3, <3>4, AgentMade, NoneMade
  <2>2. ASSUME NEW s \in Stream, AddRow(s)
        PROVE  agent' \in AgentSet /\ \A t \in Stream : Len(agent'.rows[t]) <= Keep
    <3>1. PICK row \in Row, rows \in Seq(Row) :
             /\ rows = LastRows(Append(agent.rows[s], row), Keep)
             /\ agent' = [tx |-> agent.tx, begun |-> agent.begun, running |-> agent.running,
                          rows |-> [agent.rows EXCEPT ![s] = rows],
                          made |-> [agent.made EXCEPT ![s] = @ + 1], final |-> agent.final]
      BY <2>2, AddRowIs
    <3>2. Append(agent.rows[s], row) \in Seq(Row) /\ Keep \in Nat
      BY StreamRowType, Constants DEF TypeOK, AgentSet
    <3>3. Len(rows) <= Keep
      BY <3>1, <3>2, LastRowsAre
    <3>4. /\ [agent.rows EXCEPT ![s] = rows] \in Streamed
          /\ \A t \in Stream : Len([agent.rows EXCEPT ![s] = rows][t]) <= Keep
      <4> DEFINE new == [agent.rows EXCEPT ![s] = rows]
      <4>1. /\ new \in Streamed
            /\ \A t \in Stream : new[t] = IF t = s THEN rows ELSE agent.rows[t]
        BY StreamedExcept, AgentFields
      <4>2. \A t \in Stream : Len(agent.rows[t]) <= Keep
        BY DEF TypeOK
      <4>3. Len(rows) <= Keep
        BY <3>3
      <4> HIDE DEF new
      <4>4. \A t \in Stream : Len(new[t]) <= Keep
        BY <4>1, <4>2, <4>3
      <4>5. QED
        BY <4>1, <4>4 DEF new
    <3>5. [agent.made EXCEPT ![s] = @ + 1] \in [Stream -> Nat]
      BY DEF TypeOK, AgentSet
    <3>6. QED
      BY <3>1, <3>4, <3>5, AgentFields, AgentMade
  <2>3. CASE Finish
    <3>1. agent'.rows = agent.rows
      BY <2>3, FinishIs
    <3>2. agent' \in AgentSet
      <4>1. agent' = [tx |-> agent.tx, begun |-> agent.begun, running |-> FALSE,
                      rows |-> agent.rows, made |-> agent.made, final |-> agent.made]
        BY <2>3, FinishIs
      <4>2. QED
        BY <4>1, AgentFields DEF AgentSet
    <3>3. QED
      BY <3>1, <3>2 DEF TypeOK
  <2>4. CASE AgentReset
    <3>1. PICK n \in Nat :
            agent' = [tx |-> NoTx, begun |-> agent.begun, running |-> FALSE,
                      rows |-> [Empty EXCEPT !["logs"] = LastRows(agent.rows["logs"], n)],
                      made |-> [s \in Stream |-> 0], final |-> [s \in Stream |-> 0]]
      BY <2>4, AgentResetIs
    <3> DEFINE rows == [Empty EXCEPT !["logs"] = LastRows(agent.rows["logs"], n)]
    <3>2. rows \in Streamed /\ \A s \in Stream : Len(rows[s]) <= Keep
      BY ResetRows
    <3> HIDE DEF rows
    <3>3. agent' = [tx |-> NoTx, begun |-> agent.begun, running |-> FALSE, rows |-> rows,
                    made |-> [s \in Stream |-> 0], final |-> [s \in Stream |-> 0]]
      BY <3>1 DEF rows
    <3>4. agent' \in AgentSet
      BY <3>2, <3>3, AgentFields, AgentMade, NoneMade, TxType
    <3>5. QED
      BY <3>2, <3>3, <3>4
  <2>5. QED
    BY <2>1, <2>2, <2>3, <2>4 DEF AgentStep
<1>3. QED
  BY <1>1, <1>2 DEF TypeOK

LEMMA ControllerFields ==
  ASSUME TypeOK
  PROVE  /\ mirror.at \in {"wait", "backoff", "page", "merge", "archive"}
         /\ mirror.tx \in AnyTx /\ mirror.next \in 1..3
         /\ mirror.pages \in Seq(Row) /\ mirror.expected \in Seq(Row) /\ mirror.got \in Streamed
         /\ mirror = [at |-> mirror.at, tx |-> mirror.tx, next |-> mirror.next,
                      pages |-> mirror.pages, expected |-> mirror.expected, got |-> mirror.got,
                      snapshot |-> mirror.snapshot]
         /\ mirror.snapshot \in SnapshotSet
         /\ local.tx \in AnyTx /\ local.running \in BOOLEAN
         /\ local.logs \in SUBSET Row
         /\ local.agentStatus \in {"CHECKING", "ONLINE", "OFFLINE"}
         /\ local.reverse \in {"UNVERIFIED", "CONNECTED", "READY", "FAILED", "DISCONNECTED"}
         /\ local.rx \in BOOLEAN /\ local.preflight \in BOOLEAN
         /\ flags.online \in BOOLEAN /\ flags.reported \in BOOLEAN
         /\ flags.lastTerminal \in AnyTx
<1>1. Len(Streams) + 1 = 3
  BY StreamType
<1>2. QED
  BY <1>1 DEF TypeOK, MirrorSet, LocalSet, FlagSet

LEMMA SnapshotsType ==
  ASSUME TypeOK, NEW rows \in Snapshots
  PROVE  rows \in Seq(Row)
<1>1. Window \in Nat /\ Window \div 2 \in Nat
  BY Constants
<1>2. agent.rows["logs"] \in Seq(Row)
  BY AgentFields, StreamRowType, StreamType
<1>3. \A n \in Nat : LastRows(agent.rows["logs"], n) \in Seq(Row)
  BY <1>2, LastRowsAre
<1>4. QED
  BY <1>1, <1>3 DEF Snapshots

\* What an action of the mirror makes of it.
LEMMA PollIs ==
  ASSUME TypeOK, Poll
  PROVE  /\ mirror.at = "wait" /\ UNCHANGED <<agent, runs, earlier>>
         /\ \E logs \in SUBSET Row, conn \in BOOLEAN, rx \in BOOLEAN :
              local' = [tx |-> agent.tx, running |-> agent.running, logs |-> logs,
                        agentStatus |-> "ONLINE", reverse |-> ReversePath(conn, rx), rx |-> rx,
                        preflight |-> local.preflight, transfer |-> local.transfer]
         /\ flags' = [online |-> TRUE, reported |-> FALSE, lastTerminal |-> flags.lastTerminal]
         /\ mirror' = IF Unarchived THEN [Idle EXCEPT !.at = "page", !.tx = agent.tx] ELSE Idle
<1>1. PICK rows \in Snapshots, conn \in BOOLEAN, rx \in BOOLEAN :
        \E logs \in Merged(rows) :
          local' = [local EXCEPT
            !.tx = agent.tx, !.running = agent.running, !.logs = logs,
            !.agentStatus = "ONLINE", !.rx = rx, !.reverse = ReversePath(conn, rx)]
  BY DEF Poll
<1>2. rows \in Seq(Row)
  BY SnapshotsType
<1>3. PICK logs \in SUBSET Row :
        local' = [local EXCEPT
          !.tx = agent.tx, !.running = agent.running, !.logs = logs,
          !.agentStatus = "ONLINE", !.rx = rx, !.reverse = ReversePath(conn, rx)]
  BY <1>1, <1>2, MergedAre
<1>4. local' = [tx |-> agent.tx, running |-> agent.running, logs |-> logs,
                agentStatus |-> "ONLINE", reverse |-> ReversePath(conn, rx), rx |-> rx,
                preflight |-> local.preflight, transfer |-> local.transfer]
  BY <1>3 DEF TypeOK, LocalSet
<1>5. flags' = [online |-> TRUE, reported |-> FALSE, lastTerminal |-> flags.lastTerminal]
  BY DEF Poll, TypeOK, FlagSet
<1>6. QED
  BY <1>2, <1>4, <1>5 DEF Poll

LEMMA ReversePathIs ==
  ASSUME TypeOK, NEW conn \in BOOLEAN, NEW rx \in BOOLEAN
  PROVE  /\ ReversePath(conn, rx) \in {"CONNECTED", "READY", "FAILED", "UNVERIFIED"}
         /\ ReversePath(conn, rx) = "READY" => rx \/ local.preflight
BY ControllerFields DEF ReversePath

LEMMA RetryIs ==
  ASSUME TypeOK, Retry
  PROVE  /\ \E logs \in SUBSET Row :
              local' = [tx |-> local.tx, running |-> local.running,
                        logs |-> logs, agentStatus |-> local.agentStatus, reverse |-> local.reverse,
                        rx |-> local.rx, preflight |-> local.preflight,
                        transfer |-> [status |-> "RETRY_PENDING", tx |-> mirror.tx]]
         /\ mirror' = Idle /\ UNCHANGED <<agent, flags, runs, earlier>>
<1>1. PICK logs \in Cuts(local.logs) :
        local' = [local EXCEPT !.transfer = [status |-> "RETRY_PENDING", tx |-> mirror.tx],
                               !.logs = logs]
  BY DEF Retry
<1>2. logs \in SUBSET Row
  BY CutsAre, ControllerFields
<1>3. local' = [tx |-> local.tx, running |-> local.running,
                logs |-> logs, agentStatus |-> local.agentStatus, reverse |-> local.reverse,
                rx |-> local.rx, preflight |-> local.preflight,
                transfer |-> [status |-> "RETRY_PENDING", tx |-> mirror.tx]]
  BY <1>1 DEF TypeOK, LocalSet
<1>4. QED
  BY <1>2, <1>3 DEF Retry

LEMMA OwnLogIs ==
  ASSUME TypeOK, OwnLog
  PROVE  /\ UNCHANGED <<agent, mirror, flags, runs, earlier>>
         /\ \E logs \in SUBSET Row :
              local' = [tx |-> local.tx, running |-> local.running,
                        logs |-> logs, agentStatus |-> local.agentStatus, reverse |-> local.reverse,
                        rx |-> local.rx, preflight |-> local.preflight, transfer |-> local.transfer]
<1>1. PICK logs \in Cuts(local.logs) : local' = [local EXCEPT !.logs = logs]
  BY DEF OwnLog
<1>2. logs \in SUBSET Row
  BY CutsAre, ControllerFields
<1>3. local' = [tx |-> local.tx, running |-> local.running,
                logs |-> logs, agentStatus |-> local.agentStatus, reverse |-> local.reverse,
                rx |-> local.rx, preflight |-> local.preflight, transfer |-> local.transfer]
  BY <1>1 DEF TypeOK, LocalSet
<1>4. QED
  BY <1>2, <1>3 DEF OwnLog

\* A page is refused, or adds to the stream, or ends it.
LEMMA FetchPageIs ==
  ASSUME TypeOK, TransferInv, FetchPage
  PROVE  /\ mirror.at = "page" /\ mirror.next \in 1..2 /\ Streams[mirror.next] \in Stream
         /\ UNCHANGED agent
         /\ \/ Retry
            \/ /\ UNCHANGED <<local, flags, runs, earlier>>
               /\ \E pages, expected \in Seq(Row) :
                    mirror' = [at |-> "page", tx |-> mirror.tx, next |-> mirror.next,
                               pages |-> pages, expected |-> expected, got |-> mirror.got,
                            snapshot |-> mirror.snapshot]
            \/ /\ UNCHANGED <<local, flags, runs, earlier>>
               /\ \E s \in Stream, rows \in Seq(Row) :
                    /\ s = Streams[mirror.next] /\ rows = Rows(s, mirror.tx)
                    /\ mirror' = [at |-> IF mirror.next = 2 THEN "merge" ELSE "page",
                                  tx |-> mirror.tx, next |-> mirror.next + 1, pages |-> <<>>,
                                  expected |-> <<>>, got |-> [mirror.got EXCEPT ![s] = rows],
                     snapshot |-> mirror.snapshot]
<1>1. mirror.at = "page" /\ mirror.next \in 1..2
  BY ControllerFields, StreamType DEF FetchPage, TransferInv
<1>2. PICK s \in Stream : s = Streams[mirror.next]
  BY <1>1, StreamType
<1>3. PICK size \in 1..PageSize :
        LET page == Page(s, mirror.tx, Len(mirror.pages), size)
            first == mirror.pages = <<>>
            pages == mirror.pages \o page.items
        IN IF (~first /\ page.digest # mirror.expected) \/ (~page.more /\ pages # page.digest)
             THEN Retry
             ELSE /\ mirror' =
                       IF page.more THEN [mirror EXCEPT !.pages = pages, !.expected = page.digest]
                       ELSE [mirror EXCEPT
                              !.at = IF mirror.next = Len(Streams) THEN "merge" ELSE "page",
                              !.next = @ + 1, !.pages = <<>>, !.expected = <<>>, !.got[s] = pages]
                  /\ UNCHANGED <<agent, local, flags, runs, earlier>>
  BY <1>2 DEF FetchPage
<1> DEFINE page == Page(s, mirror.tx, Len(mirror.pages), size)
           pages == mirror.pages \o page.items
<1>4. /\ page.items \in Seq(Row) /\ page.digest = Rows(s, mirror.tx)
      /\ page.more \in BOOLEAN /\ page.digest \in Seq(Row) /\ pages \in Seq(Row)
  <2>1. size \in Nat /\ Len(mirror.pages) \in Nat
    BY Constants, ControllerFields
  <2>2. page.items \in Seq(Row) /\ page.digest = Rows(s, mirror.tx)
        /\ page.more \in BOOLEAN /\ Rows(s, mirror.tx) \in Seq(Row)
    BY <2>1, PageType
  <2> HIDE DEF page
  <2>3. QED
    BY <2>2, ControllerFields
<1>5. CASE (mirror.pages # <<>> /\ page.digest # mirror.expected) \/ (~page.more /\ pages # page.digest)
  <2>1. Retry
    BY <1>3, <1>5
  <2>2. QED
    BY <1>1, <1>2, <2>1 DEF Retry
<1>6. CASE ~((mirror.pages # <<>> /\ page.digest # mirror.expected) \/ (~page.more /\ pages # page.digest))
  <2>1. /\ mirror' =
             IF page.more THEN [mirror EXCEPT !.pages = pages, !.expected = page.digest]
             ELSE [mirror EXCEPT
                    !.at = IF mirror.next = Len(Streams) THEN "merge" ELSE "page",
                    !.next = @ + 1, !.pages = <<>>, !.expected = <<>>, !.got[s] = pages]
        /\ UNCHANGED <<agent, local, flags, runs, earlier>>
    BY <1>3, <1>6
  <2> HIDE DEF page, pages
  <2>2. CASE page.more
    <3>1. mirror' = [at |-> "page", tx |-> mirror.tx, next |-> mirror.next,
                     pages |-> pages, expected |-> page.digest, got |-> mirror.got,
                     snapshot |-> mirror.snapshot]
      BY <1>1, <2>1, <2>2 DEF TypeOK, MirrorSet
    <3>2. QED
      BY <1>1, <1>2, <1>4, <2>1, <3>1
  <2>3. CASE ~page.more
    <3>1. pages = Rows(s, mirror.tx)
      BY <1>4, <1>6, <2>3 DEF pages
    <3>2. mirror' = [at |-> IF mirror.next = 2 THEN "merge" ELSE "page",
                     tx |-> mirror.tx, next |-> mirror.next + 1, pages |-> <<>>,
                     expected |-> <<>>, got |-> [mirror.got EXCEPT ![s] = pages],
                     snapshot |-> mirror.snapshot]
      BY <2>1, <2>3, StreamType DEF TypeOK, MirrorSet
    <3>3. QED
      BY <1>1, <1>2, <1>4, <2>1, <3>1, <3>2
  <2>4. QED
    BY <1>4, <2>2, <2>3
<1>7. QED
  BY <1>5, <1>6

LEMMA MergeTerminalIs ==
  ASSUME TypeOK, MergeTerminal
  PROVE  /\ mirror.at = "merge" /\ UNCHANGED <<agent, flags, runs, earlier>>
         /\ \E logs \in SUBSET Row :
              /\ Fits(mirror.got["events"], logs, mirror.got)
              /\ local' = [tx |-> local.tx, running |-> local.running, logs |-> logs,
                           agentStatus |-> local.agentStatus, reverse |-> local.reverse,
                           rx |-> local.rx, preflight |-> local.preflight,
                           transfer |-> [status |-> "VERIFIED", tx |-> mirror.tx]]
              /\ mirror' = [at |-> "archive", tx |-> mirror.tx, next |-> mirror.next,
                            pages |-> mirror.pages, expected |-> mirror.expected,
                            got |-> mirror.got,
                            snapshot |-> [events |-> mirror.got["events"], logs |-> logs]]
<1>1. PICK logs \in Merged(mirror.got["logs"]) : Verified(mirror.got["events"], logs)
  BY DEF MergeTerminal
<1>2. mirror.got["logs"] \in Seq(Row)
  BY ControllerFields, StreamRowType, StreamType
<1>3. /\ logs \in SUBSET Row
      /\ \A r \in ToSet(mirror.got["logs"]) \ logs, q \in logs : ~Older(q, r)
  BY <1>2, MergedAre
<1>4. Fits(mirror.got["events"], logs, mirror.got)
  BY <1>3 DEF Fits
<1>5. /\ local' = [local EXCEPT !.logs = logs,
                                !.transfer = [status |-> "VERIFIED", tx |-> mirror.tx]]
      /\ mirror' = [mirror EXCEPT !.at = "archive",
                      !.snapshot = [events |-> mirror.got["events"], logs |-> logs]]
      /\ UNCHANGED <<agent, runs, earlier>>
  BY <1>1 DEF Verified
<1>6. local' = [tx |-> local.tx, running |-> local.running, logs |-> logs,
                agentStatus |-> local.agentStatus, reverse |-> local.reverse,
                rx |-> local.rx, preflight |-> local.preflight,
                transfer |-> [status |-> "VERIFIED", tx |-> mirror.tx]]
  BY <1>5 DEF TypeOK, LocalSet
<1>7. mirror' = [at |-> "archive", tx |-> mirror.tx, next |-> mirror.next,
                 pages |-> mirror.pages, expected |-> mirror.expected, got |-> mirror.got,
                 snapshot |-> [events |-> mirror.got["events"], logs |-> logs]]
  BY <1>5 DEF TypeOK, MirrorSet
<1>8. QED
  BY <1>3, <1>4, <1>5, <1>6, <1>7 DEF MergeTerminal

LEMMA ArchiveIs ==
  ASSUME TypeOK, Archive
  PROVE  /\ mirror.at = "archive" /\ UNCHANGED <<agent, earlier>>
         /\ local.tx \in Tx /\ ~local.running
         /\ \/ runs' = Append(runs, [tx |-> local.tx, events |-> mirror.snapshot.events,
                                     logs |-> mirror.snapshot.logs, verified |-> mirror.got])
            \/ local.tx \in earlier /\ UNCHANGED runs
         /\ flags' = [online |-> flags.online, reported |-> flags.reported, lastTerminal |-> mirror.tx]
         /\ local' = [tx |-> local.tx, running |-> local.running,
                      logs |-> local.logs, agentStatus |-> local.agentStatus,
                      reverse |-> local.reverse, rx |-> local.rx, preflight |-> local.preflight,
                      transfer |-> [status |-> "ARCHIVED", tx |-> mirror.tx]]
         /\ mirror' = Idle
<1>1. local.tx \in Tx
  BY ControllerFields, TxType DEF Archive
<1>2. flags' = [online |-> flags.online, reported |-> flags.reported, lastTerminal |-> mirror.tx]
  BY DEF Archive, TypeOK, FlagSet
<1>3. QED
  BY <1>1, <1>2 DEF Archive, TypeOK, LocalSet

LEMMA PollFailsIs ==
  ASSUME TypeOK, PollFails
  PROVE  /\ mirror.at = "wait" /\ UNCHANGED <<agent, runs, earlier>>
         /\ \/ \E logs \in SUBSET Row :
                 local' = [tx |-> local.tx, running |-> local.running,
                           logs |-> logs, agentStatus |-> "OFFLINE", reverse |-> "DISCONNECTED",
                           rx |-> local.rx, preflight |-> local.preflight,
                           transfer |-> local.transfer]
            \/ ~flags.online /\ flags.reported /\ UNCHANGED local
         /\ flags' = [online |-> FALSE, reported |-> TRUE, lastTerminal |-> flags.lastTerminal]
         /\ mirror' = [Idle EXCEPT !.at = "backoff"]
<1>1. flags' = [online |-> FALSE, reported |-> TRUE, lastTerminal |-> flags.lastTerminal]
  BY DEF PollFails, TypeOK, FlagSet
<1>2. ASSUME NEW logs \in Cuts(local.logs),
             local' = [local EXCEPT !.agentStatus = "OFFLINE", !.reverse = "DISCONNECTED",
                                    !.logs = logs]
      PROVE  /\ logs \in SUBSET Row
             /\ local' = [tx |-> local.tx, running |-> local.running,
                          logs |-> logs, agentStatus |-> "OFFLINE", reverse |-> "DISCONNECTED",
                          rx |-> local.rx, preflight |-> local.preflight,
                          transfer |-> local.transfer]
  <2>1. logs \in SUBSET Row
    BY CutsAre, ControllerFields
  <2>2. QED
    BY <1>2, <2>1 DEF TypeOK, LocalSet
<1>3. QED
  BY <1>1, <1>2 DEF PollFails

LEMMA LanTestIs ==
  ASSUME TypeOK, NEW bad, LanTest(bad)
  PROVE  /\ UNCHANGED <<agent, mirror, flags, runs, earlier>>
         /\ \E ok \in BOOLEAN :
              local' = [tx |-> local.tx, running |-> local.running,
                        logs |-> local.logs, agentStatus |-> local.agentStatus,
                        reverse |-> IF ok THEN "READY" ELSE "FAILED", rx |-> local.rx,
                        preflight |-> ok, transfer |-> local.transfer]
<1> DEFINE check == LanCheck(bad)
<1>1. PICK ok \in BOOLEAN : ok = (check.agent /\ check.apModem /\ check.modemEnb)
  OBVIOUS
<1>2. local' = [local EXCEPT !.preflight = ok, !.reverse = IF ok THEN "READY" ELSE "FAILED"]
  BY <1>1 DEF LanTest
<1>3. QED
  BY <1>2 DEF LanTest, TypeOK, LocalSet

LEMMA IdleType ==
  ASSUME NEW at \in {"wait", "backoff", "page", "merge", "archive"}, NEW tx \in AnyTx
  PROVE  /\ Idle \in MirrorSet
         /\ [Idle EXCEPT !.at = at] \in MirrorSet
         /\ [Idle EXCEPT !.at = at, !.tx = tx] \in MirrorSet
<1>1. 1 \in 1..(Len(Streams) + 1) /\ <<>> \in Seq(Row)
  BY StreamType
<1>2. QED
  BY <1>1, EmptyType, TxType, NoSnapshotType DEF Idle, MirrorSet

LEMMA PollTypes ==
  ASSUME TypeOK, Poll
  PROVE  TypeOK'
<1>1. PICK logs \in SUBSET Row, conn \in BOOLEAN, rx \in BOOLEAN :
        local' = [tx |-> agent.tx, running |-> agent.running, logs |-> logs,
                  agentStatus |-> "ONLINE", reverse |-> ReversePath(conn, rx), rx |-> rx,
                  preflight |-> local.preflight, transfer |-> local.transfer]
  BY PollIs
<1>2. PICK reverse \in {"CONNECTED", "READY", "FAILED", "UNVERIFIED"} : reverse = ReversePath(conn, rx)
  BY ReversePathIs
<1>3. local' \in LocalSet
  <2>1. local.transfer \in [status : {"none", "VERIFIED", "ARCHIVED", "RETRY_PENDING"}, tx : AnyTx]
    BY DEF TypeOK, LocalSet
  <2>2. QED
    BY <1>1, <1>2, <2>1, AgentFields, ControllerFields DEF LocalSet
<1>4. flags' \in FlagSet
  <2>1. flags' = [online |-> TRUE, reported |-> FALSE, lastTerminal |-> flags.lastTerminal]
    BY PollIs
  <2>2. QED
    BY <2>1, ControllerFields DEF FlagSet
<1>5. mirror' \in MirrorSet
  BY PollIs, AgentFields, IdleType
<1>6. QED
  BY <1>3, <1>4, <1>5, PollIs DEF TypeOK

LEMMA FetchPageTypes ==
  ASSUME TypeOK, TransferInv, FetchPage
  PROVE  mirror' \in MirrorSet
<1>1. CASE Retry
  BY <1>1, RetryIs, IdleType, TxType
<1>2. CASE \E pages, expected \in Seq(Row) :
             mirror' = [at |-> "page", tx |-> mirror.tx, next |-> mirror.next,
                        pages |-> pages, expected |-> expected, got |-> mirror.got,
                            snapshot |-> mirror.snapshot]
  <2>1. 1..(Len(Streams) + 1) = 1..3
    BY StreamType
  <2>2. QED
    BY <1>2, <2>1, ControllerFields DEF MirrorSet
<1>3. CASE \E s \in Stream, rows \in Seq(Row) :
             mirror' = [at |-> IF mirror.next = 2 THEN "merge" ELSE "page",
                        tx |-> mirror.tx, next |-> mirror.next + 1, pages |-> <<>>,
                        expected |-> <<>>, got |-> [mirror.got EXCEPT ![s] = rows],
                     snapshot |-> mirror.snapshot]
  <2>1. PICK s \in Stream, rows \in Seq(Row) :
          mirror' = [at |-> IF mirror.next = 2 THEN "merge" ELSE "page",
                     tx |-> mirror.tx, next |-> mirror.next + 1, pages |-> <<>>,
                     expected |-> <<>>, got |-> [mirror.got EXCEPT ![s] = rows],
                     snapshot |-> mirror.snapshot]
    BY <1>3
  <2>2. [mirror.got EXCEPT ![s] = rows] \in Streamed
    BY StreamedExcept, ControllerFields
  <2>3. mirror.next + 1 \in 1..(Len(Streams) + 1) /\ <<>> \in Seq(Row)
    BY FetchPageIs, StreamType
  <2>4. QED
    BY <2>1, <2>2, <2>3, ControllerFields DEF MirrorSet
<1>4. QED
  BY <1>1, <1>2, <1>3, FetchPageIs

LEMMA TransferType ==
  ASSUME TypeOK
  PROVE  /\ local.transfer \in [status : {"none", "VERIFIED", "ARCHIVED", "RETRY_PENDING"}, tx : AnyTx]
         /\ \A status \in {"VERIFIED", "ARCHIVED", "RETRY_PENDING"} :
              [status |-> status, tx |-> mirror.tx]
                \in [status : {"none", "VERIFIED", "ARCHIVED", "RETRY_PENDING"}, tx : AnyTx]
BY ControllerFields DEF TypeOK, LocalSet

LEMMA RetryTypes ==
  ASSUME TypeOK, Retry
  PROVE  local' \in LocalSet /\ mirror' \in MirrorSet
<1>1. [status |-> "RETRY_PENDING", tx |-> mirror.tx]
        \in [status : {"none", "VERIFIED", "ARCHIVED", "RETRY_PENDING"}, tx : AnyTx]
  BY TransferType
<1>2. mirror' = Idle
  BY RetryIs
<1>3. mirror' \in MirrorSet
  BY <1>2, IdleType, TxType
<1>4. PICK logs \in SUBSET Row :
        local' = [tx |-> local.tx, running |-> local.running,
                  logs |-> logs, agentStatus |-> local.agentStatus, reverse |-> local.reverse,
                  rx |-> local.rx, preflight |-> local.preflight,
                  transfer |-> [status |-> "RETRY_PENDING", tx |-> mirror.tx]]
  BY RetryIs
<1>5. QED
  BY <1>1, <1>3, <1>4, ControllerFields DEF LocalSet

LEMMA ArchiveTypes ==
  ASSUME TypeOK, Archive
  PROVE  TypeOK'
<1>1. [status |-> "ARCHIVED", tx |-> mirror.tx]
        \in [status : {"none", "VERIFIED", "ARCHIVED", "RETRY_PENDING"}, tx : AnyTx]
  BY TransferType
<1>2. local' = [tx |-> local.tx, running |-> local.running,
                logs |-> local.logs, agentStatus |-> local.agentStatus,
                reverse |-> local.reverse, rx |-> local.rx, preflight |-> local.preflight,
                transfer |-> [status |-> "ARCHIVED", tx |-> mirror.tx]]
  BY ArchiveIs
<1>3. local' \in LocalSet
  BY <1>1, <1>2, ControllerFields DEF LocalSet
<1>4. flags' = [online |-> flags.online, reported |-> flags.reported, lastTerminal |-> mirror.tx]
  BY ArchiveIs
<1>5. flags' \in FlagSet
  BY <1>4, ControllerFields DEF FlagSet
<1>6. runs' \in Seq(RunSet)
  <2> DEFINE run == [tx |-> local.tx, events |-> mirror.snapshot.events,
                     logs |-> mirror.snapshot.logs, verified |-> mirror.got]
  <2>1. run \in RunSet
    BY ArchiveIs, ControllerFields DEF RunSet, SnapshotSet
  <2>2. runs \in Seq(RunSet)
    BY DEF TypeOK
  <2>3. runs' = Append(runs, run) \/ runs' = runs
    BY ArchiveIs
  <2> HIDE DEF run
  <2>4. QED
    BY <2>1, <2>2, <2>3
<1>7. mirror' \in MirrorSet
  BY ArchiveIs, IdleType, TxType
<1>8. QED
  BY <1>3, <1>5, <1>6, <1>7, ArchiveIs DEF TypeOK

LEMMA OtherTypes ==
  ASSUME TypeOK, PollFails \/ MergeTerminal \/ (\E bad : LanTest(bad)) \/ OwnLog
  PROVE  TypeOK'
<1>1. CASE PollFails
  <2>1. mirror' \in MirrorSet
    BY <1>1, PollFailsIs, IdleType, TxType
  <2>2. flags' \in FlagSet
    <3>1. flags' = [online |-> FALSE, reported |-> TRUE, lastTerminal |-> flags.lastTerminal]
      BY <1>1, PollFailsIs
    <3>2. QED
      BY <3>1, ControllerFields DEF FlagSet
  <2>3. local' \in LocalSet
    <3>1. CASE \E logs \in SUBSET Row :
                 local' = [tx |-> local.tx, running |-> local.running,
                           logs |-> logs, agentStatus |-> "OFFLINE", reverse |-> "DISCONNECTED",
                           rx |-> local.rx, preflight |-> local.preflight,
                           transfer |-> local.transfer]
      BY <3>1, ControllerFields, TransferType DEF LocalSet
    <3>2. CASE UNCHANGED local
      BY <3>2 DEF TypeOK
    <3>3. QED
      BY <1>1, <3>1, <3>2, PollFailsIs
  <2>4. QED
    BY <1>1, <2>1, <2>2, <2>3, PollFailsIs DEF TypeOK
<1>2. CASE MergeTerminal
  <2>1. PICK logs \in SUBSET Row :
          /\ local' = [tx |-> local.tx, running |-> local.running, logs |-> logs,
                       agentStatus |-> local.agentStatus, reverse |-> local.reverse,
                       rx |-> local.rx, preflight |-> local.preflight,
                       transfer |-> [status |-> "VERIFIED", tx |-> mirror.tx]]
          /\ mirror' = [at |-> "archive", tx |-> mirror.tx, next |-> mirror.next,
                        pages |-> mirror.pages, expected |-> mirror.expected,
                        got |-> mirror.got,
                        snapshot |-> [events |-> mirror.got["events"], logs |-> logs]]
    BY <1>2, MergeTerminalIs
  <2>2. PICK events \in Seq(Row) : events = mirror.got["events"]
    BY ControllerFields, StreamRowType, StreamType
  <2>3. [status |-> "VERIFIED", tx |-> mirror.tx]
          \in [status : {"none", "VERIFIED", "ARCHIVED", "RETRY_PENDING"}, tx : AnyTx]
    BY TransferType
  <2>4. local' \in LocalSet
    BY <2>1, <2>2, <2>3, ControllerFields DEF LocalSet
  <2>5. [events |-> events, logs |-> logs] \in SnapshotSet
    BY DEF SnapshotSet
  <2>6. mirror' \in MirrorSet
    <3>1. 1..(Len(Streams) + 1) = 1..3
      BY StreamType
    <3>2. QED
      BY <2>1, <2>2, <2>5, <3>1, ControllerFields DEF MirrorSet
  <2>7. QED
    BY <1>2, <2>4, <2>6, MergeTerminalIs DEF TypeOK
<1>3. ASSUME NEW bad, LanTest(bad) PROVE TypeOK'
  <2>1. PICK ok \in BOOLEAN :
          local' = [tx |-> local.tx, running |-> local.running,
                    logs |-> local.logs, agentStatus |-> local.agentStatus,
                    reverse |-> IF ok THEN "READY" ELSE "FAILED", rx |-> local.rx,
                    preflight |-> ok, transfer |-> local.transfer]
    BY <1>3, LanTestIs
  <2>2. local' \in LocalSet
    BY <2>1, ControllerFields, TransferType DEF LocalSet
  <2>3. QED
    BY <1>3, <2>2, LanTestIs DEF TypeOK
<1>4. CASE OwnLog
  <2>1. local' \in LocalSet
    BY <1>4, OwnLogIs, ControllerFields, TransferType DEF LocalSet
  <2>2. QED
    BY <1>4, <2>1, OwnLogIs DEF TypeOK
<1>5. QED
  BY <1>1, <1>2, <1>3, <1>4

LEMMA RunFields ==
  ASSUME TypeOK
  PROVE  /\ runs \in Seq(RunSet) /\ Len(runs) \in Nat /\ DOMAIN runs = 1..Len(runs)
         /\ \A i \in DOMAIN runs : runs[i].tx \in Tx /\ runs[i].verified \in Streamed
<1>1. runs \in Seq(RunSet)
  BY DEF TypeOK
<1>2. \A run \in RunSet : run.tx \in Tx /\ run.verified \in Streamed
  BY DEF RunSet
<1>3. QED
  BY <1>1, <1>2

LEMMA RestartTypes ==
  ASSUME TypeOK, Restart
  PROVE  TypeOK'
<1>1. mirror' \in MirrorSet
  BY IdleType, TxType DEF Restart
<1>2. local' \in LocalSet /\ flags' \in FlagSet
  <2>1. PICK logs \in SUBSET Row : local' = [FreshLocal EXCEPT !.logs = logs]
    BY CutsAre, ControllerFields DEF Restart
  <2>2. <<>> \in Seq(Row)
    OBVIOUS
  <2>3. QED
    BY <2>1, <2>2, TxType DEF Restart, FreshLocal, FreshFlags, LocalSet, FlagSet, NoTransfer
<1>3. earlier' \subseteq Tx
  <2>1. \A i \in DOMAIN runs : runs[i].tx \in Tx
    BY RunFields
  <2>2. QED
    BY <2>1 DEF TypeOK, Restart
<1>4. runs' \in Seq(RunSet)
  BY DEF Restart
<1>5. QED
  BY <1>1, <1>2, <1>3, <1>4 DEF TypeOK, Restart

LEMMA NextTypes ==
  ASSUME TypeOK, TransferInv, [Next]_vars
  PROVE  TypeOK'
<1>1. CASE AgentStep
  BY <1>1, AgentTypes
<1>2. CASE Poll
  BY <1>2, PollTypes
<1>3. CASE BackoffEnds
  <2>1. mirror' \in MirrorSet
    BY <1>3, IdleType, TxType DEF BackoffEnds
  <2>2. QED
    BY <1>3, <2>1 DEF BackoffEnds, TypeOK
<1>4. CASE FetchPage
  <2>1. mirror' \in MirrorSet
    BY <1>4, FetchPageTypes
  <2>2. local' \in LocalSet /\ UNCHANGED <<agent, flags, runs, earlier>>
    <3>1. CASE Retry
      BY <3>1, RetryIs, RetryTypes
    <3>2. CASE UNCHANGED <<local, flags, runs, earlier>>
      BY <1>4, <3>2, FetchPageIs DEF TypeOK
    <3>3. QED
      BY <1>4, <3>1, <3>2, FetchPageIs
  <2>3. QED
    BY <2>1, <2>2 DEF TypeOK
<1>5. CASE Archive
  BY <1>5, ArchiveTypes
<1>6. CASE TransferFails
  BY <1>6, RetryIs, RetryTypes DEF TransferFails, TypeOK
<1>7. CASE Restart
  BY <1>7, RestartTypes
<1>8. CASE UNCHANGED vars
  BY <1>8 DEF vars, TypeOK
<1>9. QED
  BY <1>1, <1>2, <1>3, <1>4, <1>5, <1>6, <1>7, <1>8, OtherTypes DEF Next, MirrorStep

-----------------------------------------------------------------------------
(* The streams of the agent                                                *)

LEMMA NumberedEmpty ==
  ASSUME NEW tx, NEW begun
  PROVE  Numbered(<<>>, 0, tx, begun)
BY DEF Numbered

LEMMA NumberedNext ==
  ASSUME NEW rows \in Seq(Row), NEW made \in Nat, NEW tx \in AnyTx, NEW begun \in Nat,
         Numbered(rows, made, tx, begun)
  PROVE  Numbered(rows, 0, begun + 1, begun + 1)
<1>1. \A i \in DOMAIN rows : rows[i].tx \in Nat /\ rows[i].tx <= begun
  <2>1. \A i \in DOMAIN rows : rows[i] \in Row
    OBVIOUS
  <2>2. QED
    BY <2>1, TxType DEF Numbered, Row
<1>2. QED
  BY <1>1 DEF Numbered

\* After a reset no row is of a transaction that goes on.
LEMMA NumberedReset ==
  ASSUME NEW rows \in Seq(Row), NEW made, NEW tx, NEW begun, NEW n \in Nat,
         Numbered(rows, made, tx, begun)
  PROVE  Numbered(LastRows(rows, n), 0, NoTx, begun)
<1> DEFINE left == LastRows(rows, n)
           d == Dropped(rows, n)
<1>1. /\ left \in Seq(Row) /\ d \in 0..Len(rows) /\ Len(left) = Len(rows) - d
      /\ \A i \in 1..(Len(rows) - d) : left[i] = rows[d + i]
  BY LastRowsAre
<1> HIDE DEF left, d
<1>2. ASSUME NEW i \in DOMAIN left PROVE left[i].tx <= begun /\ left[i].tx # NoTx
  <2>1. d + i \in DOMAIN rows /\ left[i] = rows[d + i] /\ left[i] \in Row
    BY <1>1
  <2>2. QED
    BY <2>1, TxType DEF Numbered, Row
<1>3. Numbered(left, 0, NoTx, begun)
  BY <1>2 DEF Numbered
<1>4. QED
  BY <1>3 DEF left

LEMMA NumberedAppend ==
  ASSUME NEW rows \in Seq(Row), NEW made \in Nat, NEW tx \in Tx, NEW begun \in Nat,
         tx <= begun, Numbered(rows, made, tx, begun),
         NEW row \in Row, row = [tx |-> tx, n |-> made + 1]
  PROVE  Numbered(LastRows(Append(rows, row), Keep), made + 1, tx, begun)
<1> DEFINE all == Append(rows, row)
           new == LastRows(all, Keep)
<1>1. /\ all \in Seq(Row) /\ Len(all) = Len(rows) + 1 /\ Len(rows) \in Nat
      /\ all[Len(all)] = row
      /\ \A i \in 1..Len(rows) : all[i] = rows[i]
  OBVIOUS
<1> DEFINE d == Dropped(all, Keep)
<1>2. /\ new \in Seq(Row) /\ Len(new) = Len(all) - d /\ d \in Nat /\ d < Len(all)
      /\ \A i \in 1..(Len(all) - d) : new[i] = all[d + i]
  <2> HIDE DEF all
  <2>1. Keep \in Nat /\ Keep > 0
    BY Constants
  <2>2. d \in Nat /\ d < Len(all)
    BY <1>1, <2>1 DEF Dropped
  <2>3. QED
    BY <1>1, <2>1, <2>2, LastRowsAre
<1> HIDE DEF all, new, d
<1>a. /\ DOMAIN rows = 1..Len(rows) /\ DOMAIN new = 1..Len(new)
      /\ Len(new) \in Nat /\ d \in Nat /\ Len(new) >= 1
      /\ Len(new) + d = Len(rows) + 1 /\ Len(all) = Len(rows) + 1
  <2>4. DOMAIN rows = 1..Len(rows) /\ DOMAIN new = 1..Len(new) /\ Len(new) \in Nat
    BY <1>2
  <2>5. QED
    BY <1>1, <1>2, <2>4
<1>b. \A i \in 1..Len(new) : new[i] = all[d + i]
  BY <1>2
<1>3. row.tx = tx /\ row.n = made + 1 /\ tx \in Nat
  BY TxType
<1>4. \A i \in DOMAIN rows : rows[i].tx \in Nat /\ rows[i].n \in Nat
  <2>1. \A i \in DOMAIN rows : rows[i] \in Row
    OBVIOUS
  <2>2. QED
    BY <2>1, TxType DEF Row
<1>5. new # <<>> /\ new[Len(new)] = row
  <2>1. Len(new) \in 1..Len(new) /\ d + Len(new) = Len(all)
    BY <1>a
  <2>2. new[Len(new)] = all[Len(all)]
    BY <1>b, <2>1
  <2>3. QED
    BY <1>1, <1>2, <1>a, <2>2
<1>6. ASSUME NEW i \in DOMAIN new
      PROVE  /\ new[i].tx <= begun
             /\ new[i].tx = tx =>
                  /\ new[i].n + Len(new) = made + 1 + i
                  /\ \A j \in DOMAIN new : j >= i => new[j].tx = tx
  <2>1. i \in 1..Len(new) /\ new[i] = all[d + i] /\ d + i \in 1..Len(all)
    BY <1>a, <1>b
  <2>2. CASE d + i = Len(all)
    <3>1. i = Len(new) /\ new[i] = row
      BY <1>1, <1>a, <2>1, <2>2
    <3>2. \A j \in DOMAIN new : j >= i => j = i
      BY <1>a, <3>1
    <3>3. QED
      BY <1>a, <1>3, <3>1, <3>2
  <2>3. CASE d + i # Len(all)
    <3>1. d + i \in DOMAIN rows /\ new[i] = rows[d + i]
      <4>1. d + i \in 1..Len(rows)
        BY <1>a, <2>1, <2>3
      <4>2. QED
        BY <1>1, <1>a, <2>1, <4>1
    <3>2. new[i].tx <= begun
      BY <3>1 DEF Numbered
    <3>3. ASSUME new[i].tx = tx PROVE new[i].n + Len(new) = made + 1 + i
      <4>1. rows[d + i].n + Len(rows) = made + (d + i)
        BY <3>1, <3>3 DEF Numbered
      <4>2. rows[d + i].n \in Nat
        BY <3>1, <1>4
      <4>3. QED
        <5>1. new[i].n = rows[d + i].n
          BY <3>1
        <5>2. i \in Nat
          BY <1>a, <2>1
        <5>3. QED
          <6>1. PICK n \in Nat : n = rows[d + i].n
            BY <4>2
          <6>2. PICK old \in Nat : old = Len(rows)
            OBVIOUS
          <6>a. PICK len \in Nat : len = Len(new)
            BY <1>a
          <6>3. n + old = made + (d + i) /\ len + d = old + 1
            BY <1>a, <4>1, <6>1, <6>2, <6>a
          <6>4. n + len = made + 1 + i
            <7>1. d \in Nat /\ i \in Nat
              BY <1>a, <5>2
            <7>2. QED
              BY <6>3, <7>1
          <6>5. QED
            BY <5>1, <6>1, <6>a, <6>4
    <3>4. ASSUME new[i].tx = tx, NEW j \in DOMAIN new, j >= i PROVE new[j].tx = tx
      <4>1. j \in 1..Len(new) /\ new[j] = all[d + j] /\ d + j \in 1..Len(all)
        BY <1>a, <1>b, <3>4
      <4>2. CASE d + j = Len(all)
        BY <1>1, <1>3, <4>1, <4>2
      <4>3. CASE d + j # Len(all)
        <5>1. d + j \in DOMAIN rows /\ new[j] = rows[d + j] /\ d + j >= d + i
          <6>1. d + j \in 1..Len(rows) /\ d + j >= d + i
            BY <1>a, <2>1, <3>4, <4>1, <4>3
          <6>2. QED
            BY <1>1, <1>a, <4>1, <6>1
        <5>2. QED
          BY <3>1, <3>4, <5>1 DEF Numbered
      <4>4. QED
        BY <4>2, <4>3
    <3>5. QED
      BY <3>2, <3>3, <3>4
  <2>4. QED
    BY <2>2, <2>3
<1>7. Numbered(new, made + 1, tx, begun)
  BY <1>3, <1>5, <1>6 DEF Numbered
<1>8. QED
  BY <1>7 DEF new, all

\* What is taken of the current transaction reaches from some row to the last.
LEMMA RowsAreWhole ==
  ASSUME NEW rows \in Seq(Row), NEW tx, NEW made \in Nat, NEW final \in Nat, NEW begun,
         final <= made, Numbered(rows, made, tx, begun)
  PROVE  Whole(TransactionRows(rows, tx), final)
<1> DEFINE taken == TransactionRows(rows, tx)
<1>1. \A i, j \in DOMAIN rows : rows[i].tx = tx /\ j >= i => rows[j].tx = tx
  BY DEF Numbered
<1>2. PICK c \in 0..Len(rows) :
        /\ taken = SubSeq(rows, c + 1, Len(rows))
        /\ \A i \in DOMAIN rows : rows[i].tx = tx <=> i > c
  BY <1>1, RowsAreLast
<1>3. /\ taken \in Seq(Row) /\ Len(taken) = Len(rows) - c
      /\ \A i \in 1..(Len(rows) - c) : taken[i] = rows[c + i]
  <2>1. \A i \in (c + 1)..Len(rows) : rows[i] \in Row
    OBVIOUS
  <2> HIDE DEF taken
  <2>2. QED
    BY <1>2, <2>1, SubSeqProperties
<1> HIDE DEF taken
<1>4. ASSUME NEW i \in DOMAIN taken
      PROVE  taken[i].n \in Nat /\ taken[i].n + Len(rows) = made + (c + i)
  <2>1. c + i \in DOMAIN rows /\ c + i > c /\ taken[i] = rows[c + i]
    BY <1>3
  <2>2. rows[c + i] \in Row
    BY <2>1
  <2>3. QED
    BY <1>2, <2>1, <2>2 DEF Numbered, Row
<1>5. ASSUME NEW i \in DOMAIN taken, i > 1 PROVE taken[i].n = taken[i - 1].n + 1
  <2>1. i - 1 \in DOMAIN taken
    BY <1>3, <1>5
  <2>2. QED
    <3>1. taken[i].n \in Nat /\ taken[i - 1].n \in Nat
      BY <1>4, <2>1
    <3>2. /\ taken[i].n + Len(rows) = made + (c + i)
          /\ taken[i - 1].n + Len(rows) = made + (c + (i - 1))
      BY <1>4, <2>1
    <3>3. i \in Nat /\ Len(rows) \in Nat /\ c \in Nat
      BY <1>3
    <3>4. QED
      <4>1. PICK m, n \in Nat : m = taken[i].n /\ n = taken[i - 1].n
        BY <3>1
      <4>2. PICK len \in Nat : len = Len(rows)
        BY <3>3
      <4>3. m + len = made + (c + i) /\ n + len = made + (c + (i - 1))
        BY <3>2, <4>1, <4>2
      <4>4. m = n + 1
        BY <3>3, <4>3
      <4>5. QED
        BY <4>1, <4>4
<1>6. ASSUME final > 0 PROVE taken # <<>> /\ Last(taken).n >= final
  <2>1. rows # <<>> /\ rows[Len(rows)].tx = tx
    BY <1>6 DEF Numbered
  <2>2. Len(rows) > c
    BY <1>2, <2>1
  <2>3. Len(taken) \in DOMAIN taken /\ taken # <<>>
    BY <1>3, <2>2
  <2>4. taken[Len(taken)].n = made
    BY <1>3, <1>4, <2>3
  <2>5. QED
    BY <2>3, <2>4 DEF Last
<1>7. Whole(taken, final)
  BY <1>5, <1>6 DEF Whole
<1>8. QED
  BY <1>7 DEF taken

LEMMA StreamNumbers ==
  ASSUME TypeOK, NEW s \in Stream
  PROVE  agent.rows[s] \in Seq(Row) /\ agent.made[s] \in Nat /\ agent.final[s] \in Nat
BY AgentFields, StreamRowType

LEMMA AgentKeepsInv ==
  ASSUME TypeOK, AgentInv, AgentStep
  PROVE  AgentInv'
<1>1. CASE StartAttach
  <2>1. /\ agent'.tx = agent.begun + 1 /\ agent'.begun = agent.begun + 1
        /\ agent'.rows = [agent.rows EXCEPT !["events"] = <<>>]
        /\ agent'.made = [s \in Stream |-> 0] /\ agent'.final = [s \in Stream |-> 0]
    BY <1>1, StartAttachIs
  <2>2. agent.begun \in Nat /\ agent.tx \in AnyTx
    BY AgentFields, TxType
  <2>3. ASSUME NEW s \in Stream
        PROVE  Numbered(agent'.rows[s], 0, agent.begun + 1, agent.begun + 1)
    <3>1. CASE s = "events"
      <4>1. agent'.rows[s] = <<>>
        BY <2>1, <3>1, AgentFields DEF Streamed
      <4>2. QED
        BY <4>1, NumberedEmpty
    <3>2. CASE s # "events"
      <4>1. agent'.rows[s] = agent.rows[s]
        BY <2>1, <3>2, AgentFields DEF Streamed
      <4>2. Numbered(agent.rows[s], agent.made[s], agent.tx, agent.begun)
        BY DEF AgentInv
      <4>3. Numbered(agent.rows[s], 0, agent.begun + 1, agent.begun + 1)
        BY <2>2, <4>2, StreamNumbers, NumberedNext
      <4>4. QED
        BY <4>1, <4>3
    <3>3. QED
      BY <3>1, <3>2
  <2>4. \A s \in Stream : agent'.made[s] = 0 /\ agent'.final[s] = 0
    BY <2>1
  <2>5. \A s \in Stream : /\ agent'.final[s] <= agent'.made[s]
                          /\ Numbered(agent'.rows[s], agent'.made[s], agent'.tx, agent'.begun)
    BY <2>1, <2>3, <2>4
  <2>6. QED
    BY <2>1, <2>5 DEF AgentInv
<1>2. ASSUME NEW s \in Stream, AddRow(s) PROVE AgentInv'
  <2>1. PICK row \in Row, rows \in Seq(Row) :
          /\ row = [tx |-> agent.tx, n |-> agent.made[s] + 1]
          /\ rows = LastRows(Append(agent.rows[s], row), Keep)
          /\ agent' = [tx |-> agent.tx, begun |-> agent.begun, running |-> agent.running,
                       rows |-> [agent.rows EXCEPT ![s] = rows],
                       made |-> [agent.made EXCEPT ![s] = @ + 1], final |-> agent.final]
    BY <1>2, AddRowIs
  <2>2. /\ agent'.tx = agent.tx /\ agent'.begun = agent.begun /\ agent'.final = agent.final
        /\ agent'.rows = [agent.rows EXCEPT ![s] = rows]
        /\ agent'.made = [agent.made EXCEPT ![s] = @ + 1]
    BY <2>1
  <2>3. agent.tx \in Tx /\ agent.begun \in Nat /\ agent.tx <= agent.begun
    BY <1>2, AddRowIs, AgentFields, TxType DEF AgentInv
  <2>4. Numbered(agent.rows[s], agent.made[s], agent.tx, agent.begun)
    BY DEF AgentInv
  <2>5. Numbered(rows, agent.made[s] + 1, agent.tx, agent.begun)
    BY <2>1, <2>3, <2>4, StreamNumbers, NumberedAppend
  <2>6. \A t \in Stream :
          /\ agent'.rows[t] = IF t = s THEN rows ELSE agent.rows[t]
          /\ agent'.made[t] = IF t = s THEN agent.made[s] + 1 ELSE agent.made[t]
    BY <2>2, AgentFields DEF Streamed
  <2>7. ASSUME NEW t \in Stream
        PROVE  /\ agent'.final[t] <= agent'.made[t]
               /\ Numbered(agent'.rows[t], agent'.made[t], agent'.tx, agent'.begun)
    <3>1. agent.final[t] <= agent.made[t] /\ Numbered(agent.rows[t], agent.made[t], agent.tx, agent.begun)
      BY DEF AgentInv
    <3>2. agent'.final[t] <= agent'.made[t]
      BY <2>2, <2>6, <3>1, StreamNumbers
    <3>3. QED
      BY <2>2, <2>5, <2>6, <3>1, <3>2
  <2>8. QED
    BY <2>2, <2>7 DEF AgentInv
<1>3. CASE Finish
  <2>1. /\ agent'.tx = agent.tx /\ agent'.begun = agent.begun /\ agent'.final = agent.made
        /\ agent'.rows = agent.rows /\ agent'.made = agent.made
    BY <1>3, FinishIs
  <2>2. \A s \in Stream : agent.made[s] <= agent.made[s]
    BY StreamNumbers
  <2>3. QED
    BY <2>1, <2>2 DEF AgentInv
<1>4. CASE AgentReset
  <2>1. PICK n \in Nat :
          agent' = [tx |-> NoTx, begun |-> agent.begun, running |-> FALSE,
                    rows |-> [Empty EXCEPT !["logs"] = LastRows(agent.rows["logs"], n)],
                    made |-> [s \in Stream |-> 0], final |-> [s \in Stream |-> 0]]
    BY <1>4, AgentResetIs
  <2> DEFINE rows == [Empty EXCEPT !["logs"] = LastRows(agent.rows["logs"], n)]
  <2>2. \A s \in Stream : rows[s] = IF s = "logs" THEN LastRows(agent.rows["logs"], n) ELSE <<>>
    BY ResetRows
  <2> HIDE DEF rows
  <2>3. /\ agent'.tx = NoTx /\ agent'.begun = agent.begun /\ agent'.rows = rows
        /\ agent'.made = [s \in Stream |-> 0] /\ agent'.final = [s \in Stream |-> 0]
    BY <2>1 DEF rows
  <2>4. ASSUME NEW s \in Stream PROVE Numbered(rows[s], 0, NoTx, agent.begun)
    <3>1. CASE s = "logs"
      <4>1. Numbered(agent.rows[s], agent.made[s], agent.tx, agent.begun)
        BY DEF AgentInv
      <4>2. QED
        BY <2>2, <3>1, <4>1, StreamNumbers, NumberedReset
    <3>2. CASE s # "logs"
      BY <2>2, <3>2, NumberedEmpty
    <3>3. QED
      BY <3>1, <3>2
  <2>5. \A s \in Stream : agent'.made[s] = 0 /\ agent'.final[s] = 0
    BY <2>3
  <2>6. \A s \in Stream : /\ agent'.final[s] <= agent'.made[s]
                          /\ Numbered(agent'.rows[s], agent'.made[s], agent'.tx, agent'.begun)
    BY <2>3, <2>4, <2>5
  <2>7. QED
    BY <2>3, <2>6 DEF AgentInv
<1>5. QED
  BY <1>1, <1>2, <1>3, <1>4 DEF AgentStep

\* For a transaction that is over, the agent only forgets what it had of it.
LEMMA AgentGoesOn ==
  ASSUME TypeOK, AgentInv, AgentStep
  PROVE  /\ agent.begun <= agent'.begun
         /\ \A tx \in Tx :
              /\ tx <= agent.begun /\ (tx = agent.tx => ~agent.running) /\ tx = agent'.tx
              => tx = agent.tx /\ agent'.final = agent.final /\ ~agent'.running
<1>1. agent.begun \in Nat /\ \A tx \in Tx : tx \in Nat /\ tx # NoTx
  BY AgentFields, TxType
<1>2. CASE StartAttach
  <2>1. agent'.tx = agent.begun + 1 /\ agent'.begun = agent.begun + 1
    BY <1>2, StartAttachIs
  <2>2. QED
    BY <1>1, <2>1
<1>3. ASSUME NEW s \in Stream, AddRow(s)
      PROVE  /\ agent'.tx = agent.tx /\ agent'.begun = agent.begun
             /\ agent'.final = agent.final /\ agent'.running = agent.running
  BY <1>3, AddRowIs
<1>4. CASE Finish
  <2>1. agent'.tx = agent.tx /\ agent'.begun = agent.begun /\ agent.running
    BY <1>4, FinishIs
  <2>2. QED
    BY <1>1, <2>1
<1>5. CASE AgentReset
  <2>1. agent'.tx = NoTx /\ agent'.begun = agent.begun
    BY <1>5, AgentResetIs
  <2>2. QED
    BY <1>1, <2>1
<1>6. QED
  BY <1>1, <1>2, <1>3, <1>4, <1>5 DEF AgentStep

\* What the agent shows of a run that is over is good.
LEMMA TakenIsGood ==
  ASSUME TypeOK, AgentInv, NEW s \in Stream, NEW tx \in Tx
  PROVE  Rows(s, tx) \in Seq(Row) /\ Good(Rows(s, tx), tx, agent.tx, agent.final[s])
<1>1. agent.rows[s] \in Seq(Row) /\ agent.made[s] \in Nat /\ agent.final[s] \in Nat
  BY StreamNumbers
<1>2. /\ Rows(s, tx) \in Seq(Row)
      /\ \A i \in DOMAIN Rows(s, tx) : Rows(s, tx)[i].tx = tx
  BY <1>1, TransactionRowsType DEF Rows
<1>3. ASSUME tx = agent.tx PROVE Whole(Rows(s, tx), agent.final[s])
  <2>1. /\ agent.final[s] <= agent.made[s]
        /\ Numbered(agent.rows[s], agent.made[s], agent.tx, agent.begun)
    BY DEF AgentInv
  <2>2. QED
    BY <1>1, <1>3, <2>1, RowsAreWhole DEF Rows
<1>4. QED
  BY <1>2, <1>3 DEF Good

-----------------------------------------------------------------------------
(* The transfer                                                            *)

LEMMA IdleIs ==
  /\ Idle.at = "wait" /\ Idle.got = Empty
  /\ [Idle EXCEPT !.at = "backoff"].at = "backoff" /\ [Idle EXCEPT !.at = "backoff"].got = Empty
  /\ \A at \in {"page", "archive"}, tx \in AnyTx :
       LET taken == [Idle EXCEPT !.at = at, !.tx = tx]
       IN taken.at = at /\ taken.tx = tx /\ taken.next = 1 /\ taken.got = Empty
BY DEF Idle

LEMMA WaitingIsIdle ==
  ASSUME mirror'.at \in {"wait", "backoff"}, mirror'.got = Empty
  PROVE  TransferInv'
BY DEF TransferInv

LEMMA AgentKeepsTransfer ==
  ASSUME TypeOK, AgentInv, TransferInv, AgentStep
  PROVE  TransferInv'
<1>1. UNCHANGED <<mirror, local, flags>>
  BY DEF AgentStep, StartAttach, AddRow, Finish, AgentReset, Controller
<1>2. CASE mirror.at \in {"wait", "backoff"}
  <2>1. mirror.got = Empty
    BY <1>2 DEF TransferInv
  <2>2. QED
    BY <1>1, <1>2, <2>1, WaitingIsIdle
<1>3. CASE mirror.at \in {"page", "merge", "archive"}
  <2>1. /\ flags.lastTerminal < mirror.tx /\ mirror.tx <= agent.begun
        /\ mirror.tx = agent.tx => ~agent.running
        /\ local.tx = mirror.tx /\ ~local.running
    BY <1>3 DEF TransferInv
  <2>2. mirror.tx \in Tx
    BY <2>1, ControllerFields, TxType
  <2>3. agent.begun <= agent'.begun /\ agent.begun \in Nat /\ agent'.begun \in Nat /\ mirror.tx \in Nat
    <3>1. agent'.begun \in AnyTx
      <4>1. TypeOK'
        BY AgentTypes
      <4>2. QED
        BY <4>1 DEF TypeOK, AgentSet
    <3>2. QED
      BY <3>1, AgentGoesOn, AgentFields, ControllerFields, TxType
  <2>4. mirror.tx = agent'.tx =>
          mirror.tx = agent.tx /\ agent'.final = agent.final /\ ~agent'.running
    BY <2>1, <2>2, AgentGoesOn
  <2>5. ASSUME NEW rows, NEW s \in Stream, Good(rows, mirror.tx, agent.tx, agent.final[s])
        PROVE  Good(rows, mirror.tx, agent'.tx, agent'.final[s])
    BY <2>4, <2>5 DEF Good
  <2>6. mirror.tx <= agent'.begun
    BY <2>1, <2>3
  <2>7. \A k \in 1..Len(Streams) : Streams[k] \in Stream
    BY StreamType
  <2>8. QED
    BY <1>1, <1>3, <2>1, <2>4, <2>5, <2>6, <2>7 DEF TransferInv
<1>4. QED
  BY <1>2, <1>3, ControllerFields

LEMMA PollStartsTransfer ==
  ASSUME TypeOK, AgentInv, RunsInv, Poll
  PROVE  TransferInv'
<1>1. CASE ~Unarchived
  <2>1. mirror' = Idle
    BY <1>1, PollIs
  <2>2. QED
    BY <2>1, IdleIs, WaitingIsIdle
<1>2. CASE Unarchived
  <2>1. mirror' = [Idle EXCEPT !.at = "page", !.tx = agent.tx]
    BY <1>2, PollIs
  <2>2. mirror'.at = "page" /\ mirror'.tx = agent.tx /\ mirror'.next = 1
    BY <2>1, IdleIs, AgentFields
  <2>3. local'.tx = agent.tx /\ local'.running = agent.running
    BY PollIs
  <2>4. flags'.lastTerminal = flags.lastTerminal /\ UNCHANGED agent
    BY PollIs
  <2>5. flags.lastTerminal < agent.tx /\ agent.tx <= agent.begun
    <3>1. agent.tx = agent.begun /\ agent.tx # flags.lastTerminal /\ flags.lastTerminal <= agent.begun
      BY <1>2 DEF Unarchived, AgentInv, RunsInv
    <3>2. agent.begun \in Nat /\ flags.lastTerminal \in Nat
      BY AgentFields, ControllerFields, TxType
    <3>3. QED
      BY <3>1, <3>2
  <2>6. ~agent.running
    BY <1>2 DEF Unarchived
  <2>7. \A k \in 1..Len(Streams) : ~(k < 1)
    OBVIOUS
  <2>8. 1 <= Len(Streams)
    BY StreamType
  <2>9. QED
    BY <2>2, <2>3, <2>4, <2>5, <2>6, <2>7, <2>8 DEF TransferInv
<1>3. QED
  BY <1>1, <1>2

LEMMA FetchPageKeepsTransfer ==
  ASSUME TypeOK, AgentInv, TransferInv, FetchPage
  PROVE  TransferInv'
<1>1. CASE Retry
  <2>1. mirror' = Idle
    BY <1>1, RetryIs
  <2>2. QED
    BY <2>1, IdleIs, WaitingIsIdle
<1>2. mirror.at = "page" /\ mirror.next \in 1..2 /\ UNCHANGED agent
  BY FetchPageIs
<1>3. /\ flags.lastTerminal < mirror.tx /\ mirror.tx <= agent.begun
      /\ mirror.tx = agent.tx => ~agent.running
      /\ local.tx = mirror.tx /\ ~local.running
      /\ \A k \in 1..Len(Streams) : k < mirror.next =>
           Good(mirror.got[Streams[k]], mirror.tx, agent.tx, agent.final[Streams[k]])
  BY <1>2 DEF TransferInv
<1>4. CASE /\ UNCHANGED <<local, flags, runs, earlier>>
           /\ \E pages, expected \in Seq(Row) :
                mirror' = [at |-> "page", tx |-> mirror.tx, next |-> mirror.next,
                           pages |-> pages, expected |-> expected, got |-> mirror.got,
                            snapshot |-> mirror.snapshot]
  <2>1. /\ mirror'.at = "page" /\ mirror'.tx = mirror.tx /\ mirror'.next = mirror.next
        /\ mirror'.got = mirror.got
    BY <1>4
  <2>2. mirror.next <= Len(Streams)
    BY <1>2, StreamType
  <2>3. QED
    BY <1>2, <1>3, <1>4, <2>1, <2>2 DEF TransferInv
<1>5. CASE /\ UNCHANGED <<local, flags, runs, earlier>>
           /\ \E s \in Stream, rows \in Seq(Row) :
                /\ s = Streams[mirror.next] /\ rows = Rows(s, mirror.tx)
                /\ mirror' = [at |-> IF mirror.next = 2 THEN "merge" ELSE "page",
                              tx |-> mirror.tx, next |-> mirror.next + 1, pages |-> <<>>,
                              expected |-> <<>>, got |-> [mirror.got EXCEPT ![s] = rows],
                     snapshot |-> mirror.snapshot]
  <2>1. PICK s \in Stream, rows \in Seq(Row) :
          /\ s = Streams[mirror.next] /\ rows = Rows(s, mirror.tx)
          /\ mirror' = [at |-> IF mirror.next = 2 THEN "merge" ELSE "page",
                        tx |-> mirror.tx, next |-> mirror.next + 1, pages |-> <<>>,
                        expected |-> <<>>, got |-> [mirror.got EXCEPT ![s] = rows],
                     snapshot |-> mirror.snapshot]
    BY <1>5
  <2>2. /\ mirror'.at = IF mirror.next = 2 THEN "merge" ELSE "page"
        /\ mirror'.tx = mirror.tx /\ mirror'.next = mirror.next + 1
        /\ mirror'.got = [mirror.got EXCEPT ![s] = rows]
    BY <2>1
  <2>3. \A t \in Stream : mirror'.got[t] = IF t = s THEN rows ELSE mirror.got[t]
    BY <2>2, ControllerFields DEF Streamed
  <2>4. Good(rows, mirror.tx, agent.tx, agent.final[s])
    <3>1. mirror.tx \in Tx
      BY <1>3, ControllerFields, TxType
    <3>2. QED
      BY <2>1, <3>1, TakenIsGood
  <2>5. ASSUME NEW k \in 1..Len(Streams), k < mirror.next + 1
        PROVE  Good(mirror'.got[Streams[k]], mirror.tx, agent.tx, agent.final[Streams[k]])
    <3>1. Streams[k] \in Stream /\ k \in 1..2
      BY StreamType
    <3>2. CASE Streams[k] = s
      BY <2>3, <2>4, <3>1, <3>2
    <3>3. CASE Streams[k] # s
      <4>1. k < mirror.next
        BY <1>2, <2>1, <2>5, <3>1, <3>3
      <4>2. QED
        BY <1>3, <2>3, <3>1, <3>3, <4>1
    <3>4. QED
      BY <3>2, <3>3
  <2>6. /\ mirror'.at = "page" => mirror.next + 1 <= Len(Streams)
        /\ mirror'.at = "merge" => mirror.next + 1 > Len(Streams)
        /\ mirror'.at \in {"page", "merge"}
    BY <1>2, <2>2, StreamType
  <2>7. QED
    BY <1>2, <1>3, <1>5, <2>2, <2>5, <2>6 DEF TransferInv
<1>6. QED
  BY <1>1, <1>4, <1>5, FetchPageIs

LEMMA MergeKeepsTransfer ==
  ASSUME TypeOK, TransferInv, MergeTerminal
  PROVE  TransferInv'
<1>1. PICK logs \in SUBSET Row :
        /\ Fits(mirror.got["events"], logs, mirror.got)
        /\ local'.tx = local.tx /\ local'.running = local.running
        /\ mirror' = [at |-> "archive", tx |-> mirror.tx, next |-> mirror.next,
                      pages |-> mirror.pages, expected |-> mirror.expected,
                      got |-> mirror.got,
                      snapshot |-> [events |-> mirror.got["events"], logs |-> logs]]
        /\ mirror.at = "merge" /\ UNCHANGED <<agent, flags>>
  BY MergeTerminalIs
<1>2. /\ mirror'.at = "archive" /\ mirror'.tx = mirror.tx /\ mirror'.got = mirror.got
      /\ Fits(mirror'.snapshot.events, mirror'.snapshot.logs, mirror'.got)
  BY <1>1
<1>3. /\ flags.lastTerminal < mirror.tx /\ mirror.tx <= agent.begun
      /\ mirror.tx = agent.tx => ~agent.running
      /\ local.tx = mirror.tx /\ ~local.running
      /\ mirror.next > Len(Streams)
      /\ \A k \in 1..Len(Streams) : k < mirror.next =>
           Good(mirror.got[Streams[k]], mirror.tx, agent.tx, agent.final[Streams[k]])
  BY <1>1 DEF TransferInv
<1>4. \A s \in Stream : Good(mirror.got[s], mirror.tx, agent.tx, agent.final[s])
  <2>1. 1 \in 1..Len(Streams) /\ 2 \in 1..Len(Streams) /\ 1 < mirror.next /\ 2 < mirror.next
    BY <1>3, StreamType, ControllerFields
  <2>2. /\ Good(mirror.got["events"], mirror.tx, agent.tx, agent.final["events"])
        /\ Good(mirror.got["logs"], mirror.tx, agent.tx, agent.final["logs"])
    BY <1>3, <2>1, StreamType
  <2>3. QED
    BY <2>2, StreamType
<1>5. QED
  BY <1>1, <1>2, <1>3, <1>4 DEF TransferInv

LEMMA NextKeepsTransfer ==
  ASSUME TypeOK, AgentInv, TransferInv, RunsInv, [Next]_vars
  PROVE  TransferInv'
<1>1. CASE PollFails
  BY <1>1, PollFailsIs, IdleIs, WaitingIsIdle
<1>2. CASE BackoffEnds \/ Archive \/ TransferFails \/ Restart
  <2>1. mirror' = Idle
    BY <1>2, ArchiveIs, RetryIs DEF BackoffEnds, TransferFails, Restart
  <2>2. QED
    BY <2>1, IdleIs, WaitingIsIdle
<1>3. ASSUME NEW bad, LanTest(bad) PROVE TransferInv'
  <2>1. UNCHANGED <<agent, mirror, flags>>
    BY <1>3, LanTestIs
  <2>2. local'.tx = local.tx /\ local'.running = local.running
    BY <1>3, LanTestIs
  <2>3. QED
    BY <2>1, <2>2 DEF TransferInv
<1>4. CASE OwnLog
  <2>1. /\ UNCHANGED <<agent, mirror, flags>>
        /\ local'.tx = local.tx /\ local'.running = local.running
    BY <1>4, OwnLogIs
  <2>2. QED
    BY <2>1 DEF TransferInv
<1>5. CASE UNCHANGED vars
  BY <1>5 DEF vars, TransferInv
<1>6. QED
  BY <1>1, <1>2, <1>3, <1>4, <1>5, AgentKeepsTransfer, PollStartsTransfer, FetchPageKeepsTransfer,
     MergeKeepsTransfer
     DEF Next, MirrorStep

-----------------------------------------------------------------------------
(* The runs archived                                                       *)

\* Nothing was archived, and the agent did not bring a run back.
LEMMA RunsStay ==
  ASSUME TypeOK, AgentInv, RunsInv, UNCHANGED <<runs, flags.lastTerminal>>, AgentStep \/ UNCHANGED agent
  PROVE  RunsInv'
<1>1. CASE UNCHANGED agent
  BY <1>1 DEF RunsInv
<1>2. CASE AgentStep
  <2>1. agent.begun \in Nat /\ agent'.begun \in Nat /\ flags.lastTerminal \in Nat
    <3>1. TypeOK'
      BY <1>2, AgentTypes
    <3>2. agent'.begun \in AnyTx
      BY <3>1 DEF TypeOK, AgentSet
    <3>3. QED
      BY <3>2, AgentFields, ControllerFields, TxType
  <2>2. agent.begun <= agent'.begun
    BY <1>2, AgentGoesOn
  <2>3. flags'.lastTerminal <= agent'.begun
    BY <2>1, <2>2 DEF RunsInv
  <2>4. ASSUME NEW i \in DOMAIN runs
        PROVE  /\ runs[i].tx <= flags.lastTerminal
               /\ runs[i].tx = agent'.tx => ~agent'.running
               /\ \A s \in Stream : Good(runs[i].verified[s], runs[i].tx, agent'.tx, agent'.final[s])
               /\ \A j \in DOMAIN runs : runs[i].tx = runs[j].tx => i = j
    <3>1. /\ runs[i].tx <= flags.lastTerminal
          /\ runs[i].tx = agent.tx => ~agent.running
          /\ \A s \in Stream : Good(runs[i].verified[s], runs[i].tx, agent.tx, agent.final[s])
          /\ \A j \in DOMAIN runs : runs[i].tx = runs[j].tx => i = j
      BY DEF RunsInv
    <3>2. runs[i].tx \in Tx /\ runs[i].tx <= agent.begun
      <4>1. runs[i].tx \in Tx /\ runs[i].tx \in Nat
        BY RunFields, TxType
      <4>2. flags.lastTerminal <= agent.begun
        BY DEF RunsInv
      <4>3. QED
        BY <2>1, <3>1, <4>1, <4>2
    <3>3. runs[i].tx = agent'.tx =>
            runs[i].tx = agent.tx /\ agent'.final = agent.final /\ ~agent'.running
      BY <1>2, <3>1, <3>2, AgentGoesOn
    <3>4. \A s \in Stream : Good(runs[i].verified[s], runs[i].tx, agent'.tx, agent'.final[s])
      BY <3>1, <3>3 DEF Good
    <3>5. QED
      BY <3>1, <3>3, <3>4
  <2>5. \A i \in DOMAIN runs : Fits(runs[i].events, runs[i].logs, runs[i].verified)
    BY DEF RunsInv
  <2>6. QED
    BY <2>3, <2>4, <2>5 DEF RunsInv
<1>3. QED
  BY <1>1, <1>2

LEMMA ArchiveKeepsRuns ==
  ASSUME TypeOK, TransferInv, RunsInv, Archive
  PROVE  RunsInv'
<1>1. /\ mirror.at = "archive" /\ UNCHANGED agent /\ local.tx \in Tx
      /\ flags'.lastTerminal = mirror.tx
  BY ArchiveIs
<1>2. /\ flags.lastTerminal < mirror.tx /\ mirror.tx <= agent.begun
      /\ mirror.tx = agent.tx => ~agent.running
      /\ local.tx = mirror.tx
      /\ \A s \in Stream : Good(mirror.got[s], mirror.tx, agent.tx, agent.final[s])
      /\ Fits(mirror.snapshot.events, mirror.snapshot.logs, mirror.got)
  BY <1>1 DEF TransferInv
<1>3. mirror.tx \in Nat /\ flags.lastTerminal \in Nat
  BY ControllerFields, TxType
<1>4. \A i \in DOMAIN runs : runs[i].tx < mirror.tx /\ runs[i].tx \in Nat
  <2>1. \A i \in DOMAIN runs : runs[i].tx \in Nat
    BY RunFields, TxType
  <2>2. QED
    BY <1>2, <1>3, <2>1 DEF RunsInv
<1>5. CASE UNCHANGED runs
  <2>1. \A i \in DOMAIN runs : runs[i].tx <= mirror.tx
    BY <1>3, <1>4
  <2>2. QED
    BY <1>1, <1>2, <1>5, <2>1 DEF RunsInv
<1>6. CASE runs' = Append(runs, [tx |-> local.tx, events |-> mirror.snapshot.events,
                                 logs |-> mirror.snapshot.logs, verified |-> mirror.got])
  <2> DEFINE run == [tx |-> local.tx, events |-> mirror.snapshot.events,
                     logs |-> mirror.snapshot.logs, verified |-> mirror.got]
             n == Len(runs)
  <2>1. /\ run.tx = mirror.tx /\ run.verified = mirror.got
        /\ run.events = mirror.snapshot.events /\ run.logs = mirror.snapshot.logs
    BY <1>2
  <2>2. /\ n \in Nat /\ DOMAIN runs = 1..n /\ DOMAIN runs' = 1..(n + 1)
        /\ runs'[n + 1] = run /\ \A i \in 1..n : runs'[i] = runs[i]
    <3>1. runs \in Seq(RunSet)
      BY RunFields
    <3> HIDE DEF run
    <3>2. runs' = Append(runs, run)
      BY <1>6 DEF run
    <3>3. QED
      BY <3>1, <3>2
  <2> HIDE DEF run, n
  <2>3. ASSUME NEW i \in DOMAIN runs'
        PROVE  /\ runs'[i].tx <= mirror.tx
               /\ runs'[i].tx = agent.tx => ~agent.running
               /\ \A s \in Stream : Good(runs'[i].verified[s], runs'[i].tx, agent.tx, agent.final[s])
               /\ Fits(runs'[i].events, runs'[i].logs, runs'[i].verified)
    <3>1. CASE i = n + 1
      BY <1>2, <1>3, <2>1, <2>2, <3>1
    <3>2. CASE i \in 1..n
      BY <1>3, <1>4, <2>2, <3>2 DEF RunsInv
    <3>3. QED
      BY <2>2, <3>1, <3>2
  <2>4. ASSUME NEW i \in DOMAIN runs', NEW j \in DOMAIN runs', runs'[i].tx = runs'[j].tx
        PROVE  i = j
    <3>1. CASE i \in 1..n /\ j \in 1..n
      BY <2>2, <2>4, <3>1 DEF RunsInv
    <3>2. CASE i = n + 1 /\ j \in 1..n
      BY <1>3, <1>4, <2>1, <2>2, <2>4, <3>2
    <3>3. CASE i \in 1..n /\ j = n + 1
      BY <1>3, <1>4, <2>1, <2>2, <2>4, <3>3
    <3>4. CASE i = n + 1 /\ j = n + 1
      BY <3>4
    <3>5. QED
      BY <2>2, <3>1, <3>2, <3>3, <3>4
  <2>5. QED
    BY <1>1, <1>2, <2>3, <2>4 DEF RunsInv
<1>7. QED
  BY <1>5, <1>6, ArchiveIs

LEMMA NextKeepsRuns ==
  ASSUME TypeOK, AgentInv, TransferInv, RunsInv, [Next]_vars
  PROVE  RunsInv'
<1>1. CASE AgentStep
  <2>1. UNCHANGED <<runs, flags>>
    BY <1>1 DEF AgentStep, StartAttach, AddRow, Finish, AgentReset, Controller
  <2>2. QED
    BY <1>1, <2>1, RunsStay
<1>2. CASE Poll \/ PollFails \/ BackoffEnds \/ FetchPage \/ MergeTerminal \/ TransferFails
  <2>1. UNCHANGED <<agent, runs>> /\ UNCHANGED flags.lastTerminal
    BY <1>2, PollIs, PollFailsIs, FetchPageIs, MergeTerminalIs, RetryIs DEF BackoffEnds, TransferFails
  <2>2. QED
    BY <2>1, RunsStay
<1>3. CASE Archive
  BY <1>3, ArchiveKeepsRuns
<1>4. CASE Restart
  <2>1. runs' = <<>> /\ flags'.lastTerminal = 0 /\ UNCHANGED agent
    BY <1>4, TxType DEF Restart, FreshFlags
  <2>2. agent.begun \in Nat
    BY AgentFields, TxType
  <2>3. QED
    BY <2>1, <2>2 DEF RunsInv
<1>5. CASE OwnLog \/ \E bad : LanTest(bad)
  BY <1>5, OwnLogIs, LanTestIs, RunsStay
<1>6. CASE UNCHANGED vars
  BY <1>6 DEF vars, RunsInv
<1>7. QED
  BY <1>1, <1>2, <1>3, <1>4, <1>5, <1>6 DEF Next, MirrorStep

-----------------------------------------------------------------------------
(* The dashboard                                                           *)

\* What it says depends on nothing the agent does.
LEMMA DashboardStays ==
  ASSUME DashboardInv, UNCHANGED <<local, runs, earlier, flags, mirror>>
  PROVE  DashboardInv'
BY DEF DashboardInv, TransferIsTrue, ReverseIsEarned, OfflineIsShown, Archived

LEMMA PollShows ==
  ASSUME TypeOK, DashboardInv, Poll
  PROVE  DashboardInv'
<1>1. PICK logs \in SUBSET Row, conn \in BOOLEAN, rx \in BOOLEAN :
        local' = [tx |-> agent.tx, running |-> agent.running, logs |-> logs,
                  agentStatus |-> "ONLINE", reverse |-> ReversePath(conn, rx), rx |-> rx,
                  preflight |-> local.preflight, transfer |-> local.transfer]
  BY PollIs
<1>2. /\ local'.transfer = local.transfer /\ local'.reverse = ReversePath(conn, rx)
      /\ local'.rx = rx /\ local'.preflight = local.preflight
  BY <1>1
<1>3. flags'.online = TRUE /\ flags'.lastTerminal = flags.lastTerminal
      /\ mirror.at = "wait" /\ UNCHANGED <<runs, earlier>>
  BY PollIs
<1>4. mirror'.at # "backoff"
  <2>1. CASE Unarchived
    <3>1. mirror' = [Idle EXCEPT !.at = "page", !.tx = agent.tx]
      BY <2>1, PollIs
    <3>2. QED
      BY <3>1, IdleIs, AgentFields
  <2>2. CASE ~Unarchived
    BY <2>2, PollIs, IdleIs
  <2>3. QED
    BY <2>1, <2>2
<1>5. TransferIsTrue'
  BY <1>2, <1>3 DEF DashboardInv, TransferIsTrue, Archived
<1>6. ReverseIsEarned'
  BY <1>2, ReversePathIs DEF ReverseIsEarned
<1>7. QED
  BY <1>3, <1>4, <1>5, <1>6 DEF DashboardInv, OfflineIsShown

LEMMA PollFailsShows ==
  ASSUME TypeOK, DashboardInv, PollFails
  PROVE  DashboardInv'
<1>1. /\ local'.transfer = local.transfer
      /\ local'.agentStatus = "OFFLINE" /\ local'.reverse # "CONNECTED"
      /\ local'.reverse = "READY" => local'.preflight \/ local'.rx
  <2>1. CASE ~flags.online /\ flags.reported /\ UNCHANGED local
    BY <2>1 DEF DashboardInv, ReverseIsEarned
  <2>2. CASE \E logs \in SUBSET Row :
               local' = [tx |-> local.tx, running |-> local.running,
                         logs |-> logs, agentStatus |-> "OFFLINE", reverse |-> "DISCONNECTED",
                         rx |-> local.rx, preflight |-> local.preflight,
                         transfer |-> local.transfer]
    BY <2>2
  <2>3. QED
    BY <2>1, <2>2, PollFailsIs
<1>2. mirror.at = "wait" /\ flags'.lastTerminal = flags.lastTerminal /\ UNCHANGED <<runs, earlier>>
  BY PollFailsIs
<1>3. TransferIsTrue'
  BY <1>1, <1>2 DEF DashboardInv, TransferIsTrue, Archived
<1>4. QED
  BY <1>1, <1>3 DEF DashboardInv, ReverseIsEarned, OfflineIsShown

LEMMA RetryShows ==
  ASSUME TypeOK, TransferInv, DashboardInv, Retry, mirror.at \in {"page", "merge", "archive"}
  PROVE  DashboardInv'
<1>1. /\ local'.transfer.status = "RETRY_PENDING" /\ local'.transfer.tx = mirror.tx
      /\ local'.agentStatus = local.agentStatus /\ local'.reverse = local.reverse
      /\ local'.rx = local.rx /\ local'.preflight = local.preflight
  BY RetryIs
<1>2. mirror'.at = "wait" /\ UNCHANGED <<flags, runs, earlier>>
  BY RetryIs, IdleIs
<1>3. mirror.tx # flags.lastTerminal
  <2>1. flags.lastTerminal < mirror.tx
    BY DEF TransferInv
  <2>2. QED
    BY <2>1, ControllerFields, TxType
<1>4. TransferIsTrue'
  BY <1>1, <1>2, <1>3 DEF TransferIsTrue
<1>5. QED
  BY <1>1, <1>2, <1>4 DEF DashboardInv, ReverseIsEarned, OfflineIsShown

LEMMA FetchPageShows ==
  ASSUME TypeOK, TransferInv, DashboardInv, FetchPage
  PROVE  DashboardInv'
<1>1. mirror.at = "page"
  BY FetchPageIs
<1>2. CASE Retry
  BY <1>1, <1>2, RetryShows
<1>3. CASE UNCHANGED <<local, flags, runs, earlier>> /\ mirror'.at \in {"page", "merge"}
  BY <1>1, <1>3 DEF DashboardInv, TransferIsTrue, ReverseIsEarned, OfflineIsShown, Archived
<1>4. ~Retry => UNCHANGED <<local, flags, runs, earlier>> /\ mirror'.at \in {"page", "merge"}
  BY FetchPageIs
<1>5. QED
  BY <1>2, <1>3, <1>4

LEMMA MergeShows ==
  ASSUME TypeOK, DashboardInv, MergeTerminal
  PROVE  DashboardInv'
<1>1. /\ local'.transfer.status = "VERIFIED"
      /\ local'.agentStatus = local.agentStatus /\ local'.reverse = local.reverse
      /\ local'.rx = local.rx /\ local'.preflight = local.preflight
      /\ UNCHANGED <<flags, runs, earlier>>
  BY MergeTerminalIs
<1>2. mirror'.at = "archive"
  BY MergeTerminalIs
<1>3. QED
  BY <1>1, <1>2 DEF DashboardInv, TransferIsTrue, ReverseIsEarned, OfflineIsShown

LEMMA ArchiveShows ==
  ASSUME TypeOK, TransferInv, DashboardInv, Archive
  PROVE  DashboardInv'
<1>1. /\ local'.transfer.status = "ARCHIVED" /\ local'.transfer.tx = mirror.tx
      /\ local'.agentStatus = local.agentStatus /\ local'.reverse = local.reverse
      /\ local'.rx = local.rx /\ local'.preflight = local.preflight
      /\ flags'.online = flags.online /\ flags'.reported = flags.reported
      /\ UNCHANGED earlier /\ mirror.at = "archive"
  BY ArchiveIs
<1>2. mirror'.at = "wait"
  BY ArchiveIs, IdleIs
<1>3. local.tx = mirror.tx
  BY <1>1 DEF TransferInv
<1>4. PICK t : t = mirror.tx
  OBVIOUS
<1>5. t \in earlier' \/ \E run \in ToSet(runs') : run.tx = t
  <2>1. CASE local.tx \in earlier
    BY <1>1, <1>3, <1>4, <2>1
  <2>2. CASE runs' = Append(runs, [tx |-> local.tx, events |-> mirror.snapshot.events,
                                   logs |-> mirror.snapshot.logs, verified |-> mirror.got])
    <3> DEFINE run == [tx |-> local.tx, events |-> mirror.snapshot.events,
                       logs |-> mirror.snapshot.logs, verified |-> mirror.got]
               n == Len(runs)
    <3>1. run.tx = t
      BY <1>3, <1>4
    <3> HIDE DEF run
    <3>2. n + 1 \in DOMAIN runs' /\ runs'[n + 1] = run
      <4>1. runs \in Seq(RunSet)
        BY RunFields
      <4>2. runs' = Append(runs, run)
        BY <2>2 DEF run
      <4>3. QED
        BY <4>1, <4>2
    <3>3. run \in ToSet(runs')
      BY <3>2 DEF ToSet
    <3>4. QED
      BY <3>1, <3>3
  <2>3. QED
    BY <2>1, <2>2, ArchiveIs
<1>6. local'.transfer.tx = t
  BY <1>1, <1>4
<1>7. Archived(local.transfer.tx)'
  BY <1>5, <1>6 DEF Archived
<1>8. TransferIsTrue'
  BY <1>1, <1>7 DEF TransferIsTrue
<1>9. QED
  BY <1>1, <1>2, <1>8 DEF DashboardInv, ReverseIsEarned, OfflineIsShown

LEMMA LanTestShows ==
  ASSUME TypeOK, DashboardInv, NEW bad, LanTest(bad)
  PROVE  DashboardInv'
<1>1. PICK ok \in BOOLEAN :
        local' = [tx |-> local.tx, running |-> local.running,
                  logs |-> local.logs, agentStatus |-> local.agentStatus,
                  reverse |-> IF ok THEN "READY" ELSE "FAILED", rx |-> local.rx,
                  preflight |-> ok, transfer |-> local.transfer]
  BY LanTestIs
<1>2. /\ local'.transfer = local.transfer /\ local'.agentStatus = local.agentStatus
      /\ local'.reverse \in {"READY", "FAILED"}
      /\ local'.reverse = "READY" => local'.preflight
  BY <1>1
<1>3. UNCHANGED <<mirror, flags, runs, earlier>>
  BY LanTestIs
<1>4. TransferIsTrue'
  BY <1>2, <1>3 DEF DashboardInv, TransferIsTrue, Archived
<1>5. QED
  BY <1>2, <1>3, <1>4 DEF DashboardInv, ReverseIsEarned, OfflineIsShown

LEMMA OwnLogShows ==
  ASSUME TypeOK, DashboardInv, OwnLog
  PROVE  DashboardInv'
<1>1. /\ local'.transfer = local.transfer /\ local'.agentStatus = local.agentStatus
      /\ local'.reverse = local.reverse /\ local'.rx = local.rx
      /\ local'.preflight = local.preflight
      /\ UNCHANGED <<mirror, flags, runs, earlier>>
  BY OwnLogIs
<1>2. TransferIsTrue'
  BY <1>1 DEF DashboardInv, TransferIsTrue, Archived
<1>3. QED
  BY <1>1, <1>2 DEF DashboardInv, ReverseIsEarned, OfflineIsShown

LEMMA RestartShows ==
  ASSUME Restart
  PROVE  DashboardInv'
<1>1. /\ local'.transfer = NoTransfer /\ local'.agentStatus = "CHECKING"
      /\ local'.reverse = "UNVERIFIED"
  BY DEF Restart, FreshLocal
<1>2. QED
  BY <1>1 DEF Restart, Idle, FreshFlags, NoTransfer, DashboardInv, TransferIsTrue,
              ReverseIsEarned, OfflineIsShown

LEMMA NextShows ==
  ASSUME TypeOK, TransferInv, DashboardInv, [Next]_vars
  PROVE  DashboardInv'
<1>1. CASE AgentStep
  <2>1. UNCHANGED <<local, runs, earlier, flags, mirror>>
    BY <1>1 DEF AgentStep, StartAttach, AddRow, Finish, AgentReset, Controller
  <2>2. QED
    BY <2>1, DashboardStays
<1>2. CASE BackoffEnds
  <2>1. mirror.at = "backoff" /\ mirror'.at = "wait" /\ UNCHANGED <<local, flags, runs, earlier>>
    BY <1>2, IdleIs DEF BackoffEnds
  <2>2. QED
    BY <2>1 DEF DashboardInv, TransferIsTrue, ReverseIsEarned, OfflineIsShown, Archived
<1>3. CASE TransferFails
  BY <1>3, RetryShows DEF TransferFails
<1>4. CASE UNCHANGED vars
  BY <1>4, DashboardStays DEF vars
<1>5. QED
  BY <1>1, <1>2, <1>3, <1>4, PollShows, PollFailsShows, FetchPageShows, MergeShows, ArchiveShows,
     LanTestShows, OwnLogShows, RestartShows
     DEF Next, MirrorStep

-----------------------------------------------------------------------------
(* The theorems                                                            *)

LEMMA InitMirror == Init => MirrorInv
<1> SUFFICES ASSUME Init PROVE MirrorInv
  OBVIOUS
<1>1. TypeOK
  BY InitTypes
<1>2. AgentInv
  <2>1. \A s \in Stream : agent.rows[s] = <<>> /\ agent.made[s] = 0 /\ agent.final[s] = 0
    BY EmptyType DEF Init
  <2>2. QED
    BY <2>1, NumberedEmpty DEF Init, AgentInv
<1>3. TransferInv
  BY IdleIs DEF Init, TransferInv
<1>4. RunsInv
  BY TxType DEF Init, RunsInv, FreshFlags
<1>5. DashboardInv
  BY DEF Init, Idle, FreshLocal, FreshFlags, NoTransfer, DashboardInv, TransferIsTrue,
         ReverseIsEarned, OfflineIsShown
<1>6. QED
  BY <1>1, <1>2, <1>3, <1>4, <1>5 DEF MirrorInv

LEMMA NextMirror == MirrorInv /\ [Next]_vars => MirrorInv'
<1> SUFFICES ASSUME MirrorInv, [Next]_vars PROVE MirrorInv'
  OBVIOUS
<1>1. TypeOK /\ AgentInv /\ TransferInv /\ RunsInv /\ DashboardInv
  BY DEF MirrorInv
<1>2. AgentInv'
  <2>1. CASE AgentStep
    BY <1>1, <2>1, AgentKeepsInv
  <2>2. CASE UNCHANGED agent
    BY <1>1, <2>2 DEF AgentInv
  <2>3. [Next]_vars => AgentStep \/ UNCHANGED agent
    BY <1>1, FetchPageIs
       DEF Next, MirrorStep, vars, Poll, PollFails, BackoffEnds, MergeTerminal, Archive,
           Verified, TransferFails, Retry, LanTest, OwnLog, Restart
  <2>4. QED
    BY <2>1, <2>2, <2>3
<1>3. QED
  BY <1>1, <1>2, NextTypes, NextKeepsTransfer, NextKeepsRuns, NextShows DEF MirrorInv

LEMMA MirrorIsTrue == Spec => []MirrorInv
<1>1. QED
  BY InitMirror, NextMirror, PTL DEF Spec

\* For any number of transactions and rows, any bounds of the streams, the
\* snapshots and the pages, and any failures: what the dashboard says of the
\* transfer, of the path back to the controller and of the agent is so.
THEOREM DashboardTells == Spec => []DashboardIsTrue
<1>1. MirrorInv => DashboardIsTrue
  BY DEF MirrorInv, DashboardInv, DashboardIsTrue
<1>2. QED
  BY <1>1, MirrorIsTrue, PTL

\* The evidence an archived run is made of is that of its transaction alone,
\* and whole while the agent keeps the run on display, its events are archived
\* as they are, no row of the log is missing for an older one, and the run is
\* there once, whatever the agent does between the pages.
THEOREM ArchiveIsWhole == Spec => []ArchivedRunsAreTrue
<1>1. MirrorInv => ArchivedRunsAreTrue
  <2> SUFFICES ASSUME MirrorInv PROVE ArchivedRunsAreTrue
    OBVIOUS
  <2>1. \A run \in ToSet(runs), s \in Stream :
          Good(run.verified[s], run.tx, agent.tx, agent.final[s])
    BY DEF MirrorInv, RunsInv, ToSet
  <2>2. \A run \in ToSet(runs) : Fits(run.events, run.logs, run.verified)
    BY DEF MirrorInv, RunsInv, ToSet
  <2>3. ArchivedRunIsWhole
    BY <2>1, <2>2 DEF ArchivedRunIsWhole, Good, Fits
  <2>4. NoForeignRows
    <3>1. "events" \in Stream
      BY StreamType
    <3>2. QED
      BY <2>1, <2>2, <3>1 DEF NoForeignRows, Good, Fits
  <2>5. ArchivedOnce
    BY DEF MirrorInv, RunsInv, ArchivedOnce
  <2>6. QED
    BY <2>3, <2>4, <2>5 DEF ArchivedRunsAreTrue
<1>2. QED
  BY <1>1, MirrorIsTrue, PTL

\* A stream put together from pages is the agent's at the moment of the last.
THEOREM StreamsAreTakenAtOnce == Spec => TakenAtOnce
<1>1. ASSUME MirrorInv, [Next]_vars
      PROVE  [\A s \in Stream :
                mirror'.at \in {"page", "merge"} /\ mirror'.got[s] # mirror.got[s] =>
                  mirror'.got[s] = Rows(s, mirror.tx)]_vars
  <2> SUFFICES ASSUME NEW s \in Stream, mirror'.at \in {"page", "merge"},
                      mirror'.got[s] # mirror.got[s]
               PROVE  mirror'.got[s] = Rows(s, mirror.tx)
    OBVIOUS
  <2>1. TypeOK /\ TransferInv
    BY <1>1 DEF MirrorInv
  <2>2. CASE FetchPage
    <3>1. ~Retry
      BY <2>1, RetryIs, IdleIs
    <3>2. CASE \E pages, expected \in Seq(Row) :
                 mirror' = [at |-> "page", tx |-> mirror.tx, next |-> mirror.next,
                            pages |-> pages, expected |-> expected, got |-> mirror.got,
                            snapshot |-> mirror.snapshot]
      BY <3>2
    <3>3. ASSUME NEW t \in Stream, NEW rows \in Seq(Row), rows = Rows(t, mirror.tx),
                 mirror' = [at |-> IF mirror.next = 2 THEN "merge" ELSE "page",
                            tx |-> mirror.tx, next |-> mirror.next + 1, pages |-> <<>>,
                            expected |-> <<>>, got |-> [mirror.got EXCEPT ![t] = rows],
                            snapshot |-> mirror.snapshot]
          PROVE  mirror'.got[s] = Rows(s, mirror.tx)
      <4>1. mirror'.got = [mirror.got EXCEPT ![t] = rows]
        BY <3>3
      <4>2. mirror'.got[s] = IF s = t THEN rows ELSE mirror.got[s]
        BY <2>1, <4>1, ControllerFields DEF Streamed
      <4>3. QED
        BY <3>3, <4>2
    <3>4. QED
      BY <2>1, <2>2, <3>1, <3>2, <3>3, FetchPageIs
  <2>3. CASE Poll
    <3>1. mirror.got = Empty
      BY <2>1, <2>3 DEF Poll, TransferInv
    <3>2. mirror'.got = Empty
      <4>1. CASE Unarchived
        <5>1. mirror' = [Idle EXCEPT !.at = "page", !.tx = agent.tx]
          BY <2>1, <2>3, <4>1, PollIs
        <5>2. QED
          BY <2>1, <5>1, IdleIs, AgentFields
      <4>2. CASE ~Unarchived
        BY <2>1, <2>3, <4>2, PollIs, IdleIs
      <4>3. QED
        BY <4>1, <4>2
    <3>3. QED
      BY <3>1, <3>2
  <2>4. CASE PollFails \/ BackoffEnds \/ Archive \/ TransferFails \/ Restart
    <3>1. mirror'.at \in {"wait", "backoff"}
      <4>1. CASE PollFails
        BY <2>1, <4>1, PollFailsIs, IdleIs
      <4>2. CASE BackoffEnds \/ Archive \/ TransferFails \/ Restart
        <5>1. mirror' = Idle
          BY <2>1, <4>2, ArchiveIs, RetryIs DEF BackoffEnds, TransferFails, Restart
        <5>2. QED
          BY <5>1, IdleIs
      <4>3. QED
        BY <2>4, <4>1, <4>2
    <3>2. QED
      BY <3>1
  <2>5. CASE MergeTerminal
    <3>1. mirror'.at = "archive"
      BY <2>1, <2>5, MergeTerminalIs
    <3>2. QED
      BY <3>1
  <2>6. CASE AgentStep \/ (\E bad : LanTest(bad)) \/ OwnLog \/ UNCHANGED vars
    BY <2>6 DEF AgentStep, StartAttach, AddRow, Finish, AgentReset, Controller, LanTest, OwnLog, vars
  <2>7. QED
    BY <1>1, <2>2, <2>3, <2>4, <2>5, <2>6 DEF Next, MirrorStep
<1>2. QED
  BY <1>1, MirrorIsTrue, PTL DEF Spec, TakenAtOnce
=============================================================================
