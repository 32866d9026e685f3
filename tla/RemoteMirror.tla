----------------------------- MODULE RemoteMirror -----------------------------
(***************************************************************************)
(* RemoteStateMirror of lan.py: the controller polls the modem agent over  *)
(* the management channel, merges the snapshot into its own state, and     *)
(* when a run has finished takes the evidence of its transaction stream by *)
(* stream, page by page, and archives it.  The agent goes on meanwhile: it *)
(* writes late rows, starts the next run, is reset; calls fail, the disk   *)
(* fails, the controller restarts.                                         *)
(*                                                                         *)
(* A row is known by its transaction and its number in its stream, the     *)
(* digest of a stream is the stream itself.  "events" stands for the three *)
(* streams start_attach clears and the archive takes over (runtimeEvents,  *)
(* taskEvents, faultEvidence), "logs" is the log, which start_attach keeps *)
(* and the controller merges into its own.  Left out are protocolTrace and *)
(* packetTrace, fetched and shown but not archived, and the events a poll  *)
(* shows: what is archived is what the transfer put in their place.        *)
(***************************************************************************)
EXTENDS Naturals, Sequences, SequencesExt

CONSTANTS
  MaxTx,     \* transactions the agent begins
  MaxRows,   \* rows a transaction writes into each stream
  Keep,      \* rows a stream of the agent holds (240 to 2000), the oldest go first
  Window,    \* rows of a stream in a snapshot (32 to 56)
  PageSize,  \* rows of an evidence page (48)
  Saved,     \* rows of the log in the agent's state file (80)
  Failing    \* steps of the LAN test that may fail

LanSteps == {"health", "apSocket", "target", "bind", "reverse"}

Tx == 1..MaxTx
NoTx == 0
Streams == <<"events", "logs">>
Stream == ToSet(Streams)
Empty == [s \in Stream |-> <<>>]

Row == [tx : Tx, n : Nat]
AnyTx == Tx \cup {NoTx}
Streamed == [Stream -> Seq(Row)]

ASSUME MirrorAssumption ==
  /\ {MaxTx, Window, Saved} \subseteq Nat
  /\ {Keep, PageSize} \subseteq Nat \ {0}
  /\ MaxRows \in [Stream -> Nat]
  /\ Failing \subseteq LanSteps

VARIABLES
  agent,   \* the agent's state store
  mirror,  \* the thread of _loop: its place and its transfer
  local,   \* the controller's state store
  flags,   \* _online, _reported_offline, _last_terminal
  runs,    \* run directories this controller process wrote, each with the streams
           \* whose digests are in its lan-evidence-transfer.json
  earlier  \* transactions an earlier process wrote a directory of

vars == <<agent, mirror, local, flags, runs, earlier>>

NoSnapshot == [events |-> <<>>, logs |-> {}]

Idle == [at |-> "wait", tx |-> NoTx, next |-> 1, pages |-> <<>>, expected |-> <<>>, got |-> Empty,
         snapshot |-> NoSnapshot]
NoTransfer == [status |-> "none", tx |-> NoTx]

\* SimulatorApplication.start in the mode lan-controller.
FreshLocal ==
  [tx |-> NoTx, running |-> FALSE, logs |-> {}, agentStatus |-> "CHECKING",
   reverse |-> "UNVERIFIED", rx |-> FALSE, preflight |-> FALSE, transfer |-> NoTransfer]
FreshFlags == [online |-> FALSE, reported |-> FALSE, lastTerminal |-> NoTx]

Init ==
  /\ agent = [tx |-> NoTx, begun |-> 0, running |-> FALSE, rows |-> Empty,
              made |-> [s \in Stream |-> 0], final |-> [s \in Stream |-> 0]]
  /\ mirror = Idle
  /\ local = FreshLocal
  /\ flags = FreshFlags
  /\ runs = <<>>
  /\ earlier = {}

-----------------------------------------------------------------------------
(* The agent                                                               *)

Controller == <<mirror, local, flags, runs, earlier>>

\* start_attach: the events of the run before are cleared, the log is kept.
StartAttach ==
  /\ ~agent.running /\ agent.begun < MaxTx
  /\ agent' = [agent EXCEPT
       !.tx = agent.begun + 1, !.begun = @ + 1, !.running = TRUE, !.rows["events"] = <<>>,
       !.made = [s \in Stream |-> 0], !.final = [s \in Stream |-> 0]]
  /\ UNCHANGED Controller

\* rows[-n:]
LastRows(rows, n) == SubSeq(rows, 1 + (IF Len(rows) > n THEN Len(rows) - n ELSE 0), Len(rows))

\* The run writes, and its thread goes on writing after the run has ended.
AddRow(s) ==
  /\ agent.tx # NoTx /\ agent.made[s] < MaxRows[s]
  /\ agent' = [agent EXCEPT
       !.made[s] = @ + 1,
       !.rows[s] = LastRows(Append(@, [tx |-> agent.tx, n |-> agent.made[s] + 1]), Keep)]
  /\ UNCHANGED Controller

Finish ==
  /\ agent.running
  /\ agent' = [agent EXCEPT !.running = FALSE, !.final = agent.made]
  /\ UNCHANGED Controller

\* reset, or a restart of the agent: active state is rebuilt cleanly.  A
\* restart reads the last rows of the log back.
AgentReset ==
  /\ agent.tx # NoTx
  /\ \E n \in {0, Saved} :
       agent' = [agent EXCEPT !.tx = NoTx, !.running = FALSE,
                              !.rows = [Empty EXCEPT !["logs"] = LastRows(agent.rows["logs"], n)],
                              !.made = [s \in Stream |-> 0], !.final = [s \in Stream |-> 0]]
  /\ UNCHANGED Controller

\* _transaction_rows: one row after the other.
TransactionRows(rows, tx) ==
  LET kept[i \in 0..Len(rows)] ==
        IF i = 0 THEN <<>>
        ELSE IF rows[i].tx = tx THEN Append(kept[i - 1], rows[i])
        ELSE kept[i - 1]
  IN kept[Len(rows)]

Rows(s, tx) == TransactionRows(agent.rows[s], tx)

\* management_evidence_page: rich rows make a page smaller.
Page(s, tx, cursor, size) ==
  LET rows == Rows(s, tx)
      last == IF cursor + size < Len(rows) THEN cursor + size ELSE Len(rows)
  IN [items |-> SubSeq(rows, cursor + 1, last), more |-> last < Len(rows), digest |-> rows]

\* management_state_snapshot, of which the log is kept: the last rows, fewer
\* when the frame would grow too large.
Snapshots == {LastRows(agent.rows["logs"], n) : n \in {Window, Window \div 2}}

-----------------------------------------------------------------------------
(* The controller's log                                                    *)

Older(q, r) == q.tx < r.tx \/ (q.tx = r.tx /\ q.n < r.n)

\* Only rows of transactions are kept account of.  The log is full of them and
\* of others (its own, and those of the agent outside a run), whose times are
\* of another clock: any number of the oldest ones may be cut.
Cuts(rows) == {kept \in SUBSET rows : \A q \in kept, r \in rows \ kept : ~Older(q, r)}

\* Rows of the agent are merged into it by their id.
Merged(rows) == Cuts(local.logs \cup ToSet(rows))

\* Any part of the controller logs at any time.
OwnLog ==
  /\ UNCHANGED <<agent, mirror, flags, runs, earlier>>
  /\ \E logs \in Cuts(local.logs) : local' = [local EXCEPT !.logs = logs]

-----------------------------------------------------------------------------
(* _loop                                                                   *)

\* Mutant: without a reason for another one the last status stays.
ReversePath_Kept(conn, rx) ==
  IF conn THEN "CONNECTED" ELSE IF rx \/ local.preflight THEN "READY" ELSE local.reverse

\* What the merge makes of the path from the modem to the controller.
ReversePath(conn, rx) ==
  CASE conn -> "CONNECTED"
    [] ~conn /\ (rx \/ local.preflight) -> "READY"
    [] ~conn /\ ~rx /\ ~local.preflight ->
         IF local.reverse = "FAILED" THEN "FAILED" ELSE "UNVERIFIED"

Unarchived == agent.tx # NoTx /\ ~agent.running /\ agent.tx # flags.lastTerminal

\* What the agent says of its own transport (that it has a connection, that a
\* response came since its last reset) may change at any time.
Poll ==
  /\ mirror.at = "wait"
  /\ UNCHANGED <<agent, runs, earlier>>
  /\ flags' = [flags EXCEPT !.online = TRUE, !.reported = FALSE]
  /\ mirror' = IF Unarchived THEN [Idle EXCEPT !.at = "page", !.tx = agent.tx] ELSE Idle
  /\ \E rows \in Snapshots : \E logs \in Merged(rows), conn, rx \in BOOLEAN :
       local' = [local EXCEPT
         !.tx = agent.tx, !.running = agent.running, !.logs = logs, !.agentStatus = "ONLINE",
         !.rx = rx, !.reverse = ReversePath(conn, rx)]

\* The snapshot did not come: said once, until one comes again.  The status
\* of the AP socket goes with that of the agent and is left out.
PollFails ==
  /\ mirror.at = "wait"
  /\ UNCHANGED <<agent, runs, earlier>>
  /\ flags' = [flags EXCEPT !.online = FALSE, !.reported = TRUE]
  /\ mirror' = [Idle EXCEPT !.at = "backoff"]
  /\ \/ /\ flags.online \/ ~flags.reported
        /\ \E logs \in Cuts(local.logs) :
             local' = [local EXCEPT !.agentStatus = "OFFLINE", !.reverse = "DISCONNECTED",
                                    !.logs = logs]
     \/ ~flags.online /\ flags.reported /\ UNCHANGED local

BackoffEnds ==
  /\ mirror.at = "backoff"
  /\ mirror' = Idle
  /\ UNCHANGED <<agent, local, flags, runs, earlier>>

\* mark_retry: the transfer is tried again with the next snapshot.  An error
\* that is not the last one is logged.
Retry ==
  /\ UNCHANGED <<agent, flags, runs, earlier>>
  /\ mirror' = Idle
  /\ \E logs \in Cuts(local.logs) :
       local' = [local EXCEPT !.transfer = [status |-> "RETRY_PENDING", tx |-> mirror.tx],
                              !.logs = logs]

\* Mutant: the pages are not compared, and only counted at the end.
FetchPage_CountOnly ==
  /\ mirror.at = "page"
  /\ \E size \in 1..PageSize :
       LET s == Streams[mirror.next]
           page == Page(s, mirror.tx, Len(mirror.pages), size)
           pages == mirror.pages \o page.items
       IN IF ~page.more /\ Len(pages) # Len(page.digest)
            THEN Retry
            ELSE /\ mirror' =
                      IF page.more THEN [mirror EXCEPT !.pages = pages, !.expected = page.digest]
                      ELSE [mirror EXCEPT
                             !.at = IF mirror.next = Len(Streams) THEN "merge" ELSE "page",
                             !.next = @ + 1, !.pages = <<>>, !.expected = <<>>, !.got[s] = pages]
                 /\ UNCHANGED <<agent, local, flags, runs, earlier>>

\* One page of _fetch_complete_stream.  The first one says what the stream
\* is, each further one must say the same, and the pages must make it up.
FetchPage ==
  /\ mirror.at = "page"
  /\ \E size \in 1..PageSize :
       LET s == Streams[mirror.next]
           page == Page(s, mirror.tx, Len(mirror.pages), size)
           first == mirror.pages = <<>>
           pages == mirror.pages \o page.items
       IN IF (~first /\ page.digest # mirror.expected) \/ (~page.more /\ pages # page.digest)
            THEN Retry
            ELSE /\ mirror' =
                      IF page.more THEN [mirror EXCEPT !.pages = pages, !.expected = page.digest]
                      ELSE [mirror EXCEPT
                             !.at = IF mirror.next = Len(Streams) THEN "merge" ELSE "page",
                             !.next = @ + 1, !.pages = <<>>, !.expected = <<>>, !.got[s] = pages]
                 /\ UNCHANGED <<agent, local, flags, runs, earlier>>

\* The snapshot of the merged state is what will be archived.
Verified(events, logs) ==
  /\ local' = [local EXCEPT !.logs = logs, !.transfer = [status |-> "VERIFIED", tx |-> mirror.tx]]
  /\ mirror' = [mirror EXCEPT !.at = "archive", !.snapshot = [events |-> events, logs |-> logs]]
  /\ UNCHANGED <<agent, runs, earlier>>

\* Mutant: the fetched log is not merged into the local one.
MergeTerminal_LogsAsPolled ==
  /\ mirror.at = "merge"
  /\ Verified(mirror.got["events"], local.logs) /\ UNCHANGED flags

\* Mutant: the run counts as archived before it is.
MergeTerminal_MarkedFirst ==
  /\ mirror.at = "merge"
  /\ \E logs \in Merged(mirror.got["logs"]) : Verified(mirror.got["events"], logs)
  /\ flags' = [flags EXCEPT !.lastTerminal = mirror.tx]

\* merge_terminal: the events are replaced, the log is merged.
MergeTerminal ==
  /\ mirror.at = "merge"
  /\ \E logs \in Merged(mirror.got["logs"]) : Verified(mirror.got["events"], logs)
  /\ UNCHANGED flags

\* InteractiveRunArchiver and mark_archived: what the snapshot has, the log as
\* it is.  The directory appears whole, by a rename; one with the name (its
\* second and transaction) is left as it is.
Archive ==
  /\ mirror.at = "archive" /\ local.tx # NoTx /\ ~local.running
  /\ \/ runs' = Append(runs, [tx |-> local.tx, events |-> mirror.snapshot.events,
                               logs |-> mirror.snapshot.logs, verified |-> mirror.got])
     \/ local.tx \in earlier /\ UNCHANGED runs
  /\ UNCHANGED <<agent, earlier>>
  /\ flags' = [flags EXCEPT !.lastTerminal = mirror.tx]
  /\ local' = [local EXCEPT !.transfer = [status |-> "ARCHIVED", tx |-> mirror.tx]]
  /\ mirror' = Idle

\* A call of the transfer failed, or the directory could not be written.
TransferFails == mirror.at \in {"page", "archive"} /\ Retry

\* test_lan_connection: its steps, of which `bad` fail.  Without the agent
\* nothing else is tried; the reverse connection is only tried when the agent
\* aims at this controller and the address can be listened on.
LanCheck(bad) ==
  [agent   |-> "health" \notin bad,
   apModem |-> {"health", "apSocket"} \cap bad = {},
   modemEnb |-> {"health", "target", "bind", "reverse"} \cap bad = {}]

\* POST /api/lan/test, at any time.
LanTest(bad) ==
  LET check == LanCheck(bad)
      ok == check.agent /\ check.apModem /\ check.modemEnb IN
  /\ local' = [local EXCEPT !.preflight = ok, !.reverse = IF ok THEN "READY" ELSE "FAILED"]
  /\ UNCHANGED <<agent, mirror, flags, runs, earlier>>

\* Another process of the controller: its state starts anew, with what the
\* state file has of the log.
Restart ==
  /\ UNCHANGED agent
  /\ mirror' = Idle /\ flags' = FreshFlags
  /\ runs' = <<>> /\ earlier' = earlier \cup {runs[i].tx : i \in DOMAIN runs}
  /\ \E logs \in Cuts(local.logs) : local' = [FreshLocal EXCEPT !.logs = logs]

Trouble == PollFails \/ TransferFails \/ Restart
AgentStep == StartAttach \/ (\E s \in Stream : AddRow(s)) \/ Finish \/ AgentReset
MirrorStep == PollFails \/ BackoffEnds \/ TransferFails \/ MergeTerminal \/ Archive \/ Poll \/ FetchPage

Next ==
  \/ AgentStep \/ MirrorStep
  \/ \E bad \in {{}} \cup {{step} : step \in Failing} : LanTest(bad)
  \/ OwnLog \/ Restart

Spec == Init /\ [][Next]_vars

\* The thread of _loop goes on.
FairSpec == Spec /\ WF_vars(MirrorStep)

-----------------------------------------------------------------------------
AgentSet ==
  [tx : AnyTx, begun : AnyTx, running : BOOLEAN, rows : Streamed,
   made : [Stream -> Nat], final : [Stream -> Nat]]
SnapshotSet == [events : Seq(Row), logs : SUBSET Row]
MirrorSet ==
  [at : {"wait", "backoff", "page", "merge", "archive"}, tx : AnyTx,
   next : 1..(Len(Streams) + 1), pages : Seq(Row), expected : Seq(Row), got : Streamed,
   snapshot : SnapshotSet]
LocalSet ==
  [tx : AnyTx, running : BOOLEAN, logs : SUBSET Row,
   agentStatus : {"CHECKING", "ONLINE", "OFFLINE"},
   reverse : {"UNVERIFIED", "CONNECTED", "READY", "FAILED", "DISCONNECTED"},
   rx : BOOLEAN, preflight : BOOLEAN,
   transfer : [status : {"none", "VERIFIED", "ARCHIVED", "RETRY_PENDING"}, tx : AnyTx]]
RunSet == [tx : Tx, events : Seq(Row), logs : SUBSET Row, verified : Streamed]
FlagSet == [online : BOOLEAN, reported : BOOLEAN, lastTerminal : AnyTx]

TypeOK ==
  /\ agent \in AgentSet /\ mirror \in MirrorSet /\ local \in LocalSet /\ flags \in FlagSet
  /\ \A s \in Stream : Len(agent.rows[s]) <= Keep
  /\ runs \in Seq(RunSet)
  /\ earlier \subseteq Tx

\* The rows follow each other without a gap and reach the end of the run.
Whole(rows, final) ==
  /\ \A i \in DOMAIN rows : i > 1 => rows[i].n = rows[i - 1].n + 1
  /\ final > 0 => rows # <<>> /\ Last(rows).n >= final

\* The evidence an archived run was made of is that of its whole transaction,
\* whatever the snapshot left out, as long as the agent has not begun another
\* one or been reset (lan.py 312-318; what is archived after that is all the
\* agent still has, which may be nothing).  The events are archived as they
\* were verified; of the log no row is missing for an older one that is there
\* (lan.py 916-930).
ArchivedRunIsWhole ==
  \A run \in ToSet(runs) :
    /\ run.tx = agent.tx => \A s \in Stream : Whole(run.verified[s], agent.final[s])
    /\ run.events = run.verified["events"]
    /\ \A r \in ToSet(run.verified["logs"]) \ run.logs, q \in run.logs : ~Older(q, r)

\* No event of another transaction gets into a run, although the streams are
\* read while the agent begins the next one, and no row into the evidence it
\* was made of (lan.py 289-309, 799-845).
NoForeignRows ==
  \A run \in ToSet(runs) :
    /\ \A i \in DOMAIN run.events : run.events[i].tx = run.tx
    /\ \A s \in Stream : \A i \in DOMAIN run.verified[s] : run.verified[s][i].tx = run.tx

\* Not so of the log: the archive takes the controller's whole log, with the
\* rows of the transactions before (run_archive.py 125).
NoForeignLogs == \A run \in ToSet(runs) : \A row \in run.logs : row.tx = run.tx

Archived(tx) == tx \in earlier \/ \E run \in ToSet(runs) : run.tx = tx

\* A controller process archives a transaction once, however often its
\* transfer is retried and the finished run polled (lan.py 911, 935).
ArchivedOnce == \A i, j \in DOMAIN runs : runs[i].tx = runs[j].tx => i = j

\* What the dashboard says of the transfer is so: a run called ARCHIVED has
\* its directory, one called RETRY_PENDING will be tried again, and VERIFIED
\* is only the moment before the archive (lan.py 911-965).
TransferIsTrue ==
  /\ local.transfer.status = "ARCHIVED" => Archived(local.transfer.tx)
  /\ local.transfer.status = "RETRY_PENDING" => local.transfer.tx # flags.lastTerminal
  /\ local.transfer.status = "VERIFIED" => mirror.at = "archive"

\* The path back to the controller is only called READY after a test that
\* succeeded or a protocol message that came through since the agent's reset
\* (in an earlier run, maybe), whatever tests, losses of the connection and
\* polls came in between (lan.py 573-577, 881-899).
ReverseIsEarned == local.reverse = "READY" => local.preflight \/ local.rx

\* While the agent is not reached the dashboard says so and does not call the
\* path CONNECTED (lan.py 966-984: it is written once, not at every failure).
OfflineIsShown ==
  mirror.at = "backoff" => local.agentStatus = "OFFLINE" /\ local.reverse # "CONNECTED"

\* What is archived is made of whole and unmixed evidence, and there once.
ArchivedRunsAreTrue == ArchivedRunIsWhole /\ NoForeignRows /\ ArchivedOnce

\* What the dashboard says of transfer, path and agent is so.
DashboardIsTrue == TypeOK /\ TransferIsTrue /\ ReverseIsEarned /\ OfflineIsShown

\* A stream taken in pages is the stream as it is at the agent at one moment,
\* that of its last page, although it grows and loses rows between the pages
\* (lan.py 799-845).
TakenAtOnce ==
  [][\A s \in Stream :
       mirror'.at \in {"page", "merge"} /\ mirror'.got[s] # mirror.got[s] =>
         mirror'.got[s] = Rows(s, mirror.tx)]_vars

\* A finished run the agent keeps on display is archived, however often the
\* transfer failed before, once the failures end (lan.py 945-948: "A failed
\* archive must remain retryable on the next poll").
EveryFinishedRunIsArchived ==
  <>[][~Trouble]_vars /\ <>[](agent.tx # NoTx /\ ~agent.running) => <>[]Archived(agent.tx)
=============================================================================
