---------------------------- MODULE RemoteMirrorMC ----------------------------
(* A stream whose rows fit a page and one whose rows do not, and are pushed *)
(* out by those of the next transaction, for TLC.                           *)
EXTENDS RemoteMirror

RowsMade == [s \in Stream |-> IF s = "logs" THEN 2 ELSE 1]

\* The reverse path is written by polls and LAN tests and read by nothing else.
\* To leave out the product of its values with those of the transfer, TLC follows
\* it until the agent begins its first run, and after that while it stays unused.
PathOrRuns ==
  \/ agent'.begun = 0
  \/ ~local'.rx /\ ~local'.preflight /\ local'.reverse \in {"UNVERIFIED", "DISCONNECTED"}
=============================================================================
