---------------------------- MODULE SrtpSession ----------------------------
(***************************************************************************)
(* The media part of SecurityContext (security_engine/service.py): one     *)
(* session pair of SRTP and SRTCP contexts (core.py, srtcp.py) under a     *)
(* master key, the life of that key (session.py), and the packets it has   *)
(* protected, which a network may lose, reorder and duplicate before they  *)
(* come back to unprotect.                                                 *)
(*                                                                         *)
(* Every operation holds SecurityContext's lock to its end, so each is one *)
(* step.  A packet is known by the key, stream and index it was protected  *)
(* under: its authentication tag covers all three, so one that was changed *)
(* on the way is refused and leaves the state as it is.                    *)
(***************************************************************************)
EXTENDS Integers, FiniteSets, ReplayWindow

CONSTANTS Keys,         \* master keys with their salt
          Ssrcs,        \* the synchronisation sources of the streams
          DefaultSsrc,  \* the one used when the caller names none
          Width,        \* of the replay windows (128)
          Half,         \* half the sequence number space (2^15)
          MaxRoc,       \* the largest rollover counter (2^32 - 1)
          RtcpLimit,    \* the number of SRTCP indices (2^31)
          MaxPackets,   \* bound: the number of packets protected
          None

ASSUME KeysAssumption == None \notin Keys /\ \A K \in SUBSET Keys : None # K
ASSUME SsrcAssumption == DefaultSsrc \in Ssrcs
ASSUME WidthAssumption == Width \in Nat \ {0}
ASSUME SpaceAssumption == Half \in Nat \ {0} /\ MaxRoc \in Nat
ASSUME BoundAssumption == RtcpLimit \in Nat /\ MaxPackets \in Nat

VARIABLES
  used,          \* _used_fingerprints of the lifecycle, None before it exists
  key,           \* _master_key; None while the context is not activated
  tx, rx,        \* SRTP: the window of each stream, sender and receiver
  rtcpTx,        \* SRTCP: next_index of each stream
  rtcpRx,        \* SRTCP: the window of each stream
  packetCount,   \* packet_count
  named,         \* a caller has named a sequence number of its own on the
                 \* default stream of this session
  sent,          \* the packets protected so far
  accepted       \* the serial numbers of those that unprotect has returned

streamVars == << tx, rx, rtcpTx, rtcpRx >>
keyVars == << used, key >>
countVars == << packetCount, named >>
vars == << keyVars, streamVars, countVars, sent, accepted >>

Seqs == 0..(2 * Half - 1)

Init ==
  /\ used = None /\ key = None
  /\ tx = [s \in Ssrcs |-> EmptyWindow] /\ rx = [s \in Ssrcs |-> EmptyWindow]
  /\ rtcpTx = [s \in Ssrcs |-> 0] /\ rtcpRx = [s \in Ssrcs |-> EmptyWindow]
  /\ packetCount = 0 /\ named = FALSE /\ sent = {} /\ accepted = {}

-----------------------------------------------------------------------------
(* The life of the session.                                                *)

\* create_session_pair: four new contexts.
NewStreams ==
  /\ tx' = [s \in Ssrcs |-> EmptyWindow] /\ rx' = [s \in Ssrcs |-> EmptyWindow]
  /\ rtcpTx' = [s \in Ssrcs |-> 0] /\ rtcpRx' = [s \in Ssrcs |-> EmptyWindow]
  /\ packetCount' = 0 /\ named' = FALSE

Install(k) == key' = k

\* A SessionLifecycleError: nothing but the lifecycle may have changed.
Refuse == UNCHANGED << key, streamVars, countVars >>

\* Mutant: only the key in use is refused.
KnownCurrent(k) == used # None /\ k = key

\* The fingerprint is one the lifecycle has seen (validate_recreation, and
\* record_rekey, whose two errors differ only in their code).
Known(k) == used # None /\ k \in used

\* establish, with a key of the caller's or a random one.
Establish(k) ==
  /\ \/ /\ ~Known(k)
        /\ used' = (IF used = None THEN {} ELSE used) \cup {k}
        /\ Install(k) /\ NewStreams
     \/ Known(k) /\ Refuse /\ UNCHANGED used
  /\ UNCHANGED << sent, accepted >>

\* restart without allow_same_key.  When there is no lifecycle yet it makes
\* one from this very key, which is then refused as already used.
Restart(k) ==
  /\ \/ /\ used # None /\ ~Known(k)
        /\ used' = used \cup {k}
        /\ Install(k) /\ NewStreams
     \/ /\ used = None \/ Known(k)
        /\ used' = IF used = None THEN {k} ELSE used
        /\ Refuse
  /\ UNCHANGED << sent, accepted >>

\* Mutant: the contexts are made anew.
RekeyStreams == NewStreams

\* SRTPContext.rekey and SRTCPContext.rekey keep index and replay state.
KeepStreams == UNCHANGED << streamVars, countVars >>

Rekey(k) ==
  /\ key # None
  /\ \/ /\ ~Known(k)
        /\ used' = used \cup {k}
        /\ Install(k) /\ KeepStreams
     \/ Known(k) /\ Refuse /\ UNCHANGED used
  /\ UNCHANGED << sent, accepted >>

\* disable closes and drops the contexts; the lifecycle stays.
Disable ==
  /\ key' = None
  /\ NewStreams
  /\ UNCHANGED << used, sent, accepted >>

-----------------------------------------------------------------------------
(* Packets.                                                                *)

Packet(kind, ssrc, index) ==
  [kind |-> kind, key |-> key, ssrc |-> ssrc, index |-> index,
   id |-> Cardinality(sent) + 1]

\* The index SRTPContext.protect and unprotect give to a sequence number.
IndexOf(w, seq) == Estimate(w.highest, seq, Half)

\* The packet can be protected: protect raises otherwise.
CanProtect(ssrc, seq) ==
  /\ InRange(IndexOf(tx[ssrc], seq), Half, MaxRoc)
  /\ ~Rejects(tx[ssrc], Width, IndexOf(tx[ssrc], seq))

\* The sequence number SecurityContext.protect allocates.
NextSequence == packetCount % (2 * Half)

\* protect, with the sequence number the service allocates or one the caller
\* names.  An error changes nothing, packet_count included.
Protect(ssrc, seq) ==
  /\ key # None /\ Cardinality(sent) < MaxPackets
  /\ CanProtect(ssrc, seq)
  /\ LET index == IndexOf(tx[ssrc], seq)
     IN  /\ tx' = [tx EXCEPT ![ssrc] = Commit(@, Width, index)]
         /\ sent' = sent \cup { Packet("rtp", ssrc, index) }
  /\ packetCount' = packetCount + 1
  /\ named' = (named \/ (ssrc = DefaultSsrc /\ seq # NextSequence))
  /\ UNCHANGED << keyVars, rx, rtcpTx, rtcpRx, accepted >>

\* SRTCPContext.protect: no index is used again after the last one.
ProtectRtcp(ssrc) ==
  /\ key # None /\ Cardinality(sent) < MaxPackets
  /\ rtcpTx[ssrc] < RtcpLimit
  /\ rtcpTx' = [rtcpTx EXCEPT ![ssrc] = @ + 1]
  /\ sent' = sent \cup { Packet("rtcp", ssrc, rtcpTx[ssrc]) }
  /\ UNCHANGED << keyVars, tx, rx, rtcpRx, countVars, accepted >>

\* The tag of an SRTP packet is computed over the rollover counter the
\* receiver guesses: it verifies only if the guess is the sender's index.
Opens(p) ==
  /\ p.key = key
  /\ IF p.kind = "rtp"
     THEN /\ IndexOf(rx[p.ssrc], p.index % (2 * Half)) = p.index
          /\ ~Rejects(rx[p.ssrc], Width, p.index)
     ELSE ~Rejects(rtcpRx[p.ssrc], Width, p.index)

\* unprotect and unprotect_rtcp of a packet the network delivers.
Unprotect(p) ==
  /\ Opens(p)
  /\ IF p.kind = "rtp"
     THEN /\ rx' = [rx EXCEPT ![p.ssrc] = Commit(@, Width, p.index)]
          /\ UNCHANGED rtcpRx
     ELSE /\ rtcpRx' = [rtcpRx EXCEPT ![p.ssrc] = Commit(@, Width, p.index)]
          /\ UNCHANGED rx
  /\ accepted' = accepted \cup {p.id}
  /\ UNCHANGED << keyVars, tx, rtcpTx, countVars, sent >>

Next ==
  \/ \E k \in Keys : Establish(k) \/ Restart(k) \/ Rekey(k)
  \/ Disable
  \/ \E s \in Ssrcs : ProtectRtcp(s) \/ \E seq \in Seqs : Protect(s, seq)
  \/ \E p \in sent : Unprotect(p)

Spec == Init /\ [][Next]_vars

-----------------------------------------------------------------------------
(* Properties.                                                             *)

Packets == [kind : {"rtp", "rtcp"}, key : Keys, ssrc : Ssrcs, index : Nat, id : Nat]

\* The type of the state.
TypeOK ==
  /\ used = None \/ used \subseteq Keys
  /\ key \in Keys \cup {None}
  /\ {tx, rx, rtcpRx} \subseteq [Ssrcs -> Windows(Width)]
  /\ rtcpTx \in [Ssrcs -> Nat]
  /\ packetCount \in Nat /\ named \in BOOLEAN /\ sent \subseteq Packets /\ accepted \subseteq Nat

\* No two packets are ever protected with the same key stream, whatever
\* sequence numbers the callers choose and however rekeying, restarts and
\* disabling follow one another (the reason session.py gives for its guard).
NoKeystreamReuse ==
  \A p, q \in sent :
    << p.kind, p.key, p.ssrc, p.index >> = << q.kind, q.key, q.ssrc, q.index >> => p = q

\* A packet that unprotect has returned is not returned a second time, under
\* the same session or a later one (ReplayWindow.check in unprotect).
NoReplay == \A p \in sent : p.id \in accepted => ~Opens(p)

\* The window of the receiver forgets nothing it should know: a packet of the
\* present key that was not returned yet opens, unless it is older than the
\* window or too far from the highest index for its guess to be right.
Near(p) ==
  IF p.kind = "rtcp" THEN rtcpRx[p.ssrc].highest - p.index < Width
  ELSE LET h == rx[p.ssrc].highest
       IN  /\ h - p.index < Width /\ h - p.index < Half /\ p.index - h < Half

NothingGenuineRefused ==
  \A p \in sent : p.key = key /\ p.id \notin accepted /\ Near(p) => Opens(p)

\* While no caller names sequence numbers on the default stream, the number the
\* service allocates there is not refused: its counter, which all streams
\* share, stays ahead of the stream, and the stream accepts it unless half a
\* sequence number space or more was spent on others since its last packet.
DefaultSequenceIsFree ==
  LET gap == packetCount - tx[DefaultSsrc].highest
  IN  key # None /\ ~named /\ packetCount < (MaxRoc + 1) * 2 * Half
        => gap > 0 /\ (gap < Half => CanProtect(DefaultSsrc, NextSequence))
=============================================================================
