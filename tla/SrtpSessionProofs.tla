------------------------- MODULE SrtpSessionProofs -------------------------
(***************************************************************************)
(* No key stream is used twice, no packet is accepted twice and no genuine *)
(* one refused, and the number the service allocates is free: for every    *)
(* set of keys and streams and every width of the windows.                 *)
(*                                                                         *)
(* None of these is inductive.  What carries them is that a packet of the  *)
(* key in use is remembered by the window it went through (Indices), and   *)
(* that a key which was ever used stays in the lifecycle's set, so that    *)
(* new contexts never meet a packet of their own key (KeysUsed).           *)
(* What a receiver has marked is settled (MarksInv): its sender will not   *)
(* use the index again and whatever has it was returned.                   *)
(***************************************************************************)
EXTENDS SrtpSession, ReplayWindowProofs, FiniteSetTheorems

\* Every key that is or was in use is in the lifecycle's set.
KeysUsed ==
  /\ key # None => used # None /\ key \in used
  /\ \A p \in sent : used # None /\ p.key \in used

\* Senders and receivers remember the packets of the present key.
Indices ==
  \A p \in sent : p.key = key =>
    /\ p.kind = "rtp" => Remembers(tx[p.ssrc], Width, p.index)
    /\ p.kind = "rtcp" => p.index < rtcpTx[p.ssrc]
    /\ p.id \in accepted =>
         IF p.kind = "rtp" THEN Remembers(rx[p.ssrc], Width, p.index)
         ELSE Remembers(rtcpRx[p.ssrc], Width, p.index)

\* Serial numbers are unique.
Numbered ==
  /\ IsFiniteSet(sent)
  /\ \A p \in sent : p.id <= Cardinality(sent)
  /\ \A p, q \in sent : p.id = q.id => p = q
  /\ \A i \in accepted : i <= Cardinality(sent)

SessionInv == TypeOK /\ KeysUsed /\ Indices /\ Numbered /\ NoKeystreamReuse

USE KeysAssumption, SsrcAssumption, WidthAssumption, SpaceAssumption, BoundAssumption

-----------------------------------------------------------------------------
(* The pieces the actions are made of.                                     *)

\* The initial contexts are typed.
LEMMA EmptyStreams ==
  [s \in Ssrcs |-> EmptyWindow] \in [Ssrcs -> Windows(Width)]
BY DEF EmptyWindow, Windows

LEMMA InitHolds == Init => SessionInv
<1> SUFFICES ASSUME Init PROVE SessionInv
  OBVIOUS
<1>1. TypeOK
  BY EmptyStreams DEF Init, TypeOK
<1>2. Numbered
  BY FS_EmptySet DEF Init, Numbered
<1> QED BY <1>1, <1>2 DEF Init, SessionInv, KeysUsed, Indices, NoKeystreamReuse

\* Whatever makes new contexts under a key no packet has keeps the invariant.
LEMMA NewSession ==
  ASSUME SessionInv, NewStreams, UNCHANGED << sent, accepted >>,
         key' \in Keys \cup {None}, used' \in (SUBSET Keys) \cup {None},
         used # None => used' # None /\ used \subseteq used',
         key' # None => used' # None /\ key' \in used',
         \A p \in sent : p.key # key'
  PROVE  SessionInv'
<1>1. TypeOK'
  BY EmptyStreams DEF SessionInv, TypeOK, NewStreams
<1>2. KeysUsed'
  BY DEF SessionInv, KeysUsed
<1>3. Indices'
  BY DEF Indices
<1>4. Numbered'
  BY DEF SessionInv, Numbered
<1>5. NoKeystreamReuse'
  BY DEF SessionInv, NoKeystreamReuse
<1> QED BY <1>1, <1>2, <1>3, <1>4, <1>5 DEF SessionInv

\* So does what leaves the streams alone and changes the key, if at all, to one
\* no packet has.
LEMMA SameStreams ==
  ASSUME SessionInv, UNCHANGED << streamVars, countVars, sent, accepted >>,
         key' \in Keys, used' \in (SUBSET Keys) \cup {None},
         used # None => used' # None /\ used \subseteq used',
         used' # None /\ key' \in used',
         key' = key \/ \A p \in sent : p.key # key'
  PROVE  SessionInv'
<1>1. TypeOK'
  BY DEF SessionInv, TypeOK, streamVars, countVars
<1>2. KeysUsed'
  BY DEF SessionInv, KeysUsed
<1>3. Indices'
  BY DEF SessionInv, Indices, streamVars
<1>4. Numbered'
  BY DEF SessionInv, Numbered
<1>5. NoKeystreamReuse'
  BY DEF SessionInv, NoKeystreamReuse
<1> QED BY <1>1, <1>2, <1>3, <1>4, <1>5 DEF SessionInv

\* A refusal changes the lifecycle's set at most.
LEMMA RefusalKeeps ==
  ASSUME SessionInv, NEW k \in Keys, Refuse, UNCHANGED << sent, accepted >>,
         used' = used \/ (used = None /\ used' = {k})
  PROVE  SessionInv'
<1>1. TypeOK'
  BY DEF SessionInv, TypeOK, Refuse, streamVars, countVars
<1>2. KeysUsed'
  BY DEF SessionInv, KeysUsed, Refuse
<1>3. Indices'
  BY DEF SessionInv, Indices, Refuse, streamVars
<1>4. Numbered'
  BY DEF SessionInv, Numbered
<1>5. NoKeystreamReuse'
  BY DEF SessionInv, NoKeystreamReuse
<1> QED BY <1>1, <1>2, <1>3, <1>4, <1>5 DEF SessionInv

-----------------------------------------------------------------------------
(* The life of the session.                                                *)

LEMMA EstablishKeeps ==
  ASSUME SessionInv, NEW k \in Keys, Establish(k)
  PROVE  SessionInv'
<1>1. CASE ~Known(k) /\ used' = (IF used = None THEN {} ELSE used) \cup {k}
           /\ Install(k) /\ NewStreams
  <2>1. \A p \in sent : p.key # k
    BY <1>1 DEF SessionInv, KeysUsed, Known
  <2>2. used' \subseteq Keys /\ used' # None /\ k \in used'
        /\ (used # None => used \subseteq used')
    BY <1>1 DEF SessionInv, TypeOK, Known
  <2> QED BY <1>1, <2>1, <2>2, NewSession DEF Install, SessionInv, TypeOK, Establish
<1>2. CASE Known(k) /\ Refuse /\ UNCHANGED used
  BY <1>2, RefusalKeeps DEF Establish
<1> QED BY <1>1, <1>2 DEF Establish

LEMMA RestartKeeps ==
  ASSUME SessionInv, NEW k \in Keys, Restart(k)
  PROVE  SessionInv'
<1>1. CASE used # None /\ ~Known(k) /\ used' = used \cup {k}
           /\ Install(k) /\ NewStreams
  <2>1. \A p \in sent : p.key # k
    BY <1>1 DEF SessionInv, KeysUsed, Known
  <2>2. used' \subseteq Keys /\ used' # None /\ k \in used' /\ used \subseteq used'
    BY <1>1 DEF SessionInv, TypeOK
  <2> QED BY <1>1, <2>1, <2>2, NewSession DEF Install, SessionInv, TypeOK, Restart
<1>2. CASE (used = None \/ Known(k)) /\ Refuse
           /\ used' = IF used = None THEN {k} ELSE used
  BY <1>2, RefusalKeeps DEF Restart
<1> QED BY <1>1, <1>2 DEF Restart

LEMMA RekeyKeeps ==
  ASSUME SessionInv, NEW k \in Keys, Rekey(k)
  PROVE  SessionInv'
<1>1. CASE ~Known(k) /\ used' = used \cup {k} /\ Install(k) /\ KeepStreams
  <2>1. used # None
    BY DEF SessionInv, KeysUsed, Rekey
  <2>2. \A p \in sent : p.key # k
    BY <1>1, <2>1 DEF SessionInv, KeysUsed, Known
  <2>3. used' \subseteq Keys /\ used' # None /\ k \in used' /\ used \subseteq used'
    BY <1>1, <2>1 DEF SessionInv, TypeOK
  <2> QED BY <1>1, <2>2, <2>3, SameStreams
          DEF Install, KeepStreams, SessionInv, TypeOK, Rekey
<1>2. CASE Known(k) /\ Refuse /\ UNCHANGED used
  BY <1>2, RefusalKeeps DEF Rekey
<1> QED BY <1>1, <1>2 DEF Rekey

LEMMA DisableKeeps ==
  ASSUME SessionInv, Disable
  PROVE  SessionInv'
<1>1. \A p \in sent : p.key # key'
  BY DEF SessionInv, TypeOK, Packets, Disable
<1> QED BY <1>1, NewSession DEF Disable, SessionInv, TypeOK

-----------------------------------------------------------------------------
(* Packets.                                                                *)

\* A packet with a number of its own under a key stream not used before.
LEMMA SendKeeps ==
  ASSUME SessionInv, NEW kind \in {"rtp", "rtcp"}, NEW ssrc \in Ssrcs, NEW index \in Nat,
         key # None, sent' = sent \cup { Packet(kind, ssrc, index) },
         UNCHANGED << keyVars, rx, rtcpRx, accepted >>,
         tx' \in [Ssrcs -> Windows(Width)], rtcpTx' \in [Ssrcs -> Nat],
         packetCount' \in Nat, named' \in BOOLEAN,
         \A p \in sent : p.key = key =>
           << p.kind, p.ssrc, p.index >> # << kind, ssrc, index >>,
         \A p \in sent : p.key = key =>
           /\ p.kind = "rtp" => Remembers(tx'[p.ssrc], Width, p.index)
           /\ p.kind = "rtcp" => p.index < rtcpTx'[p.ssrc],
         kind = "rtp" => Remembers(tx'[ssrc], Width, index),
         kind = "rtcp" => index < rtcpTx'[ssrc]
  PROVE  SessionInv'
<1> DEFINE new == Packet(kind, ssrc, index)
           n == Cardinality(sent)
<1>1. n \in Nat
  BY FS_CardinalityType DEF SessionInv, Numbered
<1>2. new = [kind |-> kind, key |-> key, ssrc |-> ssrc, index |-> index, id |-> n + 1]
  BY DEF Packet
<1>3. new \in Packets /\ new.id = n + 1 /\ new.key = key /\ new.ssrc = ssrc
      /\ new.kind = kind /\ new.index = index
  BY <1>1, <1>2 DEF SessionInv, TypeOK, Packets
<1>4. \A p \in sent : p.id \in Nat /\ p.id <= n
  BY DEF SessionInv, TypeOK, Packets, Numbered
<1>5. \A i \in accepted : i \in Nat /\ i <= n
  BY DEF SessionInv, TypeOK, Numbered
<1>6. new \notin sent
  BY <1>1, <1>3, <1>4
<1>7. IsFiniteSet(sent') /\ Cardinality(sent') = n + 1
  BY <1>6, FS_AddElement DEF SessionInv, Numbered
<1> HIDE DEF new, n
<1>8. TypeOK'
  BY <1>3 DEF SessionInv, TypeOK, keyVars, new
<1>9. KeysUsed'
  BY <1>3 DEF SessionInv, KeysUsed, keyVars, new
<1>10. Indices'
  <2> SUFFICES ASSUME NEW p \in sent', p.key = key'
      PROVE  /\ p.kind = "rtp" => Remembers(tx'[p.ssrc], Width, p.index)
             /\ p.kind = "rtcp" => p.index < rtcpTx'[p.ssrc]
             /\ p.id \in accepted' =>
                  IF p.kind = "rtp" THEN Remembers(rx'[p.ssrc], Width, p.index)
                  ELSE Remembers(rtcpRx'[p.ssrc], Width, p.index)
    BY DEF Indices
  <2>1. CASE p \in sent
    BY <2>1 DEF SessionInv, Indices, keyVars
  <2>2. CASE p = new
    <3>1. p.id \notin accepted'
      BY <1>1, <1>3, <1>5, <2>2
    <3> QED BY <1>3, <2>2, <3>1
  <2> QED BY <2>1, <2>2 DEF new
<1>11. Numbered'
  <2>1. \A p \in sent' : p.id \in Nat /\ p.id <= n + 1
    BY <1>1, <1>3, <1>4 DEF new
  <2>2. \A p, q \in sent' : p.id = q.id => p = q
    <3>1. \A p \in sent : p.id # new.id
      BY <1>1, <1>3, <1>4
    <3> QED BY <3>1 DEF SessionInv, Numbered, new
  <2>3. \A i \in accepted' : i <= n + 1
    BY <1>1, <1>5
  <2> QED BY <1>7, <2>1, <2>2, <2>3 DEF Numbered
<1>12. NoKeystreamReuse'
  <2>1. \A p \in sent :
          << p.kind, p.key, p.ssrc, p.index >> # << new.kind, new.key, new.ssrc, new.index >>
    BY <1>3
  <2>2. sent' = sent \cup {new}
    BY DEF new
  <2> QED BY <2>1, <2>2 DEF SessionInv, NoKeystreamReuse
<1> QED BY <1>8, <1>9, <1>10, <1>11, <1>12 DEF SessionInv

LEMMA ProtectKeeps ==
  ASSUME SessionInv, NEW ssrc \in Ssrcs, NEW seq \in Seqs, Protect(ssrc, seq)
  PROVE  SessionInv'
<1> DEFINE index == IndexOf(tx[ssrc], seq)
<1>1. index \in Nat
  BY DEF Protect, CanProtect, InRange
<1>2. ~Rejects(tx[ssrc], Width, index)
  BY DEF Protect, CanProtect
<1>3. tx' = [tx EXCEPT ![ssrc] = Commit(@, Width, index)]
      /\ sent' = sent \cup { Packet("rtp", ssrc, index) }
      /\ key # None /\ packetCount' = packetCount + 1
      /\ named' = (named \/ (ssrc = DefaultSsrc /\ seq # NextSequence))
      /\ UNCHANGED << keyVars, rx, rtcpTx, rtcpRx, accepted >>
  BY DEF Protect
<1> HIDE DEF index
<1>4. tx \in [Ssrcs -> Windows(Width)] /\ tx[ssrc] \in Windows(Width)
  BY DEF SessionInv, TypeOK
<1>5. Commit(tx[ssrc], Width, index) \in Windows(Width)
      /\ Remembers(Commit(tx[ssrc], Width, index), Width, index)
  BY <1>1, <1>2, <1>4, CommitRemembers
<1>6. tx' \in [Ssrcs -> Windows(Width)] /\ Remembers(tx'[ssrc], Width, index)
  BY <1>3, <1>4, <1>5
<1>7. ASSUME NEW p \in sent, p.key = key
      PROVE  /\ << p.kind, p.ssrc, p.index >> # << "rtp", ssrc, index >>
             /\ p.kind = "rtp" => Remembers(tx'[p.ssrc], Width, p.index)
             /\ p.kind = "rtcp" => p.index < rtcpTx'[p.ssrc]
  <2>1. p.index \in Nat /\ p.ssrc \in Ssrcs
    BY DEF SessionInv, TypeOK, Packets
  <2>2. p.kind = "rtp" => Remembers(tx[p.ssrc], Width, p.index)
    BY <1>7 DEF SessionInv, Indices
  <2>3. p.kind = "rtp" /\ p.ssrc = ssrc => p.index # index
    BY <1>1, <1>2, <1>4, <2>2, RememberedIsRejected
  <2>4. p.kind = "rtp" => Remembers(tx'[p.ssrc], Width, p.index)
    BY <1>1, <1>3, <1>4, <2>1, <2>2, CommitKeeps
  <2> QED BY <1>3, <1>7, <2>3, <2>4 DEF SessionInv, Indices
<1>8. rtcpTx' \in [Ssrcs -> Nat] /\ packetCount' \in Nat /\ named' \in BOOLEAN
  BY <1>3 DEF SessionInv, TypeOK
<1> QED BY <1>1, <1>3, <1>6, <1>7, <1>8, SendKeeps

LEMMA ProtectRtcpKeeps ==
  ASSUME SessionInv, NEW ssrc \in Ssrcs, ProtectRtcp(ssrc)
  PROVE  SessionInv'
<1>1. rtcpTx \in [Ssrcs -> Nat] /\ rtcpTx[ssrc] \in Nat
  BY DEF SessionInv, TypeOK
<1>2. rtcpTx' = [rtcpTx EXCEPT ![ssrc] = @ + 1]
      /\ sent' = sent \cup { Packet("rtcp", ssrc, rtcpTx[ssrc]) }
      /\ key # None /\ UNCHANGED << keyVars, tx, rx, rtcpRx, countVars, accepted >>
  BY DEF ProtectRtcp
<1>3. rtcpTx' \in [Ssrcs -> Nat] /\ rtcpTx[ssrc] < rtcpTx'[ssrc]
  BY <1>1, <1>2
<1>4. ASSUME NEW p \in sent, p.key = key
      PROVE  /\ << p.kind, p.ssrc, p.index >> # << "rtcp", ssrc, rtcpTx[ssrc] >>
             /\ p.kind = "rtp" => Remembers(tx'[p.ssrc], Width, p.index)
             /\ p.kind = "rtcp" => p.index < rtcpTx'[p.ssrc]
  <2>1. p.index \in Nat /\ p.ssrc \in Ssrcs /\ rtcpTx[p.ssrc] \in Nat
    BY DEF SessionInv, TypeOK, Packets
  <2>2. p.kind = "rtcp" => p.index < rtcpTx[p.ssrc]
    BY <1>4 DEF SessionInv, Indices
  <2>3. p.kind = "rtp" => Remembers(tx'[p.ssrc], Width, p.index)
    BY <1>2, <1>4 DEF SessionInv, Indices
  <2> QED BY <1>1, <1>2, <2>1, <2>2, <2>3
<1>5. tx' \in [Ssrcs -> Windows(Width)] /\ packetCount' \in Nat /\ named' \in BOOLEAN
      /\ UNCHANGED << keyVars, rx, rtcpRx, accepted >>
  BY <1>2 DEF SessionInv, TypeOK, countVars
<1> QED BY <1>1, <1>2, <1>3, <1>4, <1>5, SendKeeps

LEMMA UnprotectKeeps ==
  ASSUME SessionInv, NEW p \in sent, Unprotect(p)
  PROVE  SessionInv'
<1>1. p \in Packets /\ p.index \in Nat /\ p.ssrc \in Ssrcs /\ p.id \in Nat
  BY DEF SessionInv, TypeOK, Packets
<1>2. UNCHANGED << keyVars, tx, rtcpTx, packetCount, named, sent >>
      /\ accepted' = accepted \cup {p.id}
  BY DEF Unprotect, countVars
<1>3. rx \in [Ssrcs -> Windows(Width)] /\ rtcpRx \in [Ssrcs -> Windows(Width)]
  BY DEF SessionInv, TypeOK
<1>4. rx' \in [Ssrcs -> Windows(Width)] /\ rtcpRx' \in [Ssrcs -> Windows(Width)]
      /\ IF p.kind = "rtp" THEN Remembers(rx'[p.ssrc], Width, p.index)
         ELSE Remembers(rtcpRx'[p.ssrc], Width, p.index)
  <2>1. CASE p.kind = "rtp"
    BY <1>1, <1>3, <2>1, CommitRemembers DEF Unprotect, Opens
  <2>2. CASE p.kind # "rtp"
    BY <1>1, <1>3, <2>2, CommitRemembers DEF Unprotect, Opens
  <2> QED BY <2>1, <2>2
<1>5. TypeOK'
  BY <1>1, <1>2, <1>4 DEF SessionInv, TypeOK, keyVars
<1>6. KeysUsed'
  BY <1>2 DEF SessionInv, KeysUsed, keyVars
<1>7. Indices'
  <2> SUFFICES ASSUME NEW q \in sent', q.key = key'
      PROVE  /\ q.kind = "rtp" => Remembers(tx'[q.ssrc], Width, q.index)
             /\ q.kind = "rtcp" => q.index < rtcpTx'[q.ssrc]
             /\ q.id \in accepted' =>
                  IF q.kind = "rtp" THEN Remembers(rx'[q.ssrc], Width, q.index)
                  ELSE Remembers(rtcpRx'[q.ssrc], Width, q.index)
    BY DEF Indices
  <2>1. q \in sent /\ q.key = key /\ q.index \in Nat /\ q.ssrc \in Ssrcs
    BY <1>2 DEF SessionInv, TypeOK, Packets, keyVars
  <2>2. CASE q = p
    BY <1>2, <1>4, <2>1, <2>2 DEF SessionInv, Indices
  <2>3. CASE q # p
    <3>1. q.id \in accepted' => q.id \in accepted
      BY <1>2, <2>1, <2>3 DEF SessionInv, Numbered
    <3>2. q.id \in accepted => IF q.kind = "rtp" THEN Remembers(rx[q.ssrc], Width, q.index)
                               ELSE Remembers(rtcpRx[q.ssrc], Width, q.index)
      BY <2>1 DEF SessionInv, Indices
    <3>3. Remembers(rx[q.ssrc], Width, q.index) => Remembers(rx'[q.ssrc], Width, q.index)
      BY <1>1, <1>3, <2>1, CommitKeeps DEF Unprotect
    <3>4. Remembers(rtcpRx[q.ssrc], Width, q.index) => Remembers(rtcpRx'[q.ssrc], Width, q.index)
      BY <1>1, <1>3, <2>1, CommitKeeps DEF Unprotect
    <3> QED BY <1>2, <2>1, <3>1, <3>2, <3>3, <3>4 DEF SessionInv, Indices
  <2> QED BY <2>2, <2>3
<1>8. Numbered'
  BY <1>2 DEF SessionInv, Numbered
<1>9. NoKeystreamReuse'
  BY <1>2 DEF SessionInv, NoKeystreamReuse
<1> QED BY <1>5, <1>6, <1>7, <1>8, <1>9 DEF SessionInv

LEMMA StutterKeeps ==
  ASSUME SessionInv, UNCHANGED vars
  PROVE  SessionInv'
<1> USE DEF vars, keyVars, streamVars, countVars
<1>1. TypeOK' /\ KeysUsed' /\ NoKeystreamReuse'
  BY DEF SessionInv, TypeOK, KeysUsed, NoKeystreamReuse
<1>2. Indices' /\ Numbered'
  BY DEF SessionInv, Indices, Numbered
<1> QED BY <1>1, <1>2 DEF SessionInv

-----------------------------------------------------------------------------
(* The theorems.                                                           *)

LEMMA SessionInvHolds == Spec => []SessionInv
<1>1. SessionInv /\ [Next]_vars => SessionInv'
  <2> SUFFICES ASSUME SessionInv, [Next]_vars PROVE SessionInv'
    OBVIOUS
  <2>1. ASSUME NEW k \in Keys, Establish(k) PROVE SessionInv'
    BY <2>1, EstablishKeeps
  <2>2. ASSUME NEW k \in Keys, Restart(k) PROVE SessionInv'
    BY <2>2, RestartKeeps
  <2>3. ASSUME NEW k \in Keys, Rekey(k) PROVE SessionInv'
    BY <2>3, RekeyKeeps
  <2>4. CASE Disable
    BY <2>4, DisableKeeps
  <2>5. ASSUME NEW s \in Ssrcs, ProtectRtcp(s) PROVE SessionInv'
    BY <2>5, ProtectRtcpKeeps
  <2>6. ASSUME NEW s \in Ssrcs, NEW seq \in Seqs, Protect(s, seq) PROVE SessionInv'
    BY <2>6, ProtectKeeps
  <2>7. ASSUME NEW p \in sent, Unprotect(p) PROVE SessionInv'
    BY <2>7, UnprotectKeeps
  <2>8. CASE UNCHANGED vars
    BY <2>8, StutterKeeps
  <2> QED BY <2>1, <2>2, <2>3, <2>4, <2>5, <2>6, <2>7, <2>8 DEF Next
<1> QED BY <1>1, InitHolds, PTL DEF Spec

\* No two packets are protected with the same key stream: the reason for the
\* lifecycle's guard (session.py) and for the senders' replay windows and
\* SRTCP counters.
THEOREM NoKeystreamReuseHolds == Spec => []NoKeystreamReuse
<1>1. SessionInv => NoKeystreamReuse
  BY DEF SessionInv
<1> QED BY <1>1, SessionInvHolds, PTL

\* The state of the contexts keeps its type: in particular a bitmap never
\* outgrows its window (the mask in ReplayWindow.commit).
THEOREM SessionTypeCorrect == Spec => []TypeOK
<1>1. SessionInv => TypeOK
  BY DEF SessionInv
<1> QED BY <1>1, SessionInvHolds, PTL

\* unprotect returns a packet at most once, whatever the network repeats and
\* whether the session was rekeyed, restarted or disabled in between.
THEOREM NoReplayHolds == Spec => []NoReplay
<1>1. SessionInv => NoReplay
  <2> SUFFICES ASSUME SessionInv, NEW p \in sent, p.id \in accepted, p.key = key
               PROVE  ~Opens(p)
    BY DEF NoReplay, Opens
  <2>1. p.index \in Nat /\ p.ssrc \in Ssrcs
        /\ rx[p.ssrc] \in Windows(Width) /\ rtcpRx[p.ssrc] \in Windows(Width)
    BY DEF SessionInv, TypeOK, Packets
  <2>2. IF p.kind = "rtp" THEN Remembers(rx[p.ssrc], Width, p.index)
        ELSE Remembers(rtcpRx[p.ssrc], Width, p.index)
    BY DEF SessionInv, Indices
  <2>3. CASE p.kind = "rtp"
    BY <2>1, <2>2, <2>3, RememberedIsRejected DEF Opens
  <2>4. CASE p.kind # "rtp"
    BY <2>1, <2>2, <2>4, RememberedIsRejected DEF Opens
  <2> QED BY <2>3, <2>4
<1> QED BY <1>1, SessionInvHolds, PTL

-----------------------------------------------------------------------------
(* A receiver refuses nothing that is genuine and near.                    *)

\* What a receiver has marked its sender has sent in this session, and the
\* packets of the present key there, if any, have been returned.
Settled(kind, ssrc, index) ==
  \A p \in sent : p.kind = kind /\ p.key = key /\ p.ssrc = ssrc /\ p.index = index => p.id \in accepted

MarksInv ==
  \A s \in Ssrcs, i \in Nat :
    /\ Marks(rx[s], i) => Remembers(tx[s], Width, i) /\ Settled("rtp", s, i)
    /\ Marks(rtcpRx[s], i) => i < rtcpTx[s] /\ Settled("rtcp", s, i)

\* New contexts have marked nothing.
LEMMA NewMarks ==
  ASSUME NewStreams
  PROVE  MarksInv'
BY DEF NewStreams, MarksInv, Marks, EmptyWindow

\* Neither has a change of the key to one no packet has, the windows staying.
LEMMA SameMarks ==
  ASSUME MarksInv, UNCHANGED << streamVars, sent, accepted >>,
         key' = key \/ \A p \in sent : p.key # key'
  PROVE  MarksInv'
<1>1. \A kind, s, i : Settled(kind, s, i) => Settled(kind, s, i)'
  BY DEF Settled
<1> QED BY <1>1 DEF MarksInv, streamVars

LEMMA MarksLife ==
  ASSUME SessionInv, MarksInv, NEW k \in Keys, Establish(k) \/ Restart(k) \/ Rekey(k) \/ Disable
  PROVE  MarksInv'
<1>1. CASE NewStreams
  BY <1>1, NewMarks
<1>2. CASE ~NewStreams
  <2>1. UNCHANGED << streamVars, sent, accepted >>
    BY <1>2 DEF Establish, Restart, Rekey, Disable, Refuse, KeepStreams
  <2>2. key' = key \/ \A p \in sent : p.key # key'
    BY <1>2 DEF Establish, Restart, Rekey, Disable, Refuse, Install, Known, SessionInv, KeysUsed
  <2> QED BY <2>1, <2>2, SameMarks
<1> QED BY <1>1, <1>2

LEMMA MarksProtect ==
  ASSUME SessionInv, MarksInv, NEW ssrc \in Ssrcs, NEW seq \in Seqs, Protect(ssrc, seq)
  PROVE  MarksInv'
<1> DEFINE index == IndexOf(tx[ssrc], seq)
           new == Packet("rtp", ssrc, index)
<1>1. index \in Nat /\ ~Rejects(tx[ssrc], Width, index)
  BY DEF Protect, CanProtect, InRange
<1>2. /\ tx' = [tx EXCEPT ![ssrc] = Commit(@, Width, index)]
      /\ sent' = sent \cup {new}
      /\ UNCHANGED << keyVars, rx, rtcpTx, rtcpRx, accepted >>
  BY DEF Protect
<1>3. new.kind = "rtp" /\ new.ssrc = ssrc /\ new.index = index
  BY DEF Packet
<1>4. tx \in [Ssrcs -> Windows(Width)] /\ tx[ssrc] \in Windows(Width)
  BY DEF SessionInv, TypeOK
<1> HIDE DEF index, new
<1>5. ASSUME NEW s \in Ssrcs, NEW i \in Nat, Marks(rx[s], i)
      PROVE  Remembers(tx'[s], Width, i) /\ Settled("rtp", s, i)'
  <2>1. Remembers(tx[s], Width, i) /\ Settled("rtp", s, i)
    BY <1>5 DEF MarksInv
  <2>2. Remembers(tx'[s], Width, i)
    BY <1>1, <1>2, <1>4, <2>1, CommitKeeps
  <2>3. s = ssrc => i # index
    BY <1>1, <1>4, <2>1, RememberedIsRejected
  <2>4. Settled("rtp", s, i)'
    BY <1>2, <1>3, <2>1, <2>3 DEF Settled, keyVars
  <2> QED BY <2>2, <2>4
<1>6. ASSUME NEW s \in Ssrcs, NEW i \in Nat, Marks(rtcpRx[s], i)
      PROVE  i < rtcpTx[s] /\ Settled("rtcp", s, i)'
  <2>1. i < rtcpTx[s] /\ Settled("rtcp", s, i)
    BY <1>6 DEF MarksInv
  <2> QED BY <1>2, <1>3, <2>1 DEF Settled, keyVars
<1> QED BY <1>2, <1>5, <1>6 DEF MarksInv

LEMMA MarksProtectRtcp ==
  ASSUME SessionInv, MarksInv, NEW ssrc \in Ssrcs, ProtectRtcp(ssrc)
  PROVE  MarksInv'
<1> DEFINE new == Packet("rtcp", ssrc, rtcpTx[ssrc])
<1>1. /\ rtcpTx' = [rtcpTx EXCEPT ![ssrc] = @ + 1]
      /\ sent' = sent \cup {new}
      /\ UNCHANGED << keyVars, tx, rx, rtcpRx, accepted >>
  BY DEF ProtectRtcp
<1>2. new.kind = "rtcp" /\ new.ssrc = ssrc /\ new.index = rtcpTx[ssrc]
  BY DEF Packet
<1>3. rtcpTx \in [Ssrcs -> Nat]
  BY DEF SessionInv, TypeOK
<1> HIDE DEF new
<1>4. ASSUME NEW s \in Ssrcs, NEW i \in Nat, Marks(rtcpRx[s], i)
      PROVE  i < rtcpTx'[s] /\ Settled("rtcp", s, i)'
  <2>1. i < rtcpTx[s] /\ Settled("rtcp", s, i)
    BY <1>4 DEF MarksInv
  <2>2. i < rtcpTx'[s]
    BY <1>1, <1>3, <2>1
  <2>3. s = ssrc => i # rtcpTx[ssrc]
    BY <1>3, <2>1
  <2> QED BY <1>1, <1>2, <2>1, <2>2, <2>3 DEF Settled, keyVars
<1>5. ASSUME NEW s \in Ssrcs, NEW i \in Nat, Marks(rx[s], i)
      PROVE  Remembers(tx[s], Width, i) /\ Settled("rtp", s, i)'
  <2>1. Remembers(tx[s], Width, i) /\ Settled("rtp", s, i)
    BY <1>5 DEF MarksInv
  <2> QED BY <1>1, <1>2, <2>1 DEF Settled, keyVars
<1> QED BY <1>1, <1>4, <1>5 DEF MarksInv

\* The packet that is returned is the only one of its key and index.
LEMMA MarksUnprotect ==
  ASSUME SessionInv, MarksInv, NEW p \in sent, Unprotect(p)
  PROVE  MarksInv'
<1>1. p.index \in Nat /\ p.ssrc \in Ssrcs /\ p.kind \in {"rtp", "rtcp"}
  BY DEF SessionInv, TypeOK, Packets
<1>2. /\ UNCHANGED << keyVars, tx, rtcpTx, sent >> /\ accepted' = accepted \cup {p.id}
      /\ p.key = key
  BY DEF Unprotect, Opens
<1>3. rx \in [Ssrcs -> Windows(Width)] /\ rtcpRx \in [Ssrcs -> Windows(Width)]
  BY DEF SessionInv, TypeOK
<1>4. \A kind, s, i : Settled(kind, s, i) => Settled(kind, s, i)'
  BY <1>2 DEF Settled, keyVars
<1>5. Settled(p.kind, p.ssrc, p.index)'
  <2> SUFFICES ASSUME NEW q \in sent, q.kind = p.kind, q.key = p.key, q.ssrc = p.ssrc, q.index = p.index
               PROVE  q.id \in accepted'
    BY <1>2 DEF Settled, keyVars
  <2>1. q = p
    BY DEF SessionInv, NoKeystreamReuse
  <2> QED BY <1>2, <2>1
<1>6. CASE p.kind = "rtp"
  <2>1. rx' = [rx EXCEPT ![p.ssrc] = Commit(@, Width, p.index)] /\ rtcpRx' = rtcpRx
    BY <1>6 DEF Unprotect
  <2>2. Remembers(tx[p.ssrc], Width, p.index)
    BY <1>2, <1>6 DEF SessionInv, Indices
  <2>3. ASSUME NEW s \in Ssrcs, NEW i \in Nat, Marks(rx'[s], i)
        PROVE  Remembers(tx[s], Width, i) /\ Settled("rtp", s, i)'
    <3>1. Marks(rx[s], i) \/ (s = p.ssrc /\ i = p.index)
      <4>1. CASE s = p.ssrc
        <5>1. rx'[s] = Commit(rx[s], Width, p.index)
          BY <1>1, <1>3, <2>1, <4>1
        <5>2. Marks(Commit(rx[s], Width, p.index), i)
          BY <2>3, <5>1
        <5>3. rx[s] \in Windows(Width)
          BY <1>3
        <5> QED BY <1>1, <4>1, <5>2, <5>3, CommitMarks
      <4>2. CASE s # p.ssrc
        BY <1>3, <2>1, <2>3, <4>2
      <4> QED BY <4>1, <4>2
    <3>2. CASE Marks(rx[s], i)
      BY <1>4, <3>2 DEF MarksInv
    <3>3. CASE s = p.ssrc /\ i = p.index
      BY <1>5, <1>6, <2>2, <3>3
    <3> QED BY <3>1, <3>2, <3>3
  <2> QED BY <1>2, <1>4, <2>1, <2>3 DEF MarksInv
<1>7. CASE p.kind = "rtcp"
  <2>1. rtcpRx' = [rtcpRx EXCEPT ![p.ssrc] = Commit(@, Width, p.index)] /\ rx' = rx
    BY <1>7 DEF Unprotect
  <2>2. p.index < rtcpTx[p.ssrc]
    BY <1>2, <1>7 DEF SessionInv, Indices
  <2>3. ASSUME NEW s \in Ssrcs, NEW i \in Nat, Marks(rtcpRx'[s], i)
        PROVE  i < rtcpTx[s] /\ Settled("rtcp", s, i)'
    <3>1. Marks(rtcpRx[s], i) \/ (s = p.ssrc /\ i = p.index)
      <4>1. CASE s = p.ssrc
        <5>1. rtcpRx'[s] = Commit(rtcpRx[s], Width, p.index)
          BY <1>1, <1>3, <2>1, <4>1
        <5>2. Marks(Commit(rtcpRx[s], Width, p.index), i)
          BY <2>3, <5>1
        <5>3. rtcpRx[s] \in Windows(Width)
          BY <1>3
        <5> QED BY <1>1, <4>1, <5>2, <5>3, CommitMarks
      <4>2. CASE s # p.ssrc
        BY <1>3, <2>1, <2>3, <4>2
      <4> QED BY <4>1, <4>2
    <3>2. CASE Marks(rtcpRx[s], i)
      BY <1>4, <3>2 DEF MarksInv
    <3>3. CASE s = p.ssrc /\ i = p.index
      BY <1>5, <1>7, <2>2, <3>3
    <3> QED BY <3>1, <3>2, <3>3
  <2> QED BY <1>2, <1>4, <2>1, <2>3 DEF MarksInv
<1> QED BY <1>1, <1>6, <1>7

\* A packet of the present key that was not returned yet opens, unless it is
\* older than the window or half a sequence number space away.
THEOREM NothingGenuineRefusedHolds == Spec => []NothingGenuineRefused
<1>1. Init => MarksInv
  BY DEF Init, MarksInv, Marks, EmptyWindow
<1>2. SessionInv /\ MarksInv /\ [Next]_vars => MarksInv'
  <2> SUFFICES ASSUME SessionInv, MarksInv, [Next]_vars PROVE MarksInv'
    OBVIOUS
  <2>1. ASSUME NEW k \in Keys, Establish(k) \/ Restart(k) \/ Rekey(k) PROVE MarksInv'
    BY <2>1, MarksLife
  <2>2. CASE Disable
    BY <2>2, NewMarks DEF Disable
  <2>3. ASSUME NEW s \in Ssrcs, ProtectRtcp(s) PROVE MarksInv'
    BY <2>3, MarksProtectRtcp
  <2>4. ASSUME NEW s \in Ssrcs, NEW seq \in Seqs, Protect(s, seq) PROVE MarksInv'
    BY <2>4, MarksProtect
  <2>5. ASSUME NEW p \in sent, Unprotect(p) PROVE MarksInv'
    BY <2>5, MarksUnprotect
  <2>6. CASE UNCHANGED vars
    BY <2>6, SameMarks DEF vars, keyVars
  <2> QED BY <2>1, <2>2, <2>3, <2>4, <2>5, <2>6 DEF Next
<1>3. SessionInv /\ MarksInv => NothingGenuineRefused
  <2> SUFFICES ASSUME SessionInv, MarksInv,
                      NEW p \in sent, p.key = key, p.id \notin accepted, Near(p)
               PROVE  Opens(p)
    BY DEF NothingGenuineRefused
  <2>1. /\ p.index \in Nat /\ p.ssrc \in Ssrcs /\ p.kind \in {"rtp", "rtcp"}
        /\ rx[p.ssrc] \in Windows(Width) /\ rtcpRx[p.ssrc] \in Windows(Width)
    BY DEF SessionInv, TypeOK, Packets
  <2>2. CASE p.kind = "rtp"
    <3> DEFINE h == rx[p.ssrc].highest
    <3>1. h \in Nat \cup {-1} /\ h - p.index < Width /\ h - p.index < Half /\ p.index - h < Half
      BY <2>1, <2>2 DEF Near, Windows
    <3>2. IndexOf(rx[p.ssrc], p.index % (2 * Half)) = p.index
      BY <2>1, <3>1, EstimateCorrect DEF IndexOf
    <3>3. ~Marks(rx[p.ssrc], p.index)
      BY <2>1, <2>2 DEF MarksInv, Settled
    <3>4. ~Rejects(rx[p.ssrc], Width, p.index)
      BY <2>1, <3>1, <3>3 DEF Rejects, Marks
    <3> QED BY <2>2, <3>2, <3>4 DEF Opens
  <2>3. CASE p.kind = "rtcp"
    <3>1. ~Marks(rtcpRx[p.ssrc], p.index)
      BY <2>1, <2>3 DEF MarksInv, Settled
    <3>2. ~Rejects(rtcpRx[p.ssrc], Width, p.index)
      BY <2>1, <2>3, <3>1 DEF Rejects, Marks, Near, Windows
    <3> QED BY <2>3, <3>2 DEF Opens
  <2> QED BY <2>1, <2>2, <2>3
<1> QED BY <1>1, <1>2, <1>3, SessionInvHolds, PTL DEF Spec

-----------------------------------------------------------------------------
(* The number the service allocates.                                       *)

\* The counter, which all streams share, stays ahead of the default stream.
Ahead == ~named => tx[DefaultSsrc].highest < packetCount

LEMMA AheadProtect ==
  ASSUME SessionInv, Ahead, NEW ssrc \in Ssrcs, NEW seq \in Seqs, Protect(ssrc, seq)
  PROVE  Ahead'
<1> DEFINE h == tx[DefaultSsrc].highest
<1>1. tx \in [Ssrcs -> Windows(Width)] /\ packetCount \in Nat /\ h \in Nat \cup {-1}
      /\ named \in BOOLEAN
  BY DEF SessionInv, TypeOK, Windows
<1>2. packetCount' = packetCount + 1 /\ named' = (named \/ (ssrc = DefaultSsrc /\ seq # NextSequence))
      /\ tx' = [tx EXCEPT ![ssrc] = Commit(@, Width, IndexOf(tx[ssrc], seq))]
  BY DEF Protect
<1> SUFFICES ASSUME ~named'
             PROVE  tx'[DefaultSsrc].highest < packetCount + 1
  BY <1>2 DEF Ahead
<1>3. ~named /\ h < packetCount
  BY <1>2 DEF Ahead
<1>4. CASE ssrc # DefaultSsrc
  BY <1>1, <1>2, <1>3, <1>4
<1>5. CASE ssrc = DefaultSsrc
  <2> DEFINE index == IndexOf(tx[DefaultSsrc], NextSequence)
  <2>0. seq = NextSequence
    BY <1>1, <1>2, <1>5
  <2>1. tx'[DefaultSsrc] = Commit(tx[DefaultSsrc], Width, index)
    BY <1>1, <1>2, <1>5, <2>0
  <2>2. index <= packetCount
    BY <1>1, <1>3, EstimateNotAhead DEF IndexOf, NextSequence
  <2>3. index \in Nat
    BY <1>5, <2>0 DEF Protect, CanProtect, InRange
  <2> HIDE DEF index
  <2>4. tx'[DefaultSsrc].highest \in {index, h}
    BY <1>1, <2>1 DEF Commit, Windows
  <2> QED BY <1>1, <1>3, <2>2, <2>3, <2>4
<1> QED BY <1>4, <1>5

\* While no caller names sequence numbers on the default stream, the service
\* allocates one there that protect accepts.
THEOREM DefaultSequenceIsFreeHolds == Spec => []DefaultSequenceIsFree
<1>1. Init => Ahead
  BY DEF Init, Ahead, EmptyWindow
<1>2. SessionInv /\ Ahead /\ [Next]_vars => Ahead'
  <2> SUFFICES ASSUME SessionInv, Ahead, [Next]_vars PROVE Ahead'
    OBVIOUS
  <2>1. CASE NewStreams
    BY <2>1 DEF NewStreams, Ahead, EmptyWindow
  <2>2. CASE UNCHANGED << tx, countVars >>
    BY <2>2 DEF Ahead, countVars
  <2>3. ASSUME NEW s \in Ssrcs, NEW seq \in Seqs, Protect(s, seq) PROVE Ahead'
    BY <2>3, AheadProtect
  <2> QED BY <2>1, <2>2, <2>3
          DEF Next, vars, streamVars, Establish, Restart, Rekey, Disable, Refuse, KeepStreams,
              ProtectRtcp, Unprotect
<1>3. SessionInv /\ Ahead => DefaultSequenceIsFree
  <2> DEFINE h == tx[DefaultSsrc].highest
  <2> SUFFICES ASSUME SessionInv, Ahead, key # None, ~named, packetCount < (MaxRoc + 1) * 2 * Half
               PROVE  /\ packetCount - h > 0
                      /\ packetCount - h < Half => CanProtect(DefaultSsrc, NextSequence)
    BY DEF DefaultSequenceIsFree
  <2>1. packetCount \in Nat /\ h \in Nat \cup {-1} /\ h < packetCount
    BY DEF SessionInv, TypeOK, Windows, Ahead
  <2>2. ASSUME packetCount - h < Half PROVE CanProtect(DefaultSsrc, NextSequence)
    <3>1. h - packetCount < Half
      BY <2>1
    <3>2. IndexOf(tx[DefaultSsrc], NextSequence) = packetCount
      BY <2>1, <2>2, <3>1, EstimateCorrect DEF IndexOf, NextSequence
    <3>3. InRange(packetCount, Half, MaxRoc)
      <4>1. (MaxRoc + 1) * 2 * Half = (MaxRoc + 1) * (2 * Half) /\ (MaxRoc + 1) * (2 * Half) \in Nat
        OBVIOUS
      <4> QED BY <2>1, <4>1 DEF InRange
    <3>4. ~Rejects(tx[DefaultSsrc], Width, packetCount)
      BY <2>1 DEF Rejects
    <3> QED BY <3>2, <3>3, <3>4 DEF CanProtect
  <2> QED BY <2>1, <2>2
<1> QED BY <1>1, <1>2, <1>3, SessionInvHolds, PTL DEF Spec
=============================================================================
