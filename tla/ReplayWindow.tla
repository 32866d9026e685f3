---------------------------- MODULE ReplayWindow ----------------------------
(***************************************************************************)
(* The index arithmetic the SRTP, SRTCP and NAS contexts share: the replay *)
(* window of security_engine/core.py (ReplayWindow) and the guess of a     *)
(* full packet index from its low bits (SequenceTracker.estimate there,    *)
(* _NasCountTracker.estimate in nas_security.py).  A window is a record:   *)
(* the highest index accepted, and the set of the bits that are set in its *)
(* bitmap, bit d standing for the index highest - d.                       *)
(***************************************************************************)
EXTENDS Integers

Windows(width) == [highest : Nat \cup {-1}, bits : SUBSET (0..(width - 1))]

EmptyWindow == [highest |-> -1, bits |-> {}]

\* Mutant: only indices outside the window are refused.
RejectsOld(w, width, index) == w.highest - index >= width

\* check: the index was accepted before, or is too old to tell.
Rejects(w, width, index) ==
  LET delta == w.highest - index
  IN  delta >= width \/ (delta >= 0 /\ delta \in w.bits)

\* Mutant: the window is shifted one place too far.
ShiftTooFar(w, width, shift) == { d + shift + 1 : d \in w.bits } \cap (0..(width - 1))

\* Mutant: the bitmap is not cut to the width of the window.
ShiftUnmasked(w, width, shift) == { d + shift : d \in w.bits }

\* The bits that stay in a bitmap of this width when it is shifted.
Shifted(w, width, shift) == { d + shift : d \in w.bits } \cap (0..(width - 1))

\* commit
Commit(w, width, index) ==
  IF index > w.highest
  THEN [highest |-> index, bits |-> {0} \cup Shifted(w, width, index - w.highest)]
  ELSE [w EXCEPT !.bits = @ \cup { w.highest - index }]

\* Mutant: the rollover counter is taken from the last packet.
EstimateNoWrap(highest, seq, half) ==
  IF highest < 0 THEN seq ELSE (highest \div (2 * half)) * (2 * half) + seq

\* The index nearest to the highest one that has these low bits: half is 2^15
\* for RTP sequence numbers, 2^7 for NAS ones.
Estimate(highest, seq, half) ==
  IF highest < 0 THEN seq
  ELSE LET last == highest % (2 * half)
           roc == highest \div (2 * half)
           guess == CASE last < half /\ seq - last > half -> roc - 1
                      [] last >= half /\ last - seq > half -> roc + 1
                      [] OTHER -> roc
       IN  guess * (2 * half) + seq

\* The rollover counter is within its range; an error is raised otherwise.
InRange(index, half, maxRoc) == index \in 0..((maxRoc + 1) * (2 * half) - 1)
=============================================================================
