------------------------- MODULE ReplayWindowProofs -------------------------
(***************************************************************************)
(* What the replay window of ReplayWindow guarantees, for every width: an  *)
(* index committed once is refused from then on, whatever is committed     *)
(* after it; no other is marked; and the guess of a packet index is right  *)
(* near the highest.                                                       *)
(***************************************************************************)
EXTENDS ReplayWindow, TLAPS

\* The index is in the window, or has left it at its old end.
Remembers(w, width, index) ==
  /\ index <= w.highest
  /\ w.highest - index < width => w.highest - index \in w.bits

\* What a window remembers it refuses.
LEMMA RememberedIsRejected ==
  ASSUME NEW width \in Nat \ {0}, NEW w \in Windows(width), NEW index \in Nat,
         Remembers(w, width, index)
  PROVE  Rejects(w, width, index)
BY DEF Rejects, Remembers, Windows

\* commit of an index that check accepted keeps the shape of the window and
\* remembers the index.
LEMMA CommitRemembers ==
  ASSUME NEW width \in Nat \ {0}, NEW w \in Windows(width), NEW index \in Nat,
         ~Rejects(w, width, index)
  PROVE  /\ Commit(w, width, index) \in Windows(width)
         /\ Remembers(Commit(w, width, index), width, index)
<1>1. CASE index > w.highest
  <2>1. Shifted(w, width, index - w.highest) \subseteq 0..(width - 1)
    BY DEF Shifted
  <2> QED BY <1>1, <2>1 DEF Commit, Windows, Remembers
<1>2. CASE ~(index > w.highest)
  <2>1. w.highest \in Nat /\ w.highest - index \in 0..(width - 1)
    BY <1>2 DEF Rejects, Windows
  <2>2. Commit(w, width, index)
          = [highest |-> w.highest, bits |-> w.bits \cup { w.highest - index }]
    BY <1>2 DEF Commit, Windows
  <2> QED BY <2>1, <2>2 DEF Windows, Remembers
<1> QED BY <1>1, <1>2

\* commit forgets nothing that the window remembered.
LEMMA CommitKeeps ==
  ASSUME NEW width \in Nat \ {0}, NEW w \in Windows(width), NEW index \in Nat,
         NEW old \in Nat, Remembers(w, width, old)
  PROVE  Remembers(Commit(w, width, index), width, old)
<1>1. CASE index > w.highest
  <2> DEFINE shift == index - w.highest
  <2>1. Commit(w, width, index)
          = [highest |-> index, bits |-> {0} \cup Shifted(w, width, shift)]
    BY <1>1 DEF Commit
  <2>2. ASSUME index - old < width
        PROVE  index - old \in Shifted(w, width, shift)
    <3>1. w.highest - old \in w.bits /\ index - old = (w.highest - old) + shift
      BY <1>1, <2>2 DEF Remembers, Windows
    <3>2. index - old \in 0..(width - 1)
      BY <1>1, <2>2 DEF Remembers, Windows
    <3> QED BY <3>1, <3>2 DEF Shifted
  <2> QED BY <1>1, <2>1, <2>2 DEF Remembers, Windows
<1>2. CASE ~(index > w.highest)
  <2>1. Commit(w, width, index)
          = [highest |-> w.highest, bits |-> w.bits \cup { w.highest - index }]
    BY <1>2 DEF Commit, Windows
  <2> QED BY <2>1 DEF Remembers
<1> QED BY <1>1, <1>2

\* The index is in the window and was committed.
Marks(w, index) == w.highest - index \in w.bits

\* commit marks the index it is given and no other.
LEMMA CommitMarks ==
  ASSUME NEW width \in Nat \ {0}, NEW w \in Windows(width), NEW index \in Nat,
         NEW other \in Nat, Marks(Commit(w, width, index), other)
  PROVE  other = index \/ Marks(w, other)
<1>1. CASE index > w.highest
  <2>1. index - other \in {0} \cup Shifted(w, width, index - w.highest)
    BY <1>1 DEF Commit, Marks
  <2>2. CASE index - other \in Shifted(w, width, index - w.highest)
    <3>1. PICK d \in w.bits : index - other = d + (index - w.highest)
      BY <2>2 DEF Shifted
    <3>2. d = w.highest - other
      BY <3>1 DEF Windows
    <3> QED BY <3>2 DEF Marks
  <2> QED BY <2>1, <2>2
<1>2. CASE ~(index > w.highest)
  <2>1. w.highest - other \in w.bits \cup { w.highest - index }
    BY <1>2 DEF Commit, Windows, Marks
  <2> QED BY <2>1 DEF Windows, Marks
<1> QED BY <1>1, <1>2

-----------------------------------------------------------------------------
(* The guess of the index.                                                 *)

\* Division with remainder.
LEMMA DivMod ==
  ASSUME NEW n \in Nat, NEW m \in Nat \ {0}
  PROVE  /\ n \div m \in Nat /\ n % m \in 0..(m - 1)
         /\ n = (n \div m) * m + (n % m)
OBVIOUS

\* Two numbers nearer to each other than m have neighbouring quotients.
LEMMA NearQuotients ==
  ASSUME NEW m \in Nat \ {0}, NEW a \in Nat, NEW b \in Nat,
         NEW r \in 0..(m - 1), NEW s \in 0..(m - 1),
         (a * m + r) - (b * m + s) < m
  PROVE  a <= b + 1
<1>1. SUFFICES ASSUME a >= b + 2
               PROVE  FALSE
  OBVIOUS
<1>2. PICK c \in Nat : a = b + 2 + c
  <2>1. a - b - 2 \in Nat /\ a = b + 2 + (a - b - 2)
    BY <1>1
  <2> QED BY <2>1
<1>3. a * m = b * m + 2 * m + c * m /\ c * m \in Nat /\ b * m \in Nat
  BY <1>2
<1> QED BY <1>3

\* The guess is right for every index less than half a sequence number space
\* away from the highest one: what the receiver of a packet relies on when it
\* computes the tag over a rollover counter the packet does not carry.
THEOREM EstimateCorrect ==
  ASSUME NEW half \in Nat \ {0}, NEW highest \in Nat \cup {-1}, NEW index \in Nat,
         index - highest < half, highest - index < half
  PROVE  Estimate(highest, index % (2 * half), half) = index
<1> DEFINE m == 2 * half
           seq == index % m
           q == index \div m
           last == highest % m
           roc == highest \div m
           guess == CASE last < half /\ seq - last > half -> roc - 1
                      [] last >= half /\ last - seq > half -> roc + 1
                      [] OTHER -> roc
<1>0. m \in Nat \ {0}
  OBVIOUS
<1>1. q \in Nat /\ seq \in 0..(m - 1) /\ index = q * m + seq
  BY <1>0, DivMod
<1>2. CASE highest = -1
  <2>1. q = 0
    <3>1. SUFFICES ASSUME q >= 1 PROVE FALSE
      BY <1>1
    <3>2. q * m >= m
      BY <1>0, <1>1, <3>1
    <3> QED BY <1>1, <1>2, <3>2
  <2>2. seq = index
    BY <1>1, <2>1
  <2> QED BY <1>2, <2>2 DEF Estimate
<1>3. CASE highest \in Nat
  <2>1. roc \in Nat /\ last \in 0..(m - 1) /\ highest = roc * m + last
    BY <1>0, <1>3, DivMod
  <2>2. q <= roc + 1 /\ roc <= q + 1
    <3> HIDE DEF m, seq, q, last, roc
    <3>1. half < m /\ half \in Nat BY DEF m
    <3>2. (q * m + seq) - (roc * m + last) < m /\ (roc * m + last) - (q * m + seq) < m
      BY <1>0, <1>1, <1>3, <2>1, <3>1
    <3> QED BY <1>0, <1>1, <2>1, <3>2, NearQuotients
  <2>3. Estimate(highest, seq, half) = guess * m + seq
    BY <1>3 DEF Estimate
  <2> HIDE DEF seq, q, last, roc
  <2>4. ASSUME q = roc PROVE guess = q
    <3>1. seq - last < half /\ last - seq < half
      BY <1>0, <1>1, <2>1, <2>4
    <3> QED BY <1>0, <1>1, <2>1, <2>4, <3>1
  <2>5. ASSUME q = roc + 1 PROVE guess = q
    <3>1. q * m = roc * m + m
      BY <1>0, <2>1, <2>5
    <3>2. last - seq > half
      BY <1>0, <1>1, <2>1, <3>1
    <3>3. last >= half /\ ~(seq - last > half)
      BY <1>0, <1>1, <2>1, <3>2
    <3> QED BY <2>5, <3>2, <3>3
  <2>6. ASSUME q + 1 = roc PROVE guess = q
    <3>1. roc * m = q * m + m
      BY <1>0, <1>1, <2>1, <2>6
    <3>2. seq - last > half /\ last < half
      BY <1>0, <1>1, <2>1, <3>1
    <3>3. q = roc - 1
      BY <1>1, <2>1, <2>6
    <3> QED BY <1>1, <2>1, <3>2, <3>3
  <2>7. q = roc \/ q = roc + 1 \/ q + 1 = roc
    BY <1>1, <2>1, <2>2
  <2> HIDE DEF guess
  <2>8. guess = q
    BY <2>4, <2>5, <2>6, <2>7
  <2>9. Estimate(highest, seq, half) = index
    BY <1>1, <2>3, <2>8
  <2> QED BY <2>9 DEF seq
<1> QED BY <1>2, <1>3

\* The guess never runs ahead of an index that is above the highest one.
LEMMA EstimateNotAhead ==
  ASSUME NEW half \in Nat \ {0}, NEW highest \in Nat \cup {-1}, NEW index \in Nat,
         highest < index
  PROVE  Estimate(highest, index % (2 * half), half) <= index
<1> DEFINE m == 2 * half
           seq == index % m
           q == index \div m
           last == highest % m
           roc == highest \div m
           guess == CASE last < half /\ seq - last > half -> roc - 1
                      [] last >= half /\ last - seq > half -> roc + 1
                      [] OTHER -> roc
<1>0. m \in Nat \ {0}
  OBVIOUS
<1>1. q \in Nat /\ seq \in 0..(m - 1) /\ index = q * m + seq
  BY <1>0, DivMod
<1>2. CASE highest = -1
  <2>1. Estimate(highest, seq, half) = seq
    BY <1>2 DEF Estimate
  <2>2. q * m >= 0
    BY <1>0, <1>1
  <2> HIDE DEF m, seq, q
  <2>3. seq <= index
    BY <1>0, <1>1, <2>2
  <2> QED BY <2>1, <2>3 DEF m, seq
<1>3. CASE highest # -1
  <2>1. roc \in Nat /\ last \in 0..(m - 1) /\ highest = roc * m + last
    BY <1>0, <1>3, DivMod
  <2>2. Estimate(highest, seq, half) = guess * m + seq
    BY <1>3 DEF Estimate
  <2>3. guess \in Int /\ (guess = roc + 1 => last > seq) /\ guess <= roc + 1
    <3> HIDE DEF seq, last, roc, m, q
    <3> QED BY <1>1, <2>1
  <2> HIDE DEF m, seq, q, last, roc, guess
  <2>4. roc <= q
    <3>1. SUFFICES ASSUME roc >= q + 1 PROVE FALSE
      BY <1>1, <2>1
    <3>2. PICK c \in Nat : roc = q + 1 + c
      <4>1. roc - q - 1 \in Nat /\ roc = q + 1 + (roc - q - 1)
        BY <1>1, <2>1, <3>1
      <4> QED BY <4>1
    <3>3. roc * m = q * m + m + c * m /\ c * m \in Nat /\ q * m \in Nat
      BY <1>0, <1>1, <3>2
    <3> QED BY <1>0, <1>1, <2>1, <3>3
  <2>5. guess <= q
    <3>1. CASE roc = q
      <4>1. roc * m = q * m /\ q * m \in Nat
        BY <1>0, <1>1, <3>1
      <4> QED BY <1>1, <2>1, <2>3, <3>1, <4>1
    <3>2. CASE roc # q
      BY <1>1, <2>1, <2>3, <2>4, <3>2
    <3> QED BY <3>1, <3>2
  <2>6. PICK c \in Nat : q = guess + c
    <3>1. q - guess \in Nat /\ q = guess + (q - guess)
      BY <1>1, <2>3, <2>5
    <3> QED BY <3>1
  <2>7. q * m = guess * m + c * m /\ c * m \in Nat /\ guess * m \in Int
    BY <1>0, <1>1, <2>3, <2>6
  <2>8. guess * m + seq <= index
    BY <1>1, <2>7
  <2> QED BY <2>2, <2>8 DEF m, seq
<1> QED BY <1>2, <1>3
=============================================================================
