-------------------------- MODULE StreamRingProofs --------------------------
(***************************************************************************)
(* For every ring size, read size, limit and set of seek distances that    *)
(* satisfies the assumptions of StreamRing: nothing is dropped, playing    *)
(* and seeking stay inside what the ring holds, room is kept for rewind,   *)
(* and the ring holds what the stream sent, byte for byte.                 *)
(***************************************************************************)
EXTENDS StreamRing, SequenceTheorems, TLAPS

-----------------------------------------------------------------------------
(* Remainders by the size of the ring. *)

(* Division with remainder, for a divisor that is a parameter. *)
LEMMA DivMod ==
  ASSUME NEW a \in Int, NEW n \in Nat \ {0}
  PROVE  /\ a \div n \in Int /\ a % n \in Nat /\ a % n < n
         /\ a = n * (a \div n) + (a % n)
  BY Z3

(* Multiples of the divisor do not change a remainder. *)
LEMMA Congruent ==
  ASSUME NEW n \in Nat \ {0}, NEW q \in Int, NEW b \in Int
  PROVE  (n * q + b) % n = b % n
<1> DEFINE a == n * q + b
           d == (a \div n) - q - (b \div n)
           r == (b % n) - (a % n)
<1>0. a \in Int OBVIOUS
<1>1. /\ a \div n \in Int /\ a % n \in Nat /\ a % n < n /\ a = n * (a \div n) + (a % n)
      /\ b \div n \in Int /\ b % n \in Nat /\ b % n < n /\ b = n * (b \div n) + (b % n)
  BY <1>0, DivMod
<1>2. d \in Int /\ r \in Int /\ r < n /\ r > -n BY <1>1
<1>3. n * d = n * (a \div n) - n * q - n * (b \div n) BY <1>1
<1>4. n * d = r BY <1>1, <1>3
<1> HIDE DEF a, d, r
<1>5. d >= 1 => n * d >= n BY <1>2, Z3
<1>6. d <= -1 => n * d <= -n BY <1>2, Z3
<1>7. r = 0 BY <1>2, <1>4, <1>5, <1>6
<1> QED BY <1>1, <1>7 DEF a, r

(* The remainder of a number within n of 0. *)
LEMMA SmallMod ==
  ASSUME NEW n \in Nat \ {0}, NEW a \in Int
  PROVE  /\ 0 <= a /\ a < n => a % n = a
         /\ -n <= a /\ a < 0 => a % n = a + n
<1>1. ASSUME 0 <= a, a < n PROVE a % n = a
  BY <1>1, Z3
<1>2. ASSUME -n <= a, a < 0 PROVE a % n = a + n
  <2>1. n * (-1) + (a + n) = a /\ -1 \in Int /\ a + n \in Int OBVIOUS
  <2>2. (n * (-1) + (a + n)) % n = (a + n) % n BY <2>1, Congruent
  <2>3. a % n = (a + n) % n BY <2>1, <2>2
  <2> QED BY <1>2, <2>3, Z3
<1> QED BY <1>1, <1>2

(* Remainders may be taken before a sum is formed ... *)
LEMMA ModOfSum ==
  ASSUME NEW n \in Nat \ {0}, NEW a \in Int, NEW b \in Int
  PROVE  ((a % n) + b) % n = (a + b) % n
<1>1. /\ a \div n \in Int /\ a % n \in Int /\ a = n * (a \div n) + (a % n) BY DivMod
<1>2. a + b = n * (a \div n) + ((a % n) + b) 
  <2> DEFINE p == n * (a \div n)
  <2>1. p \in Int BY <1>1
  <2> HIDE DEF p
  <2>2. a = p + (a % n) BY <1>1 DEF p
  <2>3. a + b = p + ((a % n) + b) BY <1>1, <2>1, <2>2
  <2> QED BY <2>3 DEF p
<1>3. a + b \in Int /\ (a % n) + b \in Int BY <1>1
<1> QED BY <1>1, <1>2, <1>3, Congruent

(* ... or a difference. *)
LEMMA ModOfDifference ==
  ASSUME NEW n \in Nat \ {0}, NEW a \in Int, NEW b \in Int
  PROVE  ((a % n) - (b % n)) % n = (a - b) % n
<1>1. b \div n \in Int /\ b % n \in Int /\ a % n \in Int /\ b = n * (b \div n) + (b % n) BY DivMod
<1>2. ((a % n) + (-(b % n))) % n = (a + (-(b % n))) % n
  <2>1. -(b % n) \in Int BY <1>1
  <2> QED BY <2>1, ModOfSum
<1>3. a - (b % n) = n * (b \div n) + (a - b)
  <2> DEFINE p == n * (b \div n)
  <2>1. p \in Int BY <1>1
  <2> HIDE DEF p
  <2>2. b = p + (b % n) BY <1>1 DEF p
  <2>3. a - (b % n) = p + (a - b) BY <1>1, <2>1, <2>2
  <2> QED BY <2>3 DEF p
<1>4. (a - (b % n)) % n = (a - b) % n
  <2>1. (n * (b \div n) + (a - b)) % n = (a - b) % n
    <3>1. a - b \in Int OBVIOUS
    <3> QED BY <1>1, <3>1, Congruent, Zenon
  <2> QED BY <1>3, <2>1
<1>5. (a % n) + (-(b % n)) = (a % n) - (b % n) /\ a + (-(b % n)) = a - (b % n) BY <1>1
<1> QED BY <1>2, <1>4, <1>5

(* Sums of even numbers. *)
LEMMA EvenSum ==
  ASSUME NEW a \in Int, NEW b \in Int, a % 2 = 0, b % 2 = 0
  PROVE  (a + b) % 2 = 0
OBVIOUS

-----------------------------------------------------------------------------
(* The inductive invariant: positions, whole frames, and contents with the *)
(* bytes that are still pending.                                           *)
PositionsInv ==
  /\ PlaysInsideRing
  /\ NothingDropped
  /\ writePos = writeAbs % RingSamples

FramesInv == writeAbs % 2 = 0 /\ PlaysFromFrame

PendingFollows ==
  ~joined => /\ sent = 2 * writeAbs + Len(pending)
             /\ \A i \in 1..Len(pending) : pending[i] = 2 * writeAbs + i - 1

IInv == TypeOK /\ PositionsInv /\ FramesInv /\ PlaysWhatWasSent /\ PendingFollows

-----------------------------------------------------------------------------
(* What pump_pipe makes of one read: whole frames, at most Chunk samples,   *)
(* and fewer than four bytes that stay pending.                             *)
LEMMA ReadSplits ==
  ASSUME TypeOK, NEW n \in ReadSizes
  PROVE  /\ Merged(n) \in Seq(Nat)
         /\ Len(Merged(n)) = Len(pending) + n
         /\ \A i \in 1..Len(pending) : Merged(n)[i] = pending[i]
         /\ \A i \in 1..n : Merged(n)[Len(pending) + i] = sent + i - 1
<1>1. n \in Nat /\ n <= 2 * Chunk
  BY SizeAssumption
<1>2. pending \in Seq(Nat) /\ sent \in Nat
  BY DEF TypeOK
<1> DEFINE new == [i \in 1..n |-> sent + i - 1]
<1>3. new \in Seq(Nat) /\ Len(new) = n /\ \A i \in 1..n : new[i] = sent + i - 1
  BY <1>1, <1>2
<1> QED
  <2> HIDE DEF new
  <2>1. Merged(n) = pending \o new BY DEF Merged, new
  <2>2. /\ Merged(n) \in Seq(Nat)
        /\ Len(Merged(n)) = Len(pending) + Len(new)
        /\ \A i \in 1..(Len(pending) + Len(new)) :
             Merged(n)[i] = IF i <= Len(pending) THEN pending[i] ELSE new[i - Len(pending)]
    BY <1>2, <1>3, <2>1, ConcatProperties
  <2>3. Len(pending) \in Nat BY <1>2
  <2>4. \A i \in 1..Len(pending) : Merged(n)[i] = pending[i]
    BY <1>1, <1>3, <2>2, <2>3
  <2>5. ASSUME NEW i \in 1..n PROVE Merged(n)[Len(pending) + i] = sent + i - 1
    <3>1. Merged(n)[Len(pending) + i] = new[i]
      <4> DEFINE j == Len(pending) + i
      <4>1. j \in 1..(Len(pending) + Len(new)) /\ ~(j <= Len(pending)) /\ j - Len(pending) = i
        BY <1>1, <1>3, <2>3
      <4> HIDE DEF j
      <4>2. Merged(n)[j] = new[j - Len(pending)] BY <2>2, <4>1
      <4> QED BY <4>1, <4>2 DEF j
    <3> QED BY <3>1, <1>3
  <2> QED BY <1>3, <2>2, <2>4, <2>5

(* The whole frames of a read are even in number of samples and fit its bytes. *)
LEMMA FramesFit ==
  ASSUME TypeOK, NEW n \in ReadSizes
  PROVE  LET frames == FrameBytes(Len(Merged(n)))
         IN /\ frames \in Nat /\ frames % 4 = 0 /\ frames <= Len(Merged(n))
            /\ Len(Merged(n)) - frames < 4
            /\ frames <= 2 * Chunk
            /\ frames \div 2 \in Nat /\ (frames \div 2) % 2 = 0
            /\ frames \div 2 <= Chunk
            /\ 2 * (frames \div 2) = frames
<1>1. n \in Nat /\ n <= 2 * Chunk /\ Chunk \in Nat /\ Chunk % 2 = 0
  BY SizeAssumption, FrameAssumption
<1>2. Len(Merged(n)) = Len(pending) + n /\ Len(pending) \in Nat /\ Len(pending) < 4
  BY ReadSplits DEF TypeOK
<1>3. Len(Merged(n)) \in Nat /\ Len(Merged(n)) < 2 * Chunk + 4
  BY <1>1, <1>2
<1> QED
  BY <1>1, <1>3 DEF FrameBytes

(* The samples of one read, behind the pending bytes, are those the stream sent next. *)
LEMMA SamplesAre ==
  ASSUME TypeOK, NEW n \in ReadSizes
  PROVE  LET s == SamplesIn(Merged(n))
         IN /\ s \in Seq(Sample)
            /\ Len(s) = FrameBytes(Len(Merged(n))) \div 2
            /\ \A k \in 1..Len(s) : s[k] = <<Merged(n)[2 * k - 1], Merged(n)[2 * k]>>
<1> DEFINE m == Merged(n)
           c == FrameBytes(Len(m)) \div 2
           s == SamplesIn(m)
<1>1. m \in Seq(Nat) BY ReadSplits
<1>2. c \in Nat /\ 2 * c <= Len(m) BY FramesFit
<1>3. s = [k \in 1..c |-> <<m[2 * k - 1], m[2 * k]>>] BY DEF SamplesIn
<1>4. \A k \in 1..c : m[2 * k - 1] \in Nat /\ m[2 * k] \in Nat
  <2> HIDE DEF m, c
  <2> QED BY <1>1, <1>2
<1>5. \A k \in 1..c : <<m[2 * k - 1], m[2 * k]>> \in Sample
  BY <1>4 DEF Sample
<1> QED
  <2> HIDE DEF m, c, s
  <2>1. s \in Seq(Sample) /\ Len(s) = c BY <1>2, <1>3, <1>5
  <2>2. \A k \in 1..c : s[k] = <<m[2 * k - 1], m[2 * k]>> BY <1>3
  <2> QED BY <2>1, <2>2 DEF m, c, s

(* What stays pending is the tail of the bytes sent so far.                 *)
LEMMA RestIs ==
  ASSUME TypeOK, NEW n \in ReadSizes
  PROVE  LET rest == Rest(Merged(n))
             frames == FrameBytes(Len(Merged(n)))
         IN /\ rest \in Seq(Nat)
            /\ Len(rest) = Len(Merged(n)) - frames
            /\ \A i \in 1..Len(rest) : rest[i] = Merged(n)[frames + i]
<1> DEFINE m == Merged(n)
           f == FrameBytes(Len(m))
<1>1. m \in Seq(Nat) BY ReadSplits
<1>2. f \in Nat /\ f <= Len(m) BY FramesFit
<1> QED
  <2>1. Rest(m) = SubSeq(m, f + 1, Len(m)) BY DEF Rest
  <2> HIDE DEF m, f
  <2>2. Rest(m) \in Seq(Nat) /\ Len(Rest(m)) = Len(m) - f BY <1>1, <1>2, <2>1
  <2>3. \A i \in 1..Len(Rest(m)) : Rest(m)[i] = m[f + i] BY <1>1, <1>2, <2>1, <2>2
  <2> QED BY <2>2, <2>3 DEF m, f

-----------------------------------------------------------------------------
(* ring_push behind the backpressure check: the snap is not taken, and the  *)
(* new samples fit between the play position and the limit.                 *)
LEMMA PushPositions ==
  ASSUME TypeOK, PositionsInv, ~Full, NEW s \in Seq(Sample), Len(s) <= Chunk, Push(s)
  PROVE  /\ Len(s) \in Nat
         /\ writeAbs' = writeAbs + Len(s) /\ writeAbs' \in Nat
         /\ playAbs' = playAbs
         /\ writeAbs' - playAbs < Limit
         /\ PositionsInv'
         /\ writePos' \in Nat /\ writePos' < RingSamples
<1>1. /\ RingSamples \in Nat \ {0} /\ Limit \in Nat /\ Limit <= RingSamples /\ Chunk \in Nat
      /\ writeAbs \in Nat /\ playAbs \in Nat /\ dropped \in Nat
  BY SizeAssumption DEF TypeOK
<1>2. Len(s) \in Nat OBVIOUS
<1>3. /\ writeAbs' = writeAbs + Len(s) /\ writeAbs' \in Nat
  BY <1>1, <1>2 DEF Push
<1>4. /\ playAbs <= writeAbs /\ OldestOf(writeAbs) <= playAbs
  BY DEF PositionsInv, PlaysInsideRing, Oldest
<1>5. Available = writeAbs - playAbs
  BY <1>1, <1>4 DEF Available, OldestOf
<1>6. writeAbs' - playAbs < Limit
  BY <1>1, <1>2, <1>3, <1>5 DEF Full
<1>7. OldestOf(writeAbs') <= playAbs
  BY <1>1, <1>3, <1>6 DEF OldestOf
<1>8. playAbs' = playAbs /\ dropped' = dropped
  BY <1>1, <1>2, <1>3, <1>7 DEF Push, OldestOf
<1>9. /\ writePos' = writeAbs' % RingSamples
      /\ writePos' \in Nat /\ writePos' < RingSamples
  <2>1. writePos' = ((writeAbs % RingSamples) + Len(s)) % RingSamples
    BY DEF Push, PosAfter, PositionsInv
  <2>2. writeAbs \in Int /\ Len(s) \in Int /\ writeAbs' \in Int
    BY <1>1, <1>2, <1>3
  <2>3. ((writeAbs % RingSamples) + Len(s)) % RingSamples = (writeAbs + Len(s)) % RingSamples
    BY <1>1, <2>2, ModOfSum, Zenon
  <2>4. writeAbs' % RingSamples \in Nat /\ writeAbs' % RingSamples < RingSamples
    BY <1>1, <2>2, DivMod, Zenon
  <2>5. writePos' = writeAbs' % RingSamples
    BY <1>3, <2>1, <2>3, Zenon
  <2> QED BY <2>4, <2>5, Zenon
<1>10. PositionsInv'
  BY <1>1, <1>2, <1>3, <1>4, <1>7, <1>8, <1>9
     DEF PositionsInv, PlaysInsideRing, NothingDropped, Oldest
<1> QED BY <1>2, <1>3, <1>6, <1>8, <1>9, <1>10

(* The new samples are in their slots, and those still in reach are where   *)
(* they were: a slot of theirs is not one of the new ones.                  *)
LEMMA PushContents ==
  ASSUME TypeOK, PositionsInv, ~Full, NEW s \in Seq(Sample), Len(s) <= Chunk, Push(s)
  PROVE  /\ \A p \in writeAbs..(writeAbs' - 1) : ring'[p % RingSamples] = s[p - writeAbs + 1]
         /\ \A p \in Oldest'..(writeAbs - 1) : ring'[p % RingSamples] = ring[p % RingSamples]
<1> DEFINE N == RingSamples
           Ahead(p) == ((p % N) - writePos) % N
<1>1. /\ N \in Nat \ {0} /\ writeAbs \in Nat /\ Chunk \in Nat /\ Limit <= N /\ Limit \in Nat
      /\ playAbs \in Nat
  BY SizeAssumption DEF TypeOK
<1>2. /\ Len(s) \in Nat /\ writeAbs' = writeAbs + Len(s)
      /\ writeAbs' - playAbs < Limit /\ playAbs <= writeAbs
  BY PushPositions DEF PositionsInv, PlaysInsideRing
<1>3. Len(s) < N BY <1>1, <1>2
<1>4. ASSUME NEW p \in Int
      PROVE  /\ p % N \in 0..(N - 1)
             /\ ring'[p % N] = IF Ahead(p) + 1 <= Len(s) THEN s[Ahead(p) + 1] ELSE ring[p % N]
             /\ Ahead(p) = (p - writeAbs) % N
  <2>1. p % N \in 0..(N - 1) BY <1>1, DivMod
  <2>2. ring' = Written(s) BY DEF Push
  <2>3. ring'[p % N] = IF Ahead(p) + 1 <= Len(s) THEN s[Ahead(p) + 1] ELSE ring[p % N]
    BY <2>1, <2>2 DEF Written
  <2>4. Ahead(p) = (p - writeAbs) % N
    <3>1. writeAbs \in Int /\ N \in Nat \ {0} BY <1>1
    <3>2. writePos = writeAbs % N BY DEF PositionsInv
    <3>3. ((p % N) - (writeAbs % N)) % N = (p - writeAbs) % N
      BY <3>1, ModOfDifference, Zenon
    <3> QED BY <3>2, <3>3, Zenon
  <2> QED BY <2>1, <2>3, <2>4
<1>5. ASSUME NEW p \in writeAbs..(writeAbs' - 1)
      PROVE  ring'[p % N] = s[p - writeAbs + 1]
  <2>1. p \in Int /\ p - writeAbs \in Int /\ 0 <= p - writeAbs /\ p - writeAbs < Len(s)
    BY <1>1, <1>2
  <2>2. p - writeAbs < N BY <1>1, <1>2, <1>3, <2>1
  <2>3. (p - writeAbs) % N = p - writeAbs BY <1>1, <2>1, <2>2, SmallMod, Zenon
  <2>4. Ahead(p) = p - writeAbs BY <1>4, <2>1, <2>3, Zenon
  <2>5. Ahead(p) + 1 <= Len(s)
    <3> HIDE DEF Ahead
    <3> QED BY <1>2, <2>1, <2>4
  <2>6. ring'[p % N] = s[Ahead(p) + 1] BY <1>4, <2>1, <2>5, Zenon
  <2> QED BY <2>4, <2>6, Zenon
<1>6. ASSUME NEW p \in Oldest'..(writeAbs - 1)
      PROVE  ring'[p % N] = ring[p % N]
  <2>1. /\ p \in Int /\ p - writeAbs \in Int /\ p - writeAbs < 0
        /\ p >= writeAbs + Len(s) - N /\ -N <= p - writeAbs
    BY <1>1, <1>2 DEF Oldest, OldestOf
  <2>2. (p - writeAbs) % N = p - writeAbs + N BY <1>1, <2>1, SmallMod, Zenon
  <2>3. Ahead(p) = p - writeAbs + N BY <1>4, <2>1, <2>2, Zenon
  <2>4. ~(Ahead(p) + 1 <= Len(s))
    <3> HIDE DEF Ahead
    <3> QED BY <1>1, <1>2, <2>1, <2>3
  <2> QED BY <1>4, <2>1, <2>4, Zenon
<1> QED BY <1>5, <1>6

-----------------------------------------------------------------------------
(* The parts of the invariant that speak of the ring. *)
RingInv == PositionsInv /\ FramesInv /\ PlaysWhatWasSent /\ PendingFollows

(* clear_ring re-establishes the invariant: an empty ring holds nothing wrong. *)
LEMMA ClearingKeeps ==
  ASSUME TypeOK, ClearRing
  PROVE  RingInv'
<1>1. RingSamples \in Nat \ {0} BY SizeAssumption
<1>2. writePos' = 0 /\ writeAbs' = 0 /\ playAbs' = 0 /\ dropped' = 0 /\ pending' = <<>> /\ sent' = 0
  BY DEF ClearRing
<1>3. PositionsInv'
  <2>1. 0 % RingSamples = 0
    <3>1. 0 \in Int /\ 0 <= 0 /\ 0 < RingSamples BY <1>1
    <3> QED BY <1>1, <3>1, SmallMod, Zenon
  <2>2. PlaysInsideRing' BY <1>1, <1>2 DEF PlaysInsideRing, Oldest, OldestOf
  <2> QED BY <1>2, <2>1, <2>2, Zenon DEF PositionsInv, NothingDropped
<1>4. FramesInv' BY <1>2 DEF FramesInv, PlaysFromFrame
<1>5. PlaysWhatWasSent' /\ PendingFollows'
  BY <1>1, <1>2 DEF PlaysWhatWasSent, PendingFollows, Oldest, OldestOf
<1> QED BY <1>3, <1>4, <1>5 DEF RingInv

(* clear_ring keeps the types of the ring fields.                           *)
LEMMA ClearedTypes ==
  ASSUME TypeOK, ClearRing
  PROVE  /\ ring' \in [0..(RingSamples - 1) -> Sample \cup {Silence}]
         /\ writePos' \in Nat /\ writePos' < RingSamples
         /\ writeAbs' \in Nat /\ playAbs' \in Nat /\ dropped' \in Nat
         /\ pending' \in Seq(Nat) /\ Len(pending') < 4
         /\ sent' \in Nat /\ joined' \in BOOLEAN
<1>1. <<>> \in Seq(Nat) /\ Len(<<>>) < 4 OBVIOUS
<1>2. 0 \in Nat /\ 0 < RingSamples BY SizeAssumption
<1> QED BY <1>1, <1>2, Zenon DEF ClearRing, TypeOK

(* A step that leaves the ring alone keeps the invariant.                   *)
LEMMA UntouchedKeeps ==
  ASSUME RingInv, UNCHANGED <<ring, positions, pending, sent, joined>>
  PROVE  RingInv'
BY DEF RingInv, PositionsInv, FramesInv, PlaysWhatWasSent, PendingFollows, positions,
       PlaysInsideRing, NothingDropped, PlaysFromFrame, Oldest, OldestOf

(* Moving the play position by whole frames inside the ring. *)
LEMMA MovingKeeps ==
  ASSUME TypeOK, RingInv, UNCHANGED <<ring, writePos, writeAbs, dropped, pending, sent, joined>>,
         playAbs' \in Int, Oldest <= playAbs', playAbs' <= writeAbs, playAbs' % 2 = 0
  PROVE  RingInv'
<1>1. Oldest' = Oldest BY DEF Oldest, OldestOf
<1>2. PositionsInv' BY <1>1 DEF RingInv, PositionsInv, PlaysInsideRing, NothingDropped
<1>3. FramesInv' BY DEF RingInv, FramesInv, PlaysFromFrame
<1>4. PlaysWhatWasSent' /\ PendingFollows'
  BY <1>1 DEF RingInv, PlaysWhatWasSent, PendingFollows
<1> QED BY <1>2, <1>3, <1>4 DEF RingInv

(* A read of pump_pipe keeps the invariant.                                 *)
LEMMA PumpKeeps ==
  ASSUME TypeOK, RingInv, NEW n \in ReadSizes, PumpReads(n)
  PROVE  /\ RingInv'
         /\ ring' \in [0..(RingSamples - 1) -> Sample \cup {Silence}]
         /\ writePos' \in Nat /\ writePos' < RingSamples
         /\ writeAbs' \in Nat /\ playAbs' \in Nat /\ dropped' \in Nat
         /\ pending' \in Seq(Nat) /\ Len(pending') < 4
         /\ writeAbs' - playAbs < Limit
<1> DEFINE m == Merged(n)
           s == SamplesIn(m)
           f == FrameBytes(Len(m))
<1>1. ~Full /\ Push(s) /\ pending' = Rest(m) /\ sent' = sent + n /\ joined' = joined
  BY DEF PumpReads, Pumps
<1>2. /\ f \in Nat /\ f <= Len(m) /\ Len(m) - f < 4 /\ 2 * (f \div 2) = f
      /\ f \div 2 \in Nat /\ (f \div 2) % 2 = 0 /\ f \div 2 <= Chunk
  BY FramesFit
<1>3. s \in Seq(Sample) /\ Len(s) = f \div 2 /\ Len(s) <= Chunk
  BY <1>2, SamplesAre
<1>4. PositionsInv BY DEF RingInv
<1>5. /\ writeAbs' = writeAbs + Len(s) /\ writeAbs' \in Nat /\ playAbs' = playAbs
      /\ writeAbs' - playAbs < Limit /\ PositionsInv'
      /\ writePos' \in Nat /\ writePos' < RingSamples
  <2> HIDE DEF s
  <2> QED BY <1>1, <1>3, <1>4, PushPositions
<1>6. /\ m \in Seq(Nat) /\ Len(m) = Len(pending) + n /\ Len(pending) \in Nat
      /\ n \in Nat /\ sent \in Nat /\ writeAbs \in Nat /\ playAbs \in Nat
  BY ReadSplits, SizeAssumption DEF TypeOK
<1>7. /\ pending' \in Seq(Nat) /\ Len(pending') = Len(m) - f
      /\ \A i \in 1..Len(pending') : pending'[i] = m[f + i]
  BY <1>1, RestIs
<1>8. ring' \in [0..(RingSamples - 1) -> Sample \cup {Silence}]
  <2>1. ring' = Written(s) BY <1>1 DEF Push
  <2>2. ASSUME NEW p \in 0..(RingSamples - 1)
        PROVE  (IF ((p - writePos) % RingSamples) + 1 <= Len(s)
                THEN s[((p - writePos) % RingSamples) + 1] ELSE ring[p]) \in Sample \cup {Silence}
    <3>1. ring[p] \in Sample \cup {Silence} BY DEF TypeOK
    <3>2. p - writePos \in Int /\ RingSamples \in Nat \ {0}
      BY SizeAssumption DEF TypeOK
    <3>3. (p - writePos) % RingSamples \in Nat BY <3>2, DivMod, Zenon
    <3> DEFINE k == ((p - writePos) % RingSamples) + 1
    <3>4. k \in Nat /\ k >= 1 BY <3>3
    <3> HIDE DEF k, s
    <3>5. k <= Len(s) => s[k] \in Sample BY <1>3, <3>4
    <3>6. (IF k <= Len(s) THEN s[k] ELSE ring[p]) \in Sample \cup {Silence} BY <3>1, <3>5
    <3> QED BY <3>6 DEF k
  <2> HIDE DEF s
  <2> QED BY <2>1, <2>2 DEF Written
<1>9. FramesInv'
  <2>1. writeAbs % 2 = 0 /\ playAbs % 2 = 0 BY DEF RingInv, FramesInv, PlaysFromFrame
  <2>2. Len(s) \in Nat /\ Len(s) % 2 = 0 BY <1>2, <1>3, Zenon
  <2> HIDE DEF s
  <2>3. (writeAbs + Len(s)) % 2 = 0
    <3>1. writeAbs \in Int /\ Len(s) \in Int BY <1>6, <2>2
    <3> QED BY <2>1, <2>2, <3>1, EvenSum, Zenon
  <2>4. writeAbs' % 2 = 0 BY <1>5, <2>3, Zenon
  <2> QED BY <1>5, <2>1, <2>4, Zenon DEF FramesInv, PlaysFromFrame
<1>10. ASSUME ~joined, NEW i \in 1..Len(m) PROVE m[i] = 2 * writeAbs + i - 1
  <2>1. /\ sent = 2 * writeAbs + Len(pending)
        /\ \A j \in 1..Len(pending) : pending[j] = 2 * writeAbs + j - 1
    BY <1>10 DEF RingInv, PendingFollows
  <2>2. CASE i <= Len(pending)
    BY <1>6, <2>1, <2>2, ReadSplits
  <2>3. CASE i > Len(pending)
    <3> DEFINE j == i - Len(pending)
    <3>1. j \in 1..n /\ Len(pending) + j = i BY <1>6, <2>3
    <3>2. m[Len(pending) + j] = sent + j - 1
      <4> HIDE DEF j
      <4> QED BY <3>1, ReadSplits
    <3> QED BY <1>6, <2>1, <3>1, <3>2
  <2> QED BY <1>6, <2>2, <2>3
<1>11. PendingFollows'
  <2> HIDE DEF m, f, s
  <2> SUFFICES ASSUME ~joined
               PROVE  /\ sent' = 2 * writeAbs' + Len(pending')
                      /\ \A i \in 1..Len(pending') : pending'[i] = 2 * writeAbs' + i - 1
    BY <1>1 DEF PendingFollows
  <2>1. sent = 2 * writeAbs + Len(pending) BY DEF RingInv, PendingFollows
  <2>2. 2 * writeAbs' = 2 * writeAbs + f BY <1>2, <1>3, <1>5, <1>6
  <2>3. sent' = 2 * writeAbs' + Len(pending') BY <1>1, <1>2, <1>6, <1>7, <2>1, <2>2
  <2>4. ASSUME NEW i \in 1..Len(pending') PROVE pending'[i] = 2 * writeAbs' + i - 1
    <3>1. f + i \in 1..Len(m) BY <1>2, <1>6, <1>7
    <3>2. m[f + i] = 2 * writeAbs + (f + i) - 1 BY <1>10, <3>1
    <3> QED BY <1>2, <1>6, <1>7, <2>2, <3>2
  <2> QED BY <2>3, <2>4
<1>12. PlaysWhatWasSent'
  <2> SUFFICES ASSUME ~joined, NEW p \in Oldest'..(writeAbs' - 1)
               PROVE  ring'[p % RingSamples] = <<2 * p, 2 * p + 1>>
    BY <1>1 DEF PlaysWhatWasSent
  <2>1. /\ \A q \in writeAbs..(writeAbs' - 1) : ring'[q % RingSamples] = s[q - writeAbs + 1]
        /\ \A q \in Oldest'..(writeAbs - 1) : ring'[q % RingSamples] = ring[q % RingSamples]
    <3> HIDE DEF s
    <3> QED BY <1>1, <1>3, <1>4, PushContents
  <2>2. p \in Nat /\ Oldest <= p
    <3>1. Len(s) \in Nat BY <1>2, <1>3, Zenon
    <3> HIDE DEF s
    <3> QED BY <1>5, <1>6, <3>1, SizeAssumption DEF Oldest, OldestOf
  <2>3. CASE p < writeAbs
    <3>1. p \in Oldest'..(writeAbs - 1) /\ p \in Oldest..(writeAbs - 1)
      BY <1>6, <2>2, <2>3, SizeAssumption DEF Oldest, OldestOf
    <3>2. ring[p % RingSamples] = <<2 * p, 2 * p + 1>>
      BY <3>1 DEF RingInv, PlaysWhatWasSent
    <3> QED BY <2>1, <3>1, <3>2, Zenon
  <2>4. CASE p >= writeAbs
    <3> DEFINE k == p - writeAbs + 1
    <3>1. p \in writeAbs..(writeAbs' - 1) BY <1>5, <1>6, <2>2, <2>4
    <3>2. k \in 1..Len(s) /\ 2 * k - 1 \in 1..Len(m) /\ 2 * k \in 1..Len(m)
      <4> HIDE DEF s, f, m
      <4> QED BY <1>2, <1>3, <1>5, <1>6, <2>2, <2>4
    <3>3. s[k] = <<m[2 * k - 1], m[2 * k]>>
      <4> HIDE DEF k
      <4> QED BY <3>2, SamplesAre, Zenon
    <3>4. m[2 * k - 1] = 2 * p /\ m[2 * k] = 2 * p + 1
      <4>1. m[2 * k - 1] = 2 * writeAbs + (2 * k - 1) - 1 /\ m[2 * k] = 2 * writeAbs + 2 * k - 1
        <5> HIDE DEF k, m
        <5> QED BY <1>10, <3>2
      <4> HIDE DEF m
      <4> QED BY <1>6, <2>2, <4>1
    <3>5. ring'[p % RingSamples] = s[k] BY <2>1, <3>1, Zenon
    <3> QED BY <3>3, <3>4, <3>5, Zenon
  <2> QED BY <1>6, <2>2, <2>3, <2>4
<1>13. dropped' \in Nat BY <1>5 DEF PositionsInv, NothingDropped
<1> QED
  <2>1. RingInv' BY <1>5, <1>9, <1>11, <1>12 DEF RingInv
  <2>2. Len(pending') < 4 BY <1>2, <1>7
  <2> QED BY <1>5, <1>6, <1>7, <1>8, <1>13, <2>1, <2>2

-----------------------------------------------------------------------------
(* The invariant holds when the instance is created.                        *)
LEMMA InitHolds == Init => IInv
<1> SUFFICES ASSUME Init PROVE IInv OBVIOUS
<1>1. RingSamples \in Nat \ {0} BY SizeAssumption
<1>2. TypeOK
  <2>1. <<>> \in Seq(Nat) /\ Len(<<>>) < 4 OBVIOUS
  <2>2. ring \in [0..(RingSamples - 1) -> Sample \cup {Silence}] BY DEF Init
  <2>3. 0 \in Nat /\ 0 < RingSamples BY <1>1
  <2> QED BY <2>1, <2>2, <2>3 DEF Init, TypeOK
<1>3. PositionsInv
  <2>1. 0 % RingSamples = 0
    <3>1. 0 \in Int /\ 0 <= 0 /\ 0 < RingSamples BY <1>1
    <3> QED BY <1>1, <3>1, SmallMod, Zenon
  <2>2. PlaysInsideRing BY <1>1 DEF Init, PlaysInsideRing, Oldest, OldestOf
  <2> QED BY <2>1, <2>2, Zenon DEF Init, PositionsInv, NothingDropped
<1>4. FramesInv /\ PlaysWhatWasSent /\ PendingFollows
  BY <1>1 DEF Init, FramesInv, PlaysFromFrame, PlaysWhatWasSent, PendingFollows, Oldest, OldestOf
<1> QED BY <1>2, <1>3, <1>4 DEF IInv

(* Every step keeps the invariant, action by action.                        *)
LEMMA NextKeeps == IInv /\ [Next]_vars => IInv'
<1> SUFFICES ASSUME IInv, [Next]_vars PROVE IInv' OBVIOUS
<1>1. TypeOK /\ RingInv BY DEF IInv, RingInv
<1> SUFFICES TypeOK' /\ RingInv' BY DEF IInv, RingInv
<1>2. CASE Load
  <2>1. RingInv' BY <1>1, <1>2, ClearingKeeps DEF Load
  <2>2. ClearRing BY <1>2 DEF Load
  <2>3. /\ pipe' \in {"none", "resolved", "legacy"} /\ prime' \in {0, Prime}
        /\ eof' \in BOOLEAN /\ streams' \in Nat
    <3>1. CASE Opened("legacy")
      <4>1. streams' \in Nat BY <1>1, <3>1 DEF Opened, TypeOK
      <4> QED BY <3>1, <4>1, Zenon DEF Opened
    <3>2. CASE pipe' = "none" /\ prime' = 0 /\ eof' \in BOOLEAN /\ UNCHANGED streams
      BY <1>1, <3>2, Zenon DEF TypeOK
    <3> QED BY <1>2, <3>1, <3>2 DEF Load
  <2>4. /\ loaded' \in BOOLEAN /\ paused' \in BOOLEAN /\ fellBack' \in BOOLEAN
        /\ pc' \in {"idle", "pump", "pop"}
    BY <1>1, <1>2, Zenon DEF Load, TypeOK
  <2>5. TypeOK' BY <1>1, <2>2, <2>3, <2>4, ClearedTypes, Zenon DEF TypeOK
  <2> QED BY <2>1, <2>5
<1>3. CASE Stop
  <2>1. RingInv' BY <1>1, <1>3, ClearingKeeps DEF Stop
  <2>2. TypeOK' BY <1>1, <1>3, ClearedTypes DEF Stop, TypeOK
  <2> QED BY <2>1, <2>2
<1>4. CASE TogglePause
  <2>1. RingInv' BY <1>1, <1>4, UntouchedKeeps DEF TogglePause, history
  <2>2. TypeOK' BY <1>1, <1>4 DEF TogglePause, TypeOK, positions, history
  <2> QED BY <2>1, <2>2
<1>5. CASE DownloadWav
  <2>1. RingInv' BY <1>1, <1>5, UntouchedKeeps DEF DownloadWav, history
  <2>2. TypeOK' BY <1>1, <1>5 DEF DownloadWav, TypeOK, positions, history
  <2> QED BY <2>1, <2>2
<1>6. ASSUME NEW d \in Deltas, Seek(d) PROVE TypeOK' /\ RingInv'
  <2>1. /\ RingSamples \in Nat /\ RingSamples % 2 = 0 /\ d \in Int /\ d % 2 = 0
        /\ playAbs \in Nat /\ writeAbs \in Nat /\ playAbs % 2 = 0 /\ writeAbs % 2 = 0
    BY <1>1, SizeAssumption, FrameAssumption DEF TypeOK, RingInv, FramesInv, PlaysFromFrame
  <2>2. Oldest \in Nat /\ Oldest <= writeAbs /\ Oldest % 2 = 0
    BY <2>1 DEF Oldest, OldestOf
  <2>3. playAbs' = SeekTarget(playAbs + d) BY <1>6 DEF Seek
  <2>4. /\ playAbs' \in Nat /\ Oldest <= playAbs' /\ playAbs' <= writeAbs
        /\ playAbs' % 2 = 0
    <3>1. playAbs + d \in Int /\ (playAbs + d) % 2 = 0 BY <2>1
    <3> HIDE DEF Oldest
    <3> QED BY <2>1, <2>2, <2>3, <3>1 DEF SeekTarget
  <2>5. UNCHANGED <<control, ring, writePos, writeAbs, dropped, pending, prime, history, pc>>
    BY <1>6 DEF Seek
  <2>6. RingInv' BY <1>1, <2>4, <2>5, MovingKeeps DEF history
  <2>7. TypeOK' BY <1>1, <2>4, <2>5 DEF TypeOK, control, history
  <2> QED BY <2>6, <2>7
<1>7. CASE RenderBegins
  <2>1. RingInv' BY <1>1, <1>7, UntouchedKeeps DEF RenderBegins, history
  <2>2. TypeOK' BY <1>1, <1>7 DEF RenderBegins, TypeOK, control, positions, history
  <2> QED BY <2>1, <2>2
<1>8. CASE RenderOpens
  <2>1. TypeOK'
    <3>1. joined' \in BOOLEAN BY <1>8, Zenon DEF RenderOpens
    <3>2. /\ pipe' \in {"resolved", "legacy"} /\ prime' = Prime /\ eof' = FALSE
          /\ streams' \in Nat /\ sent' = 0 /\ pc' = "pump"
      BY <1>1, <1>8 DEF RenderOpens, Opened, TypeOK
    <3>3. UNCHANGED <<loaded, paused, fellBack, ring, positions, pending>>
      BY <1>8 DEF RenderOpens
    <3> QED BY <1>1, <3>1, <3>2, <3>3 DEF TypeOK, positions
  <2>2. UNCHANGED <<ring, writePos, writeAbs, playAbs, dropped, pending>> /\ sent' = 0
    BY <1>8 DEF RenderOpens, positions
  <2>3. ~joined' => ~joined /\ writeAbs = 0 /\ pending = <<>>
    <3>1. ~joined' => ~joined /\ ~(writeAbs > 0) /\ pending = <<>>
      BY <1>8, Zenon DEF RenderOpens
    <3>2. ~(writeAbs > 0) => writeAbs = 0 BY <1>1 DEF TypeOK
    <3> QED BY <3>1, <3>2, Zenon
  <2>4. PositionsInv' /\ FramesInv'
    BY <1>1, <2>2 DEF RingInv, PositionsInv, FramesInv, PlaysInsideRing, NothingDropped,
                      PlaysFromFrame, Oldest, OldestOf
  <2>5. PlaysWhatWasSent' /\ PendingFollows'
    <3> SUFFICES ASSUME ~joined' PROVE PlaysWhatWasSent' /\ PendingFollows'
      BY DEF PlaysWhatWasSent, PendingFollows
    <3>1. writeAbs' = 0 /\ pending' = <<>> /\ sent' = 0 BY <2>2, <2>3, Zenon
    <3>2. PlaysWhatWasSent' BY <3>1, SizeAssumption DEF PlaysWhatWasSent, Oldest, OldestOf
    <3>3. PendingFollows' BY <3>1 DEF PendingFollows
    <3> QED BY <3>2, <3>3
  <2> QED BY <2>1, <2>4, <2>5 DEF RingInv
<1>9. CASE RenderCannotOpen
  <2>1. RingInv' BY <1>1, <1>9, UntouchedKeeps DEF RenderCannotOpen, history
  <2>2. TypeOK' BY <1>1, <1>9 DEF RenderCannotOpen, TypeOK, positions, history
  <2> QED BY <2>1, <2>2
<1>10. ASSUME NEW n \in ReadSizes, PumpReads(n) PROVE TypeOK' /\ RingInv'
  <2>1. /\ RingInv'
        /\ ring' \in [0..(RingSamples - 1) -> Sample \cup {Silence}]
        /\ writePos' \in Nat /\ writePos' < RingSamples
        /\ writeAbs' \in Nat /\ playAbs' \in Nat /\ dropped' \in Nat
        /\ pending' \in Seq(Nat) /\ Len(pending') < 4
    BY <1>1, <1>10, PumpKeeps
  <2>2. sent' \in Nat BY <1>1, <1>10, SizeAssumption DEF PumpReads, TypeOK
  <2>3. UNCHANGED <<control, prime, streams, joined>> /\ pc' \in {"pop", "pump"}
    BY <1>10 DEF PumpReads
  <2>4. TypeOK' BY <1>1, <2>1, <2>2, <2>3 DEF TypeOK, control
  <2> QED BY <2>1, <2>4
<1>11. CASE PumpStops
  <2>1. RingInv' BY <1>1, <1>11, UntouchedKeeps DEF PumpStops, history
  <2>2. TypeOK' BY <1>1, <1>11 DEF PumpStops, TypeOK, control, positions, history
  <2> QED BY <2>1, <2>2
<1>12. CASE PumpEnds
  <2>1. CASE ClearRing /\ prime' = 0 /\ fellBack' = TRUE /\ UNCHANGED <<eof, streams>>
    <3>1. RingInv' BY <1>1, <2>1, ClearingKeeps
    <3>2. /\ pipe' = "none" /\ pc' = "pop" /\ UNCHANGED <<loaded, paused>>
      BY <1>12 DEF PumpEnds
    <3>3. TypeOK' BY <1>1, <2>1, <3>2, ClearedTypes DEF TypeOK
    <3> QED BY <3>1, <3>3
  <2>2. CASE eof' = TRUE /\ UNCHANGED <<fellBack, ring, positions, pending, prime, history>>
    <3>1. RingInv' BY <1>1, <2>2, UntouchedKeeps DEF history
    <3>2. TypeOK' BY <1>1, <1>12, <2>2 DEF PumpEnds, TypeOK, positions, history
    <3> QED BY <3>1, <3>2
  <2> QED BY <1>12, <2>1, <2>2 DEF PumpEnds
<1>13. CASE RenderPops
  <2>1. /\ playAbs \in Nat /\ writeAbs \in Nat /\ playAbs % 2 = 0 /\ writeAbs % 2 = 0
        /\ Oldest <= playAbs /\ playAbs <= writeAbs
        /\ RingSamples \in Nat /\ RingSamples % 2 = 0 /\ Needed \in Nat /\ Needed % 2 = 0
    BY <1>1, SizeAssumption, FrameAssumption
       DEF TypeOK, RingInv, PositionsInv, PlaysInsideRing, FramesInv, PlaysFromFrame
  <2>2. /\ playAbs' \in Nat /\ playAbs <= playAbs' /\ playAbs' <= writeAbs
        /\ playAbs' % 2 = 0
    <3>1. /\ Available \in Nat /\ playAbs + Available <= writeAbs /\ Available % 2 = 0
      BY <2>1 DEF Available
    <3>2. \/ playAbs' = playAbs
          \/ playAbs' = playAbs + Needed /\ Available > Needed
          \/ playAbs' = playAbs + Available
      BY <1>13 DEF RenderPops
    <3> HIDE DEF Available
    <3> QED BY <2>1, <3>1, <3>2
  <2>3. Oldest \in Nat BY <2>1 DEF Oldest, OldestOf
  <2>4. UNCHANGED <<ring, writePos, writeAbs, dropped, pending, sent, joined>>
    BY <1>13 DEF RenderPops, history
  <2>5. RingInv'
    <3>1. playAbs' \in Int /\ Oldest <= playAbs' BY <2>1, <2>2, <2>3
    <3> QED BY <1>1, <2>2, <2>4, <3>1, MovingKeeps
  <2>6. TypeOK' BY <1>1, <1>13, <2>2 DEF RenderPops, TypeOK, control, history
  <2> QED BY <2>5, <2>6
<1>14. CASE UNCHANGED vars
  <2>1. RingInv' BY <1>1, <1>14, UntouchedKeeps DEF vars, history
  <2>2. TypeOK' BY <1>1, <1>14 DEF TypeOK, vars, control, positions, history
  <2> QED BY <2>1, <2>2
<1> QED BY <1>2, <1>3, <1>4, <1>5, <1>6, <1>7, <1>8, <1>9, <1>10, <1>11, <1>12, <1>13, <1>14
        DEF Next

(* IInv is an invariant of every behaviour. *)
THEOREM Invariance == Spec => []IInv
BY InitHolds, NextKeeps, PTL DEF Spec

(* The state always has its type. *)
THEOREM TypeCorrect == Spec => []TypeOK
<1>1. IInv => TypeOK BY DEF IInv
<1> QED BY <1>1, Invariance, PTL

(* ring_push never overwrites a sample that was not played, and playing and  *)
(* seeking stay inside what the ring holds: the check in pump_pipe is enough *)
(* for every ring, limit and read size.                                      *)
THEOREM StaysInside == Spec => []StaysInRing
<1>1. IInv => StaysInRing BY DEF IInv, PositionsInv, FramesInv, StaysInRing
<1> QED BY <1>1, Invariance, PTL

(* What is played is, byte for byte, what the stream sent at that position. *)
THEOREM RingFaithful == Spec => []PlaysWhatWasSent
<1>1. IInv => PlaysWhatWasSent BY DEF IInv
<1> QED BY <1>1, Invariance, PTL

(* What is behind a position inside the ring, by arithmetic alone.          *)
LEMMA RoomBehind ==
  ASSUME NEW w \in Nat, NEW p \in Nat, NEW n \in Nat, NEW l \in Nat, w - p < l
  PROVE  p - (w - n) >= n - l
OBVIOUS

(* Only a read writes to the ring; the limit keeps room behind the play     *)
(* position.                                                                *)
LEMMA PumpReserves ==
  ASSUME IInv, [Next]_vars, writeAbs' > writeAbs
  PROVE  OldestOf(writeAbs') = 0 \/ playAbs - OldestOf(writeAbs') >= RingSamples - Limit
<1>1. TypeOK /\ RingInv BY DEF IInv, RingInv
<1>2. /\ writeAbs \in Nat /\ playAbs \in Nat /\ RingSamples \in Nat /\ Limit \in Nat
  BY <1>1, SizeAssumption DEF TypeOK
<1>3. ASSUME NEW n \in ReadSizes, PumpReads(n)
      PROVE  OldestOf(writeAbs') = 0 \/ playAbs - OldestOf(writeAbs') >= RingSamples - Limit
  <2>1. writeAbs' \in Nat /\ writeAbs' - playAbs < Limit BY <1>1, <1>3, PumpKeeps
  <2>2. CASE writeAbs' > RingSamples
    <3>1. OldestOf(writeAbs') = writeAbs' - RingSamples BY <2>2 DEF OldestOf
    <3>2. playAbs - (writeAbs' - RingSamples) >= RingSamples - Limit BY <1>2, <2>1, RoomBehind, Zenon
    <3> QED BY <3>1, <3>2, Zenon
  <2>3. CASE ~(writeAbs' > RingSamples)
    <3>1. OldestOf(writeAbs') = 0 BY <2>3 DEF OldestOf
    <3> QED BY <3>1, Zenon
  <2> QED BY <2>2, <2>3, Zenon
<1>4. writeAbs' = writeAbs \/ writeAbs' = 0 \/ \E n \in ReadSizes : PumpReads(n)
  BY DEF Next, Load, Stop, TogglePause, DownloadWav, Seek, RenderBegins, RenderOpens,
         RenderCannotOpen, PumpStops, PumpEnds, RenderPops, ClearRing, positions, vars
<1>5. \E n \in ReadSizes : PumpReads(n)
  <2> HIDE DEF PumpReads
  <2> QED BY <1>2, <1>4
<1> QED BY <1>3, <1>5, Zenon

(* A read leaves what a rewind may go back to, for every limit.             *)
THEOREM RewindKept == Spec => RewindReserved
<1>1. IInv /\ [Next]_vars =>
        [writeAbs' > writeAbs =>
           \/ OldestOf(writeAbs') = 0
           \/ playAbs - OldestOf(writeAbs') >= RingSamples - Limit]_vars
  BY PumpReserves
<1> QED BY <1>1, Invariance, PTL DEF Spec, RewindReserved
=============================================================================
