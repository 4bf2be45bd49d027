---------------------------- MODULE ShmRingProofs ----------------------------
(***************************************************************************)
(* For every ring size, block size and number of restarts: the shared ring  *)
(* implements the queue it is meant to be.  The slots a push writes and the *)
(* slots a take reads are disjoint although neither side sees where the     *)
(* other one is, because the positions each side acts on are never ahead of *)
(* the truth.                                                               *)
(***************************************************************************)
EXTENDS ShmRing, SequenceTheorems, TLAPS

-----------------------------------------------------------------------------
(* Remainders by the size of the ring. *)

(* Division with remainder, for a divisor that is a parameter. *)
LEMMA DivMod ==
  ASSUME NEW a \in Int, NEW n \in Nat \ {0}
  PROVE  /\ a \div n \in Int /\ a % n \in Nat /\ a % n < n
         /\ a = n * (a \div n) + (a % n)
  BY Z3

(* Multiples of the divisor do not change a remainder. *)
LEMMA Congruent ==
  ASSUME NEW n \in Nat \ {0}, NEW q \in Int, NEW b \in Int
  PROVE  (n * q + b) % n = b % n
<1> DEFINE a == n * q + b
           d == (a \div n) - q - (b \div n)
           r == (b % n) - (a % n)
<1>0. a \in Int OBVIOUS
<1>1. /\ a \div n \in Int /\ a % n \in Nat /\ a % n < n /\ a = n * (a \div n) + (a % n)
      /\ b \div n \in Int /\ b % n \in Nat /\ b % n < n /\ b = n * (b \div n) + (b % n)
  BY <1>0, DivMod
<1>2. d \in Int /\ r \in Int /\ r < n /\ r > -n BY <1>1
<1>3. n * d = n * (a \div n) - n * q - n * (b \div n) BY <1>1
<1>4. n * d = r BY <1>1, <1>3
<1> HIDE DEF a, d, r
<1>5. d >= 1 => n * d >= n BY <1>2, Z3
<1>6. d <= -1 => n * d <= -n BY <1>2, Z3
<1>7. r = 0 BY <1>2, <1>4, <1>5, <1>6
<1> QED BY <1>1, <1>7 DEF a, r

(* The remainder of a number within n of 0. *)
LEMMA SmallMod ==
  ASSUME NEW n \in Nat \ {0}, NEW a \in Int
  PROVE  /\ 0 <= a /\ a < n => a % n = a
         /\ -n <= a /\ a < 0 => a % n = a + n
<1>1. ASSUME 0 <= a, a < n PROVE a % n = a
  BY <1>1, Z3
<1>2. ASSUME -n <= a, a < 0 PROVE a % n = a + n
  <2>1. n * (-1) + (a + n) = a /\ -1 \in Int /\ a + n \in Int OBVIOUS
  <2>2. (n * (-1) + (a + n)) % n = (a + n) % n BY <2>1, Congruent
  <2>3. a % n = (a + n) % n BY <2>1, <2>2
  <2> QED BY <1>2, <2>3, Z3
<1> QED BY <1>1, <1>2

(* Remainders may be taken before a sum is formed ... *)
LEMMA ModOfSum ==
  ASSUME NEW n \in Nat \ {0}, NEW a \in Int, NEW b \in Int
  PROVE  ((a % n) + b) % n = (a + b) % n
<1>1. /\ a \div n \in Int /\ a % n \in Int /\ a = n * (a \div n) + (a % n) BY DivMod
<1>2. a + b = n * (a \div n) + ((a % n) + b) 
  <2> DEFINE p == n * (a \div n)
  <2>1. p \in Int BY <1>1
  <2> HIDE DEF p
  <2>2. a = p + (a % n) BY <1>1 DEF p
  <2>3. a + b = p + ((a % n) + b) BY <1>1, <2>1, <2>2
  <2> QED BY <2>3 DEF p
<1>3. a + b \in Int /\ (a % n) + b \in Int BY <1>1
<1> QED BY <1>1, <1>2, <1>3, Congruent

(* ... or a difference. *)
LEMMA ModOfDifference ==
  ASSUME NEW n \in Nat \ {0}, NEW a \in Int, NEW b \in Int
  PROVE  ((a % n) - (b % n)) % n = (a - b) % n
<1>1. b \div n \in Int /\ b % n \in Int /\ a % n \in Int /\ b = n * (b \div n) + (b % n) BY DivMod
<1>2. ((a % n) + (-(b % n))) % n = (a + (-(b % n))) % n
  <2>1. -(b % n) \in Int BY <1>1
  <2> QED BY <2>1, ModOfSum
<1>3. a - (b % n) = n * (b \div n) + (a - b)
  <2> DEFINE p == n * (b \div n)
  <2>1. p \in Int BY <1>1
  <2> HIDE DEF p
  <2>2. b = p + (b % n) BY <1>1 DEF p
  <2>3. a - (b % n) = p + (a - b) BY <1>1, <2>1, <2>2
  <2> QED BY <2>3 DEF p
<1>4. (a - (b % n)) % n = (a - b) % n
  <2>1. (n * (b \div n) + (a - b)) % n = (a - b) % n
    <3>1. a - b \in Int OBVIOUS
    <3> QED BY <1>1, <3>1, Congruent, Zenon
  <2> QED BY <1>3, <2>1
<1>5. (a % n) + (-(b % n)) = (a % n) - (b % n) /\ a + (-(b % n)) = a - (b % n) BY <1>1
<1> QED BY <1>2, <1>4, <1>5

-----------------------------------------------------------------------------
(* Positions. *)

(* Offsets below n from one position are different slots. *)
LEMMA DistinctSlots ==
  ASSUME NEW n \in Nat \ {0}, NEW t \in Int, NEW a \in Nat, NEW b \in Nat,
         a < n, b < n, (t + a) % n = (t + b) % n
  PROVE  a = b
<1>1. (((t + a) % n) - ((t + b) % n)) % n = ((t + a) - (t + b)) % n
  <2>1. t + a \in Int /\ t + b \in Int OBVIOUS
  <2> QED BY <2>1, ModOfDifference
<1>2. (t + a) % n \in Nat /\ (t + b) % n \in Nat
  <2>1. t + a \in Int /\ t + b \in Int OBVIOUS
  <2> QED BY <2>1, DivMod
<1>3. ((t + a) % n) - ((t + b) % n) = 0 BY <1>2
<1>4. 0 % n = 0
  <2>1. 0 \in Int /\ 0 <= 0 /\ 0 < n OBVIOUS
  <2> QED BY <2>1, SmallMod
<1>5. (a - b) % n = 0
  <2>1. (t + a) - (t + b) = a - b OBVIOUS
  <2> QED BY <1>1, <1>3, <1>4, <2>1
<1>6. /\ 0 <= a - b => (a - b) % n = a - b
      /\ a - b < 0 => (a - b) % n = (a - b) + n
  <2> DEFINE d == a - b
  <2>1. d \in Int /\ d < n /\ -n <= d OBVIOUS
  <2> HIDE DEF d
  <2>2. /\ 0 <= d => d % n = d
        /\ d < 0 => d % n = d + n
    BY <2>1, SmallMod
  <2> QED BY <2>2 DEF d
<1> QED BY <1>5, <1>6

(* What is behind the used slots is behind head. *)
LEMMA BehindUsed ==
  ASSUME NEW n \in Nat \ {0}, NEW h \in Int, NEW t \in Int, NEW j \in Int
  PROVE  (t + ((h - t) % n) + j) % n = (h + j) % n
<1>1. (((h - t) % n) + (t + j)) % n = ((h - t) + (t + j)) % n
  <2>1. h - t \in Int /\ t + j \in Int OBVIOUS
  <2> QED BY <2>1, ModOfSum
<1>2. (h - t) + (t + j) = h + j OBVIOUS
<1>3. (h - t) % n \in Nat
  <2>1. h - t \in Int OBVIOUS
  <2> QED BY <2>1, DivMod
<1>4. ((h - t) % n) + (t + j) = t + ((h - t) % n) + j BY <1>3
<1> QED BY <1>1, <1>2, <1>4

(* Moving head by k uses k slots more, moving tail by k uses k less. *)
LEMMA HeadMoves ==
  ASSUME NEW n \in Nat \ {0}, NEW h \in Int, NEW t \in Int, NEW k \in Nat,
         ((h - t) % n) + k < n
  PROVE  (((h + k) % n) - t) % n = ((h - t) % n) + k
<1>1. (h - t) % n \in Nat
  <2>1. h - t \in Int OBVIOUS
  <2> QED BY <2>1, DivMod
<1>2. (((h + k) % n) + (-t)) % n = ((h + k) + (-t)) % n
  <2>1. h + k \in Int /\ -t \in Int OBVIOUS
  <2> QED BY <2>1, ModOfSum
<1>3. (((h - t) % n) + k) % n = ((h - t) + k) % n
  <2>1. h - t \in Int /\ k \in Int OBVIOUS
  <2> QED BY <2>1, ModOfSum, Zenon
<1>4. (((h - t) % n) + k) % n = ((h - t) % n) + k
  <2> DEFINE u == ((h - t) % n) + k
  <2>1. u \in Int /\ 0 <= u /\ u < n BY <1>1
  <2> HIDE DEF u
  <2>2. u % n = u BY <2>1, SmallMod
  <2> QED BY <2>2 DEF u
<1>5. (h + k) + (-t) = (h - t) + k OBVIOUS
<1>6. (h + k) % n \in Nat
  <2>1. h + k \in Int OBVIOUS
  <2> QED BY <2>1, DivMod
<1>7. ((h + k) % n) + (-t) = ((h + k) % n) - t BY <1>6
<1> QED BY <1>2, <1>3, <1>4, <1>5, <1>7

(* Named, so that the provers match them as they stand. *)
Between(n, h, t) == (h - t) % n
Moved(n, t, k) == (t + k) % n

LEMMA TailMoves ==
  ASSUME NEW n \in Nat \ {0}, NEW h \in Nat, NEW t \in Int, NEW k \in Nat,
         h < n, k <= Between(n, h, t)
  PROVE  Between(n, h, Moved(n, t, k)) = Between(n, h, t) - k
<1>0. k <= (h - t) % n BY DEF Between
<1>1. (h - t) % n \in Nat /\ (h - t) % n < n
  <2>1. h - t \in Int OBVIOUS
  <2> QED BY <2>1, DivMod
<1>2. ((h % n) - ((t + k) % n)) % n = (h - (t + k)) % n
  <2>1. h \in Int /\ t + k \in Int OBVIOUS
  <2> QED BY <2>1, ModOfDifference
<1>3. h % n = h BY SmallMod
<1>4. (((h - t) % n) + (-k)) % n = ((h - t) + (-k)) % n
  <2>1. h - t \in Int /\ -k \in Int OBVIOUS
  <2> QED BY <2>1, ModOfSum
<1>5. (((h - t) % n) + (-k)) % n = ((h - t) % n) + (-k)
  <2>1. ((h - t) % n) + (-k) \in Int /\ 0 <= ((h - t) % n) + (-k) /\ ((h - t) % n) + (-k) < n
    BY <1>0, <1>1
  <2> QED BY <2>1, SmallMod
<1>6. (h - t) + (-k) = h - (t + k) OBVIOUS
<1>7. ((h - t) % n) + (-k) = ((h - t) % n) - k BY <1>1
<1>8. (h - ((t + k) % n)) % n = ((h - t) % n) - k
  BY <1>2, <1>3, <1>4, <1>5, <1>6, <1>7
<1> QED BY <1>8 DEF Between, Moved

-----------------------------------------------------------------------------
(* The inductive invariant. *)

(* A push writes behind head, into slots that are free whatever the other   *)
(* side has consumed since tail was read.                                   *)
PushInv ==
  /\ producer.pc = "idle" => producer = Idle
  /\ producer.pc = "write" =>
       /\ Used + producer.take <= Frames - 1
       /\ producer.i <= producer.take
       /\ \A j \in 0..(producer.i - 1) :
            ring[(head + j) % Frames] = producer.first + j

(* A take has copied the oldest frames, which are still in the ring. *)
TakeInv ==
  consumer.pc = "read" =>
    /\ consumer.k <= Used
    /\ Len(consumer.got) <= consumer.k
    /\ \A j \in 1..Len(consumer.got) :
         consumer.got[j] = ring[(tail + j - 1) % Frames]

IInv == TypeOK /\ PushInv /\ TakeInv

(* What the typing and the assumption on Frames give every step. *)
LEMMA Basics ==
  ASSUME TypeOK
  PROVE  /\ Frames \in Nat \ {0}
         /\ head \in Nat /\ head < Frames /\ tail \in Nat /\ tail < Frames
         /\ Used \in Nat /\ Used < Frames
         /\ \A a \in Int : a % Frames \in Slots
<1>1. Frames \in Nat \ {0} BY FramesAssumption
<1>2. head \in Nat /\ head < Frames /\ tail \in Nat /\ tail < Frames
  BY <1>1 DEF TypeOK, Slots
<1>3. head - tail \in Int BY <1>2
<1>4. Used \in Nat /\ Used < Frames BY <1>1, <1>3, DivMod DEF Used
<1>5. \A a \in Int : a % Frames \in Nat /\ a % Frames < Frames BY <1>1, DivMod
<1>6. \A a \in Int : a % Frames \in Slots BY <1>1, <1>5 DEF Slots
<1> QED BY <1>1, <1>2, <1>4, <1>6

LEMMA InitHolds == Init => IInv
<1> SUFFICES ASSUME Init PROVE IInv OBVIOUS
<1>1. Frames \in Nat /\ Frames >= 2 BY FramesAssumption
<1>2. TypeOK
  <2>1. Silence \in [Slots -> Nat] BY DEF Silence
  <2>2. 0 \in Slots BY <1>1 DEF Slots
  <2>3. <<>> \in Seq(Nat) BY EmptySeq
  <2> QED BY <2>1, <2>2, <2>3 DEF Init, TypeOK, Idle, Waiting
<1> QED BY <1>2 DEF Init, IInv, PushInv, TakeInv, Idle, Waiting

LEMMA PushBeginKeeps ==
  ASSUME IInv, NEW n \in Blocks, PushBegin(n)
  PROVE  IInv'
<1> USE DEF IInv
<1>1. n \in Nat BY BlocksAssumption
<1>2. /\ Used \in Nat /\ Used < Frames /\ Frames \in Nat BY Basics
<1>3. Space \in Nat /\ Space + Used = Frames - 1 BY <1>2 DEF Space
<1>4. /\ Smaller(n, Space) \in Nat /\ Smaller(n, Space) <= Space
  BY <1>1, <1>3 DEF Smaller
<1>5. made \in Nat BY DEF TypeOK
<1>6. /\ producer' = [pc |-> "write", first |-> made + 1,
                      take |-> Smaller(n, Space), i |-> 0]
      /\ made' = made + n
      /\ UNCHANGED <<ring, head, tail, consumer, out, attached, restarts>>
  BY DEF PushBegin
<1>7. TypeOK' BY <1>1, <1>4, <1>5, <1>6 DEF TypeOK
<1>8. Used' = Used BY <1>6 DEF Used
<1>9. PushInv'
  <2>1. /\ producer'.pc = "write" /\ producer'.take = Smaller(n, Space) /\ producer'.i = 0
    BY <1>6
  <2>2. Used' + producer'.take <= Frames - 1 BY <1>2, <1>3, <1>4, <1>8, <2>1
  <2>3. 0..(producer'.i - 1) = {} BY <2>1
  <2> QED BY <2>1, <2>2, <2>3, <1>4 DEF PushInv
<1>10. TakeInv' BY <1>6, <1>8 DEF TakeInv
<1> QED BY <1>7, <1>9, <1>10

(* The slot a push writes is none of those a take may read, and none it has *)
(* written before.                                                          *)
LEMMA WritesFree ==
  ASSUME IInv, producer.pc = "write", producer.i < producer.take
  PROVE  /\ (head + producer.i) % Frames \in Slots
         /\ \A j \in 0..(Used - 1) : (tail + j) % Frames # (head + producer.i) % Frames
         /\ \A j \in 0..(producer.i - 1) : (head + j) % Frames # (head + producer.i) % Frames
<1> USE DEF IInv
<1> DEFINE i == producer.i
<1>1. /\ Frames \in Nat \ {0} /\ head \in Nat /\ tail \in Nat
      /\ Used \in Nat /\ Used < Frames
  BY Basics
<1>2. /\ i \in Nat /\ producer.take \in Nat /\ Used + producer.take <= Frames - 1 /\ i < producer.take
  BY DEF TypeOK, PushInv
<1>3. Used + i < Frames /\ Used + i \in Nat BY <1>1, <1>2
<1>4. (head + i) % Frames \in Slots
  <2>1. head + i \in Int BY <1>1, <1>2
  <2> QED BY <2>1, Basics
<1>5. (tail + (Used + i)) % Frames = (head + i) % Frames
  <2>1. (tail + Used + i) % Frames = (head + i) % Frames
    <3>1. head \in Int /\ tail \in Int /\ i \in Int BY <1>1, <1>2
    <3> HIDE DEF i
    <3>2. (tail + ((head - tail) % Frames) + i) % Frames = (head + i) % Frames
      BY <1>1, <3>1, BehindUsed, Zenon
    <3> QED BY <3>2 DEF Used
  <2>2. tail + (Used + i) = tail + Used + i BY <1>1, <1>2
  <2> QED BY <2>1, <2>2
<1>6. ASSUME NEW j \in 0..(Used - 1), (tail + j) % Frames = (head + i) % Frames PROVE FALSE
  <2>1. j \in Nat /\ j < Used /\ j < Frames BY <1>1
  <2>2. j = Used + i
    <3> DEFINE u == Used + i
    <3>1. u \in Nat /\ u < Frames /\ (tail + j) % Frames = (tail + u) % Frames
      BY <1>3, <1>5, <1>6
    <3>2. tail \in Int BY <1>1
    <3> HIDE DEF u
    <3>3. j = u BY <2>1, <3>1, <3>2, <1>1, DistinctSlots
    <3> QED BY <3>3 DEF u
  <2> QED BY <2>1, <2>2, <1>1, <1>2
<1>7. ASSUME NEW j \in 0..(i - 1), (head + j) % Frames = (head + i) % Frames PROVE FALSE
  <2>1. j \in Nat /\ j < i /\ j < Frames /\ i < Frames BY <1>1, <1>2, <1>3
  <2>2. head \in Int BY <1>1
  <2>3. j = i
    <3> HIDE DEF i
    <3> QED BY <2>1, <2>2, <1>1, <1>2, <1>7, DistinctSlots
  <2> QED BY <2>1, <2>3, <1>2
<1> QED BY <1>4, <1>6, <1>7

LEMMA PushFrameKeeps ==
  ASSUME IInv, PushFrame
  PROVE  IInv'
<1> USE DEF IInv
<1> DEFINE i == producer.i
           w == (head + i) % Frames
<1>1. /\ w \in Slots
      /\ \A j \in 0..(Used - 1) : (tail + j) % Frames # w
      /\ \A j \in 0..(i - 1) : (head + j) % Frames # w
  BY WritesFree DEF PushFrame
<1>2. /\ ring' = [ring EXCEPT ![w] = producer.first + i]
      /\ producer' = [producer EXCEPT !.i = @ + 1]
      /\ UNCHANGED <<head, tail, made, consumer, out, attached, restarts>>
      /\ producer.pc = "write" /\ i < producer.take
  BY DEF PushFrame
<1>3. /\ ring \in [Slots -> Nat] /\ i \in Nat /\ producer.first \in Nat /\ producer.take \in Nat
      /\ producer \in [pc : {"idle", "write"}, first : Nat, take : Nat, i : Nat]
  BY DEF TypeOK
<1>4. /\ producer'.pc = "write" /\ producer'.first = producer.first
      /\ producer'.take = producer.take /\ producer'.i = i + 1
  BY <1>2, <1>3
<1>5. TypeOK'
  <2>1. ring' \in [Slots -> Nat]
    <3>1. producer.first + i \in Nat BY <1>3
    <3> HIDE DEF w
    <3> QED BY <1>2, <1>3, <3>1
  <2>2. producer' \in [pc : {"idle", "write"}, first : Nat, take : Nat, i : Nat] BY <1>2, <1>3
  <2> QED BY <1>2, <2>1, <2>2 DEF TypeOK
<1>6. Used' = Used /\ Used \in Nat /\ Frames \in Nat BY <1>2, Basics DEF Used
<1>7. \A s \in Slots : s # w => ring'[s] = ring[s] BY <1>2, <1>3
<1>8. ring'[w] = producer.first + i BY <1>1, <1>2, <1>3
<1>9. PushInv'
  <2>1. Used' + producer'.take <= Frames - 1 /\ producer'.i <= producer'.take
    BY <1>2, <1>3, <1>4, <1>6 DEF PushInv
  <2>2. ASSUME NEW j \in 0..(producer'.i - 1)
        PROVE  ring'[(head' + j) % Frames] = producer'.first + j
    <3>1. CASE j = i BY <3>1, <1>2, <1>4, <1>8
    <3>2. CASE j # i
      <4>1. j \in 0..(i - 1) BY <3>2, <1>3, <1>4
      <4>2. (head + j) % Frames # w BY <4>1, <1>1
      <4>3. ring[(head + j) % Frames] = producer.first + j BY <4>1, <1>2 DEF PushInv
      <4>4. (head + j) % Frames \in Slots
        <5>1. head + j \in Int BY <4>1, Basics
        <5> QED BY <5>1, Basics
      <4> QED BY <4>2, <4>3, <4>4, <1>2, <1>4, <1>7
    <3> QED BY <3>1, <3>2
  <2> QED BY <2>1, <2>2, <1>4 DEF PushInv
<1>10. TakeInv'
  <2> SUFFICES ASSUME consumer.pc = "read"
               PROVE \A j \in 1..Len(consumer.got) :
                       consumer.got[j] = ring'[(tail + j - 1) % Frames]
    BY <1>2, <1>6 DEF TakeInv
  <2> TAKE j \in 1..Len(consumer.got)
  <2>1. Len(consumer.got) \in Nat /\ consumer.k \in Nat /\ Len(consumer.got) <= consumer.k
        /\ consumer.k <= Used
    BY DEF TypeOK, TakeInv
  <2>2. j - 1 \in 0..(Used - 1) BY <2>1, <1>6
  <2>3. tail + (j - 1) = tail + j - 1 /\ tail + (j - 1) \in Int BY <2>2, Basics
  <2>4. (tail + j - 1) % Frames # w BY <1>1, <2>2, <2>3
  <2>5. (tail + j - 1) % Frames \in Slots BY <2>3, Basics
  <2> QED BY <2>4, <2>5, <1>7 DEF TakeInv
<1> QED BY <1>5, <1>9, <1>10

LEMMA PushEndKeeps ==
  ASSUME IInv, PushEnd
  PROVE  /\ IInv'
         /\ Used' = Used + producer.take
<1> USE DEF IInv
<1>1. /\ head' = (head + producer.take) % Frames
      /\ producer' = Idle
      /\ UNCHANGED <<ring, tail, made, consumer, out, attached, restarts>>
      /\ producer.pc = "write"
  BY DEF PushEnd
<1>2. /\ Frames \in Nat \ {0} /\ head \in Nat /\ tail \in Nat /\ Used \in Nat
      /\ producer.take \in Nat /\ Used + producer.take < Frames
  <2>1. producer.take \in Nat BY DEF TypeOK
  <2>2. /\ Frames \in Nat \ {0} /\ head \in Nat /\ tail \in Nat /\ Used \in Nat BY Basics
  <2> QED BY <2>1, <2>2, <1>1 DEF PushInv
<1>3. Used' = Used + producer.take
  <2>1. (((head + producer.take) % Frames) - tail) % Frames = ((head - tail) % Frames) + producer.take
    <3>1. ((head - tail) % Frames) + producer.take < Frames BY <1>2 DEF Used
    <3>2. head \in Int /\ tail \in Int BY <1>2
    <3> QED BY <1>2, <3>1, <3>2, HeadMoves, Zenon
  <2> QED BY <1>1, <2>1 DEF Used
<1>4. TypeOK'
  <2>1. head + producer.take \in Int BY <1>2
  <2>2. head' \in Slots BY <1>1, <2>1, Basics
  <2> QED BY <1>1, <2>2 DEF TypeOK, Idle
<1>5. PushInv' BY <1>1 DEF PushInv, Idle
<1>6. TakeInv'
  <2>1. consumer.k \in Nat BY DEF TypeOK
  <2> QED BY <1>1, <1>2, <1>3, <2>1 DEF TakeInv
<1> QED BY <1>3, <1>4, <1>5, <1>6

LEMMA RestartKeeps ==
  ASSUME IInv, Restart
  PROVE  IInv' /\ Used' = 0
<1> USE DEF IInv
<1>1. Frames \in Nat /\ Frames >= 2 BY FramesAssumption
<1>2. TypeOK'
  <2>1. Silence \in [Slots -> Nat] BY DEF Silence
  <2>2. 0 \in Slots BY <1>1 DEF Slots
  <2>3. <<>> \in Seq(Nat) BY EmptySeq
  <2>4. made' \in Nat /\ out' \in Seq(Nat)
    BY Zenon DEF Restart, TypeOK
  <2>5. restarts' \in Nat /\ attached' \in BOOLEAN
    <3>1. restarts \in Nat /\ restarts' = restarts + 1 /\ attached' = FALSE BY DEF Restart, TypeOK
    <3>2. restarts' \in Nat BY <3>1
    <3>3. attached' \in BOOLEAN BY <3>1, Zenon
    <3> QED BY <3>2, <3>3, Zenon
  <2>6. ring' \in [Slots -> Nat] /\ head' \in Slots /\ tail' \in Slots
    BY <2>1, <2>2, Zenon DEF Restart
  <2>7. /\ producer' \in [pc : {"idle", "write"}, first : Nat, take : Nat, i : Nat]
        /\ consumer' \in [pc : {"idle", "read"}, k : Nat, got : Seq(Nat)]
    BY <2>3 DEF Restart, Idle, Waiting
  <2> QED BY <2>4, <2>5, <2>6, <2>7 DEF TypeOK
<1>3. Used' = 0 
  <2>1. 0 % Frames = 0 BY <1>1, SmallMod
  <2> QED BY <2>1 DEF Restart, Used
<1> QED BY <1>2, <1>3 DEF Restart, PushInv, TakeInv, Idle, Waiting

LEMMA AttachKeeps ==
  ASSUME IInv, Attach
  PROVE  IInv'
<1> USE DEF IInv
<1>1. Used' = Used BY DEF Attach, Used
<1> QED BY <1>1 DEF Attach, TypeOK, PushInv, TakeInv

LEMMA TakeBeginKeeps ==
  ASSUME IInv, NEW n \in Blocks, TakeBegin(n)
  PROVE  IInv'
<1> USE DEF IInv
<1>1. n \in Nat BY BlocksAssumption
<1>2. Used \in Nat BY Basics
<1>3. Smaller(n, Used) \in Nat /\ Smaller(n, Used) <= Used BY <1>1, <1>2 DEF Smaller
<1>4. /\ consumer' = [pc |-> "read", k |-> Smaller(n, Used), got |-> <<>>]
      /\ UNCHANGED <<ring, head, tail, made, producer, out, attached, restarts>>
  BY DEF TakeBegin
<1>5. Used' = Used BY <1>4 DEF Used
<1>6. TypeOK'
  <2>1. <<>> \in Seq(Nat) BY EmptySeq
  <2> QED BY <1>3, <1>4, <2>1 DEF TypeOK
<1>7. PushInv' BY <1>4, <1>5 DEF PushInv
<1>8. TakeInv' BY <1>3, <1>4, <1>5 DEF TakeInv
<1> QED BY <1>6, <1>7, <1>8

LEMMA TakeFrameKeeps ==
  ASSUME IInv, TakeFrame
  PROVE  IInv'
<1> USE DEF IInv
<1> DEFINE got == consumer.got
           new == ring[(tail + Len(got)) % Frames]
<1>1. /\ consumer' = [consumer EXCEPT !.got = Append(got, new)]
      /\ UNCHANGED <<ring, head, tail, made, producer, out, attached, restarts>>
      /\ consumer.pc = "read" /\ Len(got) < consumer.k
  BY DEF TakeFrame
<1>2. /\ consumer \in [pc : {"idle", "read"}, k : Nat, got : Seq(Nat)]
      /\ got \in Seq(Nat) /\ Len(got) \in Nat /\ consumer.k \in Nat
  BY DEF TypeOK
<1>3. new \in Nat
  <2>1. tail + Len(got) \in Int BY <1>2, Basics
  <2>2. (tail + Len(got)) % Frames \in Slots BY <2>1, Basics
  <2> QED BY <2>2 DEF TypeOK
<1>4. Used' = Used BY <1>1 DEF Used
<1>5. /\ consumer'.pc = "read" /\ consumer'.k = consumer.k /\ consumer'.got = Append(got, new)
  BY <1>1, <1>2
<1>6. /\ Append(got, new) \in Seq(Nat) /\ Len(Append(got, new)) = Len(got) + 1
      /\ \A j \in 1..Len(got) : Append(got, new)[j] = got[j]
      /\ Append(got, new)[Len(got) + 1] = new
  <2> HIDE DEF got, new
  <2> QED BY <1>2, <1>3
<1>7. TypeOK'
  <2>1. consumer' \in [pc : {"idle", "read"}, k : Nat, got : Seq(Nat)]
    <3> HIDE DEF got, new
    <3> QED BY <1>1, <1>2, <1>6
  <2> QED BY <1>1, <2>1 DEF TypeOK
<1>8. PushInv' BY <1>1, <1>4 DEF PushInv
<1>9. TakeInv'
  <2>1. consumer'.k <= Used' /\ Len(consumer'.got) <= consumer'.k
    BY <1>1, <1>2, <1>4, <1>5, <1>6 DEF TakeInv
  <2>2. ASSUME NEW j \in 1..Len(consumer'.got)
        PROVE  consumer'.got[j] = ring'[(tail' + j - 1) % Frames]
    <3>1. CASE j \in 1..Len(got)
      <4>1. consumer'.got[j] = got[j]
        <5> HIDE DEF got, new
        <5> QED BY <3>1, <1>5, <1>6
      <4>2. got[j] = ring[(tail + j - 1) % Frames] BY <3>1, <1>1 DEF TakeInv
      <4> QED BY <4>1, <4>2, <1>1
    <3>2. CASE j = Len(got) + 1
      <4>1. consumer'.got[j] = new
        <5> HIDE DEF got, new
        <5> QED BY <3>2, <1>5, <1>6
      <4>2. tail + j - 1 = tail + Len(got) BY <3>2, <1>2, Basics
      <4> QED BY <4>1, <4>2, <1>1
    <3>3. j \in 1..Len(got) \/ j = Len(got) + 1
      <4> HIDE DEF got, new
      <4> QED BY <1>2, <1>5, <1>6
    <3> QED BY <3>1, <3>2, <3>3
  <2> QED BY <2>1, <2>2 DEF TakeInv
<1> QED BY <1>7, <1>8, <1>9

LEMMA TakeEndKeeps ==
  ASSUME IInv, TakeEnd
  PROVE  /\ IInv'
         /\ consumer.k <= Used
         /\ Used' = Used - consumer.k
<1> USE DEF IInv
<1>1. /\ tail' = (tail + consumer.k) % Frames
      /\ out' = consumer.got
      /\ consumer' = Waiting
      /\ UNCHANGED <<ring, head, made, producer, attached, restarts>>
      /\ consumer.pc = "read" /\ Len(consumer.got) = consumer.k
  BY DEF TakeEnd
<1>2. /\ Frames \in Nat \ {0} /\ head \in Nat /\ head < Frames /\ tail \in Nat /\ Used \in Nat
      /\ Used < Frames
  BY Basics
<1>3. consumer.k \in Nat /\ consumer.got \in Seq(Nat) BY DEF TypeOK
<1>4. consumer.k <= Used BY <1>1 DEF TakeInv
<1>5. Used' = Used - consumer.k
  <2>1. Used = Between(Frames, head, tail) BY DEF Used, Between
  <2>2. tail' = Moved(Frames, tail, consumer.k) BY <1>1 DEF Moved
  <2>3. tail \in Int BY <1>2
  <2>4. Between(Frames, head, Moved(Frames, tail, consumer.k)) = Between(Frames, head, tail) - consumer.k
    BY <1>2, <1>3, <1>4, <2>1, <2>3, TailMoves
  <2>5. Used' = Between(Frames, head, tail') BY <1>1 DEF Used, Between
  <2> QED BY <2>1, <2>2, <2>4, <2>5
<1>6. TypeOK'
  <2>1. tail + consumer.k \in Int BY <1>2, <1>3
  <2>2. tail' \in Slots BY <1>1, <2>1, Basics
  <2>3. <<>> \in Seq(Nat) BY EmptySeq
  <2> QED BY <1>1, <1>3, <2>2, <2>3 DEF TypeOK, Waiting
<1>7. PushInv'
  <2>1. producer.take \in Nat BY DEF TypeOK
  <2>2. Used + producer.take <= Frames - 1 => Used' + producer.take <= Frames - 1
    BY <1>2, <1>3, <1>5, <2>1
  <2> QED BY <1>1, <2>2 DEF PushInv
<1>8. TakeInv' BY <1>1 DEF TakeInv, Waiting
<1> QED BY <1>4, <1>5, <1>6, <1>7, <1>8

LEMMA NextKeeps == IInv /\ [Next]_vars => IInv'
<1> SUFFICES ASSUME IInv, [Next]_vars PROVE IInv' OBVIOUS
<1>1. ASSUME NEW n \in Blocks, PushBegin(n) PROVE IInv' BY <1>1, PushBeginKeeps
<1>2. CASE PushFrame BY <1>2, PushFrameKeeps
<1>3. CASE PushEnd BY <1>3, PushEndKeeps
<1>4. CASE Restart BY <1>4, RestartKeeps
<1>5. CASE Attach BY <1>5, AttachKeeps
<1>6. ASSUME NEW n \in Blocks, TakeBegin(n) PROVE IInv' BY <1>6, TakeBeginKeeps
<1>7. CASE TakeFrame BY <1>7, TakeFrameKeeps
<1>8. CASE TakeEnd BY <1>8, TakeEndKeeps
<1>9. CASE UNCHANGED vars
  BY <1>9 DEF vars, IInv, TypeOK, PushInv, TakeInv, Used
<1> QED BY <1>1, <1>2, <1>3, <1>4, <1>5, <1>6, <1>7, <1>8, <1>9 DEF Next, Host, Shim

(* What holds of every state: the typing, and with it the positions.        *)
THEOREM TypeCorrect == Spec => []TypeOK
<1>1. IInv => TypeOK BY DEF IInv
<1> QED BY <1>1, InitHolds, NextKeeps, PTL DEF Spec

-----------------------------------------------------------------------------
(* The refinement, action by action. *)

(* The ring and the push under way, read as sequences. *)
AsSequences ==
  /\ Waits \in Seq(Nat) /\ Len(Waits) = Used
  /\ \A j \in 1..Used : Waits[j] = ring[(tail + j - 1) % Frames]
  /\ Accepted \in Seq(Nat) /\ Len(Accepted) = producer.take
  /\ \A j \in 1..producer.take : Accepted[j] = producer.first + j - 1

LEMMA Sequences == TypeOK => AsSequences
<1> SUFFICES ASSUME TypeOK PROVE AsSequences OBVIOUS
<1>1. Used \in Nat BY Basics
<1>2. \A j \in 1..Used : ring[(tail + j - 1) % Frames] \in Nat
  <2> TAKE j \in 1..Used
  <2>1. tail + j - 1 \in Int BY <1>1, Basics
  <2>2. (tail + j - 1) % Frames \in Slots BY <2>1, Basics
  <2> QED BY <2>2 DEF TypeOK
<1>3. Waits \in Seq(Nat) /\ Len(Waits) = Used
  <2> DEFINE e(j) == ring[(tail + j - 1) % Frames]
  <2>1. Waits = [j \in 1..Used |-> e(j)] BY DEF Waits
  <2>2. \A j \in 1..Used : e(j) \in Nat BY <1>2
  <2> HIDE DEF e
  <2> QED BY <1>1, <2>1, <2>2
<1>4. producer.take \in Nat /\ producer.first \in Nat BY DEF TypeOK
<1>5. \A j \in 1..producer.take : producer.first + j - 1 \in Nat BY <1>4
<1>6. Accepted \in Seq(Nat) /\ Len(Accepted) = producer.take
  BY <1>4, <1>5 DEF Accepted
<1> QED BY <1>3, <1>6 DEF Waits, Accepted, AsSequences

(* The same of the state a step leads to. *)
LEMMA SequencesAfter == TypeOK' => AsSequences'
BY Sequences, PTL

LEMMA InitRefines == Init => Fifo!Init
<1> SUFFICES ASSUME Init PROVE Fifo!Init OBVIOUS
<1>1. Used = 0
  <2>1. Frames \in Nat \ {0} BY FramesAssumption
  <2>2. 0 % Frames = 0 BY <2>1, SmallMod
  <2> QED BY <2>2 DEF Init, Used
<1>2. TypeOK BY InitHolds DEF IInv
<1>3. producer.take = 0 BY DEF Init, Idle
<1>4. Waits = <<>> BY <1>1, <1>2, Sequences, EmptySeq DEF AsSequences
<1>5. Accepted = <<>> BY <1>2, <1>3, Sequences, EmptySeq DEF AsSequences
<1> QED BY <1>4, <1>5 DEF Init, Fifo!Init

LEMMA PushBeginRefines ==
  ASSUME IInv, NEW n \in Blocks, PushBegin(n)
  PROVE  Fifo!Accept(n)
<1>1. TypeOK /\ TypeOK' BY PushBeginKeeps DEF IInv
<1>2. Accepted = <<>>
  <2>1. producer.take = 0 BY DEF IInv, PushInv, PushBegin, Idle
  <2> QED BY <1>1, <2>1, Sequences, EmptySeq DEF AsSequences
<1>3. /\ producer'.first = made + 1 /\ producer'.take = Smaller(n, Space)
      /\ made' = made + n
      /\ UNCHANGED <<ring, head, tail, out>>
  BY DEF PushBegin
<1>4. Fifo!Room(n) = Smaller(n, Space)
  BY <1>1, Sequences DEF AsSequences, Fifo!Room, Smaller, Space
<1>5. Accepted' = [j \in 1..Fifo!Room(n) |-> made + j]
  <2>1. made \in Nat BY <1>1 DEF TypeOK
  <2>2. \A j \in 1..producer'.take : made + 1 + j - 1 = made + j
    <3>1. producer'.take \in Nat BY <1>1 DEF TypeOK
    <3> QED BY <2>1, <3>1
  <2>3. Accepted' = [j \in 1..producer'.take |-> made + 1 + j - 1] BY <1>3 DEF Accepted
  <2>4. Accepted' = [j \in 1..producer'.take |-> made + j] BY <2>2, <2>3
  <2> QED BY <2>4, <1>3, <1>4
<1>6. Waits' = Waits BY <1>3 DEF Waits, Used
<1> QED BY <1>2, <1>3, <1>5, <1>6 DEF Fifo!Accept

LEMMA PushFrameRefines ==
  ASSUME IInv, PushFrame
  PROVE  UNCHANGED Fifo!vars
<1> DEFINE w == (head + producer.i) % Frames
<1>1. TypeOK BY DEF IInv
<1>2. /\ w \in Slots
      /\ \A j \in 0..(Used - 1) : (tail + j) % Frames # w
  BY WritesFree DEF PushFrame
<1>3. /\ ring' = [ring EXCEPT ![w] = producer.first + producer.i]
      /\ UNCHANGED <<head, tail, made, out>>
  BY DEF PushFrame
<1>4. ring \in [Slots -> Nat] BY <1>1 DEF TypeOK
<1>5. Used' = Used BY <1>3 DEF Used
<1>6. \A j \in 1..Used : ring'[(tail + j - 1) % Frames] = ring[(tail + j - 1) % Frames]
  <2> TAKE j \in 1..Used
  <2>1. Used \in Nat BY <1>1, Basics
  <2>2. j - 1 \in 0..(Used - 1) /\ tail + (j - 1) = tail + j - 1 /\ tail + j - 1 \in Int
    BY <2>1, <1>1, Basics
  <2>3. (tail + j - 1) % Frames # w BY <1>2, <2>2
  <2>4. (tail + j - 1) % Frames \in Slots BY <1>1, <2>2, Basics
  <2> HIDE DEF w
  <2> QED BY <1>3, <1>4, <2>3, <2>4
<1>7. Waits' = Waits
  <2>1. Waits' = [j \in 1..Used |-> ring'[(tail + j - 1) % Frames]] BY <1>3, <1>5 DEF Waits
  <2> QED BY <1>6, <2>1 DEF Waits
<1>8. Accepted' = Accepted
  <2>1. producer'.take = producer.take /\ producer'.first = producer.first
    BY <1>1 DEF TypeOK, PushFrame
  <2> QED BY <2>1 DEF Accepted
<1> QED BY <1>3, <1>7, <1>8 DEF Fifo!vars

LEMMA PushEndRefines ==
  ASSUME IInv, PushEnd
  PROVE  Fifo!Publish
<1>1. TypeOK /\ TypeOK' /\ Used' = Used + producer.take BY PushEndKeeps DEF IInv
<1>2. /\ producer' = Idle /\ UNCHANGED <<ring, tail, made, out>>
      /\ producer.pc = "write" /\ producer.i = producer.take
  BY DEF PushEnd
<1>3. Accepted' = <<>>
  <2>1. producer'.take = 0 BY <1>2 DEF Idle
  <2>2. Accepted' \in Seq(Nat) /\ Len(Accepted') = producer'.take
    BY <1>1, SequencesAfter DEF AsSequences
  <2> QED BY <2>1, <2>2, EmptySeq
<1>4. /\ Waits \in Seq(Nat) /\ Len(Waits) = Used
      /\ \A j \in 1..Used : Waits[j] = ring[(tail + j - 1) % Frames]
      /\ Accepted \in Seq(Nat) /\ Len(Accepted) = producer.take
      /\ \A j \in 1..producer.take : Accepted[j] = producer.first + j - 1
  BY <1>1, Sequences DEF AsSequences
<1>5. /\ Waits' \in Seq(Nat) /\ Len(Waits') = Used'
      /\ \A j \in 1..Used' : Waits'[j] = ring[(tail + j - 1) % Frames]
  BY <1>1, <1>2, SequencesAfter DEF AsSequences
<1>6. /\ Waits \o Accepted \in Seq(Nat) /\ Len(Waits \o Accepted) = Used'
      /\ \A j \in 1..Used' : (Waits \o Accepted)[j] =
           IF j <= Used THEN Waits[j] ELSE Accepted[j - Used]
  <2>1. /\ Waits \o Accepted \in Seq(Nat)
        /\ Len(Waits \o Accepted) = Len(Waits) + Len(Accepted)
        /\ \A j \in 1..(Len(Waits) + Len(Accepted)) : (Waits \o Accepted)[j] =
             IF j <= Len(Waits) THEN Waits[j] ELSE Accepted[j - Len(Waits)]
    BY <1>4, ConcatProperties
  <2> QED BY <2>1, <1>1, <1>4, Zenon
<1>7. Used \in Nat /\ producer.take \in Nat /\ producer.first \in Nat
  BY <1>1, Basics DEF TypeOK
<1>8. ASSUME NEW j \in 1..Used' PROVE Waits'[j] = (Waits \o Accepted)[j]
  <2>1. CASE j <= Used
    <3>1. j \in 1..Used BY <2>1, <1>1, <1>7
    <3>2. (Waits \o Accepted)[j] = Waits[j] BY <2>1, <1>6
    <3> QED BY <3>1, <3>2, <1>4, <1>5, Zenon
  <2>2. CASE ~(j <= Used)
    <3> DEFINE i == j - Used
    <3>1. i \in 1..producer.take /\ j = Used + i BY <2>2, <1>1, <1>7
    <3>2. (Waits \o Accepted)[j] = producer.first + i - 1
      <4>1. (Waits \o Accepted)[j] = Accepted[i] BY <2>2, <1>6
      <4> HIDE DEF i
      <4> QED BY <4>1, <3>1, <1>4
    <3>3. i - 1 \in 0..(producer.i - 1) BY <3>1, <1>2, <1>7
    <3>4. ring[(head + (i - 1)) % Frames] = producer.first + (i - 1)
      <4> HIDE DEF i
      <4> QED BY <3>3, <1>2 DEF IInv, PushInv
    <3>5. (tail + Used + (i - 1)) % Frames = (head + (i - 1)) % Frames
      <4>1. Frames \in Nat \ {0} /\ head \in Int /\ tail \in Int /\ i - 1 \in Int
        BY <1>1, <1>7, <3>1, Basics
      <4> HIDE DEF i
      <4>2. (tail + ((head - tail) % Frames) + (i - 1)) % Frames = (head + (i - 1)) % Frames
        BY <4>1, BehindUsed, Zenon
      <4> QED BY <4>2 DEF Used
    <3>6. tail + Used + (i - 1) = tail + j - 1 /\ producer.first + (i - 1) = producer.first + i - 1
      <4>1. tail \in Int BY <1>1, Basics
      <4> HIDE DEF i
      <4> QED BY <4>1, <3>1, <1>7
    <3>7. Waits'[j] = ring[(tail + j - 1) % Frames] BY <1>5
    <3> HIDE DEF i
    <3> QED BY <3>2, <3>4, <3>5, <3>6, <3>7
  <2> QED BY <2>1, <2>2
<1>9. Waits' = Waits \o Accepted BY <1>5, <1>6, <1>8, SeqEqual
<1> QED BY <1>2, <1>3, <1>9 DEF Fifo!Publish

LEMMA RestartRefines ==
  ASSUME IInv, Restart
  PROVE  Fifo!Restart
<1>1. TypeOK' /\ Used' = 0 BY RestartKeeps DEF IInv
<1>2. producer'.take = 0 BY DEF Restart, Idle
<1>3. /\ Waits' \in Seq(Nat) /\ Len(Waits') = Used'
      /\ Accepted' \in Seq(Nat) /\ Len(Accepted') = producer'.take
  BY <1>1, SequencesAfter DEF AsSequences
<1>4. Waits' = <<>> /\ Accepted' = <<>> BY <1>1, <1>2, <1>3, EmptySeq
<1> QED BY <1>4 DEF Restart, Fifo!Restart

LEMMA TakeEndRefines ==
  ASSUME IInv, TakeEnd
  PROVE  \E k \in 0..Len(Waits) : Fifo!Take(k)
<1> DEFINE k == consumer.k
<1>1. TypeOK /\ TypeOK' /\ k <= Used /\ Used' = Used - k BY TakeEndKeeps DEF IInv
<1>2. /\ tail' = (tail + k) % Frames /\ out' = consumer.got
      /\ UNCHANGED <<ring, head, made, producer>>
      /\ consumer.pc = "read" /\ Len(consumer.got) = k
  BY DEF TakeEnd
<1>3. /\ Waits \in Seq(Nat) /\ Len(Waits) = Used
      /\ \A j \in 1..Used : Waits[j] = ring[(tail + j - 1) % Frames]
  BY <1>1, Sequences DEF AsSequences
<1>4. /\ Waits' \in Seq(Nat) /\ Len(Waits') = Used'
      /\ \A j \in 1..Used' : Waits'[j] = ring[(tail' + j - 1) % Frames]
  BY <1>1, <1>2, SequencesAfter DEF AsSequences
<1>5. k \in Nat /\ Used \in Nat /\ consumer.got \in Seq(Nat) /\ Frames \in Nat \ {0} /\ tail \in Nat
  BY <1>1, Basics DEF TypeOK
<1>6. k \in 0..Len(Waits) BY <1>1, <1>3, <1>5
<1>7. out' = SubSeq(Waits, 1, k)
  <2>1. \A j \in 1..k : consumer.got[j] = ring[(tail + j - 1) % Frames]
    BY <1>2 DEF IInv, TakeInv
  <2>2. \A j \in 1..k : consumer.got[j] = Waits[j]
    <3>1. \A j \in 1..k : j \in 1..Used BY <1>1, <1>5
    <3> HIDE DEF k
    <3> QED BY <1>3, <2>1, <3>1, Zenon
  <2> HIDE DEF k
  <2>3. /\ SubSeq(Waits, 1, k) \in Seq(Nat) /\ Len(SubSeq(Waits, 1, k)) = k
        /\ \A j \in 1..k : SubSeq(Waits, 1, k)[j] = Waits[j]
    BY <1>1, <1>3, <1>5
  <2>4. consumer.got = SubSeq(Waits, 1, k) BY <1>2, <1>5, <2>2, <2>3, SeqEqual
  <2> QED BY <1>2, <2>4
<1>8. Waits' = SubSeq(Waits, k + 1, Len(Waits))
  <2> DEFINE rest == SubSeq(Waits, k + 1, Len(Waits))
  <2>1. /\ rest \in Seq(Nat) /\ Len(rest) = Used - k
        /\ \A j \in 1..(Used - k) : rest[j] = Waits[k + j]
    <3> HIDE DEF k
    <3> QED BY <1>1, <1>3, <1>5
  <2>2. ASSUME NEW j \in 1..(Used - k) PROVE Waits'[j] = rest[j]
    <3>1. (((tail + k) % Frames) + (j - 1)) % Frames = (tail + k + (j - 1)) % Frames
      <4>1. tail + k \in Int /\ j - 1 \in Int BY <1>5
      <4> HIDE DEF k
      <4> QED BY <1>5, <4>1, ModOfSum
    <3>2. tail + k + (j - 1) = tail + (k + j) - 1 /\ k + j \in 1..Used BY <1>1, <1>5
    <3>3. tail' + j - 1 = ((tail + k) % Frames) + (j - 1)
      <4>1. (tail + k) % Frames \in Nat
        <5>1. tail + k \in Int BY <1>5
        <5> QED BY <1>5, <5>1, DivMod
      <4> QED BY <1>2, <4>1
    <3>4. Waits'[j] = ring[(tail' + j - 1) % Frames] BY <1>1, <1>4
    <3>5. Waits[k + j] = ring[(tail + (k + j) - 1) % Frames] BY <1>3, <3>2
    <3>6. rest[j] = Waits[k + j] BY <2>1
    <3> HIDE DEF k, rest
    <3> QED BY <3>1, <3>2, <3>3, <3>4, <3>5, <3>6
  <2> HIDE DEF rest, k
  <2>3. Waits' = rest BY <1>1, <1>4, <2>1, <2>2, SeqEqual
  <2> QED BY <2>3 DEF rest
<1>9. Accepted' = Accepted BY <1>2 DEF Accepted
<1>10. Fifo!Take(k) BY <1>2, <1>7, <1>8, <1>9 DEF Fifo!Take
<1> QED BY <1>6, <1>10

LEMMA NextRefines == IInv /\ [Next]_vars => [Fifo!Next]_Fifo!vars
<1> SUFFICES ASSUME IInv, [Next]_vars PROVE [Fifo!Next]_Fifo!vars OBVIOUS
<1>1. ASSUME NEW n \in Blocks, PushBegin(n) PROVE Fifo!Next
  BY <1>1, PushBeginRefines DEF Fifo!Next
<1>2. CASE PushFrame BY <1>2, PushFrameRefines
<1>3. CASE PushEnd BY <1>3, PushEndRefines DEF Fifo!Next
<1>4. CASE Restart BY <1>4, RestartRefines DEF Fifo!Next
<1>5. CASE Attach BY <1>5 DEF Attach, Fifo!vars, Waits, Accepted, Used
<1>6. ASSUME NEW n \in Blocks, TakeBegin(n) PROVE UNCHANGED Fifo!vars
  BY <1>6 DEF TakeBegin, Fifo!vars, Waits, Accepted, Used
<1>7. CASE TakeFrame BY <1>7 DEF TakeFrame, Fifo!vars, Waits, Accepted, Used
<1>8. CASE TakeEnd BY <1>8, TakeEndRefines DEF Fifo!Next
<1>9. CASE UNCHANGED vars BY <1>9 DEF vars, Fifo!vars, Waits, Accepted, Used
<1> QED BY <1>1, <1>2, <1>3, <1>4, <1>5, <1>6, <1>7, <1>8, <1>9 DEF Next, Host, Shim

(* Whatever the ring size and the blocks, and wherever the host restarts:   *)
(* the ring hands the shim what a queue of Frames - 1 frames would.         *)
THEOREM RingIsFifo == Spec => ImplementsFifo
<1>1. Init => IInv BY InitHolds
<1>2. IInv /\ [Next]_vars => IInv' BY NextKeeps
<1> QED BY <1>1, <1>2, InitRefines, NextRefines, PTL DEF Spec, ImplementsFifo, Fifo!Spec
=============================================================================
