------------------------------- MODULE ShmRing -------------------------------
(***************************************************************************)
(* The shared-memory ring the host writes its audio to: shm_setup and      *)
(* ring_push of src/src/cratedigger_host.cpp, and the segment's layout in  *)
(* src/src/forceAudioInject.h.  The consumer, the shim inside the audio     *)
(* application, is not in this repository: it is modelled from the layout's *)
(* contract (it reads head, copies frames, then publishes tail).            *)
(* A definition marked "mutant" is a bug this code could have had.          *)
(*                                                                          *)
(* Neither side takes a lock, so every frame is copied in a step of its own *)
(* and head and tail change in steps of their own.  head and tail are       *)
(* stored modulo Frames; the code's mask of a uint32_t difference is that   *)
(* remainder because Frames (2^16) divides 2^32.                            *)
(***************************************************************************)
EXTENDS Integers, Sequences

CONSTANTS Frames,       \* AI_RING_FRAMES
          Blocks,       \* block sizes timer_loop renders
          MaxMade,      \* bound: frames rendered in a run
          MaxRestarts   \* bound: restarts of the host

ASSUME FramesAssumption == Frames \in Nat /\ Frames >= 2
ASSUME BlocksAssumption == Blocks \subseteq Nat \ {0}
ASSUME BoundsAssumption == MaxMade \in Nat /\ MaxRestarts \in Nat

VARIABLES
    ring,       \* the frame in each slot, 0 for silence
    head,       \* frames produced, modulo Frames
    tail,       \* frames consumed, modulo Frames
    made,       \* frames rendered by the host
    producer,   \* ring_push: pc, number of its first frame, take, frames written
    consumer,   \* the shim: pc, frames it will take, frames copied
    out,        \* what the shim mixed in last
    attached,   \* the shim has the current segment mapped
    restarts

vars == <<ring, head, tail, made, producer, consumer, out, attached, restarts>>

Slots == 0..(Frames - 1)
Idle == [pc |-> "idle", first |-> 0, take |-> 0, i |-> 0]
Waiting == [pc |-> "idle", k |-> 0, got |-> <<>>]
Silence == [s \in Slots |-> 0]

Init ==
    /\ ring = Silence
    /\ head = 0 /\ tail = 0 /\ made = 0
    /\ producer = Idle
    /\ consumer = Waiting
    /\ out = <<>>
    /\ attached = FALSE
    /\ restarts = 0

(* Frames between tail and head. *)
Used == (head - tail) % Frames

(* One slot stays empty, so that a full ring differs from an empty one. *)
Space == (Frames - 1) - Used

Smaller(a, b) == IF a <= b THEN a ELSE b

-----------------------------------------------------------------------------
(* The host. *)

(* ring_push: read head and tail; what does not fit is dropped. *)
PushBegin(n) ==
    /\ producer.pc = "idle"
    /\ made + n <= MaxMade
    /\ producer' = [pc |-> "write", first |-> made + 1,
                    take |-> Smaller(n, Space), i |-> 0]
    /\ made' = made + n
    /\ UNCHANGED <<ring, head, tail, consumer, out, attached, restarts>>

(* ring_push: one turn of the copying loop. *)
PushFrame ==
    /\ producer.pc = "write" /\ producer.i < producer.take
    /\ ring' = [ring EXCEPT ![(head + producer.i) % Frames] =
                                producer.first + producer.i]
    /\ producer' = [producer EXCEPT !.i = @ + 1]
    /\ UNCHANGED <<head, tail, made, consumer, out, attached, restarts>>

(* ring_push: publish head, after the last frame. *)
PushEnd ==
    /\ producer.pc = "write" /\ producer.i = producer.take
    /\ head' = (head + producer.take) % Frames
    /\ producer' = Idle
    /\ UNCHANGED <<ring, tail, made, consumer, out, attached, restarts>>

RestartInPlace ==  \* mutant: the segment is not unlinked, only cleared
    /\ restarts < MaxRestarts
    /\ restarts' = restarts + 1
    /\ ring' = Silence
    /\ head' = 0 /\ tail' = 0
    /\ producer' = Idle
    /\ UNCHANGED <<made, consumer, out, attached>>

(* The host dies at any point and starts again.  shm_setup unlinks the old  *)
(* segment first, so the new one is another piece of memory: a shim that is *)
(* in the middle of a copy goes on with the old one and touches nothing     *)
(* here.                                                                    *)
Restart ==
    /\ restarts < MaxRestarts
    /\ restarts' = restarts + 1
    /\ ring' = Silence
    /\ head' = 0 /\ tail' = 0
    /\ producer' = Idle
    /\ consumer' = Waiting
    /\ attached' = FALSE
    /\ UNCHANGED <<made, out>>

-----------------------------------------------------------------------------
(* The shim. *)

(* It maps the segment; it may come late, or not at all. *)
Attach ==
    /\ ~attached
    /\ attached' = TRUE
    /\ UNCHANGED <<ring, head, tail, made, producer, consumer, out, restarts>>

(* It reads head and decides how many frames to take. *)
TakeBegin(n) ==
    /\ attached /\ consumer.pc = "idle"
    /\ consumer' = [pc |-> "read", k |-> Smaller(n, Used), got |-> <<>>]
    /\ UNCHANGED <<ring, head, tail, made, producer, out, attached, restarts>>

TakeFrame ==
    /\ consumer.pc = "read" /\ Len(consumer.got) < consumer.k
    /\ consumer' = [consumer EXCEPT
                      !.got = Append(@, ring[(tail + Len(consumer.got)) % Frames])]
    /\ UNCHANGED <<ring, head, tail, made, producer, out, attached, restarts>>

(* It publishes tail, which releases the slots. *)
TakeEnd ==
    /\ consumer.pc = "read" /\ Len(consumer.got) = consumer.k
    /\ tail' = (tail + consumer.k) % Frames
    /\ out' = consumer.got
    /\ consumer' = Waiting
    /\ UNCHANGED <<ring, head, made, producer, attached, restarts>>

Host == (\E n \in Blocks : PushBegin(n)) \/ PushFrame \/ PushEnd \/ Restart
Shim == Attach \/ (\E n \in Blocks : TakeBegin(n)) \/ TakeFrame \/ TakeEnd
Next == Host \/ Shim

Spec == Init /\ [][Next]_vars

-----------------------------------------------------------------------------
(* The variables have the values the code gives them. *)
TypeOK ==
    /\ ring \in [Slots -> Nat]
    /\ head \in Slots /\ tail \in Slots
    /\ made \in Nat
    /\ producer \in [pc : {"idle", "write"}, first : Nat, take : Nat, i : Nat]
    /\ consumer \in [pc : {"idle", "read"}, k : Nat, got : Seq(Nat)]
    /\ out \in Seq(Nat)
    /\ attached \in BOOLEAN
    /\ restarts \in Nat

(* The ring seen as the queue the consumer is promised: the frames between  *)
(* tail and head, and the frames a push has accepted but not published.     *)
Waits == [j \in 1..Used |-> ring[(tail + j - 1) % Frames]]
Accepted == [j \in 1..producer.take |-> producer.first + j - 1]

Fifo == INSTANCE AudioFifo WITH Capacity <- Frames - 1,
                                batch <- Accepted, queue <- Waits

(* Whatever the two sides' loads, copies and stores interleave like, and    *)
(* wherever the host is restarted, the shim gets what a queue would give it: *)
(* no frame twice, none out of order, none half a lap old, and losses only   *)
(* when there was no room (ring_push, src/src/cratedigger_host.cpp).         *)
ImplementsFifo == Fifo!Spec

=============================================================================
