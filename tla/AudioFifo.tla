------------------------------ MODULE AudioFifo ------------------------------
(***************************************************************************)
(* What the shared-memory ring between the host and the audio shim promises *)
(* (src/src/forceAudioInject.h: single producer, single consumer): rendered *)
(* frames come out in the order they were rendered, each at most once, and  *)
(* a frame is lost only because the queue had no room for it when the block *)
(* it belongs to was offered, or because the host was restarted.            *)
(*                                                                          *)
(* A frame is the number of its rendering.                                  *)
(***************************************************************************)
EXTENDS Integers, Sequences

CONSTANTS Capacity,     \* frames the queue holds
          Blocks        \* sizes of the blocks the producer renders

VARIABLES made,         \* frames rendered so far
          batch,        \* frames accepted from the block being handed over
          queue,        \* frames the consumer may take
          out           \* frames the consumer took last

vars == <<made, batch, queue, out>>

Init == made = 0 /\ batch = <<>> /\ queue = <<>> /\ out = <<>>

Room(n) == IF n <= Capacity - Len(queue) THEN n ELSE Capacity - Len(queue)

(* A block of n frames is rendered; what the queue has room for now is kept. *)
Accept(n) ==
    /\ batch = <<>>
    /\ batch' = [j \in 1..Room(n) |-> made + j]
    /\ made' = made + n
    /\ UNCHANGED <<queue, out>>

(* The accepted frames become visible to the consumer, all at once. *)
Publish ==
    /\ queue' = queue \o batch
    /\ batch' = <<>>
    /\ UNCHANGED <<made, out>>

(* The consumer takes the k oldest frames. *)
Take(k) ==
    /\ out' = SubSeq(queue, 1, k)
    /\ queue' = SubSeq(queue, k + 1, Len(queue))
    /\ UNCHANGED <<made, batch>>

(* The host is restarted: what had not been taken is gone. *)
Restart ==
    /\ batch' = <<>>
    /\ queue' = <<>>
    /\ UNCHANGED <<made, out>>

Next ==
    \/ \E n \in Blocks : Accept(n)
    \/ Publish
    \/ \E k \in 0..Len(queue) : Take(k)
    \/ Restart

Spec == Init /\ [][Next]_vars
=============================================================================
