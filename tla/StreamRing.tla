----------------------------- MODULE StreamRing -----------------------------
(***************************************************************************)
(* The audio ring of src/src/dsp/yt_stream_plugin.c: pump_pipe reads bytes *)
(* from the stream process into a ring of 16 bit samples, v2_render_block  *)
(* plays from it and the seek commands move the play position inside it.   *)
(*                                                                         *)
(* Everything here runs under g_lock: a command is one action, and         *)
(* v2_render_block is cut into the rounds of its read loop (pc = "pump")   *)
(* and what follows the loop (pc = "pop").  Which stream is opened and     *)
(* when is the subject of Playback; here a stream may open whenever        *)
(* v2_render_block or a command may open one.                              *)
(*                                                                         *)
(* A byte is its offset in the stream that sent it, a sample the pair of   *)
(* its bytes.  A stereo frame is two samples, four bytes.                  *)
(***************************************************************************)
EXTENDS Integers, Sequences

CONSTANTS
  RingSamples,   (* RING_SAMPLES: 60 s                                      *)
  Limit,         (* the samples buffered ahead at which reading stops: 45 s *)
  Chunk,         (* the samples of one full read: 2048                      *)
  ReadSizes,     (* the byte counts a read can return, at most 2 * Chunk    *)
  Needed,        (* the samples of one rendered block                       *)
  Prime,         (* the samples a new stream buffers before it plays        *)
  Deltas,        (* the sample distances of the seek commands               *)
  Silence,       (* what a ring slot holds before it is written             *)
  MaxBytes,      (* bound: the bytes of one stream                          *)
  MaxStreams     (* bound: the streams of one behaviour                     *)

ASSUME SizeAssumption ==
  /\ RingSamples \in Nat \ {0} /\ Limit \in Nat /\ Chunk \in Nat \ {0}
  /\ Needed \in Nat /\ Prime \in Nat
  /\ Limit <= RingSamples
  /\ ReadSizes \subseteq 1..(2 * Chunk)
  /\ Deltas \subseteq Int
  /\ MaxBytes \in Nat /\ MaxStreams \in Nat

(* Sizes and distances count whole frames. *)
ASSUME FrameAssumption ==
  /\ RingSamples % 2 = 0 /\ Chunk % 2 = 0 /\ Needed % 2 = 0
  /\ \A d \in Deltas : d % 2 = 0

ASSUME SilenceAssumption == Silence \notin Nat \X Nat

VARIABLES
  loaded,                          \* stream_url is not empty
  pipe,                            \* the stream: none, or how it was opened
  eof, paused,                     \* stream_eof, paused
  fellBack,                        \* resolved_fallback_attempted
  ring, writePos,                  \* ring, write_pos
  writeAbs, playAbs,               \* write_abs, play_abs (= played_samples)
  dropped,                         \* dropped_samples
  pending,                         \* pending_bytes, pending_len long
  prime,                           \* prime_needed_samples
  sent, streams,                   \* history: bytes read of this stream; streams opened
  joined,                          \* history: a stream was opened behind another's audio
  pc                               \* where v2_render_block stands

control == <<loaded, pipe, eof, paused, fellBack>>
positions == <<writePos, writeAbs, playAbs, dropped>>
history == <<sent, streams, joined>>
vars == <<control, ring, positions, pending, prime, history, pc>>

Sample == Nat \X Nat

(* The state type. *)
TypeOK ==
  /\ loaded \in BOOLEAN /\ eof \in BOOLEAN /\ paused \in BOOLEAN
  /\ fellBack \in BOOLEAN /\ joined \in BOOLEAN
  /\ pipe \in {"none", "resolved", "legacy"}
  /\ ring \in [0..(RingSamples - 1) -> Sample \cup {Silence}]
  /\ writePos \in Nat /\ writePos < RingSamples
  /\ writeAbs \in Nat /\ playAbs \in Nat /\ dropped \in Nat
  /\ pending \in Seq(Nat) /\ Len(pending) < 4
  /\ prime \in {0, Prime}
  /\ sent \in Nat /\ streams \in Nat
  /\ pc \in {"idle", "pump", "pop"}

Init ==
  /\ loaded = FALSE /\ pipe = "none" /\ eof = FALSE /\ paused = FALSE /\ fellBack = FALSE
  /\ ring = [p \in 0..(RingSamples - 1) |-> Silence]
  /\ writePos = 0 /\ writeAbs = 0 /\ playAbs = 0 /\ dropped = 0
  /\ pending = <<>> /\ prime = 0
  /\ sent = 0 /\ streams = 0 /\ joined = FALSE
  /\ pc = "idle"

-----------------------------------------------------------------------------
(* ring_oldest_abs, ring_available *)
OldestOf(w) == IF w > RingSamples THEN w - RingSamples ELSE 0
Oldest == OldestOf(writeAbs)

Available ==
  LET ahead == writeAbs - playAbs
  IN IF writeAbs <= playAbs THEN 0 ELSE IF ahead > RingSamples THEN RingSamples ELSE ahead

(* clear_ring leaves the samples where they are. *)
ClearRing ==
  /\ writePos' = 0 /\ writeAbs' = 0 /\ playAbs' = 0 /\ dropped' = 0
  /\ pending' = <<>>
  /\ sent' = 0 /\ joined' = FALSE
  /\ UNCHANGED ring

(* spawn_stream_command and what its caller sets on success. *)
Opened(how) ==
  /\ streams < MaxStreams /\ streams' = streams + 1
  /\ pipe' = how /\ eof' = FALSE
  /\ prime' = Prime

-----------------------------------------------------------------------------
(* v2_set_param, as far as it touches the ring.                             *)
Command == pc = "idle"

(* stream_url, restart and the next result: restart_stream_from_beginning,  *)
(* with the legacy stream opened at once for some providers.                *)
Load ==
  /\ Command
  /\ loaded' = TRUE /\ paused' = FALSE /\ fellBack' = FALSE
  /\ ClearRing
  /\ \/ Opened("legacy")
     \/ /\ pipe' = "none" /\ prime' = 0 /\ eof' \in BOOLEAN
        /\ UNCHANGED streams
  /\ UNCHANGED pc

(* stop_everything. *)
Stop ==
  /\ Command
  /\ loaded' = FALSE /\ pipe' = "none" /\ eof' = FALSE /\ paused' = FALSE /\ fellBack' = FALSE
  /\ ClearRing /\ prime' = 0
  /\ UNCHANGED <<streams, pc>>

TogglePause ==
  /\ Command
  /\ loaded /\ ~eof
  /\ paused' = ~paused
  /\ UNCHANGED <<loaded, pipe, eof, fellBack, ring, positions, pending, prime, history, pc>>

(* seek_relative_seconds. *)
(* (A definition marked "mutant" is a bug this code could have had: the     *)
(* properties are checked to notice it.)                                    *)
SeekPastRing(target) ==  \* mutant: the floor is the first sample, not the oldest one kept
  IF target < 0 THEN 0 ELSE IF target > writeAbs THEN writeAbs ELSE target
SeekTarget(target) ==
  LET floored == IF target < Oldest THEN Oldest ELSE target
  IN IF floored > writeAbs THEN writeAbs ELSE floored

Seek(d) ==
  /\ Command
  /\ loaded
  /\ playAbs' = SeekTarget(playAbs + d)
  /\ UNCHANGED <<control, ring, writePos, writeAbs, dropped, pending, prime, history, pc>>

(* download_wav stops the stream and pauses; the ring stays as it is. *)
DownloadWav ==
  /\ Command
  /\ loaded
  /\ pipe' = "none" /\ paused' = TRUE
  /\ UNCHANGED <<loaded, eof, fellBack, ring, positions, pending, prime, history, pc>>

-----------------------------------------------------------------------------
(* v2_render_block *)
Renders == pc = "idle" /\ loaded /\ ~eof /\ ~paused

(* A stream plays already. *)
RenderBegins ==
  /\ Renders /\ pipe # "none"
  /\ pc' = "pump"
  /\ UNCHANGED <<control, ring, positions, pending, prime, history>>

(* A stream is opened, behind whatever the ring still holds; or neither way *)
(* of opening one works.  (Waiting for a resolve answer changes nothing.)   *)
RenderOpens ==
  /\ Renders /\ pipe = "none"
  /\ \E how \in {"resolved", "legacy"} : Opened(how)
  /\ sent' = 0
  /\ joined' = (joined \/ writeAbs > 0 \/ pending # <<>>)
  /\ pc' = "pump"
  /\ UNCHANGED <<loaded, paused, fellBack, ring, positions, pending>>

RenderCannotOpen ==
  /\ Renders /\ pipe = "none"
  /\ eof' = TRUE
  /\ pc' = "pump"
  /\ UNCHANGED <<loaded, pipe, paused, fellBack, ring, positions, pending, prime, history>>

(* pump_pipe reads only when a full read fits in front of the limit. *)
FullAtRing == Available + Chunk >= RingSamples  \* mutant
Full == Available + Chunk >= Limit

(* ring_push of the samples s. *)
Written(s) ==
  [p \in 0..(RingSamples - 1) |->
     LET k == ((p - writePos) % RingSamples) + 1
     IN IF k <= Len(s) THEN s[k] ELSE ring[p]]

PosAfterNoWrap(n) == writePos + n  \* mutant
PosAfter(n) == (writePos + n) % RingSamples

Push(s) ==
  LET oldest == OldestOf(writeAbs + Len(s))
      lost == IF playAbs < oldest THEN oldest - playAbs ELSE 0
  IN /\ ring' = Written(s)
     /\ writePos' = PosAfter(Len(s))
     /\ writeAbs' = writeAbs + Len(s)
     /\ dropped' = dropped + lost
     /\ playAbs' = playAbs + lost

(* n bytes are read and put behind the pending ones; whole frames go to the *)
(* ring and the rest is pending.  A short read ends the loop.               *)
FrameBytes(n) == n - (n % 4)
KeepsNothing(bytes) == <<>>  \* mutant: the rest of a frame is lost
Rest(bytes) == SubSeq(bytes, FrameBytes(Len(bytes)) + 1, Len(bytes))

SamplesIn(bytes) == [k \in 1..(FrameBytes(Len(bytes)) \div 2) |-> <<bytes[2 * k - 1], bytes[2 * k]>>]

Merged(n) == pending \o [i \in 1..n |-> sent + i - 1]

Pumps == pc = "pump" /\ pipe # "none" /\ ~eof /\ ~Full

PumpReads(n) ==
  /\ Pumps
  /\ sent + n <= MaxBytes
  /\ Push(SamplesIn(Merged(n)))
  /\ pending' = Rest(Merged(n))
  /\ sent' = sent + n
  /\ pc' = IF n < 2 * Chunk THEN "pop" ELSE "pump"
  /\ UNCHANGED <<control, prime, streams, joined>>

(* Nothing to read now, or no room, or the stream has ended before. *)
PumpStops ==
  /\ pc = "pump"
  /\ pc' = "pop"
  /\ UNCHANGED <<control, ring, positions, pending, prime, history>>

(* End of stream or a read error: a resolved stream falls back once, with   *)
(* an empty ring; else the stream has ended.                                *)
PumpEnds ==
  /\ Pumps
  /\ pipe' = "none"
  /\ pc' = "pop"
  /\ \/ /\ pipe = "resolved" /\ ~fellBack
        /\ fellBack' = TRUE
        /\ ClearRing /\ prime' = 0
        /\ UNCHANGED <<eof, streams>>
     \/ /\ eof' = TRUE
        /\ UNCHANGED <<fellBack, ring, positions, pending, prime, history>>
  /\ UNCHANGED <<loaded, paused>>

(* A new stream buffers first; then a block is played, or what there is. *)
Priming == prime > 0 /\ Available < prime /\ ~eof

RenderPops ==
  /\ pc = "pop"
  /\ pc' = "idle"
  /\ \/ Priming /\ UNCHANGED <<prime, playAbs>>
     \/ /\ ~Priming
        /\ prime' = 0
        /\ playAbs' = playAbs + (IF Available > Needed THEN Needed ELSE Available)
  /\ UNCHANGED <<control, ring, writePos, writeAbs, dropped, pending, history>>

-----------------------------------------------------------------------------
Next ==
  \/ Load \/ Stop \/ TogglePause \/ DownloadWav
  \/ \E d \in Deltas : Seek(d)
  \/ RenderBegins \/ RenderOpens \/ RenderCannotOpen
  \/ \E n \in ReadSizes : PumpReads(n)
  \/ PumpStops \/ PumpEnds \/ RenderPops

Spec == Init /\ [][Next]_vars

-----------------------------------------------------------------------------
(* "The backpressure check in pump_pipe should prevent this": no sample is  *)
(* overwritten before it was played, however reads, seeks and blocks        *)
(* alternate, so the snap in ring_push never happens.                       *)
NothingDropped == dropped = 0

(* The play position is always inside what the ring holds: a seek never     *)
(* reaches samples that were overwritten or not yet written.                *)
PlaysInsideRing == Oldest <= playAbs /\ playAbs <= writeAbs

(* The play position is a frame boundary: whatever is read, sought, popped  *)
(* or ended early, a block starts with the first sample of a pair.          *)
PlaysFromFrame == playAbs % 2 = 0

(* Together: whatever reads, seeks and renders alternate like, no sample is  *)
(* lost to the wrap before it is played, none is played from outside, and    *)
(* left is never taken for right.                                           *)
StaysInRing == NothingDropped /\ PlaysInsideRing /\ PlaysFromFrame

(* "This reserves ~15s of the 60s ring for rewind": reading on never leaves *)
(* less than RingSamples - Limit samples behind the play position, or all   *)
(* that were played if these are fewer.                                     *)
RewindReserved ==
  [][writeAbs' > writeAbs =>
       \/ OldestOf(writeAbs') = 0
       \/ playAbs - OldestOf(writeAbs') >= RingSamples - Limit]_vars

(* Every sample in reach of playing and of seeking is, byte for byte, the   *)
(* one the stream sent at that position, through partial reads, the         *)
(* wrap of the ring and fallbacks; until a stream is opened behind the      *)
(* audio of another one.                                                    *)
PlaysWhatWasSent ==
  ~joined => \A p \in Oldest..(writeAbs - 1) : ring[p % RingSamples] = <<2 * p, 2 * p + 1>>
=============================================================================
