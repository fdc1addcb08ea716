------------------------------ MODULE PcmPath -------------------------------
(***************************************************************************)
(* The way of the sound of one AirPlay session from the receiver's         *)
(* delivery thread to the encoder of its room: BridgeAudioSession (airplay *)
(* lib.rs) pushes frames into a PcmQueue and announces them with coalesced *)
(* events; the bridge runtime takes an event, drains a batch and writes it *)
(* to the input of the encoder, a PcmQueue too; the encoder task encodes.  *)
(*                                                                         *)
(* The delivery thread, the runtime and the encoder run in parallel and    *)
(* meet at locks held for one queue operation.  A connection is realtime   *)
(* (old sound is dropped) or buffered (sound carries credits and is never  *)
(* dropped; the producer retries).                                         *)
(*                                                                         *)
(* A length of sound counts in abstract samples: QueueSamples are 250 ms.  *)
(* The receiver library that calls BridgeAudioSession is external.         *)
(***************************************************************************)
EXTENDS Naturals, Sequences, FiniteSets, SequencesExt

CONSTANTS QueueSamples,   \* capacity of the adapter queue, and the credits
          InputSamples,   \* capacity of the encoder input
          PacketSamples,  \* the longest packet the receiver decodes
          MaxSamples,     \* bound: samples the sender sends between flushes
          MaxFlushes,     \* bound: flushes
          MaxRestarts,    \* bound: encoders replaced or lost without a flush
          Nothing

ASSUME CapacityAssumption ==
    /\ QueueSamples \in Nat \ {0} /\ InputSamples \in Nat /\ PacketSamples \in Nat
    /\ QueueSamples <= InputSamples
ASSUME NothingAssumption == Nothing \notin [id : Nat, left : Nat]
ASSUME PathBoundsAssumption == {MaxSamples, MaxFlushes, MaxRestarts} \subseteq Nat

VARIABLES buffered,  \* the kind of the connection
          packet,    \* samples of the packet being delivered, 0 for none
          progress,  \* buffered_progress: samples of it already admitted
          position,  \* samples sent before that packet since the last flush
          epoch,     \* playback_epoch of the adapter
          queue,     \* the adapter queue that is filled now
          unsent,    \* push asked for an event that is not sent yet
          ended,     \* the audio session is gone
          events,    \* the channel to the runtime
          batch,     \* the queue the runtime drains and the frames left to pop
          seen,      \* playback_epoch of the runtime's session
          encoder,   \* the encoder of the session, or Nothing
          retired,   \* frames still held by tasks of replaced encoders
          flushes, restarts

producer == <<buffered, packet, progress, position, epoch>>
runtime == <<batch, seen>>
bounds == <<flushes, restarts>>
vars == <<buffered, packet, progress, position, epoch, queue, unsent, ended, events,
          batch, seen, encoder, retired, flushes, restarts>>

Frame == [epoch : Nat, at : Nat, size : 1..PacketSamples]

----------------------------------------------------------------------------
(* Queues.                                                                 *)

(* The samples of some frames; none is longer than a packet.               *)
Sound(frames) == {x \in (DOMAIN frames) \X (1..PacketSamples) : x[2] <= frames[x[1]].size}
Samples(frames) == Cardinality(Sound(frames))

Without(frames, k) == SubSeq(frames, k + 1, Len(frames))

(* How many frames at the front may have expired: arrivals age in order,   *)
(* and a frame with a permit never does.                                   *)
\* Wrong variant of Expired: frames with a permit age too.
ExpiredAny(frames) == 0..Len(frames)
Expired(frames) == IF buffered THEN {0} ELSE 0..Len(frames)

(* push_at: how many frames at the front make room for a frame, by age or  *)
(* by overflow.  None does when the front has a permit and is in the way.  *)
RoomFor(frames, frame, capacity) ==
    {k \in Expired(frames) : Samples(Without(frames, k)) + frame.size <= capacity}

NewQueue(id) == [id |-> id, frames |-> <<>>, notified |-> FALSE]

(* Buffered frames in the hands of anyone: their permits are the credits   *)
(* in use.  A flush makes new credits, so frames of an older epoch count   *)
(* no more.                                                                *)
Credits(frames, e) == Cardinality({x \in Sound(frames) : frames[x[1]].epoch = e})

InUse ==
    Credits(queue.frames, epoch) + Credits(retired, epoch) +
    (IF encoder = Nothing
     THEN 0 ELSE Credits(encoder.input, epoch) + Credits(encoder.frame, epoch))

Init ==
    /\ buffered \in BOOLEAN
    /\ packet = 0 /\ progress = 0 /\ position = 0 /\ epoch = 0
    /\ queue = NewQueue(0)
    /\ unsent = FALSE /\ ended = FALSE
    /\ events = <<>>
    /\ batch = Nothing /\ seen = 0
    /\ encoder = [epoch |-> 0, released |-> FALSE, input |-> <<>>, frame |-> <<>>, next |-> Nothing]
    /\ retired = <<>>
    /\ flushes = 0 /\ restarts = 0

----------------------------------------------------------------------------
(* The delivery thread.                                                    *)

Delivering == ~ended /\ ~unsent

(* emit_pcm: one frame into the queue; the event follows the push.         *)
Push(frame, k) ==
    /\ queue' = [queue EXCEPT !.frames = Append(Without(@, k), frame), !.notified = TRUE]
    /\ unsent' = ~queue.notified

(* audio_process_timed: a frame the queue cannot hold is dropped.          *)
Realtime ==
    /\ Delivering /\ ~buffered
    /\ \E size \in 1..PacketSamples :
          /\ position + size <= MaxSamples
          /\ position' = position + size
          /\ IF size > QueueSamples
             THEN UNCHANGED <<queue, unsent>>
             ELSE LET frame == [epoch |-> epoch, at |-> position, size |-> size]
                  IN  \E k \in RoomFor(queue.frames, frame, QueueSamples) : Push(frame, k)
    /\ UNCHANGED <<buffered, packet, progress, epoch, ended, events, runtime, encoder, retired,
                   bounds>>

(* The receiver has decoded the next packet of a buffered connection.      *)
Packet ==
    /\ Delivering /\ buffered
    /\ packet = 0
    /\ packet' \in 1..PacketSamples
    /\ position + packet' <= MaxSamples
    /\ UNCHANGED <<buffered, progress, position, epoch, queue, unsent, ended, events, runtime,
                   encoder, retired, bounds>>

(* The admitted part of a packet is not delivered again on a retry.        *)
Advance(size) ==
    IF progress + size = packet
    THEN packet' = 0 /\ progress' = 0 /\ position' = position + packet
    ELSE progress' = progress + size /\ UNCHANGED <<packet, position>>

(* One round of the loop of audio_process_buffered, when there are credits *)
(* and room for it; without, it returns false and the thread tries again   *)
(* later.                                                                  *)
Chunk ==
    /\ Delivering
    /\ packet # 0
    /\ LET size == Min({QueueSamples, packet - progress})
           frame == [epoch |-> epoch, at |-> position + progress, size |-> size]
       IN  /\ InUse + size <= QueueSamples
           /\ \E k \in RoomFor(queue.frames, frame, QueueSamples) : Push(frame, k)
           /\ Advance(size)
    /\ UNCHANGED <<buffered, epoch, ended, events, runtime, encoder, retired, bounds>>

(* The rest of emit_pcm.                                                   *)
SendEvent ==
    /\ unsent
    /\ unsent' = FALSE
    /\ events' = Append(events, [type |-> "Pcm", id |-> queue.id])
    /\ UNCHANGED <<producer, queue, ended, runtime, encoder, retired, bounds>>

\* Wrong variant of Flush: the queue is emptied and used for the next epoch.
FlushKeepsQueue ==
    /\ Delivering
    /\ flushes < MaxFlushes
    /\ flushes' = flushes + 1
    /\ packet' = 0 /\ progress' = 0 /\ position' = 0
    /\ epoch' = epoch + 1
    /\ queue' = [queue EXCEPT !.frames = <<>>]
    /\ events' = Append(events, [type |-> "Flushed", epoch |-> epoch + 1])
    /\ UNCHANGED <<buffered, unsent, ended, runtime, encoder, retired, restarts>>

(* audio_flush: the queue is closed and cleared, and a new one takes over. *)
Flush ==
    /\ Delivering
    /\ flushes < MaxFlushes
    /\ flushes' = flushes + 1
    /\ packet' = 0 /\ progress' = 0 /\ position' = 0
    /\ epoch' = epoch + 1
    /\ queue' = NewQueue(epoch + 1)
    /\ events' = Append(events, [type |-> "Flushed", epoch |-> epoch + 1])
    /\ UNCHANGED <<buffered, unsent, ended, runtime, encoder, retired, restarts>>

(* audio_stopped and the drop of the session: the queue is closed and      *)
(* cleared.  After StreamEndedWhilePaused the drop sends no event.         *)
End ==
    /\ Delivering
    /\ ended' = TRUE
    /\ packet' = 0 /\ progress' = 0
    /\ queue' = [queue EXCEPT !.frames = <<>>]
    /\ \E t \in {"SessionStopped", "StreamEndedWhilePaused"} :
          events' = Append(events, [type |-> t])
    /\ UNCHANGED <<buffered, position, epoch, unsent, runtime, encoder, retired, bounds>>

----------------------------------------------------------------------------
(* The runtime.                                                            *)

NewEncoder(e) ==
    [epoch |-> e, released |-> FALSE, input |-> <<>>, frame |-> <<>>, next |-> Nothing]

(* registry.remove closes the stream, which closes and clears the input;   *)
(* the task still holds the frame it works on.                             *)
Retire ==
    retired' = retired \o (IF encoder = Nothing THEN <<>> ELSE encoder.frame)

Event == batch = Nothing /\ events # <<>> /\ events' = Tail(events)

\* Wrong variant of BeginBatch: notification is rearmed by the last pop only.
BeginBatchUnarmed ==
    /\ Event
    /\ Head(events).type = "Pcm"
    /\ IF Head(events).id # queue.id
       THEN UNCHANGED <<batch, queue>>
       ELSE \E k \in Expired(queue.frames) :
               /\ queue' = [queue EXCEPT !.frames = Without(@, k)]
               /\ batch' = IF queue'.frames = <<>> THEN Nothing
                           ELSE [id |-> queue.id, left |-> Len(queue'.frames)]
    /\ UNCHANGED <<producer, unsent, ended, seen, encoder, retired, bounds>>

(* Pcm: begin_batch counts the frames and rearms notification.  The queue  *)
(* of an earlier epoch is empty.                                           *)
BeginBatch ==
    /\ Event
    /\ Head(events).type = "Pcm"
    /\ IF Head(events).id # queue.id
       THEN UNCHANGED <<batch, queue>>
       ELSE \E k \in Expired(queue.frames) :
               /\ queue' = [queue EXCEPT !.frames = Without(@, k), !.notified = FALSE]
               /\ batch' = IF queue'.frames = <<>> THEN Nothing
                           ELSE [id |-> queue.id, left |-> Len(queue'.frames)]
    /\ UNCHANGED <<producer, unsent, ended, seen, encoder, retired, bounds>>

(* try_write_frame: into the input, where a frame that finds no room is    *)
(* dropped.                                                                *)
Write(frame) ==
    IF encoder # Nothing /\ frame.epoch = seen
    THEN \/ \E k \in RoomFor(encoder.input, frame, InputSamples) :
               encoder' = [encoder EXCEPT !.input = Append(Without(@, k), frame)]
         \/ /\ RoomFor(encoder.input, frame, InputSamples) = {}
            /\ UNCHANGED encoder
    ELSE UNCHANGED encoder

\* Wrong variant of Remaining: the batch ends one frame early.
RemainingFewer(b) == IF b.left <= 2 THEN Nothing ELSE [b EXCEPT !.left = @ - 1]
Remaining(b) == IF b.left = 1 THEN Nothing ELSE [b EXCEPT !.left = @ - 1]

(* One round of the batch: pop, and write what it returned.  A pop that    *)
(* finds nothing rearms notification and ends the batch.                   *)
Pop ==
    /\ batch # Nothing
    /\ IF batch.id # queue.id
       THEN batch' = Nothing /\ UNCHANGED <<queue, encoder>>
       ELSE \E k \in Expired(queue.frames) :
               LET frames == Without(queue.frames, k)
               IN  IF frames = <<>>
                   THEN /\ batch' = Nothing
                        /\ queue' = [queue EXCEPT !.frames = <<>>, !.notified = FALSE]
                        /\ UNCHANGED encoder
                   ELSE /\ batch' = Remaining(batch)
                        /\ queue' = [queue EXCEPT !.frames = Tail(frames)]
                        /\ Write(Head(frames))
    /\ UNCHANGED <<producer, unsent, ended, events, seen, retired, bounds>>

(* Flushed: a new encoder when the session plays, none while it is paused  *)
(* or when none can be created.                                            *)
Flushed ==
    /\ Event
    /\ Head(events).type = "Flushed"
    /\ seen' = Head(events).epoch
    /\ encoder' \in {NewEncoder(seen'), Nothing}
    /\ Retire
    /\ UNCHANGED <<producer, queue, unsent, ended, batch, bounds>>

(* SessionStopped                                                          *)
Stopped ==
    /\ Event
    /\ Head(events).type = "SessionStopped"
    /\ encoder' = Nothing
    /\ Retire
    /\ UNCHANGED <<producer, queue, unsent, ended, runtime, bounds>>

(* StreamEndedWhilePaused keeps the session and touches no sound.          *)
EndedWhilePaused ==
    /\ Event
    /\ Head(events).type = "StreamEndedWhilePaused"
    /\ UNCHANGED <<producer, queue, unsent, ended, runtime, encoder, retired, bounds>>

(* A restart without a flush, between events: a resume or a retry; or an   *)
(* encoder whose input closed, found while a batch is written.  A session  *)
(* whose last event is handled is paused for good or removed.              *)
Replace ==
    /\ restarts < MaxRestarts
    /\ restarts' = restarts + 1
    /\ \/ encoder' = Nothing
       \/ /\ batch = Nothing /\ (ended => events # <<>>)
          /\ encoder' = NewEncoder(seen)
    /\ Retire
    /\ UNCHANGED <<producer, queue, unsent, ended, events, runtime, flushes>>

(* The stream gets its playback plan.                                      *)
Release ==
    /\ encoder # Nothing /\ ~encoder.released
    /\ encoder' = [encoder EXCEPT !.released = TRUE]
    /\ UNCHANGED <<producer, queue, unsent, ended, events, runtime, retired, bounds>>

----------------------------------------------------------------------------
(* The encoder task.                                                       *)

(* recv, once the stream is released.                                      *)
Receive ==
    /\ encoder # Nothing /\ encoder.released /\ encoder.frame = <<>>
    /\ \E k \in Expired(encoder.input) :
          LET frames == Without(encoder.input, k)
          IN  /\ frames # <<>>
              /\ encoder' = [encoder EXCEPT !.input = Tail(frames), !.frame = <<Head(frames)>>]
    /\ UNCHANGED <<producer, queue, unsent, ended, events, runtime, retired, bounds>>

(* The frame is encoded, or dropped: it belongs to another epoch, or it is *)
(* older than the start of a stream that has not begun.                    *)
Encode ==
    /\ encoder # Nothing /\ encoder.frame # <<>>
    /\ LET frame == Head(encoder.frame)
       IN  \/ /\ frame.epoch = encoder.epoch
              /\ encoder' = [encoder EXCEPT !.frame = <<>>, !.next = frame.at + frame.size]
           \/ /\ frame.epoch # encoder.epoch \/ encoder.next = Nothing
              /\ encoder' = [encoder EXCEPT !.frame = <<>>]
    /\ UNCHANGED <<producer, queue, unsent, ended, events, runtime, retired, bounds>>

(* The task of a replaced encoder ends.                                    *)
RetiredEnds ==
    /\ \E i \in DOMAIN retired : retired' = RemoveAt(retired, i)
    /\ UNCHANGED <<producer, queue, unsent, ended, events, runtime, encoder, bounds>>

----------------------------------------------------------------------------
Producer == Chunk \/ SendEvent
Runtime == BeginBatch \/ Pop \/ Flushed \/ Stopped \/ EndedWhilePaused
Encoder == Receive \/ Encode

Next ==
    \/ Producer \/ Realtime \/ Packet \/ Flush \/ End
    \/ Runtime \/ Replace \/ Release
    \/ Encoder \/ RetiredEnds

(* The delivery thread retries every ten milliseconds, the runtime waits   *)
(* for nothing but events, and an encoder encodes what it has and ends     *)
(* when its stream is closed.  Nothing forces a stream to be released.     *)
Fairness ==
    /\ WF_vars(Producer) /\ WF_vars(Runtime) /\ WF_vars(Encoder) /\ WF_vars(RetiredEnds)

Spec == Init /\ [][Next]_vars /\ Fairness

----------------------------------------------------------------------------
Announcements == {i \in DOMAIN events : events[i] = [type |-> "Pcm", id |-> queue.id]}

(* Sound in the adapter queue always has an event of its queue under way,  *)
(* or is counted in the batch being drained: coalescing never leaves a     *)
(* frame that nobody will fetch.                                           *)
NoFrameForgotten ==
    queue.frames # <<>> =>
        \/ unsent \/ Announcements # {}
        \/ batch # Nothing /\ batch.id = queue.id /\ batch.left >= Len(queue.frames)

(* The runtime drains a queue only after it handled the flush that began   *)
(* it, so no new sound is dropped for its epoch; and an encoder never gets *)
(* sound of another epoch than its own.                                    *)
EpochsAgree ==
    /\ batch # Nothing /\ batch.id = queue.id =>
          \A i \in DOMAIN queue.frames : queue.frames[i].epoch = seen
    /\ encoder # Nothing =>
          \A i \in DOMAIN encoder.input : encoder.input[i].epoch = encoder.epoch

(* Buffered sound reaches the encoder without a gap and without a repeat   *)
(* once its stream has begun, whatever was retried, admitted in parts or   *)
(* waited; realtime sound may have gaps but is never out of order.         *)
SoundInOrder ==
    encoder # Nothing /\ encoder.frame # <<>> /\ encoder.next # Nothing =>
        LET at == Head(encoder.frame).at
        IN  IF buffered THEN at = encoder.next ELSE at >= encoder.next

(* A packet of buffered sound is admitted in the end, unless the stream of *)
(* the room is held: credits come back from every way a frame can go.      *)
Held == encoder # Nothing /\ ~encoder.released

BufferedProgresses == packet # 0 ~> (packet = 0 \/ Held)
=============================================================================
