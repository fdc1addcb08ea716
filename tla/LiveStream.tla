----------------------------- MODULE LiveStream -----------------------------
(***************************************************************************)
(* One live stream of the registry (registry.rs), the WAV encoder task     *)
(* that publishes to it (encoder.rs) and the HTTP bodies that players read *)
(* from it (http.rs).  EncodedStream adds the encoder of an MP3 stream and *)
(* has the specification of both.                                          *)
(*                                                                         *)
(* The encoder, the HTTP handlers and the runtime run in parallel.  The    *)
(* mutex of the prelude covers attaching, detaching and the publication of *)
(* the header; everything else they share is an atomic, a watch channel or *)
(* the broadcast channel.                                                  *)
(*                                                                         *)
(* Sound is a sequence of samples numbered by their source time; a sample  *)
(* also stands for a piece of 16 KiB, the unit of the broadcast channel.   *)
(* Header is the WAV header.                                               *)
(***************************************************************************)
EXTENDS Naturals, Sequences, FiniteSets

CONSTANTS Clients,       \* the connections of players
          Capacity,      \* pieces the broadcast channel keeps for a slow reader
          FrameSamples,  \* the longest PCM frame
          MaxSamples,    \* bound: samples the source delivers
          MaxRequests,   \* bound: HTTP requests
          Nothing

ASSUME ClientsAssumption ==
    /\ IsFiniteSet(Clients)
    /\ "encoder" # Nothing /\ {"encoder", Nothing} \cap Clients = {}
ASSUME LiveBoundsAssumption ==
    /\ Capacity \in Nat \ {0} /\ FrameSamples \in Nat \ {0}
    /\ MaxSamples \in Nat /\ MaxRequests \in Nat

Header == 0

VARIABLES codec,       \* "wav" or "mp3"
          timed,       \* the source stamps its frames
          lock,        \* who holds the mutex of the prelude
          prelude,     \* the header was stored there
          sent,        \* everything put into the broadcast channel
          count,       \* subscriber_count
          connected,   \* subscriber_connected
          watched,     \* the watch channel "subscriber"
          anchor,      \* playback_anchor: the source cutoff, 0 for Unset
          released,    \* playback_release is set
          registered,  \* the registry has the stream
          closed,
          encoder,     \* what the task does; the frame in its hands; the last sample
                       \* that it skipped for the cutoff
          body,        \* connection -> its HTTP body
          requests

flags == <<count, connected, watched>>
plan == <<anchor, released>>
entry == <<registered, closed>>
kind == <<codec, timed>>
vars == <<codec, timed, lock, prelude, sent, count, connected, watched, anchor, released,
          registered, closed, encoder, body, requests>>

(* pc: no request; the handler found the stream; it subscribed; it is      *)
(* connected; the response streams; the response ended and is dropped; the *)
(* last subscriber leaves.  header: the header is to be sent first.  next: *)
(* place in the channel of the next piece.  got: what the player received, *)
(* and since: the length of the channel when it connected; the code has    *)
(* neither.                                                                *)
Idle == [pc |-> "idle", header |-> FALSE, next |-> 1, got |-> <<>>, since |-> 0]

Attached == {"subscribed", "connected", "streaming", "ended"}

Init ==
    /\ codec \in {"wav", "mp3"} /\ timed \in BOOLEAN
    /\ codec = "mp3" => timed  \* which its encoder does not read
    /\ lock = Nothing /\ prelude = FALSE
    /\ sent = <<>>
    /\ count = 0 /\ connected = FALSE /\ watched = FALSE
    /\ anchor = 0 /\ released = FALSE
    /\ registered = TRUE /\ closed = FALSE
    /\ encoder = [pc |-> IF codec = "wav" THEN "start" ELSE "pcm",
                  from |-> 1, to |-> 0, skipped |-> 0]
    /\ body = [c \in Clients |-> Idle]
    /\ requests = 0

----------------------------------------------------------------------------
(* The encoder task.                                                       *)

GoTo(pc) == encoder' = [encoder EXCEPT !.pc = pc]

(* publish_prelude: the header is stored and published under the lock.     *)
LockPrelude ==
    /\ encoder.pc = "start"
    /\ IF closed
       THEN GoTo("wait") /\ UNCHANGED <<lock, prelude>>
       ELSE /\ lock = Nothing
            /\ lock' = "encoder"
            /\ prelude' = TRUE
            /\ GoTo("header")
    /\ UNCHANGED <<kind, sent, flags, plan, entry, body, requests>>

(* Bodies attached before the header was stored get it from the channel.   *)
PublishHeader ==
    /\ encoder.pc = "header"
    /\ sent' = IF ~closed /\ connected THEN Append(sent, Header) ELSE sent
    /\ lock' = Nothing
    /\ GoTo("wait")
    /\ UNCHANGED <<kind, prelude, flags, plan, entry, body, requests>>

\* Wrong variant of WaitForRelease: closing does not end the wait.
WaitForReleaseOnly ==
    /\ encoder.pc = "wait"
    /\ released /\ GoTo("pcm")
    /\ UNCHANGED <<kind, lock, prelude, sent, flags, plan, entry, body, requests>>

(* wait_for_playback_release: closing wins.                                *)
WaitForRelease ==
    /\ encoder.pc = "wait"
    /\ \/ closed /\ GoTo("done")
       \/ ~closed /\ released /\ GoTo("pcm")
    /\ UNCHANGED <<kind, lock, prelude, sent, flags, plan, entry, body, requests>>

(* The next frame, or the end of a closed stream, whichever the select     *)
(* finds.  Untimed sound that arrived before the cutoff is dropped here.   *)
NextFrame ==
    /\ codec = "wav" /\ encoder.pc = "pcm"
    /\ \/ closed /\ GoTo("done")
       \/ \E size \in 1..FrameSamples :
             LET from == encoder.to + 1
             IN  /\ encoder.to + size <= MaxSamples
                 /\ encoder' = [encoder EXCEPT
                        !.pc = IF ~timed /\ from < anchor THEN "pcm" ELSE "frame",
                        !.from = from, !.to = @ + size]
    /\ UNCHANGED <<kind, lock, prelude, sent, flags, plan, entry, body, requests>>

(* publish_timed_pcm, the check for a subscriber.  A closed stream takes   *)
(* nothing, and without subscribers sound is dropped.                      *)
CheckSubscriber ==
    /\ encoder.pc = "frame"
    /\ GoTo(IF ~closed /\ connected THEN "anchor" ELSE "pcm")
    /\ UNCHANGED <<kind, lock, prelude, sent, flags, plan, entry, body, requests>>

(* The samples of a frame before the cutoff are cut off.                   *)
Cut(from) == IF timed /\ from < anchor THEN anchor ELSE from

CheckAnchor ==
    /\ encoder.pc = "anchor"
    /\ IF anchor = 0 \/ (timed /\ encoder.to < anchor)
       THEN encoder' = [encoder EXCEPT !.pc = "pcm", !.skipped = encoder.to]
       ELSE encoder' = [encoder EXCEPT !.pc = "send", !.from = Cut(@)]
    /\ UNCHANGED <<kind, lock, prelude, sent, flags, plan, entry, body, requests>>

(* send_served, one piece.                                                 *)
SendPiece ==
    /\ encoder.pc = "send"
    /\ sent' = Append(sent, encoder.from)
    /\ IF encoder.from = encoder.to
       THEN GoTo("pcm")
       ELSE encoder' = [encoder EXCEPT !.from = @ + 1]
    /\ UNCHANGED <<kind, lock, prelude, flags, plan, entry, body, requests>>

----------------------------------------------------------------------------
(* The runtime and the worker.                                             *)

(* set_playback_plan: the cutoff first, then the release.  An MP3 stream   *)
(* gets them too, but nothing of it reads them.                            *)
SetAnchor ==
    /\ codec = "wav" /\ anchor = 0
    /\ anchor' \in 1..MaxSamples
    /\ UNCHANGED <<kind, lock, prelude, sent, flags, released, entry, encoder, body,
                   requests>>

\* Wrong variant of SetRelease: it does not wait for the cutoff.
SetReleaseFirst ==
    /\ ~released
    /\ released' = TRUE
    /\ UNCHANGED <<kind, lock, prelude, sent, flags, anchor, entry, encoder, body, requests>>

SetRelease ==
    /\ anchor # 0 /\ ~released
    /\ released' = TRUE
    /\ UNCHANGED <<kind, lock, prelude, sent, flags, anchor, entry, encoder, body, requests>>

(* StreamRegistry::remove, or insert of the stream that replaces this one. *)
Remove ==
    /\ registered
    /\ registered' = FALSE
    /\ closed' = TRUE
    /\ UNCHANGED <<kind, lock, prelude, sent, flags, plan, encoder, body, requests>>

----------------------------------------------------------------------------
(* HTTP connections.                                                       *)

Becomes(c, pc) == body' = [body EXCEPT ![c].pc = pc]

(* stream_session finds the stream; it is not attached yet.                *)
Request(c) ==
    /\ body[c].pc = "idle"
    /\ requests < MaxRequests
    /\ registered
    /\ requests' = requests + 1
    /\ body' = [body EXCEPT ![c] = [Idle EXCEPT !.pc = "found"]]
    /\ UNCHANGED <<kind, lock, prelude, sent, flags, plan, entry, encoder>>

(* attach_subscriber, under the lock.                                      *)
Subscribe(c) ==
    /\ body[c].pc = "found"
    /\ lock = Nothing
    /\ lock' = c
    /\ count' = count + 1
    /\ body' = [body EXCEPT ![c].pc = "subscribed", ![c].next = Len(sent) + 1]
    /\ UNCHANGED <<kind, prelude, sent, connected, watched, plan, entry, encoder, requests>>

(* on_subscriber_connected                                                 *)
Connect(c) ==
    /\ body[c].pc = "subscribed"
    /\ connected' = TRUE
    /\ watched' = (watched \/ ~connected)
    /\ body' = [body EXCEPT ![c].pc = "connected", ![c].since = Len(sent)]
    /\ UNCHANGED <<kind, lock, prelude, sent, count, plan, entry, encoder, requests>>

Respond(c) ==
    /\ body[c].pc = "connected"
    /\ lock' = Nothing
    /\ body' = [body EXCEPT ![c].pc = "streaming", ![c].header = prelude]
    /\ UNCHANGED <<kind, prelude, sent, flags, plan, entry, encoder, requests>>

(* A reader that is further behind than the channel keeps has lost pieces. *)
Lagged(c) == Len(sent) + 1 - body[c].next > Capacity

\* Wrong variant of Receive: a reader that lost pieces goes on with the oldest kept.
ReceiveOldest(c) ==
    /\ body[c].pc = "streaming"
    /\ ~closed /\ ~body[c].header /\ body[c].next <= Len(sent)
    /\ LET next == IF Lagged(c) THEN Len(sent) + 1 - Capacity ELSE body[c].next
       IN  body' = [body EXCEPT ![c].next = next + 1, ![c].got = Append(@, sent[next])]
    /\ UNCHANGED <<kind, lock, prelude, sent, flags, plan, entry, encoder, requests>>

(* The body is polled and has a piece for the player; a piece over two     *)
(* seconds old would end it, which End allows at any time.                 *)
Receive(c) ==
    /\ body[c].pc = "streaming"
    /\ ~closed /\ ~body[c].header /\ body[c].next <= Len(sent)
    /\ ~Lagged(c)
    /\ body' = [body EXCEPT ![c].next = @ + 1, ![c].got = Append(@, sent[body[c].next])]
    /\ UNCHANGED <<kind, lock, prelude, sent, flags, plan, entry, encoder, requests>>

ReceiveHeader(c) ==
    /\ body[c].pc = "streaming"
    /\ ~closed /\ body[c].header
    /\ body' = [body EXCEPT ![c].header = FALSE, ![c].got = Append(@, Header)]
    /\ UNCHANGED <<kind, lock, prelude, sent, flags, plan, entry, encoder, requests>>

(* The body ends: the stream closed, the reader lost pieces or is over two *)
(* seconds late, or the player went away at any time.                      *)
End(c) ==
    /\ body[c].pc = "streaming"
    /\ Becomes(c, "ended")
    /\ UNCHANGED <<kind, lock, prelude, sent, flags, plan, entry, encoder, requests>>

\* Wrong variant of Detach: the count is taken without the lock.
DetachUnlocked(c) ==
    /\ body[c].pc = "ended"
    /\ count' = count - 1
    /\ Becomes(c, IF count = 1 THEN "leaving" ELSE "idle")
    /\ UNCHANGED <<kind, lock, prelude, sent, connected, watched, plan, entry, encoder,
                   requests>>

(* detach_subscriber, under the lock.                                      *)
Detach(c) ==
    /\ body[c].pc = "ended"
    /\ lock = Nothing
    /\ count' = count - 1
    /\ IF count = 1
       THEN lock' = c /\ Becomes(c, "leaving")
       ELSE lock' = lock /\ body' = [body EXCEPT ![c] = Idle]
    /\ UNCHANGED <<kind, prelude, sent, connected, watched, plan, entry, encoder, requests>>

Disconnect(c) ==
    /\ body[c].pc = "leaving"
    /\ connected' = FALSE /\ watched' = FALSE
    /\ lock' = IF lock = c THEN Nothing ELSE lock
    /\ body' = [body EXCEPT ![c] = Idle]
    /\ UNCHANGED <<kind, prelude, sent, count, plan, entry, encoder, requests>>

----------------------------------------------------------------------------
EncoderStep ==
    \/ LockPrelude \/ PublishHeader \/ WaitForRelease
    \/ NextFrame \/ CheckSubscriber \/ CheckAnchor \/ SendPiece

Attach(c) == Subscribe(c) \/ Connect(c) \/ Respond(c)
Leave(c) == Detach(c) \/ Disconnect(c)

(* A thread in the middle of attaching or leaving is run.                  *)
MidwayStep(c) == Connect(c) \/ Respond(c) \/ Disconnect(c)

(* Steps of everybody but ffmpeg and its pipes.                            *)
LiveStep ==
    \/ EncoderStep
    \/ SetAnchor \/ SetRelease \/ Remove
    \/ \E c \in Clients :
          Request(c) \/ Attach(c) \/ Receive(c) \/ ReceiveHeader(c) \/ End(c) \/ Leave(c)

----------------------------------------------------------------------------
(* Nobody is in the middle of coming or going.                             *)
Quiet == \A c \in Clients : body[c].pc \notin {"subscribed", "connected", "leaving"}

(* "Publish bytes that must prefix every subscriber response": a player    *)
(* of a WAV stream gets the header once and before any sound, whether it   *)
(* connects before, while or after the header is published.                *)
HeaderLeads(c) ==
    \A i \in DOMAIN body[c].got : body[c].got[i] = Header <=> codec = "wav" /\ i = 1

(* The sound of a body has no gap and repeats nothing, from its first      *)
(* sample to its end.  Only what was under way when the last player left,  *)
(* and is sent between the subscription of the next one and its flag, may  *)
(* precede a gap.                                                          *)
NoGaps(c) ==
    \A i \in DOMAIN body[c].got \ {Len(body[c].got)} :
        \/ body[c].got[i] = Header
        \/ body[c].got[i + 1] = body[c].got[i] + 1
        \/ \E j \in 1..body[c].since : sent[j] = body[c].got[i]

(* What a player gets is a header and whole sound, also when it falls      *)
(* behind, shares the stream with others or connects in the middle of a    *)
(* frame; http.rs ends a body rather than send it what it would splice.    *)
BodiesAreWhole == \A c \in Clients : HeaderLeads(c) /\ NoGaps(c)

(* The flags that the encoder and the waiting worker read without the lock *)
(* say whether anybody is subscribed once everybody who comes or goes is   *)
(* done; a flag that says no would silence every player of the stream.     *)
ConnectedWhileSubscribed ==
    Quiet =>
        /\ count = Cardinality({c \in Clients : body[c].pc \in Attached})
        /\ connected = (count > 0)
        /\ watched = connected

(* The rooms of a cohort share the cutoff and begin with the same sample:  *)
(* a WAV stream sends nothing from before it, and skips nothing after it   *)
(* once it is released.                                                    *)
StartsAtCutoff ==
    codec = "wav" =>
        /\ \A i \in DOMAIN sent : sent[i] # Header => sent[i] >= anchor
        /\ encoder.skipped > 0 => encoder.skipped < anchor

(* The encoder task of a closed stream ends, also when the stream was      *)
(* never released and when ffmpeg never answers.                           *)
EncoderEnds == closed ~> encoder.pc = "done"
=============================================================================
