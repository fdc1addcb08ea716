-------------------------- MODULE LiveStreamProofs --------------------------
(***************************************************************************)
(* Proofs about EncodedStream, the live stream and its encoder, for every  *)
(* set of connections, frame and channel size and number of samples and    *)
(* requests, for WAV and MP3: the flags the encoder reads are right, the   *)
(* rooms of a cohort begin with the same sample, and what a player gets is *)
(* a header and whole sound.                                               *)
(***************************************************************************)
EXTENDS EncodedStream, FiniteSetTheorems, TLAPS

Pcs == {"idle", "found", "subscribed", "connected", "streaming", "ended", "leaving"}
EncoderPcs == {"start", "header", "wait", "pcm", "frame", "anchor", "chunk", "send", "done"}
Bodies == [pc : Pcs, header : BOOLEAN, next : Nat \ {0}, got : Seq(Nat), since : Nat]

StreamTypes ==
    /\ codec \in {"wav", "mp3"} /\ timed \in BOOLEAN
    /\ lock \in Clients \cup {"encoder", Nothing}
    /\ prelude \in BOOLEAN /\ sent \in Seq(Nat)
    /\ connected \in BOOLEAN /\ watched \in BOOLEAN
    /\ anchor \in Nat /\ released \in BOOLEAN /\ closed \in BOOLEAN
    /\ encoder \in [pc : EncoderPcs, from : Nat, to : Nat, skipped : Nat]

BodyTypes == body \in [Clients -> Bodies]

PipeTypes ==
    /\ writer \in [pc : {"recv", "write", "done"}, from : Nat, to : Nat]
    /\ ffmpeg \in {"runs", "complains", "exited"}
    /\ stdin \in Seq(Nat) /\ stdout \in Seq(Nat)

Midway(c) == body[c].pc \in {"subscribed", "connected", "leaving"}
Subscribers == {c \in Clients : body[c].pc \in Attached}
HeaderDone == encoder.pc \notin {"start", "header"}
Last == sent[Len(sent)]

(* Who is in the middle of attaching or leaving holds the mutex, and so    *)
(* does the encoder while it publishes the header.                         *)
LockInv ==
    /\ \A c \in Clients : Midway(c) <=> lock = c
    /\ encoder.pc = "header" <=> lock = "encoder"

(* The flags follow the subscribers, all but one who only just subscribed; *)
(* and nobody is subscribed while the last one is leaving.                 *)
FlagsInv ==
    /\ count = Cardinality(Subscribers)
    /\ watched = connected
    /\ connected <=> \E c \in Clients : body[c].pc \in {"connected", "streaming", "ended", "leaving"}
    /\ (\E c \in Clients : body[c].pc = "leaving") => Subscribers = {}

(* Where either encoder can be, and what it has in its hands.              *)
FrameInv ==
    /\ codec = "wav" => encoder.pc # "chunk"
    /\ codec = "mp3" => encoder.pc \in {"pcm", "chunk", "send", "done"}
    /\ encoder.pc \in {"frame", "anchor", "chunk", "send"} => 0 < encoder.from /\ encoder.from <= encoder.to
    /\ codec = "mp3" /\ encoder.pc \in {"chunk", "send"} => encoder.from = encoder.to

(* Sound is only sent after the release, and so after the cutoff is known; *)
(* what the encoder is about to send is never before it.                   *)
CutoffInv ==
    /\ released => anchor # 0
    /\ codec = "wav" =>
          /\ encoder.pc \in {"pcm", "frame", "anchor", "send"} => released
          /\ anchor = 0 => \A i \in DOMAIN sent : sent[i] = Header
          /\ ~timed /\ encoder.pc \in {"frame", "anchor"} => anchor <= encoder.from
          /\ encoder.pc = "send" => anchor <= encoder.from
    /\ StartsAtCutoff

(* From the encoder's hands through both pipes to the writer the sound has *)
(* no gap, as long as ffmpeg has not exited.                               *)
PipesInv ==
    codec = "mp3" =>
        /\ \A i \in 1..Len(stdout) : stdout[i] = encoder.to + i
        /\ ffmpeg # "exited" =>
              /\ \A i \in 1..Len(stdin) : stdin[i] = encoder.to + Len(stdout) + i
              /\ writer.pc = "write" =>
                    /\ writer.from = encoder.to + Len(stdout) + Len(stdin) + 1
                    /\ writer.from <= writer.to
              /\ writer.pc = "recv" =>
                    writer.to = encoder.to + Len(stdout) + Len(stdin)

(* The channel has the header first or not at all.                         *)
HeaderInv ==
    /\ codec = "mp3" => ~prelude /\ \A i \in DOMAIN sent : sent[i] # Header
    /\ codec = "wav" =>
          /\ ~HeaderDone => sent = <<>>
          /\ encoder.pc = "wait" => \A i \in DOMAIN sent : sent[i] = Header
          /\ encoder.pc = "start" => ~prelude
          /\ encoder.pc # "start" /\ ~closed => prelude
          /\ \A i \in DOMAIN sent : sent[i] = Header => i = 1

(* No header follows in the channel for a body.                            *)
NoMoreHeader(c) == \A i \in DOMAIN sent : body[c].next <= i => sent[i] # Header

(* A body gets the header from the prelude or from the channel, and never  *)
(* from both.                                                              *)
BodyHeaders(c) ==
    /\ body[c].pc \in {"idle", "found", "subscribed", "connected"} => body[c].got = <<>>
    /\ codec = "mp3" => ~body[c].header
    /\ codec = "wav" /\ body[c].pc \in {"subscribed", "connected"} =>
          /\ NoMoreHeader(c)
          /\ encoder.pc = "start" => body[c].next = 1
    /\ codec = "wav" /\ body[c].pc = "streaming" /\ ~closed =>
          \/ body[c].header /\ body[c].got = <<>> /\ HeaderDone /\ NoMoreHeader(c)
          \/ /\ ~body[c].header /\ body[c].got = <<>> /\ body[c].next = 1
             /\ HeaderDone => sent # <<>> /\ sent[1] = Header
          \/ ~body[c].header /\ body[c].got # <<>> /\ HeaderDone /\ NoMoreHeader(c)

(* A body has read the channel up to its place in it.                      *)
BodyPlace(c) ==
    /\ body[c].since <= Len(sent)
    /\ body[c].next <= Len(sent) + 1
    /\ body[c].pc = "streaming" /\ body[c].got # <<>> /\ body[c].got[Len(body[c].got)] # Header =>
          body[c].next > 1 /\ sent[body[c].next - 1] = body[c].got[Len(body[c].got)]

(* Since a body is connected the channel has no gap, and what the encoder  *)
(* has in its hands goes on where the channel ends.                        *)
Contiguous(c) ==
    body[c].pc \in {"connected", "streaming"} /\ ~closed =>
        /\ \A j \in DOMAIN sent :
              body[c].since < j /\ j < Len(sent) => sent[j] = Header \/ sent[j + 1] = sent[j] + 1
        /\ body[c].since < Len(sent) /\ Last # Header =>
              /\ encoder.pc = "pcm" => encoder.to = Last
              /\ encoder.pc \in {"frame", "anchor", "chunk", "send"} => encoder.from = Last + 1

BodiesInv ==
    \A c \in Clients : BodyHeaders(c) /\ BodyPlace(c) /\ Contiguous(c)

TypeInv == StreamTypes /\ BodyTypes /\ PipeTypes
EncoderInv == FrameInv /\ CutoffInv /\ PipesInv /\ HeaderInv
IInv == TypeInv /\ LockInv /\ FlagsInv /\ EncoderInv /\ BodiesInv /\ BodiesAreWhole
----------------------------------------------------------------------------
(* Types.                                                                  *)

LEMMA EncoderTypes ==
    ASSUME TypeInv, EncoderStep
    PROVE  StreamTypes'
<1> USE DEF TypeInv, StreamTypes, EncoderPcs, GoTo, kind, flags, plan, entry
<1>1. CASE LockPrelude
  BY <1>1 DEF LockPrelude
<1>2. CASE PublishHeader
  <2>1. sent' \in Seq(Nat)
    BY <1>2 DEF PublishHeader, Header
  <2> QED
    BY <1>2, <2>1 DEF PublishHeader
<1>3. CASE WaitForRelease
  BY <1>3 DEF WaitForRelease
<1>4. CASE NextFrame
  <2>1. CASE closed /\ GoTo("done")
    BY <1>4, <2>1 DEF NextFrame
  <2>2. ASSUME NEW size \in 1..FrameSamples,
               encoder' = [encoder EXCEPT
                   !.pc = IF ~timed /\ encoder.to + 1 < anchor THEN "pcm" ELSE "frame",
                   !.from = encoder.to + 1, !.to = @ + size]
        PROVE  StreamTypes'
    <3>1. size \in Nat
      BY LiveBoundsAssumption
    <3>2. encoder.to + 1 \in Nat /\ encoder.to + size \in Nat
      BY <3>1
    <3>3. encoder' \in [pc : EncoderPcs, from : Nat, to : Nat, skipped : Nat]
      BY <2>2, <3>2
    <3> QED
      BY <1>4, <3>3 DEF NextFrame
  <2> QED
    BY <1>4, <2>1, <2>2 DEF NextFrame
<1>5. CASE CheckSubscriber
  BY <1>5 DEF CheckSubscriber
<1>6. CASE CheckAnchor
  BY <1>6 DEF CheckAnchor, Cut
<1>7. CASE SendPiece
  <2>1. sent' \in Seq(Nat)
    BY <1>7 DEF SendPiece
  <2>2. encoder.from + 1 \in Nat
    OBVIOUS
  <2>3. encoder' \in [pc : EncoderPcs, from : Nat, to : Nat, skipped : Nat]
    BY <1>7, <2>2 DEF SendPiece
  <2> QED
    BY <1>7, <2>1, <2>3 DEF SendPiece
<1> QED
  BY <1>1, <1>2, <1>3, <1>4, <1>5, <1>6, <1>7 DEF EncoderStep

(* What each step of a connection does to its body.                        *)
LEMMA BodyStep ==
    ASSUME BodyTypes, NEW c \in Clients
    PROVE  /\ Request(c) => body' = [body EXCEPT ![c] = [Idle EXCEPT !.pc = "found"]]
           /\ Subscribe(c) => body' = [body EXCEPT ![c] =
                 [body[c] EXCEPT !.pc = "subscribed", !.next = Len(sent) + 1]]
           /\ Connect(c) => body' = [body EXCEPT ![c] =
                 [body[c] EXCEPT !.pc = "connected", !.since = Len(sent)]]
           /\ Respond(c) => body' = [body EXCEPT ![c] =
                 [body[c] EXCEPT !.pc = "streaming", !.header = prelude]]
           /\ Receive(c) => body' = [body EXCEPT ![c] =
                 [body[c] EXCEPT !.next = @ + 1, !.got = Append(@, sent[body[c].next])]]
           /\ ReceiveHeader(c) => body' = [body EXCEPT ![c] =
                 [body[c] EXCEPT !.header = FALSE, !.got = Append(@, Header)]]
           /\ End(c) => body' = [body EXCEPT ![c] = [body[c] EXCEPT !.pc = "ended"]]
           /\ Detach(c) /\ count = 1 => body' = [body EXCEPT ![c] = [body[c] EXCEPT !.pc = "leaving"]]
           /\ Detach(c) /\ count # 1 => body' = [body EXCEPT ![c] = Idle]
           /\ Disconnect(c) => body' = [body EXCEPT ![c] = Idle]
<1> USE DEF BodyTypes, Bodies, Becomes
<1>1. Request(c) => body' = [body EXCEPT ![c] = [Idle EXCEPT !.pc = "found"]]
  BY DEF Request
<1>2. Subscribe(c) => body' = [body EXCEPT ![c] =
          [body[c] EXCEPT !.pc = "subscribed", !.next = Len(sent) + 1]]
  BY DEF Subscribe
<1>3. Connect(c) => body' = [body EXCEPT ![c] =
          [body[c] EXCEPT !.pc = "connected", !.since = Len(sent)]]
  BY DEF Connect
<1>4. Respond(c) => body' = [body EXCEPT ![c] =
          [body[c] EXCEPT !.pc = "streaming", !.header = prelude]]
  BY DEF Respond
<1>5. Receive(c) => body' = [body EXCEPT ![c] =
          [body[c] EXCEPT !.next = @ + 1, !.got = Append(@, sent[body[c].next])]]
  BY DEF Receive
<1>6. ReceiveHeader(c) => body' = [body EXCEPT ![c] =
          [body[c] EXCEPT !.header = FALSE, !.got = Append(@, Header)]]
  BY DEF ReceiveHeader
<1>7. End(c) => body' = [body EXCEPT ![c] = [body[c] EXCEPT !.pc = "ended"]]
  BY DEF End
<1>8. /\ Detach(c) /\ count = 1 => body' = [body EXCEPT ![c] = [body[c] EXCEPT !.pc = "leaving"]]
      /\ Detach(c) /\ count # 1 => body' = [body EXCEPT ![c] = Idle]
  BY DEF Detach
<1>9. Disconnect(c) => body' = [body EXCEPT ![c] = Idle]
  BY DEF Disconnect
<1> QED
  BY <1>1, <1>2, <1>3, <1>4, <1>5, <1>6, <1>7, <1>8, <1>9

LEMMA ConnectionBodies ==
    ASSUME StreamTypes, BodyTypes, NEW c \in Clients,
           Request(c) \/ Attach(c) \/ Receive(c) \/ ReceiveHeader(c) \/ End(c) \/ Leave(c)
    PROVE  BodyTypes'
<1>1. ASSUME NEW b \in Bodies, body' = [body EXCEPT ![c] = b] PROVE BodyTypes'
  BY <1>1 DEF BodyTypes
<1>2. body[c] \in Bodies
  BY DEF BodyTypes
<1>3. Idle \in Bodies
  BY DEF Idle, Bodies, Pcs
<1>4. \A b \in Bodies : \A pc \in Pcs : [b EXCEPT !.pc = pc] \in Bodies
  BY DEF Bodies
<1> DEFINE place == Len(sent) + 1
<1>5. Len(sent) \in Nat /\ place \in Nat \ {0}
  BY DEF StreamTypes
<1>6. body[c].next + 1 \in Nat \ {0}
  BY <1>2 DEF Bodies
<1> HIDE DEF place
<1>7. CASE Request(c)
  BY <1>1, <1>3, <1>4, <1>7, BodyStep DEF Pcs
<1>8. CASE Subscribe(c)
  <2>1. [body[c] EXCEPT !.pc = "subscribed", !.next = place] \in Bodies
    BY <1>2, <1>5 DEF Bodies, Pcs
  <2> QED
    BY <1>1, <1>8, <2>1, BodyStep DEF place
<1>9. CASE Connect(c)
  <2>1. [body[c] EXCEPT !.pc = "connected", !.since = Len(sent)] \in Bodies
    BY <1>2, <1>5 DEF Bodies, Pcs
  <2> QED
    BY <1>1, <1>9, <2>1, BodyStep
<1>10. CASE Respond(c)
  <2>1. [body[c] EXCEPT !.pc = "streaming", !.header = prelude] \in Bodies
    BY <1>2 DEF StreamTypes, Bodies, Pcs
  <2> QED
    BY <1>1, <1>10, <2>1, BodyStep
<1>11. CASE Receive(c)
  <2>1. sent[body[c].next] \in Nat
    BY <1>2, <1>11 DEF Receive, StreamTypes, Bodies
  <2>2. Append(body[c].got, sent[body[c].next]) \in Seq(Nat)
    BY <1>2, <2>1 DEF Bodies
  <2>3. [body[c] EXCEPT !.next = @ + 1, !.got = Append(@, sent[body[c].next])] \in Bodies
    BY <1>2, <1>6, <2>2 DEF Bodies
  <2> QED
    BY <1>1, <1>11, <2>3, BodyStep
<1>12. CASE ReceiveHeader(c)
  <2>1. Append(body[c].got, Header) \in Seq(Nat)
    BY <1>2 DEF Bodies, Header
  <2>2. [body[c] EXCEPT !.header = FALSE, !.got = Append(@, Header)] \in Bodies
    BY <1>2, <2>1 DEF Bodies
  <2> QED
    BY <1>1, <1>12, <2>2, BodyStep
<1>13. CASE End(c)
  BY <1>1, <1>2, <1>4, <1>13, BodyStep DEF Pcs
<1>14. CASE Detach(c)
  BY <1>1, <1>2, <1>3, <1>4, <1>14, BodyStep DEF Pcs
<1>15. CASE Disconnect(c)
  BY <1>1, <1>3, <1>15, BodyStep
<1> QED
  BY <1>7, <1>8, <1>9, <1>10, <1>11, <1>12, <1>13, <1>14, <1>15 DEF Attach, Leave

LEMMA ConnectionTypes ==
    ASSUME StreamTypes, NEW c \in Clients,
           Request(c) \/ Attach(c) \/ Receive(c) \/ ReceiveHeader(c) \/ End(c) \/ Leave(c)
    PROVE  StreamTypes'
<1>1. UNCHANGED <<codec, timed, prelude, sent, anchor, released, closed, encoder>>
  BY DEF Request, Attach, Subscribe, Connect, Respond, Receive, ReceiveHeader, End, Leave,
         Detach, Disconnect, kind, plan, entry
<1>2. lock' \in {lock, Nothing, c}
  BY DEF Request, Attach, Subscribe, Connect, Respond, Receive, ReceiveHeader, End, Leave,
         Detach, Disconnect
<1>3. connected' \in {connected, TRUE, FALSE} /\ watched' \in BOOLEAN
  BY DEF Request, Attach, Subscribe, Connect, Respond, Receive, ReceiveHeader, End, Leave,
         Detach, Disconnect, flags, StreamTypes
<1> QED
  BY <1>1, <1>2, <1>3 DEF StreamTypes

LEMMA MpegTypes == ASSUME TypeInv, MpegTask PROVE StreamTypes' /\ PipeTypes'
<1> USE DEF TypeInv, StreamTypes, PipeTypes, EncoderPcs, GoTo, Polled, vars, mpeg, pipes,
            kind, flags, plan, entry
<1>1. CASE TakeFrame
  <2>1. CASE closed /\ writer' = [writer EXCEPT !.pc = "done"]
    BY <1>1, <2>1 DEF TakeFrame
  <2>2. ASSUME NEW size \in 1..FrameSamples,
               writer' = [pc |-> "write", from |-> writer.to + 1, to |-> writer.to + size]
        PROVE  writer' \in [pc : {"recv", "write", "done"}, from : Nat, to : Nat]
    <3>1. size \in Nat
      BY LiveBoundsAssumption
    <3> QED
      BY <2>2, <3>1
  <2> QED
    BY <1>1, <2>1, <2>2 DEF TakeFrame
<1>2. CASE WritePiece
  <2>1. stdin' \in Seq(Nat)
    BY <1>2 DEF WritePiece
  <2>2. writer.from + 1 \in Nat
    OBVIOUS
  <2>3. writer' \in [pc : {"recv", "write", "done"}, from : Nat, to : Nat]
    BY <1>2, <2>2 DEF WritePiece
  <2> QED
    BY <1>2, <2>1, <2>3 DEF WritePiece
<1>3. CASE ReadOutput
  <2>1. Head(stdout) \in Nat /\ stdout' \in Seq(Nat)
    BY <1>3 DEF ReadOutput
  <2> QED
    BY <1>3, <2>1 DEF ReadOutput
<1>4. CASE Publish
  BY <1>4 DEF Publish
<1>5. CASE ReadErrors
  BY <1>5 DEF ReadErrors
<1>6. CASE TaskEnds
  BY <1>6 DEF TaskEnds
<1> QED
  BY <1>1, <1>2, <1>3, <1>4, <1>5, <1>6 DEF MpegTask

LEMMA TypesStep == ASSUME TypeInv, [EncodedNext]_allVars PROVE TypeInv'
<1>1. CASE EncoderStep /\ UNCHANGED mpeg
  <2>1. body' = body
    BY <1>1 DEF EncoderStep, LockPrelude, PublishHeader, WaitForRelease, NextFrame,
                CheckSubscriber, CheckAnchor, SendPiece
  <2> QED
    BY <1>1, <2>1, EncoderTypes DEF TypeInv, BodyTypes, PipeTypes, mpeg, pipes
<1>2. ASSUME NEW c \in Clients, UNCHANGED mpeg,
             Request(c) \/ Attach(c) \/ Receive(c) \/ ReceiveHeader(c) \/ End(c) \/ Leave(c)
      PROVE  TypeInv'
  <2>1. StreamTypes' /\ BodyTypes'
    BY <1>2, ConnectionTypes, ConnectionBodies DEF TypeInv
  <2> QED
    BY <1>2, <2>1 DEF TypeInv, PipeTypes, mpeg, pipes
<1>3. CASE (SetAnchor \/ SetRelease \/ Remove) /\ UNCHANGED mpeg
  <2>1. UNCHANGED <<kind, lock, prelude, sent, flags, encoder, body>>
    BY <1>3 DEF SetAnchor, SetRelease, Remove
  <2>2. /\ anchor' \in 1..MaxSamples \cup {anchor}
        /\ released' \in {released, TRUE} /\ closed' \in {closed, TRUE}
    BY <1>3 DEF SetAnchor, SetRelease, Remove, plan, entry
  <2>3. anchor' \in Nat
    BY <2>2, LiveBoundsAssumption DEF TypeInv, StreamTypes
  <2>4. released' \in BOOLEAN /\ closed' \in BOOLEAN
    BY <2>2 DEF TypeInv, StreamTypes
  <2> QED
    BY <1>3, <2>1, <2>3, <2>4
       DEF TypeInv, StreamTypes, BodyTypes, PipeTypes, mpeg, pipes, kind, flags
<1>4. CASE MpegTask
  <2>1. body' = body
    BY <1>4 DEF MpegTask, TakeFrame, WritePiece, ReadOutput, Publish, ReadErrors, TaskEnds, vars
  <2> QED
    BY <1>4, <2>1, MpegTypes DEF TypeInv, BodyTypes
<1>5. CASE Encode
  <2>1. stdin' \in Seq(Nat) /\ stdout' \in Seq(Nat)
    BY <1>5 DEF Encode, TypeInv, PipeTypes
  <2> QED
    BY <1>5, <2>1 DEF Encode, vars, TypeInv, StreamTypes, BodyTypes, PipeTypes
<1>6. CASE Complain \/ Exits
  <2>1. UNCHANGED <<vars, writer, stdout>> /\ ffmpeg' \in {"runs", "exited"}
        /\ (stdin' = stdin \/ stdin' = <<>>)
    BY <1>6 DEF Complain, Exits
  <2>2. <<>> \in Seq(Nat) /\ stdin \in Seq(Nat)
    BY DEF TypeInv, PipeTypes
  <2>3. PipeTypes'
    BY <2>1, <2>2 DEF TypeInv, PipeTypes
  <2> QED
    BY <2>1, <2>3 DEF vars, TypeInv, StreamTypes, BodyTypes
<1>7. CASE UNCHANGED allVars
  BY <1>7 DEF allVars, vars, mpeg, pipes, TypeInv, StreamTypes, BodyTypes, PipeTypes
<1> QED
  BY <1>1, <1>2, <1>3, <1>4, <1>5, <1>6, <1>7 DEF EncodedNext, LiveStep
----------------------------------------------------------------------------
(* The steps of a connection, and those of everybody else.                 *)
ConnectionStep(c) ==
    Request(c) \/ Attach(c) \/ Receive(c) \/ ReceiveHeader(c) \/ End(c) \/ Leave(c)

(* The body that a step of a connection leaves.                            *)
LEMMA NewBody ==
    ASSUME BodyTypes, NEW c \in Clients
    PROVE  /\ Request(c) => body'[c] = [Idle EXCEPT !.pc = "found"]
           /\ Subscribe(c) => body'[c] = [body[c] EXCEPT !.pc = "subscribed", !.next = Len(sent) + 1]
           /\ Connect(c) => body'[c] = [body[c] EXCEPT !.pc = "connected", !.since = Len(sent)]
           /\ Respond(c) => body'[c] = [body[c] EXCEPT !.pc = "streaming", !.header = prelude]
           /\ Receive(c) => body'[c] =
                 [body[c] EXCEPT !.next = @ + 1, !.got = Append(@, sent[body[c].next])]
           /\ ReceiveHeader(c) => body'[c] =
                 [body[c] EXCEPT !.header = FALSE, !.got = Append(@, Header)]
           /\ End(c) => body'[c] = [body[c] EXCEPT !.pc = "ended"]
           /\ Detach(c) /\ count = 1 => body'[c] = [body[c] EXCEPT !.pc = "leaving"]
           /\ Detach(c) /\ count # 1 => body'[c] = Idle
           /\ Disconnect(c) => body'[c] = Idle
<1> USE DEF BodyTypes
<1>1. Request(c) => body'[c] = [Idle EXCEPT !.pc = "found"]
  BY BodyStep
<1>2. Subscribe(c) => body'[c] = [body[c] EXCEPT !.pc = "subscribed", !.next = Len(sent) + 1]
  BY BodyStep
<1>3. Connect(c) => body'[c] = [body[c] EXCEPT !.pc = "connected", !.since = Len(sent)]
  BY BodyStep
<1>4. Respond(c) => body'[c] = [body[c] EXCEPT !.pc = "streaming", !.header = prelude]
  BY BodyStep
<1>5. Receive(c) => body'[c] =
         [body[c] EXCEPT !.next = @ + 1, !.got = Append(@, sent[body[c].next])]
  BY BodyStep
<1>6. ReceiveHeader(c) => body'[c] =
         [body[c] EXCEPT !.header = FALSE, !.got = Append(@, Header)]
  BY BodyStep
<1>7. End(c) => body'[c] = [body[c] EXCEPT !.pc = "ended"]
  BY BodyStep
<1>8. /\ Detach(c) /\ count = 1 => body'[c] = [body[c] EXCEPT !.pc = "leaving"]
      /\ Detach(c) /\ count # 1 => body'[c] = Idle
  BY BodyStep
<1>9. Disconnect(c) => body'[c] = Idle
  BY BodyStep
<1> QED
  BY <1>1, <1>2, <1>3, <1>4, <1>5, <1>6, <1>7, <1>8, <1>9

(* From where to where a step takes a connection.                          *)
LEMMA NewPc ==
    ASSUME BodyTypes, NEW c \in Clients
    PROVE  /\ Request(c) => body[c].pc = "idle" /\ body'[c].pc = "found"
           /\ Subscribe(c) => body[c].pc = "found" /\ body'[c].pc = "subscribed"
           /\ Connect(c) => body[c].pc = "subscribed" /\ body'[c].pc = "connected"
           /\ Respond(c) => body[c].pc = "connected" /\ body'[c].pc = "streaming"
           /\ Receive(c) \/ ReceiveHeader(c) =>
                 body[c].pc = "streaming" /\ body'[c].pc = "streaming"
           /\ End(c) => body[c].pc = "streaming" /\ body'[c].pc = "ended"
           /\ Detach(c) => /\ body[c].pc = "ended"
                           /\ body'[c].pc = IF count = 1 THEN "leaving" ELSE "idle"
           /\ Disconnect(c) => body[c].pc = "leaving" /\ body'[c].pc = "idle"
<1>1. body[c] \in Bodies
  BY DEF BodyTypes
<1>2. Request(c) => body[c].pc = "idle" /\ body'[c].pc = "found"
  <2>1. Request(c) => body'[c] = [Idle EXCEPT !.pc = "found"]
    BY NewBody
  <2> QED
    BY <1>1, <2>1 DEF Request, Bodies, Idle
<1>3. Subscribe(c) => body[c].pc = "found" /\ body'[c].pc = "subscribed"
  <2>1. Subscribe(c) => body'[c] = [body[c] EXCEPT !.pc = "subscribed", !.next = Len(sent) + 1]
    BY NewBody
  <2> QED
    BY <1>1, <2>1 DEF Subscribe, Bodies
<1>4. Connect(c) => body[c].pc = "subscribed" /\ body'[c].pc = "connected"
  <2>1. Connect(c) => body'[c] = [body[c] EXCEPT !.pc = "connected", !.since = Len(sent)]
    BY NewBody
  <2> QED
    BY <1>1, <2>1 DEF Connect, Bodies
<1>5. Respond(c) => body[c].pc = "connected" /\ body'[c].pc = "streaming"
  <2>1. Respond(c) => body'[c] = [body[c] EXCEPT !.pc = "streaming", !.header = prelude]
    BY NewBody
  <2> QED
    BY <1>1, <2>1 DEF Respond, Bodies
<1>6. Receive(c) => body[c].pc = "streaming" /\ body'[c].pc = "streaming"
  <2>1. Receive(c) => body'[c] = 
            [body[c] EXCEPT !.next = @ + 1, !.got = Append(@, sent[body[c].next])]
    BY NewBody
  <2> QED
    BY <1>1, <2>1 DEF Receive, Bodies
<1>7. ReceiveHeader(c) => body[c].pc = "streaming" /\ body'[c].pc = "streaming"
  <2>1. ReceiveHeader(c) => body'[c] = 
            [body[c] EXCEPT !.header = FALSE, !.got = Append(@, Header)]
    BY NewBody
  <2> QED
    BY <1>1, <2>1 DEF ReceiveHeader, Bodies
<1>8. End(c) => body[c].pc = "streaming" /\ body'[c].pc = "ended"
  <2>1. End(c) => body'[c] = [body[c] EXCEPT !.pc = "ended"]
    BY NewBody
  <2> QED
    BY <1>1, <2>1 DEF End, Bodies
<1>9. Detach(c) => /\ body[c].pc = "ended"
                    /\ body'[c].pc = IF count = 1 THEN "leaving" ELSE "idle"
  <2>1. Detach(c) => body'[c] = IF count = 1 THEN [body[c] EXCEPT !.pc = "leaving"] ELSE Idle
    BY NewBody
  <2> QED
    BY <1>1, <2>1 DEF Detach, Bodies, Idle
<1>10. Disconnect(c) => body[c].pc = "leaving" /\ body'[c].pc = "idle"
  <2>1. Disconnect(c) => body'[c] = Idle
    BY NewBody
  <2> QED
    BY <2>1 DEF Disconnect, Idle
<1> QED
  BY <1>2, <1>3, <1>4, <1>5, <1>6, <1>7, <1>8, <1>9, <1>10

LEMMA OtherBodies ==
    ASSUME BodyTypes, NEW c \in Clients, ConnectionStep(c)
    PROVE  \A d \in Clients \ {c} : body'[d] = body[d]
<1>1. \E b : body' = [body EXCEPT ![c] = b]
  BY BodyStep DEF ConnectionStep, Attach, Leave
<1> QED
  BY <1>1 DEF BodyTypes

LEMMA ConnectionFrame ==
    ASSUME NEW c \in Clients, ConnectionStep(c)
    PROVE  UNCHANGED <<codec, timed, prelude, sent, anchor, released, closed, encoder>>
  BY DEF ConnectionStep, Request, Attach, Subscribe, Connect, Respond, Receive, ReceiveHeader,
         End, Leave, Detach, Disconnect, kind, plan, entry

(* The steps of the encoder, of the runtime and of ffmpeg.                 *)
Rest ==
    \/ (EncoderStep \/ SetAnchor \/ SetRelease \/ Remove) /\ UNCHANGED mpeg
    \/ MpegTask \/ Encode \/ Complain \/ Exits
    \/ UNCHANGED allVars

LEMMA Steps ==
    ASSUME [EncodedNext]_allVars
    PROVE  Rest \/ \E c \in Clients : ConnectionStep(c) /\ UNCHANGED mpeg
  BY DEF EncodedNext, LiveStep, Rest, ConnectionStep

LEMMA RestFrame == ASSUME Rest PROVE UNCHANGED <<count, connected, watched, body>>
<1> USE DEF vars, kind, flags, plan, entry
<1>1. CASE EncoderStep
  BY <1>1 DEF EncoderStep, LockPrelude, PublishHeader, WaitForRelease, NextFrame,
              CheckSubscriber, CheckAnchor, SendPiece
<1>2. CASE SetAnchor \/ SetRelease \/ Remove
  BY <1>2 DEF SetAnchor, SetRelease, Remove
<1>3. CASE MpegTask
  BY <1>3 DEF MpegTask, TakeFrame, WritePiece, ReadOutput, Publish, ReadErrors, TaskEnds
<1>4. CASE Encode \/ Complain \/ Exits \/ UNCHANGED allVars
  BY <1>4 DEF Encode, Complain, Exits, allVars
<1> QED
  BY <1>1, <1>2, <1>3, <1>4 DEF Rest

----------------------------------------------------------------------------
(* The mutex.                                                              *)

LEMMA LockStep == ASSUME TypeInv, LockInv, [EncodedNext]_allVars PROVE LockInv'
<1> USE DEF TypeInv, StreamTypes
<1>1. CASE Rest
  <2>1. body' = body
    BY <1>1, RestFrame
  <2>2. CASE LockPrelude
    BY <2>1, <2>2, ClientsAssumption DEF LockPrelude, GoTo, LockInv, Midway
  <2>3. CASE PublishHeader
    <3>1. lock' = Nothing /\ encoder'.pc = "wait" /\ lock = "encoder"
      BY <2>3 DEF PublishHeader, GoTo, LockInv
    <3> QED
      BY <2>1, <3>1, ClientsAssumption DEF LockInv, Midway
  <2>4. ASSUME lock' = lock, encoder.pc = "header" <=> encoder'.pc = "header" PROVE LockInv'
    BY <2>1, <2>4 DEF LockInv, Midway
  <2>5. CASE WaitForRelease \/ NextFrame \/ CheckSubscriber \/ CheckAnchor \/ SendPiece
    BY <2>4, <2>5 DEF WaitForRelease, NextFrame, CheckSubscriber, CheckAnchor, SendPiece, GoTo
  <2>6. CASE SetAnchor \/ SetRelease \/ Remove
    BY <2>4, <2>6 DEF SetAnchor, SetRelease, Remove
  <2>7. CASE MpegTask
    BY <2>4, <2>7 DEF MpegTask, TakeFrame, WritePiece, ReadOutput, Publish, ReadErrors, TaskEnds,
                      Polled, GoTo, vars
  <2>8. CASE Encode \/ Complain \/ Exits \/ UNCHANGED allVars
    BY <2>4, <2>8 DEF Encode, Complain, Exits, allVars, vars
  <2> QED
    BY <1>1, <2>2, <2>3, <2>5, <2>6, <2>7, <2>8 DEF Rest, EncoderStep
<1>2. ASSUME NEW c \in Clients, ConnectionStep(c) PROVE LockInv'
  <2>1. encoder' = encoder /\ \A d \in Clients \ {c} : body'[d] = body[d]
    BY <1>2, ConnectionFrame, OtherBodies
  <2>2. c # Nothing /\ c # "encoder" /\ Nothing # "encoder"
    BY ClientsAssumption
  <2>3. CASE (Midway(c)' <=> Midway(c)) /\ lock' = lock
    BY <2>1, <2>3 DEF LockInv, Midway
  <2>4. CASE lock = Nothing /\ lock' = c /\ Midway(c)'
    <3>1. \A d \in Clients \ {c} : ~Midway(d) /\ ~Midway(d)' /\ lock' # d
      BY <2>1, <2>2, <2>4, ClientsAssumption DEF LockInv, Midway
    <3> QED
      BY <2>1, <2>2, <2>4, <3>1 DEF LockInv
  <2>5. CASE lock = c /\ lock' = Nothing /\ ~Midway(c)'
    <3>1. \A d \in Clients \ {c} : ~Midway(d) /\ ~Midway(d)' /\ lock' # d
      BY <2>1, <2>2, <2>5, ClientsAssumption DEF LockInv, Midway
    <3> QED
      BY <2>1, <2>2, <2>5, <3>1 DEF LockInv
  <2> USE DEF Midway
  <2>6. CASE Request(c)
    BY <2>3, <2>6, NewPc DEF Request
  <2>7. CASE Subscribe(c)
    BY <2>4, <2>7, NewPc DEF Subscribe
  <2>8. CASE Connect(c)
    BY <2>3, <2>8, NewPc DEF Connect
  <2>9. CASE Respond(c)
    BY <2>5, <2>9, NewPc DEF Respond, LockInv
  <2>10. CASE Receive(c)
    BY <2>3, <2>10, NewPc DEF Receive
  <2>11. CASE ReceiveHeader(c)
    BY <2>3, <2>11, NewPc DEF ReceiveHeader
  <2>12. CASE End(c)
    BY <2>3, <2>12, NewPc DEF End
  <2>13. CASE Detach(c)
    BY <2>3, <2>4, <2>13, NewPc DEF Detach
  <2>14. CASE Disconnect(c)
    BY <2>5, <2>14, NewPc DEF Disconnect, LockInv
  <2> QED
    BY <1>2, <2>6, <2>7, <2>8, <2>9, <2>10, <2>11, <2>12, <2>13, <2>14
       DEF ConnectionStep, Attach, Leave
<1> QED
  BY <1>1, <1>2, Steps
----------------------------------------------------------------------------
(* The flags.                                                              *)

LEMMA SubscribersFinite == IsFiniteSet(Subscribers) /\ Cardinality(Subscribers) \in Nat
  BY ClientsAssumption, FS_Subset, FS_CardinalityType DEF Subscribers

LEMMA FlagsStep ==
    ASSUME TypeInv, LockInv, FlagsInv, [EncodedNext]_allVars
    PROVE  FlagsInv'
<1> USE DEF TypeInv
<1>1. CASE Rest
  BY <1>1, RestFrame DEF FlagsInv, Subscribers
<1>2. ASSUME NEW c \in Clients, ConnectionStep(c) PROVE FlagsInv'
  <2> DEFINE On == {"connected", "streaming", "ended", "leaving"}
  <2>1. \A d \in Clients \ {c} : body'[d] = body[d]
    BY <1>2, OtherBodies
  <2>2. ASSUME body[c].pc \in Attached <=> body'[c].pc \in Attached,
               body[c].pc \in On <=> body'[c].pc \in On,
               body'[c].pc # "leaving",
               UNCHANGED <<count, connected, watched>>
        PROVE  FlagsInv'
    <3>1. Subscribers' = Subscribers
      BY <2>1, <2>2 DEF Subscribers
    <3>2. \A d \in Clients : body'[d].pc = "leaving" => body[d].pc = "leaving"
      BY <2>1, <2>2
    <3>3. (\E d \in Clients : body'[d].pc \in On) <=> (\E d \in Clients : body[d].pc \in On)
      BY <2>1, <2>2
    <3> QED
      BY <2>2, <3>1, <3>2, <3>3 DEF FlagsInv
  <2>3. CASE Request(c) \/ Respond(c) \/ Receive(c) \/ ReceiveHeader(c) \/ End(c)
    <3>1. UNCHANGED <<count, connected, watched>>
      BY <2>3 DEF Request, Respond, Receive, ReceiveHeader, End, flags
    <3> QED
      BY <2>2, <2>3, <3>1, NewPc DEF Attached
  <2>4. CASE Subscribe(c)
    <3>1. /\ body[c].pc = "found" /\ body'[c].pc = "subscribed" /\ lock = Nothing
          /\ count' = count + 1 /\ UNCHANGED <<connected, watched>>
      BY <2>4, NewPc DEF Subscribe
    <3>2. Subscribers' = Subscribers \cup {c} /\ c \notin Subscribers
      BY <2>1, <3>1 DEF Subscribers, Attached
    <3>3. count' = Cardinality(Subscribers')
      BY <3>1, <3>2, SubscribersFinite, FS_AddElement DEF FlagsInv
    <3>4. \A d \in Clients : body'[d].pc # "leaving"
      BY <2>1, <3>1, ClientsAssumption DEF LockInv, Midway
    <3>5. (\E d \in Clients : body'[d].pc \in On) <=> (\E d \in Clients : body[d].pc \in On)
      BY <2>1, <3>1
    <3> QED
      BY <3>1, <3>3, <3>4, <3>5 DEF FlagsInv
  <2>5. CASE Connect(c)
    <3>1. /\ body[c].pc = "subscribed" /\ body'[c].pc = "connected"
          /\ count' = count /\ connected' = TRUE /\ watched' = (watched \/ ~connected)
      BY <2>5, NewPc DEF Connect
    <3>2. Subscribers' = Subscribers
      BY <2>1, <3>1 DEF Subscribers, Attached
    <3>3. \A d \in Clients : body'[d].pc = "leaving" => body[d].pc = "leaving"
      BY <2>1, <3>1
    <3>4. watched' = TRUE
      BY <3>1 DEF FlagsInv, StreamTypes
    <3>5. \E d \in Clients : body'[d].pc \in On
      BY <3>1
    <3> QED
      BY <3>1, <3>2, <3>3, <3>4, <3>5 DEF FlagsInv
  <2>6. CASE Detach(c)
    <3>1. /\ body[c].pc = "ended" /\ body'[c].pc = IF count = 1 THEN "leaving" ELSE "idle"
          /\ lock = Nothing /\ count' = count - 1 /\ UNCHANGED <<connected, watched>>
      BY <2>6, NewPc DEF Detach
    <3>2. Subscribers' = Subscribers \ {c} /\ c \in Subscribers
      BY <2>1, <3>1 DEF Subscribers, Attached
    <3>3. count' = Cardinality(Subscribers')
      BY <3>1, <3>2, SubscribersFinite, FS_RemoveElement DEF FlagsInv
    <3>4. connected
      BY <3>1 DEF FlagsInv
    <3>5. \A d \in Clients : ~Midway(d)
      BY <3>1, ClientsAssumption DEF LockInv
    <3>6. CASE count = 1
      <4>1. Subscribers' = {}
        BY <3>1, <3>2, <3>3, <3>6, SubscribersFinite, FS_EmptySet, FS_Subset DEF FlagsInv
      <4>2. body'[c].pc = "leaving"
        BY <3>1, <3>6
      <4> QED
        BY <3>1, <3>3, <3>4, <4>1, <4>2 DEF FlagsInv
    <3>7. CASE count # 1
      <4>1. body'[c].pc = "idle"
        BY <3>1, <3>7
      <4>2. \A d \in Clients : body'[d].pc # "leaving"
        BY <2>1, <3>5, <4>1 DEF Midway
      <4>3. Subscribers # {c}
        BY <3>7, FS_Singleton DEF FlagsInv
      <4>4. PICK d \in Clients \ {c} : body[d].pc \in Attached
        BY <3>2, <4>3 DEF Subscribers
      <4>5. body'[d].pc \in On
        BY <2>1, <3>5, <4>4 DEF Attached, Midway
      <4> QED
        BY <3>1, <3>3, <3>4, <4>2, <4>5 DEF FlagsInv
    <3> QED
      BY <3>6, <3>7
  <2>7. CASE Disconnect(c)
    <3>1. /\ body[c].pc = "leaving" /\ body'[c].pc = "idle"
          /\ count' = count /\ connected' = FALSE /\ watched' = FALSE
      BY <2>7, NewPc DEF Disconnect
    <3>2. Subscribers = {} /\ lock = c
      BY <3>1 DEF FlagsInv, LockInv, Midway
    <3>3. Subscribers' = Subscribers
      BY <2>1, <3>1 DEF Subscribers, Attached
    <3>4. \A d \in Clients : body'[d].pc \notin On
      BY <2>1, <3>1, <3>2 DEF LockInv, Midway, Subscribers, Attached
    <3> QED
      BY <3>1, <3>2, <3>3, <3>4 DEF FlagsInv
  <2> QED
    BY <1>2, <2>3, <2>4, <2>5, <2>6, <2>7 DEF ConnectionStep, Attach, Leave
<1> QED
  BY <1>1, <1>2, Steps
----------------------------------------------------------------------------
(* The encoder.                                                            *)

At(pc) == encoder'.pc = pc /\ UNCHANGED <<encoder.from, encoder.to, encoder.skipped>>

LEMMA GoesTo == ASSUME StreamTypes, NEW pc, GoTo(pc) PROVE At(pc)
  BY DEF StreamTypes, GoTo, At

(* What each step of the encoder does to what it has in its hands.         *)
LEMMA NewEncoder ==
    ASSUME StreamTypes
    PROVE  /\ LockPrelude => encoder.pc = "start" /\ At(IF closed THEN "wait" ELSE "header")
           /\ PublishHeader => encoder.pc = "header" /\ At("wait")
           /\ WaitForRelease =>
                 encoder.pc = "wait" /\ ((closed /\ At("done")) \/ (released /\ At("pcm")))
           /\ NextFrame =>
                 /\ codec = "wav" /\ encoder.pc = "pcm"
                 /\ \/ closed /\ At("done")
                    \/ /\ encoder'.pc = IF ~timed /\ encoder.to + 1 < anchor THEN "pcm" ELSE "frame"
                       /\ encoder'.from = encoder.to + 1 /\ encoder'.skipped = encoder.skipped
                       /\ encoder'.from <= encoder'.to
           /\ CheckSubscriber =>
                 encoder.pc = "frame" /\ At(IF ~closed /\ connected THEN "anchor" ELSE "pcm")
           /\ CheckAnchor =>
                 /\ encoder.pc = "anchor"
                 /\ IF anchor = 0 \/ (timed /\ encoder.to < anchor)
                    THEN /\ encoder'.pc = "pcm" /\ encoder'.skipped = encoder.to
                         /\ UNCHANGED <<encoder.from, encoder.to>>
                    ELSE /\ encoder'.pc = "send" /\ encoder'.from = Cut(encoder.from)
                         /\ UNCHANGED <<encoder.to, encoder.skipped>>
           /\ SendPiece =>
                 /\ encoder.pc = "send"
                 /\ IF encoder.from = encoder.to
                    THEN At("pcm")
                    ELSE /\ encoder'.pc = "send" /\ encoder'.from = encoder.from + 1
                         /\ UNCHANGED <<encoder.to, encoder.skipped>>
<1>1. encoder \in [pc : EncoderPcs, from : Nat, to : Nat, skipped : Nat]
  BY DEF StreamTypes
<1>2. LockPrelude => encoder.pc = "start" /\ At(IF closed THEN "wait" ELSE "header")
  BY GoesTo DEF LockPrelude
<1>3. PublishHeader => encoder.pc = "header" /\ At("wait")
  BY GoesTo DEF PublishHeader
<1>4. WaitForRelease =>
         encoder.pc = "wait" /\ ((closed /\ At("done")) \/ (released /\ At("pcm")))
  <2>1. CASE closed /\ GoTo("done")
    BY <2>1, GoesTo DEF WaitForRelease
  <2>2. CASE released /\ GoTo("pcm")
    BY <2>2, GoesTo DEF WaitForRelease
  <2> QED
    BY <2>1, <2>2 DEF WaitForRelease
<1>5. NextFrame =>
         /\ codec = "wav" /\ encoder.pc = "pcm"
         /\ \/ closed /\ At("done")
            \/ /\ encoder'.pc = IF ~timed /\ encoder.to + 1 < anchor THEN "pcm" ELSE "frame"
               /\ encoder'.from = encoder.to + 1 /\ encoder'.skipped = encoder.skipped
               /\ encoder'.from <= encoder'.to
  <2>1. SUFFICES ASSUME NEW size \in 1..FrameSamples,
                        encoder' = [encoder EXCEPT
                            !.pc = IF ~timed /\ encoder.to + 1 < anchor THEN "pcm" ELSE "frame",
                            !.from = encoder.to + 1, !.to = @ + size]
                 PROVE  /\ encoder'.pc = IF ~timed /\ encoder.to + 1 < anchor THEN "pcm" ELSE "frame"
                        /\ encoder'.from = encoder.to + 1 /\ encoder'.skipped = encoder.skipped
                        /\ encoder'.from <= encoder'.to
    BY GoesTo DEF NextFrame
  <2>2. encoder.to + 1 <= encoder.to + size
    BY <1>1, LiveBoundsAssumption
  <2>3. encoder'.from = encoder.to + 1 /\ encoder'.to = encoder.to + size
    BY <1>1, <2>1
  <2> QED
    BY <1>1, <2>1, <2>2, <2>3
<1>6. CheckSubscriber =>
         encoder.pc = "frame" /\ At(IF ~closed /\ connected THEN "anchor" ELSE "pcm")
  BY GoesTo DEF CheckSubscriber
<1>7. CheckAnchor =>
         /\ encoder.pc = "anchor"
         /\ IF anchor = 0 \/ (timed /\ encoder.to < anchor)
            THEN /\ encoder'.pc = "pcm" /\ encoder'.skipped = encoder.to
                 /\ UNCHANGED <<encoder.from, encoder.to>>
            ELSE /\ encoder'.pc = "send" /\ encoder'.from = Cut(encoder.from)
                 /\ UNCHANGED <<encoder.to, encoder.skipped>>
  BY <1>1 DEF CheckAnchor
<1>8. SendPiece =>
         /\ encoder.pc = "send"
         /\ IF encoder.from = encoder.to
            THEN At("pcm")
            ELSE /\ encoder'.pc = "send" /\ encoder'.from = encoder.from + 1
                 /\ UNCHANGED <<encoder.to, encoder.skipped>>
  BY <1>1, GoesTo DEF SendPiece
<1> QED
  BY <1>2, <1>3, <1>4, <1>5, <1>6, <1>7, <1>8

LEMMA NewChunk ==
    ASSUME StreamTypes, BodyTypes, PipeTypes
    PROVE  /\ ReadOutput => /\ Polled /\ stdout # <<>>
                            /\ encoder'.pc = "chunk" /\ encoder'.skipped = encoder.skipped
                            /\ encoder'.from = stdout[1] /\ encoder'.to = stdout[1]
           /\ Publish => encoder.pc = "chunk" /\ At(IF ~closed /\ connected THEN "send" ELSE "pcm")
           /\ TaskEnds => Polled /\ At("done")
<1>1. ReadOutput => /\ Polled /\ stdout # <<>>
                    /\ encoder'.pc = "chunk" /\ encoder'.skipped = encoder.skipped
                    /\ encoder'.from = stdout[1] /\ encoder'.to = stdout[1]
  BY DEF ReadOutput, StreamTypes, PipeTypes
<1> QED
  BY <1>1, GoesTo DEF Publish, TaskEnds

LEMMA FrameStep == ASSUME TypeInv, PipesInv, FrameInv, [EncodedNext]_allVars PROVE FrameInv'
<1> USE DEF TypeInv
<1>1. codec' = codec
  BY ConnectionFrame, Steps
     DEF Rest, EncoderStep, LockPrelude, PublishHeader, WaitForRelease, NextFrame, CheckSubscriber,
         CheckAnchor, SendPiece, SetAnchor, SetRelease, Remove, MpegTask, TakeFrame, WritePiece,
         ReadOutput, Publish, ReadErrors, TaskEnds, Encode, Complain, Exits, allVars, vars, kind
<1>2. CASE encoder' = encoder
  BY <1>1, <1>2 DEF FrameInv
<1>3. CASE EncoderStep
  <2> USE <1>1, NewEncoder DEF FrameInv, At, StreamTypes
  <2>1. CASE LockPrelude
    BY <2>1
  <2>2. CASE PublishHeader
    BY <2>2
  <2>3. CASE WaitForRelease
    BY <2>3
  <2>4. CASE NextFrame
    BY <2>4
  <2>5. CASE CheckSubscriber
    BY <2>5
  <2>6. CASE CheckAnchor
    BY <2>6 DEF Cut
  <2>7. CASE SendPiece
    BY <2>7
  <2> QED
    BY <1>3, <2>1, <2>2, <2>3, <2>4, <2>5, <2>6, <2>7 DEF EncoderStep
<1>4. CASE ReadOutput
  <2>1. stdout \in Seq(Nat) /\ stdout # <<>> /\ codec = "mp3"
    BY <1>4 DEF ReadOutput, Polled, PipeTypes
  <2>2. 1 \in 1..Len(stdout)
    BY <2>1
  <2>3. encoder.to \in Nat /\ stdout[1] = encoder.to + 1
    BY <2>1, <2>2 DEF PipesInv, StreamTypes
  <2> QED
    BY <1>1, <1>4, <2>3, NewChunk DEF FrameInv, Polled
<1>5. CASE Publish \/ TaskEnds
  BY <1>1, <1>5, NewChunk DEF FrameInv, Polled, At
<1>6. CASE TakeFrame \/ WritePiece \/ ReadErrors
  BY <1>2, <1>6 DEF TakeFrame, WritePiece, ReadErrors, vars
<1>7. CASE SetAnchor \/ SetRelease \/ Remove
  BY <1>2, <1>7 DEF SetAnchor, SetRelease, Remove
<1>8. CASE Encode \/ Complain \/ Exits \/ UNCHANGED allVars
  BY <1>2, <1>8 DEF Encode, Complain, Exits, allVars, vars
<1>9. ASSUME NEW c \in Clients, ConnectionStep(c) PROVE FrameInv'
  BY <1>2, <1>9, ConnectionFrame
<1> QED
  BY <1>3, <1>4, <1>5, <1>6, <1>7, <1>8, <1>9, Steps DEF Rest, MpegTask
----------------------------------------------------------------------------
(* The cutoff.                                                             *)

LEMMA SentAfter ==
    ASSUME StreamTypes, NEW x, sent' = Append(sent, x)
    PROVE  /\ DOMAIN sent' = DOMAIN sent \cup {Len(sent) + 1}
           /\ \A i \in DOMAIN sent : i <= Len(sent) /\ sent'[i] = sent[i]
           /\ sent'[Len(sent) + 1] = x /\ Len(sent') = Len(sent) + 1
  BY DEF StreamTypes

LEMMA CutoffStep ==
    ASSUME TypeInv, FrameInv, CutoffInv, [EncodedNext]_allVars
    PROVE  CutoffInv'
<1> USE DEF TypeInv, StreamTypes
<1>1. CASE UNCHANGED <<codec, timed, anchor, released, sent, encoder>>
  BY <1>1 DEF CutoffInv, StartsAtCutoff
<1>2. CASE EncoderStep
  <2>1. UNCHANGED <<codec, timed, anchor, released>>
    BY <1>2 DEF EncoderStep, LockPrelude, PublishHeader, WaitForRelease, NextFrame,
                CheckSubscriber, CheckAnchor, SendPiece, kind, plan
  <2> USE <2>1 DEF CutoffInv, StartsAtCutoff
  <2>2. CASE LockPrelude
    BY <2>2, NewEncoder DEF LockPrelude, At
  <2>3. CASE PublishHeader
    <3>1. encoder'.pc = "wait" /\ encoder'.skipped = encoder.skipped
      BY <2>3, NewEncoder DEF At
    <3>2. CASE sent' = sent
      BY <3>1, <3>2
    <3>3. CASE sent' = Append(sent, Header)
      <4>1. \A i \in DOMAIN sent' : sent'[i] = Header \/ (i \in DOMAIN sent /\ sent'[i] = sent[i])
        BY <3>3, SentAfter
      <4> QED
        BY <3>1, <4>1
    <3> QED
      BY <2>3, <3>2, <3>3 DEF PublishHeader
  <2>4. CASE WaitForRelease
    BY <2>4, NewEncoder DEF WaitForRelease, At
  <2>5. CASE NextFrame
    <3>1. /\ sent' = sent /\ codec = "wav" /\ encoder.pc = "pcm"
          /\ encoder'.skipped = encoder.skipped
      BY <2>5, NewEncoder DEF NextFrame, At
    <3>2. \/ encoder'.pc = "done"
          \/ encoder'.pc = "pcm"
          \/ /\ encoder'.pc = "frame" /\ encoder'.from = encoder.to + 1
             /\ ~(~timed /\ encoder.to + 1 < anchor)
      BY <2>5, NewEncoder DEF At
    <3> QED
      BY <3>1, <3>2
  <2>6. CASE CheckSubscriber
    BY <2>6, NewEncoder DEF CheckSubscriber, At
  <2>7. CASE CheckAnchor
    BY <2>7, NewEncoder DEF CheckAnchor, Cut, FrameInv
  <2>8. CASE SendPiece
    <3>1. /\ encoder.pc = "send"
          /\ \/ encoder'.pc = "pcm"
             \/ encoder'.pc = "send" /\ encoder'.from = encoder.from + 1
          /\ encoder'.skipped = encoder.skipped
      BY <2>8, NewEncoder DEF At
    <3>2. sent' = Append(sent, encoder.from)
      BY <2>8 DEF SendPiece
    <3>3. codec = "wav" => anchor # 0 /\ anchor <= encoder.from
      BY <3>1
    <3>4. \A i \in DOMAIN sent' :
             sent'[i] = encoder.from \/ (i \in DOMAIN sent /\ sent'[i] = sent[i])
      BY <3>2, SentAfter
    <3> QED
      BY <3>1, <3>3, <3>4
  <2> QED
    BY <1>2, <2>2, <2>3, <2>4, <2>5, <2>6, <2>7, <2>8 DEF EncoderStep
<1>3. CASE ReadOutput \/ Publish \/ TaskEnds
  <2>1. codec # "wav" /\ UNCHANGED <<codec, anchor, released>>
    BY <1>3 DEF ReadOutput, Publish, TaskEnds, Polled, FrameInv, kind, plan
  <2> QED
    BY <2>1 DEF CutoffInv, StartsAtCutoff
<1>4. CASE TakeFrame \/ WritePiece \/ ReadErrors
  BY <1>1, <1>4 DEF TakeFrame, WritePiece, ReadErrors, vars
<1>5. CASE SetAnchor
  <2>1. /\ codec = "wav" /\ anchor = 0 /\ anchor' \in 1..MaxSamples
        /\ UNCHANGED <<codec, timed, released, sent, encoder>>
    BY <1>5 DEF SetAnchor, kind
  <2>2. ~released /\ encoder.skipped = 0 /\ \A i \in DOMAIN sent : sent[i] = Header
    BY <2>1 DEF CutoffInv, StartsAtCutoff
  <2>3. anchor' # 0
    BY <2>1, LiveBoundsAssumption
  <2> QED
    BY <2>1, <2>2, <2>3 DEF CutoffInv, StartsAtCutoff
<1>6. CASE SetRelease
  BY <1>6 DEF SetRelease, kind, CutoffInv, StartsAtCutoff
<1>7. CASE Remove
  BY <1>1, <1>7 DEF Remove, kind, plan
<1>8. CASE Encode \/ Complain \/ Exits \/ UNCHANGED allVars
  BY <1>1, <1>8 DEF Encode, Complain, Exits, allVars, vars
<1>9. ASSUME NEW c \in Clients, ConnectionStep(c) PROVE CutoffInv'
  BY <1>1, <1>9, ConnectionFrame
<1> QED
  BY <1>2, <1>3, <1>4, <1>5, <1>6, <1>7, <1>8, <1>9, Steps DEF Rest, MpegTask

----------------------------------------------------------------------------
(* ffmpeg and its pipes.                                                   *)

LEMMA PipesStep ==
    ASSUME TypeInv, FrameInv, PipesInv, [EncodedNext]_allVars
    PROVE  PipesInv'
<1> USE DEF TypeInv, StreamTypes, PipeTypes
<1>1. CASE UNCHANGED <<codec, mpeg, encoder.to>>
  BY <1>1 DEF PipesInv, mpeg, pipes
<1>2. CASE EncoderStep /\ UNCHANGED mpeg
  <2>1. codec' = codec
    BY <1>2 DEF EncoderStep, LockPrelude, PublishHeader, WaitForRelease, NextFrame,
                CheckSubscriber, CheckAnchor, SendPiece, kind
  <2>2. CASE codec = "wav"
    BY <2>1, <2>2 DEF PipesInv
  <2>3. CASE codec = "mp3"
    <3>1. SendPiece
      BY <1>2, <2>3, NewEncoder DEF EncoderStep, FrameInv
    <3>2. encoder'.to = encoder.to
      BY <3>1, NewEncoder DEF At
    <3> QED
      BY <1>1, <1>2, <2>1, <3>2
  <2> QED
    BY <2>2, <2>3
<1>3. CASE TakeFrame
  <2>1. SUFFICES ASSUME codec = "mp3" PROVE PipesInv'
    BY <1>3 DEF TakeFrame, Polled
  <2>2. UNCHANGED <<codec, encoder, ffmpeg, stdin, stdout>> /\ writer.pc = "recv"
    BY <1>3 DEF TakeFrame, vars, pipes
  <2>3. CASE writer' = [writer EXCEPT !.pc = "done"]
    BY <2>1, <2>2, <2>3 DEF PipesInv
  <2>4. ASSUME NEW size \in 1..FrameSamples,
               writer' = [pc |-> "write", from |-> writer.to + 1, to |-> writer.to + size]
        PROVE  PipesInv'
    <3>1. writer.to + 1 <= writer.to + size
      BY LiveBoundsAssumption
    <3>2. writer'.pc = "write" /\ writer'.from = writer.to + 1 /\ writer'.from <= writer'.to
      BY <2>4, <3>1
    <3> QED
      BY <2>1, <2>2, <3>2 DEF PipesInv
  <2> QED
    BY <1>3, <2>3, <2>4 DEF TakeFrame
<1>4. CASE WritePiece
  <2>1. /\ codec = "mp3" /\ UNCHANGED <<codec, encoder, ffmpeg, stdout>>
        /\ writer.pc = "write" /\ ffmpeg # "exited"
        /\ stdin' = Append(stdin, writer.from)
    BY <1>4 DEF WritePiece, Polled, vars
  <2>2. /\ Len(stdin') = Len(stdin) + 1 /\ Len(stdin) \in Nat
        /\ \A i \in 1..Len(stdin') : IF i <= Len(stdin) THEN stdin'[i] = stdin[i]
                                                       ELSE stdin'[i] = writer.from
    BY <2>1
  <2>3. /\ writer.from = encoder.to + Len(stdout) + Len(stdin) + 1
        /\ writer.from <= writer.to
    BY <2>1 DEF PipesInv
  <2>4. IF writer.from = writer.to
        THEN writer'.pc = "recv" /\ writer'.to = writer.to
        ELSE writer'.pc = "write" /\ writer'.from = writer.from + 1 /\ writer'.to = writer.to
    BY <1>4 DEF WritePiece
  <2>5. ASSUME NEW i \in 1..Len(stdin') PROVE stdin'[i] = encoder.to + Len(stdout) + i
    <3>1. CASE i <= Len(stdin)
      <4>1. i \in 1..Len(stdin) /\ stdin'[i] = stdin[i]
        BY <2>2, <3>1
      <4> QED
        BY <2>1, <4>1 DEF PipesInv
    <3>2. CASE ~(i <= Len(stdin))
      <4>1. i = Len(stdin) + 1 /\ stdin'[i] = writer.from
        BY <2>2, <3>2
      <4> QED
        BY <2>3, <4>1
    <3> QED
      BY <3>1, <3>2
  <2> QED
    BY <2>1, <2>2, <2>3, <2>4, <2>5 DEF PipesInv
<1>5. CASE ReadOutput
  <2>1. /\ codec = "mp3" /\ UNCHANGED <<codec, writer, ffmpeg, stdin>>
        /\ stdout # <<>> /\ stdout' = Tail(stdout)
    BY <1>5 DEF ReadOutput, Polled, kind
  <2>2. /\ Len(stdout) = Len(stdout') + 1 /\ Len(stdout') \in Nat
        /\ \A i \in 1..Len(stdout') : stdout'[i] = stdout[i + 1] /\ i + 1 \in 1..Len(stdout)
        /\ 1 \in 1..Len(stdout)
    BY <2>1
  <2>3. encoder'.to = encoder.to + 1
    BY <1>5, <2>1, <2>2, NewChunk DEF PipesInv
  <2>4. \A i \in 1..Len(stdout') : stdout'[i] = encoder'.to + i
    BY <2>1, <2>2, <2>3 DEF PipesInv
  <2>5. encoder'.to + Len(stdout') = encoder.to + Len(stdout)
    BY <2>2, <2>3
  <2> QED
    BY <2>1, <2>4, <2>5 DEF PipesInv
<1>6. CASE Publish
  BY <1>1, <1>6, NewChunk DEF Publish, At, kind
<1>7. CASE ReadErrors
  BY <1>7 DEF ReadErrors, vars, PipesInv
<1>8. CASE TaskEnds
  BY <1>8 DEF TaskEnds, kind, PipesInv
<1>9. CASE Encode
  <2>1. /\ UNCHANGED <<codec, encoder, writer>> /\ ffmpeg = "runs"
        /\ stdin # <<>> /\ stdin' = Tail(stdin) /\ stdout' = Append(stdout, stdin[1])
    BY <1>9 DEF Encode, vars
  <2>2. /\ Len(stdin) = Len(stdin') + 1 /\ Len(stdin') \in Nat
        /\ \A i \in 1..Len(stdin') : stdin'[i] = stdin[i + 1] /\ i + 1 \in 1..Len(stdin)
        /\ 1 \in 1..Len(stdin)
    BY <2>1
  <2>3. /\ Len(stdout') = Len(stdout) + 1 /\ Len(stdout) \in Nat
        /\ \A i \in 1..Len(stdout') : IF i <= Len(stdout) THEN stdout'[i] = stdout[i]
                                                         ELSE stdout'[i] = stdin[1]
    BY <2>1
  <2>4. SUFFICES ASSUME codec = "mp3" PROVE PipesInv'
    BY <2>1 DEF PipesInv
  <2>5. stdin[1] = encoder.to + Len(stdout) + 1
    BY <2>1, <2>2, <2>4 DEF PipesInv
  <2>6. ASSUME NEW i \in 1..Len(stdout') PROVE stdout'[i] = encoder'.to + i
    <3>1. CASE i <= Len(stdout)
      <4>1. i \in 1..Len(stdout) /\ stdout'[i] = stdout[i]
        BY <2>3, <3>1
      <4> QED
        BY <2>1, <2>4, <4>1 DEF PipesInv
    <3>2. CASE ~(i <= Len(stdout))
      <4>1. stdout'[i] = stdin[1]
        BY <2>3, <3>2
      <4>2. i = Len(stdout) + 1
        BY <2>3, <3>2
      <4> QED
        BY <2>1, <2>5, <4>1, <4>2
    <3> QED
      BY <3>1, <3>2
  <2>7. \A i \in 1..Len(stdin') : stdin'[i] = encoder'.to + Len(stdout') + i
    BY <2>1, <2>2, <2>3, <2>4 DEF PipesInv
  <2>8. encoder'.to + Len(stdout') + Len(stdin') = encoder.to + Len(stdout) + Len(stdin)
    BY <2>1, <2>2, <2>3
  <2> QED
    BY <2>1, <2>4, <2>6, <2>7, <2>8 DEF PipesInv
<1>10. CASE Complain \/ Exits
  BY <1>10 DEF Complain, Exits, vars, PipesInv
<1>11. CASE (SetAnchor \/ SetRelease \/ Remove) /\ UNCHANGED mpeg
  BY <1>1, <1>11 DEF SetAnchor, SetRelease, Remove, kind
<1>12. CASE UNCHANGED allVars
  BY <1>1, <1>12 DEF allVars, vars
<1>13. ASSUME NEW c \in Clients, ConnectionStep(c), UNCHANGED mpeg PROVE PipesInv'
  BY <1>1, <1>13, ConnectionFrame
<1> QED
  BY <1>2, <1>3, <1>4, <1>5, <1>6, <1>7, <1>8, <1>9, <1>10, <1>11, <1>12, <1>13, Steps
     DEF Rest, MpegTask
----------------------------------------------------------------------------
(* The header in the channel.                                              *)

LEMMA HeaderStep ==
    ASSUME TypeInv, FrameInv, HeaderInv, [EncodedNext]_allVars
    PROVE  HeaderInv'
<1> USE DEF TypeInv, StreamTypes
<1>1. ASSUME UNCHANGED <<codec, prelude, sent>>,
             encoder'.pc = encoder.pc \/ (HeaderDone /\ HeaderDone' /\ encoder'.pc # "wait"),
             closed' = closed \/ closed'
      PROVE  HeaderInv'
  BY <1>1 DEF HeaderInv, HeaderDone
<1>2. CASE LockPrelude
  <2>1. codec = "wav" /\ sent = <<>> /\ ~prelude
    BY <1>2, NewEncoder DEF FrameInv, HeaderInv, HeaderDone
  <2>2. UNCHANGED <<codec, sent, closed>> /\ IF closed THEN UNCHANGED prelude ELSE prelude' = TRUE
    BY <1>2 DEF LockPrelude, kind, entry
  <2>3. encoder'.pc = IF closed THEN "wait" ELSE "header"
    BY <1>2, NewEncoder DEF At
  <2> QED
    BY <2>1, <2>2, <2>3 DEF HeaderInv, HeaderDone
<1>3. CASE PublishHeader
  <2>1. codec = "wav" /\ encoder.pc = "header" /\ sent = <<>>
    BY <1>3, NewEncoder DEF FrameInv, HeaderInv, HeaderDone
  <2>2. UNCHANGED <<codec, prelude, closed>> /\ (sent' = sent \/ sent' = Append(sent, Header))
    BY <1>3 DEF PublishHeader, kind, entry
  <2>3. encoder'.pc = "wait"
    BY <1>3, NewEncoder DEF At
  <2>4. \A i \in DOMAIN sent' : i = 1 /\ sent'[i] = Header
    BY <2>1, <2>2
  <2> QED
    BY <2>1, <2>2, <2>3, <2>4 DEF HeaderInv, HeaderDone
<1>4. CASE SendPiece
  <2>1. /\ encoder.pc = "send" /\ encoder'.pc \in {"pcm", "send"}
        /\ encoder.from > 0
    BY <1>4, NewEncoder DEF At, FrameInv
  <2>2. UNCHANGED <<codec, prelude, closed>> /\ sent' = Append(sent, encoder.from)
    BY <1>4 DEF SendPiece, kind, entry
  <2>3. \A i \in DOMAIN sent' : sent'[i] = Header => i \in DOMAIN sent /\ sent[i] = Header
    BY <2>1, <2>2, SentAfter DEF Header
  <2> QED
    BY <2>1, <2>2, <2>3 DEF HeaderInv, HeaderDone
<1>5. CASE WaitForRelease \/ NextFrame \/ CheckSubscriber \/ CheckAnchor
  <2>1. UNCHANGED <<codec, prelude, sent, closed>>
    BY <1>5 DEF WaitForRelease, NextFrame, CheckSubscriber, CheckAnchor, kind, entry
  <2>2. HeaderDone /\ HeaderDone' /\ encoder'.pc # "wait"
    BY <1>5, NewEncoder DEF At, HeaderDone
  <2> QED
    BY <1>1, <2>1, <2>2
<1>6. CASE ReadOutput \/ Publish \/ TaskEnds
  <2>1. UNCHANGED <<codec, prelude, sent, closed>>
    BY <1>6 DEF ReadOutput, Publish, TaskEnds, kind, entry
  <2>2. HeaderDone /\ HeaderDone' /\ encoder'.pc # "wait"
    BY <1>6, NewChunk DEF At, HeaderDone, Polled
  <2> QED
    BY <1>1, <2>1, <2>2
<1>7. CASE TakeFrame \/ WritePiece \/ ReadErrors
  BY <1>1, <1>7 DEF TakeFrame, WritePiece, ReadErrors, vars
<1>8. CASE SetAnchor \/ SetRelease \/ Remove
  <2>1. UNCHANGED <<codec, prelude, sent, encoder>> /\ (closed' = closed \/ closed')
    BY <1>8 DEF SetAnchor, SetRelease, Remove, kind, entry
  <2> QED
    BY <1>1, <2>1
<1>9. CASE Encode \/ Complain \/ Exits \/ UNCHANGED allVars
  BY <1>1, <1>9 DEF Encode, Complain, Exits, allVars, vars
<1>10. ASSUME NEW c \in Clients, ConnectionStep(c) PROVE HeaderInv'
  BY <1>1, <1>10, ConnectionFrame
<1> QED
  BY <1>2, <1>3, <1>4, <1>5, <1>6, <1>7, <1>8, <1>9, <1>10, Steps DEF Rest, MpegTask, EncoderStep
----------------------------------------------------------------------------
(* The bodies, while others take steps.                                    *)

(* What may happen to the channel.                                         *)
LEMMA SentStep ==
    ASSUME TypeInv, [EncodedNext]_allVars
    PROVE  /\ codec' = codec /\ (closed => closed')
           /\ \/ sent' = sent
              \/ PublishHeader /\ sent' = Append(sent, Header)
              \/ SendPiece /\ sent' = Append(sent, encoder.from)
<1> USE DEF kind, entry, vars
<1>1. CASE PublishHeader
  BY <1>1 DEF PublishHeader
<1>2. CASE SendPiece
  BY <1>2 DEF SendPiece
<1>3. CASE LockPrelude \/ WaitForRelease \/ NextFrame \/ CheckSubscriber \/ CheckAnchor
  <2>1. UNCHANGED <<kind, sent, entry>>
    BY <1>3 DEF LockPrelude, WaitForRelease, NextFrame, CheckSubscriber, CheckAnchor
  <2> QED
    BY <2>1
<1>4. CASE SetAnchor \/ SetRelease \/ Remove
  BY <1>4 DEF SetAnchor, SetRelease, Remove
<1>5. CASE MpegTask
  BY <1>5 DEF MpegTask, TakeFrame, WritePiece, ReadOutput, Publish, ReadErrors, TaskEnds
<1>6. CASE Encode \/ Complain \/ Exits \/ UNCHANGED allVars
  BY <1>6 DEF Encode, Complain, Exits, allVars
<1>7. ASSUME NEW c \in Clients, ConnectionStep(c)
      PROVE  UNCHANGED <<codec, closed, sent>>
  BY <1>7, ConnectionFrame
<1> QED
  BY <1>1, <1>2, <1>3, <1>4, <1>5, <1>6, <1>7, Steps DEF Rest, EncoderStep

(* The header is published once, and no encoder goes back to its start.    *)
LEMMA HeaderOnce ==
    ASSUME TypeInv, FrameInv, Rest
    PROVE  /\ HeaderDone => HeaderDone'
           /\ encoder'.pc = "start" => encoder.pc = "start"
           /\ HeaderDone' => HeaderDone \/ closed \/ PublishHeader
<1> USE DEF TypeInv, HeaderDone
<1>1. CASE encoder' = encoder
  BY <1>1
<1>2. CASE EncoderStep
  BY <1>2, NewEncoder DEF EncoderStep, At
<1>3. CASE ReadOutput \/ Publish \/ TaskEnds
  BY <1>3, NewChunk DEF At, Polled
<1>4. CASE TakeFrame \/ WritePiece \/ ReadErrors
  BY <1>1, <1>4 DEF TakeFrame, WritePiece, ReadErrors, vars
<1>5. CASE SetAnchor \/ SetRelease \/ Remove
  BY <1>1, <1>5 DEF SetAnchor, SetRelease, Remove
<1>6. CASE Encode \/ Complain \/ Exits \/ UNCHANGED allVars
  BY <1>1, <1>6 DEF Encode, Complain, Exits, allVars, vars
<1> QED
  BY <1>2, <1>3, <1>4, <1>5, <1>6 DEF Rest, MpegTask

LEMMA HeadersKept ==
    ASSUME TypeInv, LockInv, FlagsInv, FrameInv, HeaderInv, Rest,
           NEW c \in Clients, BodyHeaders(c)
    PROVE  BodyHeaders(c)'
<1> USE DEF TypeInv
<1>1. body' = body
  BY RestFrame
<1>2. /\ codec' = codec /\ (closed => closed')
      /\ \/ sent' = sent
         \/ PublishHeader /\ sent' = Append(sent, Header)
         \/ SendPiece /\ sent' = Append(sent, encoder.from)
  BY SentStep, Steps DEF Rest, EncodedNext, LiveStep
<1>3. /\ HeaderDone => HeaderDone'
      /\ encoder'.pc = "start" => encoder.pc = "start"
      /\ HeaderDone' => HeaderDone \/ closed \/ PublishHeader
  BY HeaderOnce
<1>4. CASE PublishHeader
  <2>1. encoder.pc = "header" /\ ~HeaderDone /\ lock = "encoder" /\ codec = "wav" /\ sent = <<>>
    BY <1>4, NewEncoder DEF LockInv, HeaderInv, FrameInv, HeaderDone, StreamTypes
  <2>2. ~Midway(c)
    BY <2>1, ClientsAssumption DEF LockInv
  <2>3. body[c].pc = "streaming" => connected
    BY DEF FlagsInv
  <2>4. sent' = IF ~closed /\ connected THEN <<Header>> ELSE sent
    BY <1>4, <2>1 DEF PublishHeader
  <2>5. encoder'.pc # "start"
    BY <1>4, NewEncoder DEF At
  <2>6. body[c].pc = "streaming" /\ ~closed => sent' # <<>> /\ sent'[1] = Header
    BY <2>3, <2>4
  <2> QED
    BY <1>1, <1>2, <2>1, <2>2, <2>5, <2>6 DEF BodyHeaders, Midway
<1>5. CASE ~PublishHeader /\ sent' = sent
  BY <1>1, <1>2, <1>3, <1>5 DEF BodyHeaders, NoMoreHeader
<1>6. CASE ~PublishHeader /\ SendPiece /\ sent' = Append(sent, encoder.from)
  <2>1. encoder.from # Header
    BY <1>6, NewEncoder DEF FrameInv, Header, StreamTypes
  <2>2. NoMoreHeader(c) => NoMoreHeader(c)'
    BY <1>1, <1>6, <2>1, SentAfter DEF NoMoreHeader
  <2>3. sent # <<>> /\ sent[1] = Header => sent' # <<>> /\ sent'[1] = Header
    BY <1>6 DEF StreamTypes
  <2> QED
    BY <1>1, <1>2, <1>3, <1>6, <2>2, <2>3 DEF BodyHeaders
<1> QED
  BY <1>2, <1>4, <1>5, <1>6

LEMMA PlaceKept ==
    ASSUME TypeInv, Rest, NEW c \in Clients, BodyPlace(c)
    PROVE  BodyPlace(c)'
<1> USE DEF TypeInv
<1>1. body' = body
  BY RestFrame
<1>2. sent' = sent \/ \E x \in Nat : sent' = Append(sent, x)
  BY SentStep, Steps DEF Rest, EncodedNext, LiveStep, Header, StreamTypes
<1>3. Len(sent) <= Len(sent') /\ \A i \in DOMAIN sent : sent'[i] = sent[i]
  BY <1>2 DEF StreamTypes
<1>4. Len(sent) \in Nat /\ Len(sent') \in Nat
  BY <1>2 DEF StreamTypes
<1>5. body[c].next \in Nat /\ body[c].since \in Nat
  BY DEF BodyTypes, Bodies
<1>6. body[c].next > 1 => body[c].next - 1 \in DOMAIN sent
  BY <1>4, <1>5 DEF BodyPlace, StreamTypes
<1> QED
  BY <1>1, <1>3, <1>4, <1>5, <1>6 DEF BodyPlace
(* The encoder goes on where the channel ends, for whoever is connected.   *)
LEMMA ContiguousKept ==
    ASSUME TypeInv, FlagsInv, EncoderInv, Rest, NEW c \in Clients, BodyPlace(c), Contiguous(c)
    PROVE  Contiguous(c)'
<1> USE DEF TypeInv, EncoderInv
<1>1. body' = body /\ (closed => closed')
  BY RestFrame, SentStep, Steps DEF Rest, EncodedNext, LiveStep
<1>2. SUFFICES ASSUME body[c].pc \in {"connected", "streaming"}, ~closed, ~closed'
               PROVE  Contiguous(c)'
  BY <1>1 DEF Contiguous
<1>3. connected
  BY <1>2 DEF FlagsInv
<1>4. body[c].since \in Nat /\ Len(sent) \in Nat /\ body[c].since <= Len(sent)
  BY DEF BodyTypes, Bodies, StreamTypes, BodyPlace
<1>5. encoder \in [pc : EncoderPcs, from : Nat, to : Nat, skipped : Nat]
  BY DEF StreamTypes
<1> DEFINE Follows(e) == body[c].since < Len(sent) /\ Last # Header =>
                            /\ e.pc = "pcm" => e.to = Last
                            /\ e.pc \in {"frame", "anchor", "chunk", "send"} => e.from = Last + 1
<1>6. Follows(encoder)
  BY <1>2 DEF Contiguous
<1>7. ASSUME sent' = sent, Follows(encoder') PROVE Contiguous(c)'
  BY <1>1, <1>2, <1>7 DEF Contiguous, Last
<1>8. SUFFICES ASSUME (body[c].since < Len(sent) /\ Last # Header) \/ sent' # sent
               PROVE  Contiguous(c)'
  BY <1>7
<1>9. (Len(sent) \in DOMAIN sent /\ Last \in Nat) \/ sent = <<>>
  BY <1>4 DEF Last, StreamTypes
<1>10. CASE LockPrelude
  BY <1>5, <1>7, <1>10, NewEncoder DEF LockPrelude, At
<1>11. CASE PublishHeader
  <2>1. sent = <<>> /\ encoder'.pc = "wait"
    BY <1>11, NewEncoder DEF At, HeaderInv, HeaderDone, FrameInv, StreamTypes
  <2>2. sent' = <<Header>>
    BY <1>2, <1>3, <1>11, <2>1 DEF PublishHeader
  <2> QED
    BY <1>1, <2>1, <2>2 DEF Contiguous, Last
<1>12. CASE WaitForRelease
  <2>1. sent' = sent /\ \A i \in DOMAIN sent : sent[i] = Header
    BY <1>12, NewEncoder DEF WaitForRelease, HeaderInv, FrameInv, StreamTypes
  <2> QED
    BY <1>4, <1>8, <1>9, <2>1 DEF Last
<1>13. CASE NextFrame
  <2>1. sent' = sent /\ codec = "wav" /\ encoder.pc = "pcm"
    BY <1>13, NewEncoder DEF NextFrame
  <2>2. encoder.to = Last /\ anchor <= Last
    BY <1>4, <1>6, <1>8, <1>9, <2>1 DEF CutoffInv, StartsAtCutoff, Last
  <2>3. \/ encoder'.pc = "done"
        \/ encoder'.pc = "frame" /\ encoder'.from = encoder.to + 1
        \/ encoder'.pc = "pcm" /\ encoder.to + 1 < anchor
    BY <1>13, NewEncoder DEF At
  <2>4. ~(encoder.to + 1 < anchor)
    BY <1>5, <2>2 DEF StreamTypes
  <2> QED
    BY <1>7, <2>1, <2>2, <2>3, <2>4
<1>14. CASE CheckSubscriber
  <2>1. sent' = sent /\ encoder.pc = "frame" /\ encoder'.pc = "anchor" /\ encoder'.from = encoder.from
    BY <1>2, <1>3, <1>14, NewEncoder DEF CheckSubscriber, At
  <2> QED
    BY <1>6, <1>7, <2>1
<1>15. CASE CheckAnchor
  <2>1. sent' = sent /\ codec = "wav" /\ encoder.pc = "anchor" /\ anchor # 0
    BY <1>15, NewEncoder DEF CheckAnchor, FrameInv, CutoffInv, StreamTypes
  <2>2. encoder.from = Last + 1 /\ anchor <= Last /\ encoder.from <= encoder.to
    BY <1>4, <1>6, <1>8, <1>9, <2>1 DEF CutoffInv, StartsAtCutoff, Last, FrameInv
  <2>3. Last \in Nat /\ anchor \in Nat
    BY <1>4, <1>8, <1>9, <2>1 DEF StreamTypes
  <2>4. ~(encoder.to < anchor) /\ ~(encoder.from < anchor)
    BY <1>5, <2>2, <2>3
  <2>5. encoder'.pc = "send" /\ encoder'.from = encoder.from
    BY <1>15, <2>1, <2>4, NewEncoder DEF Cut
  <2> QED
    BY <1>7, <2>1, <2>2, <2>5
<1>16. CASE SendPiece
  <2>1. sent' = Append(sent, encoder.from)
    BY <1>16 DEF SendPiece
  <2>2. Len(sent') = Len(sent) + 1 /\ Last' = encoder.from
    BY <2>1, SentAfter DEF Last
  <2>3. \/ encoder'.pc = "pcm" /\ encoder'.to = encoder.from
        \/ encoder'.pc = "send" /\ encoder'.from = encoder.from + 1
    BY <1>16, NewEncoder DEF At
  <2>4. encoder.pc = "send"
    BY <1>16, NewEncoder
  <2>5. ASSUME NEW j \in DOMAIN sent', body[c].since < j, j < Len(sent')
        PROVE  sent'[j] = Header \/ sent'[j + 1] = sent'[j] + 1
    <3>1. j \in DOMAIN sent /\ sent'[j] = sent[j]
      BY <2>1, <2>2, <2>5, SentAfter
    <3>2. CASE j = Len(sent)
      BY <1>4, <1>6, <2>2, <2>4, <2>5, <3>1, <3>2 DEF Last
    <3>3. CASE j # Len(sent)
      <4>1. j < Len(sent) /\ j + 1 \in DOMAIN sent
        BY <1>4, <3>1, <3>3 DEF StreamTypes
      <4>2. sent'[j + 1] = sent[j + 1]
        BY <2>1, <4>1, SentAfter
      <4> QED
        BY <1>2, <2>5, <3>1, <4>1, <4>2 DEF Contiguous
    <3> QED
      BY <3>2, <3>3
  <2> QED
    BY <1>1, <2>2, <2>3, <2>5 DEF Contiguous
<1>17. CASE ReadOutput
  <2>1. sent' = sent /\ encoder.pc = "pcm" /\ codec = "mp3"
    BY <1>17 DEF ReadOutput, Polled
  <2>2. 1 \in 1..Len(stdout)
    BY <1>17 DEF ReadOutput, PipeTypes
  <2>3. encoder'.pc = "chunk" /\ encoder'.from = encoder.to + 1
    BY <1>17, <2>1, <2>2, NewChunk DEF PipesInv
  <2> QED
    BY <1>6, <1>7, <2>1, <2>3
<1>18. CASE Publish
  <2>1. sent' = sent /\ encoder.pc = "chunk" /\ encoder'.pc = "send" /\ encoder'.from = encoder.from
    BY <1>2, <1>3, <1>18, NewChunk DEF Publish, At
  <2> QED
    BY <1>6, <1>7, <2>1
<1>19. CASE TaskEnds
  BY <1>7, <1>19, NewChunk DEF TaskEnds, At
<1>20. CASE TakeFrame \/ WritePiece \/ ReadErrors
  BY <1>6, <1>7, <1>20 DEF TakeFrame, WritePiece, ReadErrors, vars
<1>21. CASE SetAnchor \/ SetRelease \/ Remove
  BY <1>6, <1>7, <1>21 DEF SetAnchor, SetRelease, Remove
<1>22. CASE Encode \/ Complain \/ Exits \/ UNCHANGED allVars
  BY <1>6, <1>7, <1>22 DEF Encode, Complain, Exits, allVars, vars
<1> QED
  BY <1>10, <1>11, <1>12, <1>13, <1>14, <1>15, <1>16, <1>17, <1>18, <1>19, <1>20, <1>21, <1>22
     DEF Rest, EncoderStep, MpegTask
----------------------------------------------------------------------------
(* The bodies, while their own connections take steps.                     *)

BodyInv(c) == BodyHeaders(c) /\ BodyPlace(c) /\ Contiguous(c) /\ HeaderLeads(c) /\ NoGaps(c)

LEMMA OthersKept ==
    ASSUME TypeInv, NEW c \in Clients, ConnectionStep(c), NEW d \in Clients \ {c}, BodyInv(d)
    PROVE  BodyInv(d)'
<1>1. UNCHANGED <<codec, prelude, sent, closed, encoder>>
  BY ConnectionFrame
<1>2. body'[d] = body[d]
  BY OtherBodies DEF TypeInv
<1> QED
  BY <1>1, <1>2
     DEF BodyInv, BodyHeaders, BodyPlace, Contiguous, HeaderLeads, NoGaps, NoMoreHeader,
         HeaderDone, Last

(* Steps that receive nothing: what the body has got stays or is dropped.  *)
LEMMA ComesAndGoes ==
    ASSUME TypeInv, LockInv, HeaderInv, NEW c \in Clients, BodyInv(c),
           Request(c) \/ Attach(c) \/ End(c) \/ Leave(c)
    PROVE  BodyInv(c)'
<1> DEFINE b == body[c]
<1>1. UNCHANGED <<codec, prelude, sent, closed, encoder>>
  BY ConnectionFrame DEF ConnectionStep
<1>2. b \in Bodies /\ Len(sent) \in Nat /\ codec \in {"wav", "mp3"}
  BY DEF TypeInv, BodyTypes, StreamTypes
<1> USE <1>1 DEF BodyInv, BodyHeaders, BodyPlace, Contiguous, HeaderLeads, NoGaps, Last, TypeInv
<1>3. ASSUME body'[c].got = <<>>, body'[c].header = FALSE, body'[c].since = 0,
             body'[c].next = 1, body'[c].pc \in {"idle", "found"}
      PROVE  BodyInv(c)'
  BY <1>2, <1>3
<1>4. CASE Request(c)
  <2>1. body'[c] = [Idle EXCEPT !.pc = "found"]
    BY <1>4, NewBody
  <2> QED
    BY <1>3, <2>1 DEF Idle
<1>5. ASSUME body'[c] = Idle PROVE BodyInv(c)'
  BY <1>3, <1>5 DEF Idle
<1>6. ASSUME NEW pc \in {"ended", "leaving"}, body'[c] = [b EXCEPT !.pc = pc]
      PROVE  BodyInv(c)'
  <2>1. /\ body'[c].pc = pc /\ body'[c].got = b.got /\ body'[c].header = b.header
        /\ body'[c].since = b.since /\ body'[c].next = b.next
    BY <1>2, <1>6 DEF Bodies
  <2> QED
    BY <1>6, <2>1
<1>7. CASE End(c)
  BY <1>6, <1>7, NewBody
<1>8. CASE Detach(c)
  BY <1>5, <1>6, <1>8, NewBody
<1>9. CASE Disconnect(c)
  BY <1>5, <1>9, NewBody
<1>10. CASE Subscribe(c)
  <2>1. b.pc = "found" /\ lock = Nothing /\ body'[c] = [b EXCEPT !.pc = "subscribed", !.next = Len(sent) + 1]
    BY <1>10, NewBody DEF Subscribe
  <2>2. /\ body'[c].pc = "subscribed" /\ body'[c].got = <<>> /\ body'[c].header = b.header
        /\ body'[c].since = b.since /\ body'[c].next = Len(sent) + 1
    BY <1>2, <2>1 DEF Bodies
  <2>3. NoMoreHeader(c)'
    BY <1>2, <2>2 DEF NoMoreHeader, StreamTypes
  <2>4. codec = "wav" /\ encoder.pc = "start" => Len(sent) + 1 = 1
    BY DEF HeaderInv, HeaderDone
  <2> QED
    BY <1>2, <2>2, <2>3, <2>4
<1>11. CASE Connect(c)
  <2>1. b.pc = "subscribed" /\ body'[c] = [b EXCEPT !.pc = "connected", !.since = Len(sent)]
    BY <1>11, NewBody DEF Connect
  <2>2. /\ body'[c].pc = "connected" /\ body'[c].got = <<>> /\ body'[c].header = b.header
        /\ body'[c].since = Len(sent) /\ body'[c].next = b.next
    BY <1>2, <2>1 DEF Bodies
  <2> QED
    BY <1>2, <2>1, <2>2 DEF NoMoreHeader, StreamTypes
<1>12. CASE Respond(c)
  <2>1. b.pc = "connected" /\ body'[c] = [b EXCEPT !.pc = "streaming", !.header = prelude]
    BY <1>12, NewBody DEF Respond
  <2>2. /\ body'[c].pc = "streaming" /\ body'[c].got = <<>> /\ body'[c].header = prelude
        /\ body'[c].since = b.since /\ body'[c].next = b.next
    BY <1>2, <2>1 DEF Bodies
  <2>3. encoder.pc # "header"
    BY <2>1, ClientsAssumption DEF LockInv, Midway
  <2>4. codec = "wav" => NoMoreHeader(c)'
    BY <2>1, <2>2 DEF NoMoreHeader
  <2>5. codec = "wav" /\ prelude => HeaderDone'
    BY <2>3 DEF HeaderInv, HeaderDone
  <2>6. codec = "wav" /\ ~prelude /\ ~closed => ~HeaderDone' /\ b.next = 1
    BY <2>1 DEF HeaderInv, HeaderDone
  <2>7. codec = "mp3" => ~prelude
    BY DEF HeaderInv
  <2>8. BodyHeaders(c)'
    BY <1>2, <2>2, <2>4, <2>5, <2>6, <2>7 DEF StreamTypes
  <2> QED
    BY <1>2, <2>1, <2>2, <2>8
<1> QED
  BY <1>4, <1>7, <1>8, <1>9, <1>10, <1>11, <1>12 DEF Attach, Leave

LEMMA Receives ==
    ASSUME TypeInv, HeaderInv, NEW c \in Clients, BodyInv(c), Receive(c)
    PROVE  BodyInv(c)'
<1> DEFINE b == body[c]
           piece == sent[b.next]
           n == Len(b.got)
<1>1. UNCHANGED <<codec, prelude, sent, closed, encoder>>
  BY ConnectionFrame DEF ConnectionStep
<1>2. b \in Bodies /\ sent \in Seq(Nat) /\ codec \in {"wav", "mp3"}
  BY DEF TypeInv, BodyTypes, StreamTypes
<1>3. b.pc = "streaming" /\ ~closed /\ ~b.header /\ b.next <= Len(sent)
  BY DEF Receive
<1>4. /\ body'[c].pc = "streaming" /\ body'[c].got = Append(b.got, piece)
      /\ body'[c].header = b.header /\ body'[c].since = b.since /\ body'[c].next = b.next + 1
  <2>1. body'[c] = [b EXCEPT !.next = @ + 1, !.got = Append(@, piece)]
    BY NewBody DEF TypeInv
  <2> QED
    BY <1>2, <1>3, <2>1 DEF Bodies
<1>5. /\ b.next \in DOMAIN sent /\ piece \in Nat /\ n \in Nat /\ b.since \in Nat
      /\ b.got \in Seq(Nat) /\ b.next \in Nat \ {0}
  <2>1. b.next \in Nat \ {0} /\ b.since \in Nat /\ b.got \in Seq(Nat)
    BY <1>2 DEF Bodies
  <2>2. b.next \in 1..Len(sent)
    BY <1>2, <1>3, <2>1
  <2> QED
    BY <1>2, <2>1, <2>2
<1>6. /\ DOMAIN body'[c].got = DOMAIN b.got \cup {n + 1} /\ Len(body'[c].got) = n + 1
      /\ body'[c].got[n + 1] = piece
      /\ \A i \in DOMAIN b.got : i <= n /\ body'[c].got[i] = b.got[i]
  BY <1>4, <1>5
<1> HIDE DEF b, piece, n
<1>7. codec = "wav" =>
         \/ b.got = <<>> /\ b.next = 1 /\ HeaderDone /\ piece = Header
         \/ b.got # <<>> /\ HeaderDone /\ NoMoreHeader(c) /\ piece # Header
  <2>1. codec = "wav" /\ HeaderDone /\ b.got = <<>> =>
           b.next = 1 /\ sent # <<>> /\ sent[1] = Header
    BY <1>3 DEF BodyInv, BodyHeaders, b
  <2>2. codec = "wav" => HeaderDone
    BY <1>5 DEF HeaderInv
  <2> QED
    BY <1>3, <1>5, <2>1, <2>2 DEF BodyInv, BodyHeaders, NoMoreHeader, b, piece
<1>8. codec = "wav" => NoMoreHeader(c)'
  <2>1. codec = "wav" => \A i \in DOMAIN sent : sent[i] = Header => i = 1
    BY DEF HeaderInv
  <2> QED
    BY <1>1, <1>2, <1>4, <1>5, <1>7, <2>1 DEF NoMoreHeader, b
<1>9. BodyHeaders(c)'
  BY <1>1, <1>2, <1>3, <1>4, <1>6, <1>7, <1>8 DEF BodyHeaders, BodyInv, HeaderDone, b
<1>10. BodyPlace(c)'
  BY <1>1, <1>3, <1>4, <1>5, <1>6 DEF BodyPlace, BodyInv, b, piece
<1>11. Contiguous(c)'
  BY <1>1, <1>3, <1>4 DEF Contiguous, BodyInv, Last, b
<1>12. HeaderLeads(c)'
  <2>1. codec = "mp3" => piece # Header
    BY <1>5 DEF HeaderInv, piece
  <2>2. b.got = <<>> <=> n = 0
    BY <1>5 DEF n
  <2>3. n + 1 = 1 <=> b.got = <<>>
    BY <1>5, <2>2
  <2>4. body'[c].got[n + 1] = Header <=> codec = "wav" /\ n + 1 = 1
    BY <1>2, <1>6, <1>7, <2>1, <2>3
  <2>5. \A i \in DOMAIN b.got : body'[c].got[i] = Header <=> codec = "wav" /\ i = 1
    BY <1>6 DEF HeaderLeads, BodyInv, b
  <2> QED
    BY <1>1, <1>6, <2>4, <2>5 DEF HeaderLeads
<1>13. NoGaps(c)'
  <2>1. SUFFICES ASSUME NEW i \in DOMAIN body'[c].got \ {n + 1}
                 PROVE  \/ body'[c].got[i] = Header
                        \/ body'[c].got[i + 1] = body'[c].got[i] + 1
                        \/ \E j \in 1..b.since : sent[j] = body'[c].got[i]
    BY <1>1, <1>4, <1>6 DEF NoGaps
  <2>2. i \in DOMAIN b.got /\ body'[c].got[i] = b.got[i]
    BY <1>6
  <2>3. CASE i # n
    <3>1. i + 1 \in DOMAIN b.got
      BY <1>5, <1>6, <2>2, <2>3 DEF n
    <3> QED
      BY <1>6, <2>2, <2>3, <3>1 DEF NoGaps, BodyInv, b, n
  <2>4. CASE i = n /\ b.got[n] # Header
    <3>1. b.next > 1 /\ sent[b.next - 1] = b.got[n]
      BY <1>3, <2>2, <2>4 DEF BodyPlace, BodyInv, b, n
    <3>2. PICK p \in Nat : b.next = p + 1 /\ p > 0
      <4>1. b.next - 1 \in Nat /\ b.next = (b.next - 1) + 1 /\ b.next - 1 > 0
        BY <1>5, <3>1
      <4> QED
        BY <4>1
    <3>3. p = b.next - 1 /\ p < Len(sent) /\ Len(sent) \in Nat
      BY <1>2, <1>3, <3>2
    <3>4. p \in DOMAIN sent
      BY <1>2, <3>2, <3>3
    <3>5. CASE b.since < p
      <4>1. sent[p] # Header
        BY <2>4, <3>1, <3>3
      <4>2. sent[p + 1] = sent[p] + 1
        BY <1>3, <3>4, <3>5, <3>3, <4>1 DEF Contiguous, BodyInv, b
      <4> QED
        BY <1>6, <2>2, <2>4, <3>1, <3>2, <3>3, <4>2 DEF piece
    <3>6. CASE ~(b.since < p)
      <4>1. p \in 1..b.since
        BY <1>5, <3>2, <3>6
      <4> QED
        BY <2>2, <2>4, <3>1, <3>3, <4>1
    <3> QED
      BY <3>5, <3>6
  <2> QED
    BY <2>2, <2>3, <2>4
<1> QED
  BY <1>9, <1>10, <1>11, <1>12, <1>13 DEF BodyInv

LEMMA ReceivesHeader ==
    ASSUME TypeInv, HeaderInv, NEW c \in Clients, BodyInv(c), ReceiveHeader(c)
    PROVE  BodyInv(c)'
<1> DEFINE b == body[c]
<1>1. UNCHANGED <<codec, prelude, sent, closed, encoder>>
  BY ConnectionFrame DEF ConnectionStep
<1>2. b \in Bodies /\ codec \in {"wav", "mp3"}
  BY DEF TypeInv, BodyTypes, StreamTypes
<1>3. b.pc = "streaming" /\ ~closed /\ b.header
  BY DEF ReceiveHeader
<1>4. codec = "wav" /\ b.got = <<>> /\ HeaderDone /\ NoMoreHeader(c)
  BY <1>2, <1>3 DEF BodyInv, BodyHeaders
<1>5. /\ body'[c].pc = "streaming" /\ body'[c].got = <<Header>> /\ ~body'[c].header
      /\ body'[c].since = b.since /\ body'[c].next = b.next
  <2>1. body'[c] = [b EXCEPT !.header = FALSE, !.got = Append(@, Header)]
    BY NewBody DEF TypeInv
  <2>2. Append(b.got, Header) = <<Header>>
    BY <1>4
  <2> QED
    BY <1>2, <1>3, <2>1, <2>2 DEF Bodies
<1>6. NoMoreHeader(c)' /\ HeaderDone'
  BY <1>1, <1>4, <1>5 DEF NoMoreHeader, HeaderDone
<1>7. BodyHeaders(c)' /\ HeaderLeads(c)' /\ NoGaps(c)'
  BY <1>1, <1>4, <1>5, <1>6 DEF BodyHeaders, HeaderLeads, NoGaps
<1>8. BodyPlace(c)' /\ Contiguous(c)'
  BY <1>1, <1>3, <1>5 DEF BodyPlace, Contiguous, BodyInv, Last
<1> QED
  BY <1>7, <1>8 DEF BodyInv

(* While others take steps a body keeps what it has got, and the channel   *)
(* what it was connected with.                                             *)
LEMMA GotKept ==
    ASSUME TypeInv, Rest, NEW c \in Clients, BodyPlace(c), HeaderLeads(c), NoGaps(c)
    PROVE  HeaderLeads(c)' /\ NoGaps(c)'
<1> USE DEF TypeInv
<1>1. body' = body /\ codec' = codec
  BY RestFrame, SentStep, Steps DEF Rest, EncodedNext, LiveStep
<1>2. sent' = sent \/ \E x \in Nat : sent' = Append(sent, x)
  BY SentStep, Steps DEF Rest, EncodedNext, LiveStep, Header, StreamTypes
<1>3. \A j \in 1..body[c].since : sent'[j] = sent[j]
  <2>1. body[c].since \in Nat /\ sent \in Seq(Nat) /\ body[c].since <= Len(sent)
    BY DEF StreamTypes, BodyTypes, Bodies, BodyPlace
  <2>2. \A j \in 1..body[c].since : j \in 1..Len(sent)
    BY <2>1
  <2> QED
    BY <1>2, <2>1, <2>2
<1> QED
  BY <1>1, <1>3 DEF HeaderLeads, NoGaps

LEMMA BodiesStep ==
    ASSUME TypeInv, LockInv, FlagsInv, EncoderInv, [EncodedNext]_allVars,
           NEW d \in Clients, BodyInv(d)
    PROVE  BodyInv(d)'
<1>1. CASE Rest
  BY <1>1, HeadersKept, PlaceKept, ContiguousKept, GotKept DEF BodyInv, EncoderInv
<1>2. ASSUME NEW c \in Clients, ConnectionStep(c), c # d PROVE BodyInv(d)'
  BY <1>2, OthersKept
<1>3. CASE ConnectionStep(d)
  BY <1>3, ComesAndGoes, Receives, ReceivesHeader DEF ConnectionStep, EncoderInv
<1> QED
  BY <1>1, <1>2, <1>3, Steps
----------------------------------------------------------------------------
(* The invariant.                                                          *)

LEMMA InitInv == EncodedInit => IInv
<1> SUFFICES ASSUME EncodedInit PROVE IInv
  OBVIOUS
<1> USE DEF EncodedInit, Init
<1>1. \A c \in Clients : body[c] = Idle
  OBVIOUS
<1>2. Idle \in Bodies
  BY DEF Idle, Bodies, Pcs
<1>3. encoder \in [pc : EncoderPcs, from : Nat, to : Nat, skipped : Nat]
  BY DEF EncoderPcs
<1>4. /\ encoder.pc = IF codec = "wav" THEN "start" ELSE "pcm"
      /\ encoder.to = 0 /\ encoder.skipped = 0
  OBVIOUS
<1>5. StreamTypes
  <2>1. sent \in Seq(Nat) /\ anchor \in Nat /\ lock \in Clients \cup {"encoder", Nothing}
    OBVIOUS
  <2>2. codec \in {"wav", "mp3"} /\ timed \in BOOLEAN
    OBVIOUS
  <2>3. /\ prelude \in BOOLEAN /\ connected \in BOOLEAN /\ watched \in BOOLEAN
        /\ released \in BOOLEAN /\ closed \in BOOLEAN
    OBVIOUS
  <2> QED
    BY <1>3, <2>1, <2>2, <2>3 DEF StreamTypes
<1>6. BodyTypes /\ PipeTypes
  BY <1>2 DEF BodyTypes, PipeTypes
<1>7. LockInv
  BY <1>1, <1>4, ClientsAssumption DEF LockInv, Midway, Idle
<1>8. FlagsInv
  <2>1. \A c \in Clients : body[c].pc = "idle"
    BY <1>1 DEF Idle
  <2>2. Subscribers = {}
    BY <2>1 DEF Subscribers, Attached
  <2> QED
    BY <2>1, <2>2, FS_EmptySet DEF FlagsInv
<1>9. FrameInv /\ HeaderInv
  BY <1>4 DEF FrameInv, HeaderInv, HeaderDone
<1>10. CutoffInv
  BY <1>4 DEF CutoffInv, StartsAtCutoff
<1>11. PipesInv
  BY <1>4 DEF PipesInv
<1>12. \A c \in Clients : body[c].pc = "idle" /\ body[c].got = <<>> /\ ~body[c].header
                         /\ body[c].since = 0 /\ body[c].next = 1
  BY <1>1 DEF Idle
<1>13. \A c \in Clients : BodyHeaders(c) /\ BodyPlace(c) /\ Contiguous(c)
  BY <1>12 DEF BodyHeaders, BodyPlace, Contiguous
<1>14. \A c \in Clients : HeaderLeads(c) /\ NoGaps(c)
  BY <1>12 DEF HeaderLeads, NoGaps
<1> QED
  BY <1>5, <1>6, <1>7, <1>8, <1>9, <1>10, <1>11, <1>13, <1>14
     DEF IInv, TypeInv, EncoderInv, BodiesInv, BodiesAreWhole

LEMMA NextInv == ASSUME IInv, [EncodedNext]_allVars PROVE IInv'
<1>1. TypeInv /\ LockInv /\ FlagsInv /\ EncoderInv /\ \A c \in Clients : BodyInv(c)
  BY DEF IInv, BodiesInv, BodiesAreWhole, BodyInv
<1>2. TypeInv' /\ LockInv' /\ FlagsInv'
  BY <1>1, TypesStep, LockStep, FlagsStep
<1>3. EncoderInv'
  BY <1>1, FrameStep, CutoffStep, PipesStep, HeaderStep DEF EncoderInv
<1>4. \A c \in Clients : BodyInv(c)'
  BY <1>1, BodiesStep
<1> QED
  BY <1>2, <1>3, <1>4 DEF IInv, BodiesInv, BodiesAreWhole, BodyInv

LEMMA Invariance == Spec => []IInv
  BY InitInv, NextInv, PTL DEF Spec

----------------------------------------------------------------------------
(* The flags that the encoder and the worker read without the mutex are    *)
(* right whenever nobody is coming or going, for any number of players     *)
(* (attach_subscriber, detach_subscriber).                                 *)
THEOREM ConnectedWhileSubscribedHolds == Spec => []ConnectedWhileSubscribed
<1>1. IInv => ConnectedWhileSubscribed
  <2> SUFFICES ASSUME IInv, Quiet PROVE
        /\ count = Cardinality(Subscribers) /\ connected = (count > 0) /\ watched = connected
    BY DEF ConnectedWhileSubscribed, Subscribers
  <2>1. count = Cardinality(Subscribers) /\ watched = connected
    BY DEF IInv, FlagsInv
  <2>2. count > 0 <=> Subscribers # {}
    BY <2>1, SubscribersFinite, ClientsAssumption, FS_EmptySet
  <2>3. connected <=> Subscribers # {}
    BY DEF IInv, FlagsInv, Quiet, Subscribers, Attached
  <2>4. connected \in BOOLEAN
    BY DEF IInv, TypeInv, StreamTypes
  <2> QED
    BY <2>1, <2>2, <2>3, <2>4
<1> QED
  BY <1>1, Invariance, PTL

(* The rooms of a cohort begin with the same sample: a WAV stream sends    *)
(* nothing from before its cutoff and skips nothing from it on             *)
(* (set_playback_plan, publish_timed_pcm).                                 *)
THEOREM StartsAtCutoffHolds == Spec => []StartsAtCutoff
  BY Invariance, PTL DEF IInv, EncoderInv, CutoffInv

(* What any player gets is a header and whole sound, however players come, *)
(* go and fall behind (publish_prelude, attach_subscriber, publish).       *)
THEOREM BodiesAreWholeHold == Spec => []BodiesAreWhole
  BY Invariance, PTL DEF IInv

=============================================================================
