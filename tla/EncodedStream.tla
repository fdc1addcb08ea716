--------------------------- MODULE EncodedStream ----------------------------
(***************************************************************************)
(* A live stream with its encoder: the WAV encoder of LiveStream, or       *)
(* ffmpeg behind three pipes (FfmpegEncoder::spawn, encoder.rs).           *)
(*                                                                         *)
(* The writer of stdin, the readers of stdout and stderr and the wait for  *)
(* the process are branches of one task: while one of them publishes       *)
(* (encoder.pc is not "pcm") the others stand still.  ffmpeg is external:  *)
(* it turns one piece of PCM into one of MP3, blocks on a full pipe, may   *)
(* complain on stderr first and after every piece, and may exit at any     *)
(* time.                                                                   *)
(***************************************************************************)
EXTENDS LiveStream

CONSTANTS PipeSize,   \* pieces a pipe holds
          MaxEncoded  \* bound: samples the source delivers to ffmpeg

ASSUME PipeAssumption == PipeSize \in Nat \ {0} /\ MaxEncoded \in Nat

VARIABLES writer,  \* the branch that writes: waits for a frame, writes it, is done
          ffmpeg,  \* "runs", has something to say ("complains") or "exited"
          stdin, stdout,
          stderr   \* how many complaints wait to be read

pipes == <<stdin, stdout, stderr>>
mpeg == <<writer, ffmpeg, pipes>>
allVars == <<vars, mpeg>>

EncodedInit ==
    /\ Init
    /\ writer = [pc |-> "recv", from |-> 1, to |-> 0]
    /\ ffmpeg \in IF codec = "mp3" THEN {"runs", "complains"} ELSE {"exited"}
    /\ stdin = <<>> /\ stdout = <<>> /\ stderr = 0

(* The task waits, so that each of its branches may be polled.             *)
Polled == codec = "mp3" /\ encoder.pc = "pcm"

----------------------------------------------------------------------------
(* The branches of the task.                                               *)

(* rx.recv: a frame, or the end of a closed queue, which ends stdin.       *)
TakeFrame ==
    /\ Polled /\ writer.pc = "recv"
    /\ \/ closed /\ writer' = [writer EXCEPT !.pc = "done"]
       \/ ~closed /\ \E size \in 1..FrameSamples :
             /\ writer.to + size <= MaxEncoded
             /\ writer' = [pc |-> "write", from |-> writer.to + 1, to |-> writer.to + size]
    /\ UNCHANGED <<vars, ffmpeg, pipes>>

(* write_all, one piece.                                                   *)
WritePiece ==
    /\ Polled /\ writer.pc = "write"
    /\ ffmpeg # "exited" /\ Len(stdin) < PipeSize
    /\ stdin' = Append(stdin, writer.from)
    /\ writer' = IF writer.from = writer.to THEN [writer EXCEPT !.pc = "recv"]
                                            ELSE [writer EXCEPT !.from = @ + 1]
    /\ UNCHANGED <<vars, ffmpeg, stdout, stderr>>

(* stdout.read: what was read is published before anything else happens.   *)
ReadOutput ==
    /\ Polled /\ stdout # <<>>
    /\ encoder' = [encoder EXCEPT !.pc = "chunk", !.from = Head(stdout), !.to = Head(stdout)]
    /\ stdout' = Tail(stdout)
    /\ UNCHANGED <<kind, lock, prelude, sent, flags, plan, entry, body, requests,
                   writer, ffmpeg, stdin, stderr>>

(* publish: a closed stream takes nothing, and without subscribers the     *)
(* sound is dropped.  There is no cutoff.                                  *)
Publish ==
    /\ encoder.pc = "chunk"
    /\ GoTo(IF ~closed /\ connected THEN "send" ELSE "pcm")
    /\ UNCHANGED <<kind, lock, prelude, sent, flags, plan, entry, body, requests, mpeg>>

\* Wrong variant of ReadErrors: stderr is read when the process is over.
ReadErrorsAtExit ==
    /\ Polled /\ stderr > 0 /\ ffmpeg = "exited"
    /\ stderr' = 0
    /\ UNCHANGED <<vars, writer, ffmpeg, stdin, stdout>>

(* read_stderr_tail                                                        *)
ReadErrors ==
    /\ Polled /\ stderr > 0
    /\ stderr' = 0
    /\ UNCHANGED <<vars, writer, ffmpeg, stdin, stdout>>

(* The stream is closed, a write fails, or every branch is done.  The      *)
(* process is killed and what is in the pipes is lost.                     *)
TaskEnds ==
    /\ Polled
    /\ \/ closed
       \/ writer.pc = "write" /\ ffmpeg = "exited"
       \/ writer.pc = "done" /\ ffmpeg = "exited" /\ stdout = <<>> /\ stderr = 0
    /\ GoTo("done")
    /\ ffmpeg' = "exited"
    /\ stdin' = <<>> /\ stdout' = <<>> /\ stderr' = 0
    /\ UNCHANGED <<kind, lock, prelude, sent, flags, plan, entry, body, requests, writer>>

MpegTask == TakeFrame \/ WritePiece \/ ReadOutput \/ Publish \/ ReadErrors \/ TaskEnds

----------------------------------------------------------------------------
(* ffmpeg.                                                                 *)

Encode ==
    /\ ffmpeg = "runs" /\ stdin # <<>> /\ Len(stdout) < PipeSize
    /\ stdin' = Tail(stdin) /\ stdout' = Append(stdout, Head(stdin))
    /\ ffmpeg' \in {"runs", "complains"}
    /\ UNCHANGED <<vars, writer, stderr>>

Complain ==
    /\ ffmpeg = "complains" /\ stderr < PipeSize
    /\ stderr' = stderr + 1
    /\ ffmpeg' = "runs"
    /\ UNCHANGED <<vars, writer, stdin, stdout>>

(* What it wrote can still be read.                                        *)
Exits ==
    /\ ffmpeg # "exited"
    /\ ffmpeg' = "exited"
    /\ stdin' = <<>>
    /\ UNCHANGED <<vars, writer, stdout, stderr>>

----------------------------------------------------------------------------
EncodedNext ==
    \/ LiveStep /\ UNCHANGED mpeg
    \/ MpegTask
    \/ Encode \/ Complain \/ Exits

(* The encoder is a task that is run again and again, and gets a mutex     *)
(* that is free again and again; the code that holds the mutex never       *)
(* waits.  ffmpeg encodes as long as it runs and its pipes allow.  Players *)
(* are free to stop reading, and ffmpeg never has to exit.                 *)
Fairness ==
    /\ SF_allVars((EncoderStep /\ UNCHANGED mpeg) \/ MpegTask)
    /\ WF_allVars(Encode \/ Complain)
    /\ \A c \in Clients : WF_allVars(MidwayStep(c) /\ UNCHANGED mpeg)

Spec == EncodedInit /\ [][EncodedNext]_allVars /\ Fairness

----------------------------------------------------------------------------
(* "These futures remain children of this task": a frame that is being     *)
(* written to ffmpeg is written, or the task ends, although a pipe that    *)
(* nobody reads would block ffmpeg, the writer and the whole stream with   *)
(* it.                                                                     *)
FramesPass == writer.pc = "write" ~> writer.pc # "write" \/ encoder.pc = "done"
=============================================================================
