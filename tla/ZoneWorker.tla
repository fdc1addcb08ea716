---------------------------- MODULE ZoneWorker -----------------------------
(***************************************************************************)
(* The transport task of one room (bridge/mod.rs, ZoneWorker::new and      *)
(* prepare) and the room it drives.                                        *)
(*                                                                         *)
(* The task takes the latest command out of a watch channel and runs it as *)
(* a series of network requests; every request is a step of its own, so    *)
(* new commands arrive between any two of them.  A request may be accepted *)
(* or refused by the room, and its reply may be lost: a reply in mayApply  *)
(* reports an error although the room may have carried the request out.    *)
(*                                                                         *)
(* The room is external.  A Sonos room that is a member of another room's  *)
(* group refuses Stop, SetAVTransportURI and Play ("Group members reject   *)
(* AVTransport commands"), accepts a join or a leave, and keeps the URI    *)
(* loaded before it joined.  No other controller moves it while the bridge *)
(* runs, and a request takes effect before its reply or its timeout.       *)
(***************************************************************************)
EXTENDS Transport

CONSTANTS MaxGen,      \* bound: generations the runtime hands to this room
          Nothing      \* no command, no task, no answer

ErrorReplies == {"timeout", "fault", "reset"}

Steps == {"leave", "standalone", "stop", "uri", "wait", "joins", "play", "join"}

ASSUME MaxGenAssumption == MaxGen \in Nat
ASSUME NothingAssumption ==
    /\ Nothing \notin Command
    /\ Nothing \notin [cmd : Command, at : Steps]
    /\ Nothing \notin [gen : Nat, kind : Kinds, outcome : Outcomes]

VARIABLES slot, fresh, open,   \* the watch channel and whether its sender lives
          task,                \* the command being run and the step it is at
          joined,              \* the task's own note that its room is in a group
          report,              \* the answer to the last command taken
          room,                \* the device: in a group, URI loaded, playing
          device,              \* what never changes about the device
          gen,                 \* the runtime: latest generation commanded
          stage                \* the runtime: how far that generation got

channel == <<slot, fresh, open>>
runtime == <<gen, stage>>
vars == <<slot, fresh, open, task, joined, report, room, device, gen, stage>>

Busy == IF task = Nothing THEN Nothing ELSE task.cmd

Contract == INSTANCE WorkerContract WITH busy <- Busy

(* sonos: not a Home Assistant player.  force: force_standalone_on_start,  *)
(* for a room that was a member of some group when it was discovered.      *)
(* mayApply: the error replies that can follow a request carried out.      *)
Devices == [sonos : BOOLEAN, force : BOOLEAN, mayApply : SUBSET {"timeout", "reset"}]

(* uri 0 is whatever was loaded before the bridge came.                    *)
Init ==
    /\ slot = Nothing /\ fresh = FALSE /\ open = TRUE
    /\ task = Nothing /\ joined = FALSE /\ report = Nothing
    /\ device \in Devices
    /\ room \in [grouped : {device.sonos /\ device.force}, uri : {0}, playing : BOOLEAN]
    /\ gen = 0 /\ stage = "new"

----------------------------------------------------------------------------
(* The runtime: commands in the order it can send them.                    *)

Send(kind, g) ==
    /\ open
    /\ slot' = [kind |-> kind, gen |-> g]
    /\ fresh' = TRUE
    /\ gen' = g
    /\ UNCHANGED <<open, task, joined, report, room, device>>

(* Every restart and every pause draws a new generation and sends Stop;    *)
(* the end of a session repeats the Stop of its current generation.        *)
SendStop ==
    \E g \in {gen, gen + 1} \cap 1..MaxGen :
        /\ Send("Stop", g)
        /\ stage' = IF g = gen THEN "over" ELSE "new"

SendPrepare ==
    /\ stage = "new" /\ gen > 0
    /\ Send("Prepare", gen)
    /\ stage' = "preparing"

(* The release of a prepared stream sends Play, PlayGroup or Join; the     *)
(* retry timer sends Play.  Home Assistant players never join a group.     *)
SendStart ==
    /\ stage \in {"prepared", "started"}
    /\ \E kind \in StartKinds :
          /\ kind = "Join" => device.sonos
          /\ stage = "started" => kind = "Play"
          /\ Send(kind, gen)
    /\ stage' = "started"

(* ZoneWorker::shutdown drops the sender.                                  *)
Close ==
    /\ open
    /\ open' = FALSE
    /\ UNCHANGED <<slot, fresh, task, joined, report, room, device, runtime>>

----------------------------------------------------------------------------
(* The room.                                                               *)

(* One request: carried out when the room accepts it, with a reply that    *)
(* may say otherwise.                                                      *)
Request(reply, accepts, after) ==
    \/ reply = "ok" /\ accepts /\ room' = after
    \/ reply \in ErrorReplies /\ room' = room
    \/ reply \in device.mayApply /\ accepts /\ room' = after

Replies == {"ok"} \cup ErrorReplies

Standalone ==
    IF room.grouped THEN [room EXCEPT !.grouped = FALSE, !.playing = FALSE] ELSE room

StopRequest(reply) ==
    Request(reply, ~room.grouped, [room EXCEPT !.playing = FALSE])
UriRequest(reply, g) ==
    Request(reply, ~room.grouped, [room EXCEPT !.uri = g])
LeaveRequest(reply) ==
    Request(reply, device.sonos, Standalone)
JoinRequest(reply) ==
    Request(reply, TRUE, [room EXCEPT !.grouped = TRUE, !.playing = TRUE])
(* Sonos plays what prepare loaded; play_media names the stream itself.    *)
PlayRequest(reply, g) ==
    Request(reply, ~room.grouped,
            [room EXCEPT !.playing = TRUE, !.uri = IF device.sonos THEN @ ELSE g])

----------------------------------------------------------------------------
(* The worker.                                                             *)

HasChanged == fresh \/ ~open

PrepareStep == IF ~device.sonos THEN "wait" ELSE IF device.force THEN "standalone" ELSE "stop"

(* The step after leaving the group, or the first when there is none.      *)
BodyStep(kind) ==
    CASE kind = "Prepare" -> PrepareStep
      [] kind = "Play" -> "play"
      [] kind = "PlayGroup" -> "joins"
      [] kind = "Join" -> "join"
      [] kind = "Stop" -> "stop"

LeavesFirst == {"Prepare", "Play", "Stop"}

FirstStep(kind) ==
    IF joined /\ kind \in LeavesFirst THEN "leave" ELSE BodyStep(kind)

At(step) == task # Nothing /\ task.at = step

GoTo(step) == task' = [task EXCEPT !.at = step]

Finish(outcome) ==
    /\ report' = [gen |-> task.cmd.gen, kind |-> task.cmd.kind, outcome |-> outcome]
    /\ task' = Nothing
    /\ stage' = IF outcome = "Prepared" /\ task.cmd.gen = gen /\ stage = "preparing"
                THEN "prepared" ELSE stage
    /\ UNCHANGED gen

(* A failed request of prepare reports the failure and ends it; a timeout  *)
(* counts as a failure too.                                                *)
FinishPrepareFailed == \E outcome \in {"Failed", "PermanentFailure"} : Finish(outcome)

\* Wrong variant of Take: a closed channel is not drained.
TakeStopsOnClose ==
    /\ task = Nothing
    /\ fresh /\ open
    /\ task' = [cmd |-> slot, at |-> FirstStep(slot.kind)]
    /\ fresh' = FALSE
    /\ report' = Nothing
    /\ UNCHANGED <<slot, open, joined, room, device, runtime>>

Take ==
    /\ task = Nothing
    /\ fresh
    /\ task' = [cmd |-> slot, at |-> FirstStep(slot.kind)]
    /\ fresh' = FALSE
    /\ report' = Nothing
    /\ UNCHANGED <<slot, open, joined, room, device, runtime>>

\* Wrong variant of Leave: an error counts as having left.
LeaveTrustsErrors ==
    /\ At("leave")
    /\ \E reply \in Replies : LeaveRequest(reply)
    /\ joined' = FALSE
    /\ GoTo(BodyStep(task.cmd.kind))
    /\ UNCHANGED <<channel, report, device, runtime>>

(* The room leaves its group.  Any error keeps the note that it is joined, *)
(* and the command goes on either way.                                     *)
Leave ==
    /\ At("leave")
    /\ \E reply \in Replies :
          /\ LeaveRequest(reply)
          /\ joined' = (reply # "ok")
    /\ GoTo(BodyStep(task.cmd.kind))
    /\ UNCHANGED <<channel, report, device, runtime>>

PrepareStandalone ==
    /\ At("standalone")
    /\ \E reply \in Replies :
          /\ LeaveRequest(reply)
          /\ IF reply = "ok"
             THEN GoTo("stop") /\ UNCHANGED <<report, runtime>>
             ELSE FinishPrepareFailed
    /\ UNCHANGED <<channel, joined, device>>

(* The Stop barrier of prepare, and then the first check for a newer       *)
(* command.                                                                *)
\* Wrong variant of PrepareStop: no Stop barrier.
PrepareStopDropped ==
    /\ At("stop") /\ task.cmd.kind = "Prepare"
    /\ IF HasChanged THEN task' = Nothing ELSE GoTo("uri")
    /\ UNCHANGED <<channel, joined, report, room, device, runtime>>

PrepareStop ==
    /\ At("stop") /\ task.cmd.kind = "Prepare"
    /\ \E reply \in Replies :
          /\ StopRequest(reply)
          /\ CASE reply # "ok" -> FinishPrepareFailed
               [] reply = "ok" /\ HasChanged -> task' = Nothing /\ UNCHANGED <<report, runtime>>
               [] reply = "ok" /\ ~HasChanged -> GoTo("uri") /\ UNCHANGED <<report, runtime>>
    /\ UNCHANGED <<channel, joined, device>>

\* Wrong variant of PrepareUri: errors are ignored.
PrepareUriIgnoresErrors ==
    /\ At("uri")
    /\ \E reply \in Replies : UriRequest(reply, task.cmd.gen)
    /\ IF HasChanged THEN task' = Nothing ELSE GoTo("wait")
    /\ UNCHANGED <<channel, joined, report, device, runtime>>

PrepareUri ==
    /\ At("uri")
    /\ \E reply \in Replies :
          /\ UriRequest(reply, task.cmd.gen)
          /\ CASE reply # "ok" -> FinishPrepareFailed
               [] reply = "ok" /\ HasChanged -> task' = Nothing /\ UNCHANGED <<report, runtime>>
               [] reply = "ok" /\ ~HasChanged -> GoTo("wait") /\ UNCHANGED <<report, runtime>>
    /\ UNCHANGED <<channel, joined, device>>

(* The wait for a subscriber and for the prebuffer ends by itself or after *)
(* startup_wait_ms; a newer command cancels it.                            *)
PrepareDone ==
    /\ At("wait")
    /\ Finish("Prepared")
    /\ UNCHANGED <<channel, joined, room, device>>

PrepareCancelled ==
    /\ At("wait") /\ HasChanged
    /\ task' = Nothing
    /\ UNCHANGED <<channel, joined, report, room, device, runtime>>

(* GroupJoins::wait ends when every member joined or after two seconds.    *)
JoinsDone ==
    /\ At("joins")
    /\ GoTo("play")
    /\ UNCHANGED <<channel, joined, report, room, device, runtime>>

\* Wrong variant of JoinsCancelled: the wait ends without a newer command.
JoinsCancelledAlways ==
    /\ At("joins")
    /\ task' = Nothing
    /\ UNCHANGED <<channel, joined, report, room, device, runtime>>

JoinsCancelled ==
    /\ At("joins") /\ HasChanged
    /\ task' = Nothing
    /\ UNCHANGED <<channel, joined, report, room, device, runtime>>

PlayNow ==
    /\ At("play")
    /\ \E reply \in Replies :
          /\ PlayRequest(reply, task.cmd.gen)
          /\ joined' = IF task.cmd.kind = "Play" THEN joined /\ reply # "ok" ELSE joined
          /\ IF reply = "ok" THEN Finish("Started")
             ELSE \E outcome \in ErrorOutcomes(reply) : Finish(outcome)
    /\ UNCHANGED <<channel, device>>

\* Wrong variant of Join: permanent failures are passed on.
JoinPassesOutcomeOn ==
    /\ At("join")
    /\ \E reply \in Replies :
          /\ JoinRequest(reply)
          /\ joined' = (reply \in {"ok", "timeout"})
          /\ IF reply = "ok" THEN Finish("Joined")
             ELSE \E outcome \in ErrorOutcomes(reply) : Finish(outcome)
    /\ UNCHANGED <<channel, device>>

(* Only a timeout leaves the membership open; a permanent failure to join  *)
(* is reported as a retryable one.                                         *)
Join ==
    /\ At("join")
    /\ \E reply \in Replies :
          /\ JoinRequest(reply)
          /\ joined' = (reply \in {"ok", "timeout"})
          /\ Finish(CASE reply = "ok" -> "Joined"
                      [] reply = "timeout" -> "Unknown"
                      [] OTHER -> "Failed")
    /\ UNCHANGED <<channel, device>>

StopNow ==
    /\ At("stop") /\ task.cmd.kind = "Stop"
    /\ \E reply \in Replies :
          /\ StopRequest(reply)
          /\ Finish(IF reply = "ok" THEN "Stopped" ELSE "StopUnknown")
    /\ UNCHANGED <<channel, joined, device>>

----------------------------------------------------------------------------
WorkerStep ==
    \/ Leave
    \/ PrepareStandalone \/ PrepareStop \/ PrepareUri \/ PrepareDone \/ PrepareCancelled
    \/ JoinsDone \/ JoinsCancelled
    \/ PlayNow \/ Join \/ StopNow

Next ==
    \/ SendStop \/ SendPrepare \/ SendStart \/ Close
    \/ Take \/ WorkerStep

(* The task is one tokio task and every request it awaits times out after  *)
(* five seconds, so it keeps making steps.                                 *)
Fairness == WF_vars(Take) /\ WF_vars(WorkerStep)

Spec == Init /\ [][Next]_vars /\ Fairness

----------------------------------------------------------------------------
Gens == 1..MaxGen
Sent == [kind : Kinds, gen : Gens]
Stages == {"new", "preparing", "prepared", "started", "over"}

(* Every command runs only the steps of its kind, and every answer is one  *)
(* its command allows.                                                     *)
StepsOf(kind) ==
    CASE kind = "Prepare" -> {"leave", "standalone", "stop", "uri", "wait"}
      [] kind = "Play" -> {"leave", "play"}
      [] kind = "PlayGroup" -> {"joins", "play"}
      [] kind = "Join" -> {"join"}
      [] kind = "Stop" -> {"leave", "stop"}

(* Types of the variables.                                                 *)
TypeOK ==
    /\ slot \in Sent \cup {Nothing}
    /\ fresh \in BOOLEAN /\ open \in BOOLEAN /\ joined \in BOOLEAN
    /\ fresh => slot # Nothing
    /\ task # Nothing => /\ task \in [cmd : Sent, at : Steps]
                         /\ task.at \in StepsOf(task.cmd.kind)
    /\ report # Nothing =>
          /\ report \in [gen : Gens, kind : Kinds, outcome : Outcomes]
          /\ report.outcome \in Answers(report.kind)
    /\ room \in [grouped : BOOLEAN, uri : 0..MaxGen, playing : BOOLEAN]
    /\ device \in Devices
    /\ gen \in 0..MaxGen
    /\ stage \in Stages

(* What a report tells the runtime is true of the room until the worker    *)
(* takes the next command: a stopped or prepared room is silent (Home      *)
(* Assistant has no Stop barrier in prepare), a started room plays the     *)
(* stream of its own generation outside any group, a prepared room has     *)
(* that stream loaded, and a joined room is in the group.                  *)
Truthful(outcome, g) ==
    /\ outcome = "Stopped" => ~room.playing /\ ~room.grouped
    /\ outcome = "Started" => room.playing /\ ~room.grouped /\ room.uri = g
    /\ outcome = "Joined" => room.grouped
    /\ outcome = "Prepared" /\ device.sonos =>
          ~room.playing /\ ~room.grouped /\ room.uri = g

ReportsAreTruthful ==
    task = Nothing /\ report # Nothing => Truthful(report.outcome, report.gen)

(* A room never begins to play a stream other than the one the command in  *)
(* hand belongs to, however the reply turns out: Play carries no URI on    *)
(* Sonos, it plays what some earlier prepare loaded.                       *)
PlaysOwnStream ==
    [][room'.playing /\ ~room.playing /\ ~room'.grouped
          => room'.uri = task.cmd.gen]_vars

(* A room the bridge put into a group is known to be in it, so that Stop,  *)
(* Play and prepare leave the group first ("only this task sends its       *)
(* transport commands, so it alone tracks that").  A room is in a group    *)
(* the bridge put it in when it has had a stream of the bridge loaded.     *)
MembershipKnown == room.grouped /\ room.uri # 0 => joined

(* It holds as long as the only errors that may hide a success are         *)
(* timeouts, the case the code reckons with.                               *)
MembershipKnownUnlessReset == "reset" \notin device.mayApply => MembershipKnown

(* "Closing senders drains the latest command, including the final Stop":  *)
(* once the sender is dropped with a Stop in the slot, that Stop runs and  *)
(* is answered, whatever the worker was doing.                             *)
FinalStopRuns ==
    (~open /\ slot # Nothing /\ slot.kind = "Stop")
        ~> (task = Nothing /\ report # Nothing /\ report.kind = "Stop"
               /\ report.gen = slot.gen)

(* The detailed worker implements the contract the runtime is built on.    *)
ImplementsContract == Contract!Spec
=============================================================================
