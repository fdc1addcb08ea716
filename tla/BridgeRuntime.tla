--------------------------- MODULE BridgeRuntime ---------------------------
(***************************************************************************)
(* The bridge runtime (BridgeRuntime in main.rs): one task that owns every *)
(* playback session and turns AirPlay events, worker answers and timers    *)
(* into commands for the zone workers.                                     *)
(*                                                                         *)
(* A handler of the task awaits other tasks in the middle, and handlers    *)
(* call each other (a restart leaves a group, which restarts the members,  *)
(* which may release a cohort).  "calls" is the task's stack of calls      *)
(* still to run: a handler starts when the stack is empty, every runtime   *)
(* step runs the top call, and workers, timers and clocks move in between. *)
(*                                                                         *)
(* A room has at most one session, so a session is named by its room; the  *)
(* generation tells messages of an earlier session apart, as in the code.  *)
(* Streams are WAV, the codec with a playback plan.                        *)
(***************************************************************************)
EXTENDS Transport, Sequences, FiniteSets

CONSTANTS Zones,         \* the rooms
          Sonos,         \* the rooms that are Sonos players
          Sender,        \* [Zones -> AirPlay senders]: who plays to a room
          NativeGroups,  \* sync.native_sonos_groups
          MaxAttempts,   \* the retry budget, 6 in the code
          MaxEvents,     \* bound: AirPlay events in a behaviour
          MaxFailures,   \* bound: requests and encoders that fail in a behaviour
          MaxTrouble,    \* bound: events and failures together
          Nothing

ASSUME ZonesAssumption == Zones # {} /\ IsFiniteSet(Zones) /\ Nothing \notin Zones
ASSUME SonosAssumption == Sonos \subseteq Zones
ASSUME BoundsAssumption == {MaxAttempts, MaxEvents, MaxFailures, MaxTrouble} \subseteq Nat
ASSUME NativeAssumption == NativeGroups \in BOOLEAN

VARIABLES sessions,    \* room -> session, or Nothing
          generation,  \* room -> latest generation drawn for it
          registry,    \* room -> generation of its registered stream, 0 for none
          cohorts,     \* sync_cohort followed by pending_cohorts
          groups,      \* native_groups: coordinator -> its members in order
          calls,       \* the runtime's pending calls, innermost first
          slot, fresh, busy,  \* each worker's channel and the command it runs
          answers,     \* room -> queued downstream results
          preps,       \* room -> queued Prepared generations
          retries,     \* room -> generations of queued retry messages
          cleanups,    \* rooms with a queued cleanup message
          wake,        \* a cohort wake is queued
          events,      \* AirPlay events so far
          failures     \* failures so far

workers == <<slot, fresh, busy>>
bounds == <<events, failures>>
inbox == <<answers, preps, retries, cleanups, wake>>
vars == <<sessions, generation, registry, cohorts, groups, calls,
          slot, fresh, busy, answers, preps, retries, cleanups, wake, events, failures>>

----------------------------------------------------------------------------
(* plan: what the live stream of this generation was told about starting;  *)
(* "held" is held_delay of a stream whose room joins a group, "group" is a *)
(* plan the worker sets when the joins are done.                           *)
(* cleanup: no grace timer, a running one, or one whose deadline passed.   *)
Session == [desired : BOOLEAN, observed : {"Unknown", "Playing", "Stopped"},
            reset : BOOLEAN, gen : Nat, encoder : Nat, prepared : BOOLEAN,
            plan : {"none", "set", "group", "held"}, attempts : 0..MaxAttempts,
            retry : Nat, cleanup : {"none", "armed", "due"}]

NewSession == [desired |-> TRUE, observed |-> "Unknown", reset |-> FALSE, gen |-> 0,
               encoder |-> 0, prepared |-> FALSE, plan |-> "none", attempts |-> 0,
               retry |-> 0, cleanup |-> "none"]

ASSUME NothingAssumption == Nothing \notin Session /\ Nothing \notin Command

(* phase: the admission window is open; one of the two deadlines passed;   *)
(* both passed.                                                            *)
Phases == {"open", "closed", "expired"}

Live(z) == sessions[z] # Nothing
Wanted(z) == Live(z) /\ sessions[z].desired

Call(op, z) == [op |-> op, zone |-> z, gen |-> 0]
Idle == calls = <<>>
Running(op) == calls # <<>> /\ Head(calls).op = op
(* next_downstream_generation: never drawn before, across sessions.        *)
NextGeneration(z) == generation[z] + 1

(* A message belongs to the stream its session has now; and that session   *)
(* should play.                                                            *)
\* Wrong variant of Current: no check of the generation.
CurrentSession(z, g) == Live(z)
Current(z, g) == Live(z) /\ sessions[z].gen = g

\* Wrong variant of Due: no check of the generation nor of the pause.
DueSession(z, g) == Live(z)
Due(z, g) == Current(z, g) /\ sessions[z].desired

(* The running call returns after it made the calls in "more".             *)
Return(more) == calls' = more \o Tail(calls)

Put(z, kind, g) ==
    /\ slot' = [slot EXCEPT ![z] = [kind |-> kind, gen |-> g]]
    /\ fresh' = [fresh EXCEPT ![z] = TRUE]
    /\ UNCHANGED busy

(* A request or an encoder fails, within the bound.                        *)
Fails ==
    /\ failures < MaxFailures /\ events + failures < MaxTrouble
    /\ failures' = failures + 1

Init ==
    /\ sessions = [z \in Zones |-> Nothing]
    /\ generation = [z \in Zones |-> 0]
    /\ registry = [z \in Zones |-> 0]
    /\ cohorts = <<>>
    /\ groups = <<>>
    /\ calls = <<>>
    /\ slot = [z \in Zones |-> Nothing]
    /\ fresh = [z \in Zones |-> FALSE]
    /\ busy = [z \in Zones |-> Nothing]
    /\ answers = [z \in Zones |-> <<>>]
    /\ preps = [z \in Zones |-> {}]
    /\ retries = [z \in Zones |-> {}]
    /\ cleanups = {}
    /\ wake = FALSE
    /\ events = 0
    /\ failures = 0

----------------------------------------------------------------------------
(* Retries and native groups.                                              *)

BudgetLeft(s) == s.attempts < MaxAttempts

\* Wrong variant of WithRetry: a spent budget keeps the stream.
WithRetryKeepsStream(s, g) ==
    IF BudgetLeft(s) THEN [s EXCEPT !.attempts = @ + 1, !.retry = g] ELSE [s EXCEPT !.retry = 0]

\* Wrong variant of WithRetry: no timer.
WithRetryUnarmed(s, g) ==
    IF BudgetLeft(s) THEN [s EXCEPT !.attempts = @ + 1] ELSE [s EXCEPT !.reset = TRUE]

WithRetry(s, g) ==
    IF BudgetLeft(s) THEN [s EXCEPT !.attempts = @ + 1, !.retry = g]
                     ELSE [s EXCEPT !.reset = TRUE, !.retry = 0]

(* The rooms of a sequence that are in a set, in their order.              *)
Retain(rooms, set) ==
    LET kept[n \in 0..Len(rooms)] ==
            IF n = 0 THEN <<>>
            ELSE IF rooms[n] \in set THEN Append(kept[n - 1], rooms[n]) ELSE kept[n - 1]
    IN  kept[Len(rooms)]

(* forget_native_member *)
Forgotten(z) == [c \in DOMAIN groups |-> Retain(groups[c], Zones \ {z})]

(* leave_native_group: the room leaves every group, its own group is       *)
(* dissolved, and the members of that group that should play restart.      *)
\* Wrong variant of GroupsWithout: the room stays a member of other groups.
GroupsButOwn(z) == [c \in DOMAIN groups \ {z} |-> groups[c]]

GroupsWithout(z) ==
    [c \in DOMAIN groups \ {z} |-> Retain(groups[c], Zones \ {z})]

MembersOf(z) ==
    IF z \in DOMAIN groups
    THEN Retain(groups[z], {m \in Zones \ {z} : Wanted(m)})
    ELSE <<>>

RestartMembers(z) == [i \in DOMAIN MembersOf(z) |-> Call("restart", MembersOf(z)[i])]

\* Wrong variant of LeaveGroup: the members are not restarted.
LeaveGroupSilently(z, next) == groups' = Forgotten(z) /\ calls' = next

(* leave_native_group in a handler that then makes the calls in "next".    *)
LeaveGroup(z, next) == groups' = GroupsWithout(z) /\ calls' = RestartMembers(z) \o next

----------------------------------------------------------------------------
(* Sync cohorts.                                                           *)

InCohort(z, c) == \E i \in DOMAIN c.sessions : c.sessions[i] = z

Withdraw(z, c) ==
    [c EXCEPT !.sessions = Retain(@, Zones \ {z}), !.prepared[z] = 0]

NewCohort(z) == [sessions |-> <<z>>, prepared |-> [m \in Zones |-> 0], phase |-> "open"]

\* Wrong variant of Admit: the earlier place is kept.
AdmitTwice(z) ==
    LET last == Len(cohorts)
    IN  IF last > 0 /\ cohorts[last].phase = "open"
        THEN [cohorts EXCEPT ![last].sessions = Append(@, z)]
        ELSE Append(cohorts, NewCohort(z))

(* add_session_to_sync_cohort *)
Admit(z) ==
    LET without == [i \in DOMAIN cohorts |-> Withdraw(z, cohorts[i])]
        last == Len(cohorts)
    IN  IF last > 0 /\ cohorts[last].phase = "open"
        THEN [without EXCEPT ![last].sessions = Append(@, z)]
        ELSE Append(without, NewCohort(z))

(* The retain calls of maybe_start_sync_cohort.                            *)
Pruned(c) ==
    LET kept == Retain(c.sessions, {z \in Zones : Wanted(z)})
    IN  [c EXCEPT !.sessions = kept,
                  !.prepared = [z \in Zones |->
                      IF (\E i \in DOMAIN kept : kept[i] = z) /\ @[z] = sessions[z].gen
                      THEN @[z] ELSE 0]]

AllPrepared(c) == \A i \in DOMAIN c.sessions : c.prepared[c.sessions[i]] # 0

(* sync_cohort_should_start *)
ShouldStart(c) == AllPrepared(c) \/ c.phase = "expired"

ReadyIn(c) == Retain(c.sessions, {z \in Zones : c.prepared[z] # 0})

----------------------------------------------------------------------------
(* Playing prepared streams.                                               *)

InGroup(z) == \E c \in DOMAIN groups : \E i \in DOMAIN groups[c] : groups[c][i] = z

(* playing_sonos_session: an existing coordinator wins, the order among    *)
(* equals is the hash map's.                                               *)
PlayingSonos(sender) ==
    LET able == {z \in Sonos : /\ Wanted(z) /\ Sender[z] = sender
                               /\ sessions[z].observed = "Playing" \/ z \in DOMAIN groups
                               /\ ~InGroup(z)}
    IN  IF able \cap DOMAIN groups # {} THEN able \cap DOMAIN groups ELSE able

(* plan_native_groups for the streams of one sender: the coordinators it   *)
(* may choose.                                                             *)
SenderStreams(ready, sender) ==
    Retain(ready, {z \in Sonos : Sender[z] = sender})

Coordinators(ready, sender) ==
    LET streams == SenderStreams(ready, sender)
    IN  IF ~NativeGroups \/ streams = <<>> THEN {Nothing}
        ELSE IF PlayingSonos(sender) # {} THEN PlayingSonos(sender)
        ELSE IF Len(streams) > 1 THEN {streams[1]}
        ELSE {Nothing}

Senders == {Sender[z] : z \in Zones}

(* The rooms that join the coordinator chosen for their sender: all its    *)
(* streams, but the first when that one becomes the coordinator.           *)
JoiningOf(ready, sender, coordinator) ==
    LET streams == SenderStreams(ready, sender)
    IN  IF coordinator = Nothing THEN <<>>
        ELSE IF PlayingSonos(sender) # {} THEN streams ELSE Tail(streams)

SeqSet(s) == {s[i] : i \in DOMAIN s}

(* play_prepared_downstreams, from the sessions in "from".                 *)
PlayPrepared(from, ready) ==
    \E choice \in [Senders -> Zones \cup {Nothing}] :
        LET joins == [s \in Senders |-> JoiningOf(ready, s, choice[s])]
            joining == UNION {SeqSet(joins[s]) : s \in Senders}
            chosen == {choice[s] : s \in Senders} \ {Nothing}
            kind(z) == IF z \in joining THEN "Join"
                       ELSE IF joining # {} THEN "PlayGroup" ELSE "Play"
            plan(z) == IF z \in joining THEN "held"
                       ELSE IF joining # {} THEN "group" ELSE "set"
        IN  /\ \A s \in Senders : choice[s] \in Coordinators(ready, s)
            /\ groups' = [c \in DOMAIN groups \cup chosen |->
                   LET old == IF c \in DOMAIN groups THEN groups[c] ELSE <<>>
                   IN  IF c \in chosen THEN old \o joins[Sender[c]] ELSE old]
            /\ sessions' = [z \in Zones |-> IF z \in SeqSet(ready)
                   THEN [from[z] EXCEPT !.plan = plan(z)] ELSE from[z]]
            /\ slot' = [z \in Zones |-> IF z \in SeqSet(ready)
                   THEN [kind |-> kind(z), gen |-> sessions[z].gen] ELSE slot[z]]
            /\ fresh' = [z \in Zones |-> z \in SeqSet(ready) \/ fresh[z]]
            /\ UNCHANGED busy

----------------------------------------------------------------------------
(* The calls of the runtime, one step each.                                *)

(* restart_downstream_for_play, up to the loop of leave_native_group.      *)
Restart ==
    /\ Running("restart")
    /\ LET z == Head(calls).zone
       IN  /\ sessions' = IF Live(z) THEN [sessions EXCEPT ![z].retry = 0] ELSE sessions
           /\ groups' = GroupsWithout(z)
           /\ Return(RestartMembers(z) \o <<Call("replace", z)>>)
    /\ UNCHANGED <<generation, registry, cohorts, workers, inbox, bounds>>

(* Its middle: the old stream goes, and Stop invalidates its preparation.  *)
Replace ==
    /\ Running("replace")
    /\ LET z == Head(calls).zone
       IN  IF ~Live(z)
           THEN Return(<<>>) /\ UNCHANGED <<sessions, generation, registry, workers>>
           ELSE /\ generation' = [generation EXCEPT ![z] = NextGeneration(z)]
                /\ sessions' = [sessions EXCEPT ![z] =
                       [@ EXCEPT !.reset = TRUE, !.observed = "Unknown", !.prepared = FALSE,
                                 !.plan = "none", !.encoder = 0, !.gen = NextGeneration(z)]]
                /\ registry' = [registry EXCEPT ![z] = 0]
                /\ Put(z, "Stop", NextGeneration(z))
                /\ Return(<<Call("create", z)>>)
    /\ UNCHANGED <<cohorts, groups, inbox, bounds>>

(* Its end: a new stream and encoder, a place in a cohort, and Prepare;    *)
(* or a retry when the stream cannot be created.                           *)
Create ==
    /\ Running("create")
    /\ LET z == Head(calls).zone
           g == sessions[z].gen
       IN  \/ /\ Fails
              /\ sessions' = [sessions EXCEPT ![z] = WithRetry(@, g)]
              /\ Return(<<>>)
              /\ UNCHANGED <<registry, cohorts, workers>>
           \/ /\ sessions' = [sessions EXCEPT ![z].encoder = g]
              /\ registry' = [registry EXCEPT ![z] = g]
              /\ cohorts' = Admit(z)
              /\ Put(z, "Prepare", g)
              /\ Return(<<Call("release", z)>>)
              /\ UNCHANGED failures
    /\ UNCHANGED <<generation, groups, inbox, events>>

(* One round of the loop of maybe_start_sync_cohort.                       *)
Release ==
    /\ Running("release")
    /\ IF cohorts = <<>>
       THEN Return(<<>>) /\ UNCHANGED <<sessions, cohorts, groups, workers>>
       ELSE LET head == Pruned(Head(cohorts))
            IN  CASE head.sessions = <<>> ->
                       /\ cohorts' = Tail(cohorts)
                       /\ UNCHANGED <<sessions, groups, workers, calls>>
                  [] head.sessions # <<>> /\ ~ShouldStart(head) ->
                       /\ cohorts' = <<head>> \o Tail(cohorts)
                       /\ Return(<<>>)
                       /\ UNCHANGED <<sessions, groups, workers>>
                  [] OTHER ->
                       /\ cohorts' = Tail(cohorts)
                       /\ PlayPrepared(sessions, ReadyIn(head))
                       /\ UNCHANGED calls
    /\ UNCHANGED <<generation, registry, inbox, bounds>>

PauseStream(z) ==
    /\ generation' = [generation EXCEPT ![z] = NextGeneration(z)]
    /\ sessions' = IF Live(z) THEN [sessions EXCEPT ![z].gen = NextGeneration(z)] ELSE sessions
    /\ Put(z, "Stop", NextGeneration(z))

\* Wrong variant of Pause: the cohort is not looked at.
PauseWithoutRelease ==
    /\ Running("pause")
    /\ PauseStream(Head(calls).zone)
    /\ Return(<<>>)
    /\ UNCHANGED <<registry, cohorts, groups, inbox, bounds>>

(* The end of set_playback_state(false).                                   *)
Pause ==
    /\ Running("pause")
    /\ PauseStream(Head(calls).zone)
    /\ Return(<<Call("release", Head(calls).zone)>>)
    /\ UNCHANGED <<registry, cohorts, groups, inbox, bounds>>

(* The end of stop_session: Stop with the generation of the session.       *)
Stopped ==
    /\ Running("stopped")
    /\ Put(Head(calls).zone, "Stop", Head(calls).gen)
    /\ Return(<<Call("release", Head(calls).zone)>>)
    /\ UNCHANGED <<sessions, generation, registry, cohorts, groups, inbox, bounds>>

(* The end of start_session.  The new session has an id of its own: the    *)
(* places of the room's earlier session in cohorts are dead.               *)
Begin ==
    /\ Running("begin")
    /\ LET z == Head(calls).zone
       IN  /\ sessions' = [sessions EXCEPT ![z] = NewSession]
           /\ cohorts' = [i \in DOMAIN cohorts |-> Withdraw(z, cohorts[i])]
           /\ Return(<<Call("restart", z)>>)
    /\ UNCHANGED <<generation, registry, groups, workers, inbox, bounds>>

RuntimeStep == Restart \/ Replace \/ Create \/ Release \/ Pause \/ Stopped \/ Begin

----------------------------------------------------------------------------
(* AirPlay events.                                                         *)

Event ==
    /\ Idle
    /\ events < MaxEvents /\ events + failures < MaxTrouble
    /\ events' = events + 1
    /\ UNCHANGED failures

\* Wrong variant of StopSession: the stream stays registered.
StopSessionKeepsStream(z, next) ==
    /\ sessions' = [sessions EXCEPT ![z] = Nothing]
    /\ LeaveGroup(z, <<[Call("stopped", z) EXCEPT !.gen = sessions[z].gen]>> \o next)
    /\ UNCHANGED registry

(* The start of stop_session; "next" runs after it.                        *)
StopSession(z, next) ==
    /\ sessions' = [sessions EXCEPT ![z] = Nothing]
    /\ registry' = [registry EXCEPT ![z] = 0]
    /\ LeaveGroup(z, <<[Call("stopped", z) EXCEPT !.gen = sessions[z].gen]>> \o next)

SessionStarted(z) ==
    /\ Event
    /\ IF Live(z) THEN StopSession(z, <<Call("begin", z)>>)
       ELSE calls' = <<Call("begin", z)>> /\ UNCHANGED <<sessions, registry, groups>>
    /\ UNCHANGED <<generation, cohorts, workers, inbox>>

SessionStopped(z) ==
    /\ Event
    /\ Live(z)
    /\ StopSession(z, <<>>)
    /\ UNCHANGED <<generation, cohorts, workers, inbox>>

(* PlaybackState with playing = true: resume.                              *)
SetPlaying(z) ==
    /\ Event
    /\ Live(z)
    /\ sessions' = [sessions EXCEPT ![z] =
           [@ EXCEPT !.desired = TRUE, !.attempts = 0, !.cleanup = "none"]]
    /\ calls' = IF ~sessions[z].desired \/ sessions[z].reset
                THEN <<Call("restart", z)>> ELSE <<>>
    /\ UNCHANGED <<generation, registry, cohorts, groups, workers, inbox>>

Paused(s) == [s EXCEPT !.desired = FALSE, !.reset = TRUE, !.observed = "Unknown",
                       !.prepared = FALSE, !.retry = 0]

(* PlaybackState with playing = false: pause.                              *)
SetPaused(z) ==
    /\ Event
    /\ Live(z)
    /\ sessions' = [sessions EXCEPT ![z] = Paused(@)]
    /\ LeaveGroup(z, <<Call("pause", z)>>)
    /\ UNCHANGED <<generation, registry, cohorts, workers, inbox>>

(* A flush with a newer playback epoch: frames of the old epoch are void.  *)
Flushed(z) ==
    /\ Event
    /\ Live(z)
    /\ IF sessions[z].desired
       THEN /\ calls' = <<Call("restart", z)>>
            /\ UNCHANGED <<sessions, registry, groups>>
       ELSE /\ sessions' = [sessions EXCEPT ![z] = Paused([@ EXCEPT !.encoder = 0])]
            /\ registry' = [registry EXCEPT ![z] = 0]
            /\ LeaveGroup(z, <<Call("pause", z)>>)
    /\ UNCHANGED <<generation, cohorts, workers, inbox>>

(* The audio connection closed while paused; ignored when it plays again.  *)
StreamEndedWhilePaused(z) ==
    /\ Event
    /\ Live(z)
    /\ ~sessions[z].desired
    /\ sessions' = [sessions EXCEPT ![z] = [@ EXCEPT !.reset = TRUE, !.cleanup = "armed"]]
    /\ UNCHANGED <<generation, registry, cohorts, groups, calls, workers, inbox>>

(* A Pcm event finds the input of the encoder closed: the stream goes, and *)
(* the session retries when it should play.                                *)
EncoderClosed(z) ==
    /\ Event
    /\ Live(z)
    /\ sessions[z].encoder # 0
    /\ LET g == NextGeneration(z)
           lost == [sessions[z] EXCEPT !.prepared = FALSE, !.reset = TRUE, !.encoder = 0,
                                       !.gen = g]
       IN  /\ generation' = [generation EXCEPT ![z] = g]
           /\ sessions' = [sessions EXCEPT ![z] =
                  IF lost.desired THEN WithRetry(lost, g) ELSE lost]
           /\ Put(z, "Stop", g)
    /\ registry' = [registry EXCEPT ![z] = 0]
    /\ UNCHANGED <<cohorts, groups, calls, inbox>>

AirPlayEvent(z) ==
    \/ SessionStarted(z) \/ SessionStopped(z)
    \/ SetPlaying(z) \/ SetPaused(z) \/ Flushed(z)
    \/ StreamEndedWhilePaused(z) \/ EncoderClosed(z)

----------------------------------------------------------------------------
(* Messages from workers and timers.                                       *)

(* handle_downstream_start_result for a result of the current generation   *)
(* of a session that should play.                                          *)
StartResult(z, outcome) ==
    LET s == sessions[z]
        unknown == [s EXCEPT !.observed = "Unknown", !.reset = ~s.prepared]
    IN  CASE outcome \in {"Stopped", "StopUnknown"} ->
               UNCHANGED <<sessions, groups, calls>>
          [] outcome \in {"Started", "Joined"} ->
               /\ sessions' = [sessions EXCEPT ![z] =
                      [@ EXCEPT !.observed = "Playing", !.reset = FALSE,
                                !.attempts = 0, !.retry = 0]]
               /\ groups' = IF outcome = "Started" THEN Forgotten(z) ELSE groups
               /\ UNCHANGED calls
          [] outcome = "PermanentFailure" ->
               /\ sessions' = [sessions EXCEPT ![z] =
                      [@ EXCEPT !.observed = "Unknown", !.reset = TRUE,
                                !.attempts = MaxAttempts, !.retry = 0]]
               /\ LeaveGroup(z, <<>>)
          [] outcome \in {"Failed", "Unknown"} ->
               /\ sessions' = [sessions EXCEPT ![z] = WithRetry(unknown, s.gen)]
               /\ IF ~BudgetLeft(s) THEN LeaveGroup(z, <<>>)
                  ELSE /\ groups' = IF outcome = "Failed" THEN Forgotten(z) ELSE groups
                       /\ UNCHANGED calls

HandleStartResult(z) ==
    /\ Idle
    /\ answers[z] # <<>>
    /\ answers' = [answers EXCEPT ![z] = Tail(@)]
    /\ LET result == Head(answers[z])
       IN  CASE ~Current(z, result.gen) ->
                  UNCHANGED <<sessions, groups, calls>>
             [] Current(z, result.gen) /\ ~sessions[z].desired ->
                  /\ sessions' = [sessions EXCEPT ![z].observed =
                         IF result.outcome = "Stopped" THEN "Stopped" ELSE "Unknown"]
                  /\ UNCHANGED <<groups, calls>>
             [] OTHER -> StartResult(z, result.outcome)
    /\ UNCHANGED <<generation, registry, cohorts, workers, preps, retries, cleanups, wake, bounds>>

(* A room whose join failed plays its own stream: its plan is set now.     *)
TakeHeld(s) == [s EXCEPT !.retry = 0, !.plan = IF @ = "held" THEN "set" ELSE @]

HandleRetry(z) ==
    /\ Idle
    /\ \E g \in retries[z] :
          /\ retries' = [retries EXCEPT ![z] = @ \ {g}]
          /\ IF ~Due(z, g)
             THEN UNCHANGED <<sessions, calls, workers>>
             ELSE IF sessions[z].prepared
             THEN /\ sessions' = [sessions EXCEPT ![z] = TakeHeld(@)]
                  /\ Put(z, "Play", g)
                  /\ UNCHANGED calls
             ELSE /\ sessions' = [sessions EXCEPT ![z].retry = 0]
                  /\ calls' = <<Call("restart", z)>>
                  /\ UNCHANGED workers
    /\ UNCHANGED <<generation, registry, cohorts, groups, answers, preps, cleanups, wake, bounds>>

(* handle_prepared_downstream: into the first cohort that holds the room,  *)
(* or straight to playing when its cohort left without it.                 *)
HandlePrepared(z) ==
    /\ Idle
    /\ \E g \in preps[z] :
          /\ preps' = [preps EXCEPT ![z] = @ \ {g}]
          /\ IF ~Due(z, g)
             THEN UNCHANGED <<sessions, groups, cohorts, calls, workers>>
             ELSE LET holding == {i \in DOMAIN cohorts : InCohort(z, cohorts[i])}
                      ready == [sessions EXCEPT ![z].prepared = TRUE]
                  IN  IF holding # {}
                      THEN /\ sessions' = ready
                           /\ \E i \in holding :
                                 /\ \A j \in holding : i <= j
                                 /\ cohorts' = [cohorts EXCEPT ![i].prepared[z] = g]
                           /\ calls' = <<Call("release", z)>>
                           /\ UNCHANGED <<groups, workers>>
                      ELSE /\ PlayPrepared(ready, <<z>>)
                           /\ UNCHANGED <<cohorts, calls>>
    /\ UNCHANGED <<generation, registry, answers, retries, cleanups, wake, bounds>>

(* The grace period of a paused session ended: stop it unless it plays or  *)
(* a later pause moved the deadline.                                       *)
HandleCleanup(z) ==
    /\ Idle
    /\ z \in cleanups
    /\ cleanups' = cleanups \ {z}
    /\ IF Live(z) /\ ~sessions[z].desired /\ sessions[z].cleanup = "due"
       THEN StopSession(z, <<>>)
       ELSE UNCHANGED <<sessions, registry, groups, calls>>
    /\ UNCHANGED <<generation, cohorts, workers, answers, preps, retries, wake, bounds>>

HandleWake ==
    /\ Idle
    /\ wake
    /\ wake' = FALSE
    /\ \E z \in Zones : calls' = <<Call("release", z)>>
    /\ UNCHANGED <<sessions, generation, registry, cohorts, groups, workers, answers, preps,
                   retries, cleanups, bounds>>

Handle(z) == HandleStartResult(z) \/ HandleRetry(z) \/ HandlePrepared(z) \/ HandleCleanup(z)

----------------------------------------------------------------------------
(* Timers and clocks.                                                      *)

RetryFires(z) ==
    /\ Idle
    /\ Live(z)
    /\ sessions[z].retry # 0
    /\ retries' = [retries EXCEPT ![z] = @ \cup {sessions[z].retry}]
    /\ sessions' = [sessions EXCEPT ![z].retry = 0]
    /\ UNCHANGED <<generation, registry, cohorts, groups, calls, workers, answers, preps,
                   cleanups, wake, bounds>>

CleanupFires(z) ==
    /\ Idle
    /\ Live(z)
    /\ sessions[z].cleanup = "armed"
    /\ cleanups' = cleanups \cup {z}
    /\ sessions' = [sessions EXCEPT ![z].cleanup = "due"]
    /\ UNCHANGED <<generation, registry, cohorts, groups, calls, workers, answers, preps,
                   retries, wake, bounds>>

(* A deadline of cohort i passes and its wake is queued.  Every cohort has *)
(* the same two delays, so an older cohort is never behind a younger one.  *)
CohortTick(i) ==
    /\ Idle \/ Running("create") \/ Running("release")
    /\ cohorts[i].phase # "expired"
    /\ \A j \in 1..(i - 1) :
          cohorts[j].phase = "expired" \/ (cohorts[j].phase = "closed" /\ cohorts[i].phase = "open")
    /\ cohorts' = [cohorts EXCEPT ![i].phase =
           IF @ = "open" THEN "closed" ELSE "expired"]
    /\ wake' = TRUE
    /\ UNCHANGED <<sessions, generation, registry, groups, calls, workers, answers, preps,
                   retries, cleanups, bounds>>

----------------------------------------------------------------------------
(* The zone workers, as WorkerContract describes them.                     *)

WorkerTake(z) ==
    /\ Idle \/ (Running("create") /\ Head(calls).zone = z)
    /\ fresh[z]
    /\ busy[z] = Nothing
    /\ busy' = [busy EXCEPT ![z] = slot[z]]
    /\ fresh' = [fresh EXCEPT ![z] = FALSE]
    /\ UNCHANGED <<sessions, generation, registry, cohorts, groups, calls, slot, inbox, bounds>>

WorkerAnswer(z) ==
    /\ Idle
    /\ busy[z] # Nothing
    /\ \E outcome \in Answers(busy[z].kind) :
       /\ IF outcome \in Successes THEN UNCHANGED failures ELSE Fails
       /\ IF outcome = "Prepared"
          THEN /\ preps' = [preps EXCEPT ![z] = @ \cup {busy[z].gen}]
               /\ UNCHANGED answers
          ELSE /\ answers' = [answers EXCEPT ![z] =
                      Append(@, [gen |-> busy[z].gen, outcome |-> outcome])]
               /\ UNCHANGED preps
    /\ busy' = [busy EXCEPT ![z] = Nothing]
    /\ UNCHANGED <<sessions, generation, registry, cohorts, groups, calls, slot, fresh, retries,
                   cleanups, wake, events>>

WorkerAbandon(z) ==
    /\ Idle
    /\ busy[z] # Nothing
    /\ busy[z].kind \in Abandonable
    /\ fresh[z]
    /\ busy' = [busy EXCEPT ![z] = Nothing]
    /\ UNCHANGED <<sessions, generation, registry, cohorts, groups, calls, slot, fresh, inbox,
                   bounds>>

Worker(z) == WorkerTake(z) \/ WorkerAnswer(z) \/ WorkerAbandon(z)

----------------------------------------------------------------------------
(* What the program does without another AirPlay event.                    *)
Progress ==
    \/ RuntimeStep
    \/ HandleWake
    \/ \E z \in Zones : Handle(z) \/ Worker(z) \/ RetryFires(z) \/ CleanupFires(z)
    \/ \E i \in DOMAIN cohorts : CohortTick(i)

Next == Progress \/ \E z \in Zones : AirPlayEvent(z)

Spec == Init /\ [][Next]_vars

(* Some step is taken while one can be: the runtime and the workers are    *)
(* tokio tasks that never block for ever, every request times out, and     *)
(* timers fire.  Which of them moves is left open.                         *)
Fairness == WF_vars(Progress)

FairSpec == Spec /\ Fairness

----------------------------------------------------------------------------
Ops == {"restart", "replace", "create", "release", "pause", "stopped", "begin"}

----------------------------------------------------------------------------
(* Properties of one room.                                                 *)

(* A room that should not play, because its session is paused or gone, was *)
(* last told to stop: no late retry, release or prepare slips a command in *)
(* behind the Stop.                                                        *)
QuietUnlessWanted ==
    Idle => \A z \in Zones :
        ~Wanted(z) /\ slot[z] # Nothing => slot[z].kind = "Stop"

(* A session believed to play was last told to play or join, in its        *)
(* current generation, and that generation's encoder feeds it.  The        *)
(* exception is the encoder that closed: Pcm handling keeps the belief.    *)
PlayingIsBacked ==
    Idle => \A z \in Zones :
        Live(z) /\ sessions[z].observed = "Playing" /\ sessions[z].encoder # 0 =>
            /\ slot[z].kind \in StartKinds
            /\ slot[z].gen = sessions[z].gen
            /\ sessions[z].encoder = sessions[z].gen

(* The stream a room can fetch over HTTP is the one its session's encoder  *)
(* writes; a room without a session has none.                              *)
RegistryMatchesEncoder ==
    Idle => \A z \in Zones :
        registry[z] = IF Live(z) THEN sessions[z].encoder ELSE 0

(* The retry budget is spent and only a new Play request helps.            *)
GaveUp(z) == sessions[z].attempts = MaxAttempts /\ sessions[z].reset

Playing(z) == sessions[z].observed = "Playing"

(* A session that should play comes to play, unless it is paused, stopped  *)
(* or out of retries first.                                                *)
Settles ==
    \A z \in Zones :
        Wanted(z) ~> (~Wanted(z) \/ Playing(z) \/ GaveUp(z))

----------------------------------------------------------------------------
(* Properties of several rooms.                                            *)

(* Something is under way for a session that should play but does not: a   *)
(* retry, a command not yet answered, an answer not yet handled, or a      *)
(* prepared stream waiting in its cohort.                                  *)
UnderWay(z) ==
    LET g == sessions[z].gen
    IN  \/ sessions[z].retry = g \/ g \in retries[z] \/ g \in preps[z]
        \/ \E i \in DOMAIN answers[z] :
              answers[z][i].gen = g /\ answers[z][i].outcome \notin {"Stopped", "StopUnknown"}
        \/ fresh[z] /\ slot[z].gen = g /\ slot[z].kind # "Stop"
        \/ busy[z] # Nothing /\ busy[z].gen = g /\ busy[z].kind # "Stop"
        \/ \E i \in DOMAIN cohorts : cohorts[i].prepared[z] = g

(* No session that should play is left with nothing under way, other than  *)
(* one that gave up.                                                       *)
NoStall ==
    Idle => \A z \in Zones :
        Wanted(z) /\ ~Playing(z) => UnderWay(z) \/ GaveUp(z)

(* The retry timer never plays a stream again that is already playing.     *)
NeverReplays ==
    [][\A z \in Zones :
          slot'[z] # Nothing /\ slot'[z].kind = "Play" /\ fresh'[z] /\ ~fresh[z]
              => ~Playing(z)]_<<slot, fresh>>

(* A room waits in one place of one cohort, and a stream a cohort counts   *)
(* as prepared in the current generation is the one its session holds.     *)
CohortsSound ==
    Idle =>
        /\ \A i, j \in DOMAIN cohorts :
              \A k \in DOMAIN cohorts[i].sessions, l \in DOMAIN cohorts[j].sessions :
                 cohorts[i].sessions[k] = cohorts[j].sessions[l] => i = j /\ k = l
        /\ \A i \in DOMAIN cohorts, z \in Zones :
              cohorts[i].prepared[z] # 0 =>
                 /\ InCohort(z, cohorts[i])
                 /\ Wanted(z) /\ cohorts[i].prepared[z] = sessions[z].gen
                        => sessions[z].prepared

(* A cohort that may start, because all its rooms are prepared or its      *)
(* deadlines passed, does not wait for an event that may never come: it    *)
(* was released, or a wake is queued.                                      *)
NoCohortForgotten ==
    Idle /\ cohorts # <<>> => ~ShouldStart(Pruned(Head(cohorts))) \/ wake

(* The members of a native group are rooms that should play, and so is     *)
(* their coordinator, at any time: nobody who is paused or gone is in one. *)
GroupsSound ==
    \A c \in DOMAIN groups : \A m \in SeqSet(groups[c]) : Wanted(m) /\ Wanted(c)

(* "A spent retry budget leaves the members of this coordinator silent":   *)
(* a coordinator that gave up no longer has members.                       *)
NoSilentMembers ==
    Idle => \A c \in DOMAIN groups :
        groups[c] # <<>> => ~(GaveUp(c) /\ ~Playing(c) /\ ~UnderWay(c))

(* It holds for a coordinator that still has an encoder.                   *)
NoSilentMembersWhileEncoding ==
    Idle => \A c \in DOMAIN groups :
        groups[c] # <<>> /\ sessions[c].encoder # 0 =>
            ~(GaveUp(c) /\ ~Playing(c) /\ ~UnderWay(c))

(* When a restart stops a room, the room coordinates no group: "the        *)
(* members of a group it coordinated go silent with it, so they restart".  *)
RestartLeavesNoMembers ==
    [][\A z \in Zones :
          Running("replace") /\ Head(calls).zone = z /\ Live(z) =>
              z \notin DOMAIN groups]_calls
=============================================================================
