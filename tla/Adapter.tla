------------------------------ MODULE Adapter ------------------------------
(***************************************************************************)
(* Between the AirPlay receiver and the runtime: what the callbacks of one *)
(* endpoint tell (airsonos2-airplay), how the runtime's sessions of that   *)
(* room follow, and how the volume goes to the room and comes back.        *)
(*                                                                         *)
(* The receiver, a library, runs a request loop, a task per stream that    *)
(* applies rates, and a delivery thread per stream that makes the audio    *)
(* session when sound is due and ends it when the stream stops.  They call *)
(* the adapter concurrently; what they tell goes through one queue.        *)
(*                                                                         *)
(* slips remembers the races that are known to lose something: the         *)
(* properties say that nothing else does.                                  *)
(***************************************************************************)
EXTENDS Integers, Sequences, FiniteSets

CONSTANTS MaxStreams,   \* bound: streams a sender sets up
          MaxSessions,  \* bound: audio sessions the streams make
          MaxCalls,     \* bound: rates, volumes and connections told
          MaxTurns,     \* bound: volumes and connections come in the first so many
          MaxTrouble,   \* bound: requests to the room that fail
          Steps,        \* volume steps of the room, 100 in the code
          Loudness      \* volumes a sender may set

Muted == -Steps - 1     \* -144 dB
NoNumber == Steps + 1   \* a volume that is not finite

ASSUME AdapterAssumption ==
    /\ {MaxStreams, MaxSessions, MaxCalls, MaxTurns, MaxTrouble} \subseteq Nat
    /\ Steps \in Nat \ {0}
    /\ Loudness \subseteq Muted..NoNumber

Streams == 1..MaxStreams
SessionIds == 1..MaxSessions
None == 0               \* no session, no stream, no task

VARIABLES stream,    \* the sender's newest stream
          wanted,    \* the rate the sender set last: TRUE plays
          call,      \* the rate request under way and how far it is
          orders,    \* stream -> rates sent to its task, not applied
          rate,      \* stream -> the rate its threads see
          ending,    \* stream -> why it stopped
          thread,    \* stream -> what its delivery thread does
          held,      \* stream -> the session it delivers to
          old,       \* stream -> the session it has to drop
          made,      \* sessions made so far
          active,    \* active_session
          events,    \* the channel to the runtime
          sessions,  \* the runtime's sessions: id -> [playing, grace]
          told,      \* the volume the sender set last, Muted - 1 if none
          shown,     \* ZoneVolumeState
          wish,      \* the watch channel to the volume task
          sending,   \* the request of the volume task
          put,       \* the last volume a room confirmed
          level,     \* the volume of the room
          reads,     \* refresh tasks: those asking, those with an answer
          calls, trouble, slips

Untold == Muted - 1
receiver == <<stream, wanted, call, orders, rate, ending, thread, held, old>>
volumes == <<told, shown, wish, sending, put, level, reads>>
vars == <<receiver, made, active, events, sessions, volumes, calls, trouble, slips>>

Event(kind, id, value) == [kind |-> kind, id |-> id, value |-> value]
Tell(e) == events' = Append(events, e)
NoCall == [rate |-> FALSE, at |-> "none", id |-> None]

----------------------------------------------------------------------------
(* The scale of the volume: a line in place of the logarithm, with its     *)
(* ends: nothing below the floor, nothing above the full volume.           *)

\* Wrong variant of ToPercent: what is not finite plays at full volume.
ToPercentLoud(db) == IF db <= Muted THEN 0 ELSE IF db > 0 THEN Steps ELSE Steps + db

(* airplay_db_to_sonos_volume                                              *)
ToPercent(db) ==
    IF db = NoNumber \/ db <= Muted THEN 0 ELSE IF db > 0 THEN Steps ELSE Steps + db

(* sonos_volume_to_airplay_db                                              *)
ToDecibels(percent) == IF percent = 0 THEN Muted ELSE percent - Steps

(* FALLBACK_VOLUME_PERCENT: shown until the room answers.                  *)
Fallback == Steps \div 5

(* ZoneVolumeState::set_volume_db                                          *)
Finite(db) == IF db = NoNumber THEN Muted ELSE db

Init ==
    /\ stream = None /\ wanted = FALSE /\ call = NoCall
    /\ orders = [s \in Streams |-> <<>>] /\ rate = [s \in Streams |-> FALSE]
    /\ ending = [s \in Streams |-> "none"] /\ thread = [s \in Streams |-> "off"]
    /\ held = [s \in Streams |-> None] /\ old = [s \in Streams |-> None]
    /\ made = 0 /\ active = None /\ events = <<>> /\ sessions = <<>>
    /\ level = Steps - 1
    /\ \/ shown = ToDecibels(level) /\ trouble = 0
       \/ shown = ToDecibels(Fallback) /\ trouble = 1 /\ MaxTrouble > 0
    /\ told = Untold /\ put = -1 /\ wish = [value |-> -1, new |-> FALSE] /\ sending = -1
    /\ reads = [asking |-> 0, got |-> {}]
    /\ calls = 0 /\ slips = {}

Call == calls < MaxCalls /\ calls' = calls + 1

----------------------------------------------------------------------------
(* The sender and the receiver's tasks.                                    *)

(* SETUP of a stream; the last one is aborted, its thread ends in its own  *)
(* time.                                                                   *)
SetUp ==
    /\ stream < MaxStreams /\ call = NoCall
    /\ stream' = stream + 1
    /\ thread' = [thread EXCEPT ![stream + 1] = "waiting"]
    /\ ending' = [s \in Streams |->
           IF s = stream /\ ending[s] = "none" THEN "teardown" ELSE ending[s]]
    /\ wanted' = FALSE
    /\ UNCHANGED <<call, orders, rate, held, old, made, active, events, sessions, volumes,
                   calls, trouble, slips>>

(* TEARDOWN, or the sender's connection is gone.                           *)
TearDown ==
    /\ stream # None /\ call = NoCall
    /\ ending[stream] = "none"
    /\ ending' = [ending EXCEPT ![stream] = "teardown"]
    /\ UNCHANGED <<stream, wanted, call, orders, rate, thread, held, old, made, active, events,
                   sessions, volumes, calls, trouble, slips>>

(* The audio connection is gone: paused or not, as the threads know it.    *)
StreamEnds(s) ==
    /\ thread[s] \notin {"off", "making"} /\ ending[s] = "none"
    /\ ending' = [ending EXCEPT ![s] = IF rate[s] THEN "ended" ELSE "paused"]
    /\ UNCHANGED <<stream, wanted, call, orders, rate, thread, held, old, made, active, events,
                   sessions, volumes, calls, trouble, slips>>

(* SETRATEANCHORTIME: first the stream's task is sent the rate; then       *)
(* on_playback_rate is called.                                             *)
SetRate(playing) ==
    /\ stream # None /\ thread[stream] # "off" /\ call = NoCall
    /\ Call
    /\ wanted' = playing
    /\ call' = [NoCall EXCEPT !.rate = playing, !.at = "called"]
    /\ orders' = [orders EXCEPT ![stream] = Append(@, playing)]
    /\ UNCHANGED <<stream, rate, ending, thread, held, old, made, active, events, sessions,
                   volumes, trouble, slips>>

ApplyRate(s) ==
    /\ ending[s] = "none" /\ orders[s] # <<>> /\ thread[s] # "making"
    /\ rate' = [rate EXCEPT ![s] = Head(orders[s])]
    /\ orders' = [orders EXCEPT ![s] = Tail(@)]
    /\ UNCHANGED <<stream, wanted, call, ending, thread, held, old, made, active, events,
                   sessions, volumes, calls, trouble, slips>>

----------------------------------------------------------------------------
(* The adapter's callbacks.                                                *)

Delivers(s) == held[s] # None /\ thread[s] # "making"

(* on_playback_rate reads active_session, then tells the runtime.          *)
ReadActive ==
    /\ call.at = "called"
    /\ call' = [call EXCEPT !.at = "read", !.id = active]
    /\ slips' = IF Delivers(stream) THEN slips \ {"missed"} ELSE slips \cup {"missed"}
    /\ UNCHANGED <<stream, wanted, orders, rate, ending, thread, held, old, made, active, events,
                   sessions, volumes, calls, trouble>>

TellRate ==
    /\ call.at = "read"
    /\ call' = NoCall
    /\ IF call.id # None THEN Tell(Event("rate", call.id, call.rate)) ELSE UNCHANGED events
    /\ slips' = IF call.rate /\ \A s \in Streams : held[s] # call.id
                THEN slips \cup {"revived"} ELSE slips
    /\ UNCHANGED <<stream, wanted, orders, rate, ending, thread, held, old, made, active,
                   sessions, volumes, calls, trouble>>

(* audio_init_with_sender, when sound is due and there is no session, or   *)
(* its format changed: first active_session, then SessionStarted.          *)
Make(s) ==
    /\ thread[s] = "waiting" /\ ending[s] = "none" /\ rate[s]
    /\ made < MaxSessions
    /\ made' = made + 1
    /\ active' = made + 1
    /\ held' = [held EXCEPT ![s] = made + 1]
    /\ old' = [old EXCEPT ![s] = held[s]]
    /\ thread' = [thread EXCEPT ![s] = "making"]
    /\ slips' = IF s = stream /\ (call # NoCall \/ ~wanted) THEN slips \cup {"missed"} ELSE slips
    /\ UNCHANGED <<stream, wanted, call, orders, rate, ending, events, sessions, volumes, calls,
                   trouble>>

Announce(s) ==
    /\ thread[s] = "making"
    /\ Tell(Event("started", held[s], TRUE))
    /\ thread' = [thread EXCEPT ![s] = IF old[s] = None THEN "waiting" ELSE "dropping"]
    /\ slips' = IF held[s] = made THEN slips ELSE slips \cup {"crossed"}
    /\ UNCHANGED <<stream, wanted, call, orders, rate, ending, held, old, made, active, sessions,
                   volumes, calls, trouble>>

(* The end of session k: SessionStopped, and active_session if it is k.    *)
Over(k) ==
    /\ active' = IF active = k THEN None ELSE active
    /\ Tell(Event("stopped", k, TRUE))

\* Wrong variant of DropOld: active_session is cleared, whose ever it is.
DropAny(s) ==
    /\ thread[s] = "dropping"
    /\ active' = None
    /\ Tell(Event("stopped", old[s], TRUE))
    /\ old' = [old EXCEPT ![s] = None]
    /\ thread' = [thread EXCEPT ![s] = "waiting"]
    /\ UNCHANGED <<stream, wanted, call, orders, rate, ending, held, made, sessions, volumes,
                   calls, trouble, slips>>

(* Drop of the session that another format replaced.                       *)
DropOld(s) ==
    /\ thread[s] = "dropping"
    /\ Over(old[s])
    /\ old' = [old EXCEPT ![s] = None]
    /\ thread' = [thread EXCEPT ![s] = "waiting"]
    /\ UNCHANGED <<stream, wanted, call, orders, rate, ending, held, made, sessions, volumes,
                   calls, trouble, slips>>

(* A play was sent to the stream's task, and not applied yet.              *)
PlayUnseen(s) == orders[s] # <<>> /\ orders[s][Len(orders[s])]

\* Wrong variant of Stop: a session that ended while paused says nothing.
StopSilently(s) ==
    /\ thread[s] = "waiting" /\ ending[s] # "none"
    /\ thread' = [thread EXCEPT ![s] = "off"]
    /\ held' = [held EXCEPT ![s] = None]
    /\ IF held[s] # None /\ ending[s] # "paused"
       THEN Over(held[s]) ELSE UNCHANGED <<active, events>>
    /\ UNCHANGED <<stream, wanted, call, orders, rate, ending, old, made, sessions, volumes,
                   calls, trouble, slips>>

(* audio_stopped; what was paused keeps its place for a while.  It may     *)
(* tell so before the pause, or after the play that it does not know of.   *)
Stop(s) ==
    /\ thread[s] = "waiting" /\ ending[s] # "none"
    /\ thread' = [thread EXCEPT ![s] = "off"]
    /\ held' = [held EXCEPT ![s] = None]
    /\ IF held[s] = None
       THEN UNCHANGED <<active, events, slips>>
       ELSE IF ending[s] = "paused"
            THEN /\ Tell(Event("ended_paused", held[s], TRUE))
                 /\ slips' = IF PlayUnseen(s) \/ call # NoCall \/ "missed" \in slips
                             THEN slips \cup {"late"} ELSE slips
                 /\ UNCHANGED active
            ELSE Over(held[s]) /\ UNCHANGED slips
    /\ UNCHANGED <<stream, wanted, call, orders, rate, ending, old, made, sessions, volumes,
                   calls, trouble>>

(* on_volume: the volume is shown, and told as percent.                    *)
SetVolume(db) ==
    /\ Call /\ calls < MaxTurns
    /\ told' = db
    /\ shown' = Finite(db)
    /\ Tell(Event("volume", None, ToPercent(db)))
    /\ reads' = [reads EXCEPT !.got = {[r EXCEPT !.stale = TRUE] : r \in @}]
    /\ slips' = slips \ {"raced"}
    /\ UNCHANGED <<receiver, made, active, sessions, wish, sending, put, level, trouble>>

(* on_client_connected                                                     *)
Connect ==
    /\ Call /\ calls < MaxTurns
    /\ Tell(Event("connected", None, TRUE))
    /\ UNCHANGED <<receiver, made, active, sessions, volumes, trouble, slips>>

----------------------------------------------------------------------------
(* The runtime: handle_event, as far as it touches the session or the      *)
(* volume, and the grace timer of a paused session.                        *)

Knows(k) == k \in DOMAIN sessions
Forget(k) == [i \in DOMAIN sessions \ {k} |-> sessions[i]]
Head1 == Head(events)
Handles(kind) == events # <<>> /\ Head1.kind = kind /\ events' = Tail(events)

(* start_session: it stops the other sessions of the room.                 *)
HandleStarted ==
    /\ Handles("started")
    /\ sessions' = [k \in {Head1.id} |-> [playing |-> TRUE, grace |-> FALSE]]
    /\ UNCHANGED <<receiver, made, active, volumes, calls, trouble, slips>>

(* set_playback_state                                                      *)
HandleRate ==
    /\ Handles("rate")
    /\ sessions' = IF Knows(Head1.id)
                   THEN [sessions EXCEPT ![Head1.id] = [playing |-> Head1.value,
                                                        grace |-> @.grace /\ ~Head1.value]]
                   ELSE sessions
    /\ UNCHANGED <<receiver, made, active, volumes, calls, trouble, slips>>

(* StreamEndedWhilePaused                                                  *)
HandleEndedPaused ==
    /\ Handles("ended_paused")
    /\ sessions' = IF Knows(Head1.id) /\ ~sessions[Head1.id].playing
                   THEN [sessions EXCEPT ![Head1.id].grace = TRUE] ELSE sessions
    /\ UNCHANGED <<receiver, made, active, volumes, calls, trouble, slips>>

HandleStopped ==
    /\ Handles("stopped")
    /\ sessions' = Forget(Head1.id)
    /\ UNCHANGED <<receiver, made, active, volumes, calls, trouble, slips>>

GraceEnds(k) ==
    /\ Knows(k) /\ sessions[k].grace
    /\ sessions' = Forget(k)
    /\ UNCHANGED <<receiver, made, active, events, volumes, calls, trouble, slips>>

(* ZoneWorker::set_volume keeps the newest value only.                     *)
HandleVolume ==
    /\ Handles("volume")
    /\ wish' = [value |-> Head1.value, new |-> TRUE]
    /\ UNCHANGED <<receiver, made, active, sessions, told, shown, sending, put, level, reads,
                   calls, trouble, slips>>

(* A task that refreshes the volume shown is spawned.                      *)
HandleConnected ==
    /\ Handles("connected")
    /\ reads' = [reads EXCEPT !.asking = @ + 1]
    /\ UNCHANGED <<receiver, made, active, sessions, told, shown, wish, sending, put, level,
                   calls, trouble, slips>>

----------------------------------------------------------------------------
(* The volume task of the zone worker, and the refresh tasks.              *)

Trouble == trouble < MaxTrouble /\ trouble' = trouble + 1

TakeVolume ==
    /\ sending = -1 /\ wish.new
    /\ sending' = wish.value
    /\ wish' = [wish EXCEPT !.new = FALSE]
    /\ UNCHANGED <<receiver, made, active, events, sessions, told, shown, put, level, reads,
                   calls, trouble, slips>>

\* Wrong variant of VolumeSet: what came meanwhile counts as seen.
VolumeSetAll ==
    /\ sending # -1
    /\ sending' = -1 /\ wish' = [wish EXCEPT !.new = FALSE]
    /\ level' = sending /\ put' = sending
    /\ slips' = slips \ {"refused"}
    /\ UNCHANGED <<receiver, made, active, events, sessions, told, shown, reads, calls, trouble>>

VolumeSet ==
    /\ sending # -1
    /\ sending' = -1
    /\ level' = sending /\ put' = sending
    /\ slips' = slips \ {"refused"}
    /\ UNCHANGED <<receiver, made, active, events, sessions, told, shown, wish, reads, calls,
                   trouble>>

(* The request fails, carried out or not; it is not repeated.              *)
VolumeFails ==
    /\ sending # -1 /\ Trouble
    /\ sending' = -1
    /\ level' \in {level, sending}
    /\ slips' = slips \cup {"refused"}
    /\ UNCHANGED <<receiver, made, active, events, sessions, told, shown, wish, put, reads,
                   calls>>

OnTheWay == wish.new \/ sending # -1 \/ \E i \in DOMAIN events : events[i].kind = "volume"

(* refresh_volume_state: the answer of the room, and what is stored of it. *)
RefreshReads ==
    /\ reads.asking > 0
    /\ \/ reads' = [asking |-> reads.asking - 1,
                    got |-> reads.got \cup {[value |-> level, stale |-> OnTheWay]}]
          /\ UNCHANGED trouble
       \/ reads' = [reads EXCEPT !.asking = @ - 1] /\ Trouble
    /\ UNCHANGED <<receiver, made, active, events, sessions, told, shown, wish, sending, put,
                   level, calls, slips>>

RefreshStores(r) ==
    /\ shown' = ToDecibels(r.value)
    /\ reads' = [reads EXCEPT !.got = @ \ {r}]
    /\ slips' = IF r.stale THEN slips \cup {"raced"} ELSE slips
    /\ UNCHANGED <<receiver, made, active, events, sessions, told, wish, sending, put, level,
                   calls, trouble>>

----------------------------------------------------------------------------
ReceiverStep ==
    \/ SetUp \/ TearDown \/ ReadActive \/ TellRate \/ Connect
    \/ \E playing \in BOOLEAN : SetRate(playing)
    \/ \E s \in Streams : StreamEnds(s) \/ ApplyRate(s) \/ Make(s) \/ Announce(s) \/ DropOld(s)
                            \/ Stop(s)
    \/ \E db \in Loudness : SetVolume(db)

RuntimeStep ==
    \/ HandleStarted \/ HandleRate \/ HandleEndedPaused \/ HandleStopped \/ HandleVolume
    \/ HandleConnected \/ TakeVolume \/ VolumeSet \/ VolumeFails \/ RefreshReads
    \/ \E k \in DOMAIN sessions : GraceEnds(k)
    \/ \E r \in reads.got : RefreshStores(r)

Next == ReceiverStep \/ RuntimeStep

Spec == Init /\ [][Next]_vars

----------------------------------------------------------------------------
Told(k, kinds) == \E i \in DOMAIN events : events[i].id = k /\ events[i].kind \in kinds

(* Once everything told is handled, the session that gets the sound is the *)
(* runtime's session, and plays or pauses as the sender said last.  Known  *)
(* to be lost: a pause that meets the making of the session, and a session *)
(* whose start is told after that of its successor.                        *)
RateIsHeard ==
    stream # None /\ Delivers(stream) /\ events = <<>> /\ call = NoCall /\ "crossed" \notin slips =>
        /\ Knows(held[stream])
        /\ LET playing == sessions[held[stream]].playing
           IN  playing = wanted \/ (playing /\ "missed" \in slips)

(* The runtime does not keep a session whose stream is over: its end is    *)
(* told, or its grace runs.  Known to stay until the room's next session:  *)
(* a paused stream whose end and pause, or next play, are told in the      *)
(* wrong order, and one revived by a play that was meant for the next.     *)
EndedSessionsGo ==
    \A k \in DOMAIN sessions :
        \/ \E s \in Streams : k \in {held[s], old[s]}
        \/ sessions[k].grace
        \/ Told(k, {"started", "stopped", "ended_paused"})
        \/ \E i \in DOMAIN events : events[i].kind = "started"
        \/ slips \cap {"late", "revived"} # {}

(* However fast a sender turns the volume: when nothing is on its way, the *)
(* room was set to the last value, unless its last request failed, which   *)
(* is not repeated.                                                        *)
LastVolumeWins ==
    told # Untold /\ ~OnTheWay /\ "refused" \notin slips => put = ToPercent(told)

(* The volume shown to senders is that of the room, rounded, unless a      *)
(* refresh stored what it had read before a newer volume was set.          *)
ShownIsReal ==
    ~OnTheWay /\ trouble = 0 /\ "raced" \notin slips => ToPercent(shown) = level
=============================================================================
