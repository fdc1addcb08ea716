----------------------------- MODULE SyncDelays -----------------------------
(***************************************************************************)
(* The output delays of the rooms that start together (sync.rs, and        *)
(* sync_delays in main.rs), and the PCM that an encoder keeps for them     *)
(* (SyncConfig in config.rs).                                              *)
(*                                                                         *)
(* A room is a record with its id and its name.  The [sync] section is     *)
(* fallback: the offset of the other rooms; zones: offsets by id or name;  *)
(* deadline: start_deadline_ms.  All times are milliseconds.               *)
(***************************************************************************)
EXTENDS Integers

Limit == 10000          \* offsets are within Limit of zero
DeadlineLimit == 60000  \* and start_deadline_ms is at most this
Slack == 250

(* Config::validate: what it demands of [sync].                            *)
ValidSync(sync) ==
    /\ sync.fallback \in -Limit..Limit
    /\ \A k \in DOMAIN sync.zones : sync.zones[k] \in -Limit..Limit
    /\ sync.deadline \in 0..DeadlineLimit

Greatest(S) == CHOOSE x \in S : \A y \in S : y <= x
Least(S) == CHOOSE x \in S : \A y \in S : x <= y

(* configured_delays: an offset by id wins over one by name.               *)
OffsetOf(sync, room) ==
    IF room.id \in DOMAIN sync.zones THEN sync.zones[room.id]
    ELSE IF room.name \in DOMAIN sync.zones THEN sync.zones[room.name]
    ELSE sync.fallback

(* recommended_delay_for_zone; valid offsets never saturate the i64.       *)
RecommendedDelay(offset, slowest) == IF slowest > offset THEN slowest - offset ELSE 0

(* delays_from_offsets: the delay of one of the rooms.                     *)
CohortDelay(sync, rooms, room) ==
    RecommendedDelay(OffsetOf(sync, room), Greatest({OffsetOf(sync, r) : r \in rooms}))

(* The rooms of a release that play their own streams: members maps the    *)
(* rooms that join a native group to its coordinator.                      *)
OwnStreams(prepared, members) == prepared \ DOMAIN members

(* sync_delays: a member's own stream keeps the delay of its coordinator,  *)
(* from this release or the one it plays with (kept).                      *)
StreamDelay(sync, prepared, members, kept, room) ==
    LET own == OwnStreams(prepared, members)
        leader == IF room \in DOMAIN members THEN members[room] ELSE room
    IN  IF leader \in own THEN CohortDelay(sync, own, leader) ELSE kept[leader]

Clamp(offset) ==
    IF offset < -Limit THEN -Limit ELSE IF offset > Limit THEN Limit ELSE offset

Offsets(sync) == {Clamp(sync.fallback)} \cup {Clamp(sync.zones[k]) : k \in DOMAIN sync.zones}

(* SyncConfig::pcm_queue_duration                                          *)
PcmQueueDuration(sync) ==
    (IF sync.deadline < DeadlineLimit THEN sync.deadline ELSE DeadlineLimit)
    + (Greatest(Offsets(sync)) - Least(Offsets(sync)))
    + Slack

----------------------------------------------------------------------------
(* The rooms of a release that play their own streams sound together: the  *)
(* latency of a room and its delay add up to the same for all of them.     *)
SoundTogether(sync, own) ==
    \A r, s \in own :
        OffsetOf(sync, r) + CohortDelay(sync, own, r)
            = OffsetOf(sync, s) + CohortDelay(sync, own, s)

(* "never an added delay": some room is not delayed.                       *)
NoAddedDelay(sync, own) == \E r \in own : CohortDelay(sync, own, r) = 0

(* What a room that is delayed has still to play fits into the queue of    *)
(* its encoder.                                                            *)
Fits(sync, delay) == delay + sync.deadline + Slack <= PcmQueueDuration(sync)

(* "Retain the common starting sample throughout the configured startup    *)
(* wait and normalized room delay": whichever rooms start together, join a *)
(* group or keep the delay of an earlier release, as long as the delays    *)
(* kept so far fit.                                                        *)
QueueHoldsDelays(sync, prepared, members, kept) ==
    \A r \in prepared : Fits(sync, StreamDelay(sync, prepared, members, kept, r))
=============================================================================
