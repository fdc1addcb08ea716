-------------------------- MODULE SyncDelaysProofs --------------------------
(* Proofs about the output delays, for every configuration and all rooms.  *)
EXTENDS SyncDelays, WellFoundedInduction, TLAPS

(* Natural numbers have a least one.                                       *)
LEMMA LeastNatural ==
    ASSUME NEW S, S \subseteq Nat, S # {}
    PROVE  \E x \in S : \A y \in S : x <= y
<1>1. PICK x \in S : \A y \in S : <<y, x>> \notin OpToRel(<, Nat)
  BY WFMin, NatLessThanWellFounded, Zenon
<1>2. \A y \in S : ~ (y < x)
  BY <1>1, Zenon DEF OpToRel
<1>3. \A y \in S : x <= y
  BY <1>2, SMT
<1> QED
  BY <1>3, Zenon

(* Offsets are within a limit.                                             *)
LEMMA Within ==
    ASSUME NEW o \in -Limit..Limit
    PROVE  /\ o \in Int /\ -Limit <= o /\ o <= Limit
           /\ Limit - o \in Nat /\ Limit + o \in Nat
BY SMT DEF Limit

(* The arithmetic of the proofs below.                                     *)
LEMMA Arithmetic ==
    ASSUME NEW o \in Int, NEW p \in Int, NEW m \in Int
    PROVE  /\ o <= m => RecommendedDelay(o, m) = m - o /\ m - o >= 0
           /\ o + (m - o) = p + (m - p)
           /\ m - m = 0
BY SMT DEF RecommendedDelay

LEMMA InInterval ==
    ASSUME NEW a \in Int, NEW b \in Int, NEW o \in Int, a <= o, o <= b
    PROVE  o \in a..b
BY SMT

LEMMA ClampIsWithin == ASSUME NEW o \in Int PROVE Clamp(o) \in -Limit..Limit
<1>1. CASE o < -Limit
  BY <1>1, SMT DEF Clamp, Limit
<1>2. CASE o > Limit
  BY <1>2, SMT DEF Clamp, Limit
<1>3. CASE ~(o < -Limit) /\ ~(o > Limit)
  <2>1. Clamp(o) = o
    BY <1>3, Zenon DEF Clamp
  <2>2. -Limit \in Int /\ Limit \in Int /\ -Limit <= o /\ o <= Limit
    BY <1>3, SMT DEF Limit
  <2> QED
    BY <2>1, <2>2, InInterval, Zenon
<1> QED
  BY <1>1, <1>2, <1>3

LEMMA SpreadCoversDelay ==
    ASSUME NEW o \in Int, NEW m \in Int, NEW low \in Int, NEW high \in Int, NEW d \in Int,
           m <= high, low <= o
    PROVE  (m - o) + d + Slack <= d + (high - low) + Slack
BY SMT DEF Slack

LEMMA DeadlineIsKept ==
    ASSUME NEW d \in 0..DeadlineLimit
    PROVE  d \in Int /\ (IF d < DeadlineLimit THEN d ELSE DeadlineLimit) = d
BY SMT DEF DeadlineLimit

(* So there is a greatest and a least one.                                 *)
LEMMA Bounds ==
    ASSUME NEW S, S \subseteq -Limit..Limit, S # {}
    PROVE  /\ Greatest(S) \in S /\ \A y \in S : y <= Greatest(S)
           /\ Least(S) \in S /\ \A y \in S : Least(S) <= y
<1>1. \A y \in S : y \in -Limit..Limit
  BY Zenon
<1>2. \A y \in S : y \in Int /\ Limit - y \in Nat /\ Limit + y \in Nat
  BY <1>1, Within, Zenon
<1>3. \E x \in S : \A y \in S : y <= x
  <2> DEFINE T == {Limit - y : y \in S}
  <2>1. T \subseteq Nat /\ T # {}
    BY <1>2, Zenon
  <2>2. PICK t \in T : \A u \in T : t <= u
    BY <2>1, LeastNatural, Zenon
  <2>3. PICK x \in S : t = Limit - x
    BY Zenon
  <2>4. ASSUME NEW y \in S PROVE y <= x
    <3>1. Limit - x <= Limit - y
      BY <2>2, <2>3, Zenon
    <3>2. x \in Int /\ y \in Int
      BY <1>2, Zenon
    <3> QED
      BY <3>1, <3>2, SMT DEF Limit
  <2> QED
    BY <2>4, Zenon
<1>4. \E x \in S : \A y \in S : x <= y
  <2> DEFINE T == {Limit + y : y \in S}
  <2>1. T \subseteq Nat /\ T # {}
    BY <1>2, Zenon
  <2>2. PICK t \in T : \A u \in T : t <= u
    BY <2>1, LeastNatural, Zenon
  <2>3. PICK x \in S : t = Limit + x
    BY Zenon
  <2>4. ASSUME NEW y \in S PROVE x <= y
    <3>1. Limit + x <= Limit + y
      BY <2>2, <2>3, Zenon
    <3>2. x \in Int /\ y \in Int
      BY <1>2, Zenon
    <3> QED
      BY <3>1, <3>2, SMT DEF Limit
  <2> QED
    BY <2>4, Zenon
<1> QED
  BY <1>3, <1>4, Zenon DEF Greatest, Least

----------------------------------------------------------------------------
(* The offset of a room is one of the configuration's.                     *)
LEMMA OffsetIsConfigured ==
    ASSUME NEW sync, ValidSync(sync), NEW room
    PROVE  /\ OffsetOf(sync, room) \in -Limit..Limit
           /\ OffsetOf(sync, room) \in Offsets(sync)
<1>1. ASSUME NEW o \in -Limit..Limit PROVE Clamp(o) = o
  BY SMT DEF Clamp, Limit
<1>2. OffsetOf(sync, room) \in {sync.fallback} \cup {sync.zones[k] : k \in DOMAIN sync.zones}
  BY Zenon DEF OffsetOf
<1>3. \A o \in {sync.fallback} \cup {sync.zones[k] : k \in DOMAIN sync.zones} :
        o \in -Limit..Limit
  BY Zenon DEF ValidSync
<1>4. \A o \in {sync.fallback} \cup {sync.zones[k] : k \in DOMAIN sync.zones} :
        Clamp(o) \in Offsets(sync)
  BY Zenon DEF Offsets
<1> QED
  BY <1>1, <1>2, <1>3, <1>4, Zenon

(* The slowest of rooms that start together is one of them.                *)
LEMMA SlowestIsARoom ==
    ASSUME NEW sync, ValidSync(sync), NEW own, own # {}
    PROVE  LET slowest == Greatest({OffsetOf(sync, r) : r \in own})
           IN  /\ \E r \in own : OffsetOf(sync, r) = slowest
               /\ slowest \in -Limit..Limit
               /\ \A r \in own : OffsetOf(sync, r) <= slowest
<1> DEFINE S == {OffsetOf(sync, r) : r \in own}
<1>1. S \subseteq -Limit..Limit /\ S # {}
  BY OffsetIsConfigured, Zenon
<1>2. Greatest(S) \in S /\ \A y \in S : y <= Greatest(S)
  BY <1>1, Bounds, Zenon
<1> QED
  BY <1>1, <1>2, Zenon

(* What a room is delayed is what it is faster than the slowest.           *)
LEMMA DelayOf ==
    ASSUME NEW sync, ValidSync(sync), NEW own, NEW r \in own
    PROVE  LET slowest == Greatest({OffsetOf(sync, s) : s \in own})
           IN  /\ CohortDelay(sync, own, r) = slowest - OffsetOf(sync, r)
               /\ CohortDelay(sync, own, r) >= 0
<1> DEFINE slowest == Greatest({OffsetOf(sync, s) : s \in own})
<1>1. slowest \in -Limit..Limit /\ OffsetOf(sync, r) <= slowest
  BY SlowestIsARoom, Zenon
<1>2. OffsetOf(sync, r) \in -Limit..Limit
  BY OffsetIsConfigured, Zenon
<1>3. CohortDelay(sync, own, r) = RecommendedDelay(OffsetOf(sync, r), slowest)
  BY Zenon DEF CohortDelay
<1>4. /\ RecommendedDelay(OffsetOf(sync, r), slowest) = slowest - OffsetOf(sync, r)
      /\ slowest - OffsetOf(sync, r) >= 0
  BY <1>1, <1>2, Within, Arithmetic, Zenon
<1> QED
  BY <1>3, <1>4, Zenon DEF slowest

----------------------------------------------------------------------------
(* Rooms that start together are heard together, however their offsets are *)
(* configured (delays_from_offsets).                                       *)
THEOREM Together ==
    ASSUME NEW sync, ValidSync(sync), NEW own
    PROVE  SoundTogether(sync, own)
<1> SUFFICES ASSUME NEW r \in own, NEW s \in own
             PROVE  OffsetOf(sync, r) + CohortDelay(sync, own, r)
                        = OffsetOf(sync, s) + CohortDelay(sync, own, s)
  BY DEF SoundTogether
<1> DEFINE slowest == Greatest({OffsetOf(sync, q) : q \in own})
<1>1. /\ CohortDelay(sync, own, r) = slowest - OffsetOf(sync, r)
      /\ CohortDelay(sync, own, s) = slowest - OffsetOf(sync, s)
  BY DelayOf, Zenon
<1>2. slowest \in -Limit..Limit
  BY SlowestIsARoom, Zenon
<1>3. OffsetOf(sync, r) \in -Limit..Limit /\ OffsetOf(sync, s) \in -Limit..Limit
  BY OffsetIsConfigured, Zenon
<1>4. slowest \in Int /\ OffsetOf(sync, r) \in Int /\ OffsetOf(sync, s) \in Int
  BY <1>2, <1>3, Within, Zenon
<1>5. OffsetOf(sync, r) + (slowest - OffsetOf(sync, r))
        = OffsetOf(sync, s) + (slowest - OffsetOf(sync, s))
  BY <1>4, Arithmetic, Zenon
<1> QED
  BY <1>1, <1>5, Zenon

(* A release delays nobody more than the slowest room needs ("never an     *)
(* added delay", sync.rs).                                                 *)
THEOREM NoDelayAdded ==
    ASSUME NEW sync, ValidSync(sync), NEW own, own # {}
    PROVE  NoAddedDelay(sync, own)
<1> DEFINE slowest == Greatest({OffsetOf(sync, q) : q \in own})
<1>1. PICK r \in own : OffsetOf(sync, r) = slowest
  BY SlowestIsARoom, Zenon
<1>2. CohortDelay(sync, own, r) = slowest - OffsetOf(sync, r)
  BY DelayOf, Zenon
<1>3. slowest \in -Limit..Limit
  BY SlowestIsARoom, Zenon
<1>4. CohortDelay(sync, own, r) = 0
  BY <1>1, <1>2, <1>3, Within, Arithmetic, Zenon
<1> QED
  BY <1>4 DEF NoAddedDelay

(* The delay of a room that plays its own stream fits.                     *)
LEMMA CohortDelayFits ==
    ASSUME NEW sync, ValidSync(sync), NEW own, NEW r \in own
    PROVE  Fits(sync, CohortDelay(sync, own, r))
<1> DEFINE slowest == Greatest({OffsetOf(sync, q) : q \in own})
           high == Greatest(Offsets(sync))
           low == Least(Offsets(sync))
<1>1. PICK s \in own : OffsetOf(sync, s) = slowest
  BY SlowestIsARoom, Zenon
<1>2. OffsetOf(sync, r) \in Offsets(sync) /\ OffsetOf(sync, s) \in Offsets(sync)
  BY OffsetIsConfigured, Zenon
<1>3. Offsets(sync) \subseteq -Limit..Limit
  <2>1. sync.fallback \in Int /\ \A k \in DOMAIN sync.zones : sync.zones[k] \in Int
    BY Within, Zenon DEF ValidSync
  <2> QED
    BY <2>1, ClampIsWithin, Zenon DEF Offsets
<1>4. /\ high \in Offsets(sync) /\ \A o \in Offsets(sync) : o <= high
      /\ low \in Offsets(sync) /\ \A o \in Offsets(sync) : low <= o
  BY <1>2, <1>3, Bounds, Zenon
<1>5. slowest <= high /\ low <= OffsetOf(sync, r)
  BY <1>1, <1>2, <1>4, Zenon
<1>6. CohortDelay(sync, own, r) = slowest - OffsetOf(sync, r)
  BY DelayOf, Zenon
<1>7. /\ slowest \in -Limit..Limit /\ OffsetOf(sync, r) \in -Limit..Limit
      /\ high \in -Limit..Limit /\ low \in -Limit..Limit
  BY <1>1, <1>2, <1>3, <1>4, Zenon
<1>8. PcmQueueDuration(sync) = sync.deadline + (high - low) + Slack
  <2>1. sync.deadline \in 0..DeadlineLimit
    BY Zenon DEF ValidSync
  <2> QED
    BY <2>1, DeadlineIsKept, Zenon DEF PcmQueueDuration
<1>9. sync.deadline \in Int
  BY DeadlineIsKept, Zenon DEF ValidSync
<1>10. (slowest - OffsetOf(sync, r)) + sync.deadline + Slack
          <= sync.deadline + (high - low) + Slack
  <2>1. /\ slowest \in Int /\ OffsetOf(sync, r) \in Int
        /\ high \in Int /\ low \in Int
    BY <1>7, Within, Zenon
  <2> QED
    BY <1>5, <1>9, <2>1, SpreadCoversDelay, Zenon
<1> QED
  BY <1>6, <1>8, <1>10, Zenon DEF Fits

(* A session begins without a delay, which fits, since the queue holds at  *)
(* least the startup wait (SessionRuntime::new, pcm_queue_duration).       *)
THEOREM NoDelayFits == ASSUME NEW sync, ValidSync(sync) PROVE Fits(sync, 0)
<1> DEFINE room == [id |-> 0, name |-> 0]
           own == {room}
<1> HIDE DEF room
<1>1. own # {}
  OBVIOUS
<1>2. PICK r \in own : CohortDelay(sync, own, r) = 0
  BY <1>1, NoDelayAdded, Zenon DEF NoAddedDelay
<1> QED
  BY <1>2, CohortDelayFits, Zenon

(* The queue of an encoder holds what a delayed room has still to play,    *)
(* for every configuration that is accepted, whichever rooms start         *)
(* together or join a group (SyncConfig::pcm_queue_duration, sync_delays). *)
(* With NoDelayFits it is an induction over the releases of a session.     *)
THEOREM QueueSuffices ==
    ASSUME NEW sync, ValidSync(sync), NEW sessions, NEW kept,
           \A r \in sessions : Fits(sync, kept[r]),
           NEW prepared \in SUBSET sessions, NEW members,
           \A m \in DOMAIN members : members[m] \in sessions
    PROVE  QueueHoldsDelays(sync, prepared, members, kept)
<1> DEFINE own == OwnStreams(prepared, members)
<1> SUFFICES ASSUME NEW r \in prepared
             PROVE  Fits(sync, StreamDelay(sync, prepared, members, kept, r))
  BY DEF QueueHoldsDelays
<1> DEFINE leader == IF r \in DOMAIN members THEN members[r] ELSE r
<1>1. CASE leader \in own
  <2>1. StreamDelay(sync, prepared, members, kept, r) = CohortDelay(sync, own, leader)
    BY <1>1, Zenon DEF StreamDelay
  <2> QED
    BY <1>1, <2>1, CohortDelayFits, Zenon
<1>2. CASE leader \notin own
  <2>1. StreamDelay(sync, prepared, members, kept, r) = kept[leader]
    BY <1>2, Zenon DEF StreamDelay
  <2>2. leader \in sessions
    BY Zenon
  <2> QED
    BY <2>1, <2>2, Zenon
<1> QED
  BY <1>1, <1>2
=============================================================================
