---------------------------- MODULE AdapterProofs ---------------------------
(***************************************************************************)
(* Proofs about Adapter, for every number of streams, sessions, calls and  *)
(* failed requests and every scale of volumes: the volume set last wins,   *)
(* and the volume shown is that of the room; the rate a sender set is      *)
(* heard, and a session whose stream is over goes.                         *)
(*                                                                         *)
(* The second half follows one session through the channel: whether it is  *)
(* the one that stands once all starts are handled (Standing), whether it  *)
(* will play or pause (Will), and, when nobody has it any more, that it is *)
(* on its way out (Fading).                                                *)
(***************************************************************************)
EXTENDS Adapter, TLAPS

Percents == 0..Steps
Kinds == {"started", "rate", "stopped", "ended_paused", "connected"}
Events == [kind : Kinds, id : Nat, value : BOOLEAN]
              \cup [kind : {"volume"}, id : {None}, value : Percents]

Volumes == {i \in DOMAIN events : events[i].kind = "volume"}

VolumeTypes ==
    /\ events \in Seq(Events)
    /\ told \in Loudness \cup {Untold} /\ shown \in Muted..NoNumber
    /\ wish \in [value : Percents \cup {-1}, new : BOOLEAN]
    /\ wish.new => wish.value \in Percents
    /\ sending \in Percents \cup {-1} /\ level \in Percents
    /\ reads \in [asking : Nat, got : SUBSET [value : Percents, stale : BOOLEAN]]
    /\ trouble \in Nat

(* On its way from the sender to the room a volume is in the channel, in   *)
(* the watch channel or with the volume task.  Wherever the last one is,   *)
(* nothing older is behind it.                                             *)
PipelineInv ==
    /\ OnTheWay => told # Untold
    /\ \A i \in Volumes : (\A j \in Volumes : j <= i) => events[i].value = ToPercent(told)
    /\ told # Untold /\ Volumes = {} => wish.value = ToPercent(told)
    /\ ~wish.new /\ sending # -1 => sending = wish.value
    /\ ~wish.new /\ sending = -1 /\ "refused" \notin slips => put = wish.value

(* An answer of the room that is not stale was read when nothing was on    *)
(* its way, and nothing has been set since.                                *)
ReadsInv ==
    \A r \in reads.got : ~r.stale => ~OnTheWay /\ r.value = level

(* What is shown is what is on its way, or what the room has.              *)
ShownInv ==
    trouble = 0 /\ "raced" \notin slips =>
        IF OnTheWay THEN ToPercent(shown) = ToPercent(told) ELSE ToPercent(shown) = level

VolumesInv == VolumeTypes /\ PipelineInv /\ ReadsInv /\ ShownInv
----------------------------------------------------------------------------
(* The scale of the volume.                                                *)

LEMMA Scale ==
    /\ \A db \in Loudness : ToPercent(db) \in Percents /\ ToPercent(Finite(db)) = ToPercent(db)
                              /\ Finite(db) \in Muted..NoNumber /\ db # Untold
    /\ \A p \in Percents : ToPercent(ToDecibels(p)) = p /\ ToDecibels(p) \in Muted..NoNumber
<1>1. Steps \in Nat \ {0} /\ Loudness \subseteq Muted..NoNumber
  BY AdapterAssumption
<1>2. ASSUME NEW db \in Muted..NoNumber
      PROVE  /\ ToPercent(db) \in Percents /\ ToPercent(Finite(db)) = ToPercent(db)
             /\ Finite(db) \in Muted..NoNumber /\ db # Untold
  BY <1>1 DEF ToPercent, Percents, Muted, NoNumber, Finite, Untold
<1>3. ASSUME NEW p \in Percents
      PROVE  ToPercent(ToDecibels(p)) = p /\ ToDecibels(p) \in Muted..NoNumber
  BY <1>1 DEF ToPercent, ToDecibels, Percents, Muted, NoNumber
<1> QED
  BY <1>1, <1>2, <1>3

(* The volumes in the channel as it grows and shrinks.                     *)
LEMMA Grows ==
    ASSUME events \in Seq(Events), NEW e \in Events, events' = Append(events, e)
    PROVE  /\ events' \in Seq(Events)
           /\ Volumes' = IF e.kind = "volume" THEN Volumes \cup {Len(events) + 1} ELSE Volumes
           /\ \A i \in Volumes : i < Len(events) + 1 /\ events'[i] = events[i]
           /\ events'[Len(events) + 1] = e
  BY DEF Volumes

LEMMA Shrinks ==
    ASSUME events \in Seq(Events), events # <<>>, events' = Tail(events)
    PROVE  /\ events' \in Seq(Events) /\ Head1 = events[1] /\ Head1 \in Events
           /\ Head1.kind = "volume" <=> 1 \in Volumes
           /\ \A i \in Volumes : i \in Nat /\ i >= 1
           /\ \A i \in Volumes' : i \in Nat /\ i + 1 \in Volumes /\ events'[i] = events[i + 1]
           /\ \A i \in Volumes : i # 1 => i - 1 \in Volumes'
  BY DEF Volumes, Head1

LEMMA Way ==
    /\ OnTheWay <=> wish.new \/ sending # -1 \/ Volumes # {}
    /\ OnTheWay' <=> wish'.new \/ sending' # -1 \/ Volumes' # {}
  BY DEF OnTheWay, Volumes

----------------------------------------------------------------------------
(* Steps that are about something else.                                    *)
LEMMA VolumesKept ==
    ASSUME VolumesInv, UNCHANGED <<told, shown, wish, sending, put, level, trouble>>,
           \/ events' = events
           \/ \E e \in Events : e.kind # "volume" /\ events' = Append(events, e)
           \/ events # <<>> /\ Head1.kind # "volume" /\ events' = Tail(events),
           reads' \in [asking : Nat, got : {reads.got}],
           slips' \cap {"raced", "refused"} = slips \cap {"raced", "refused"}
    PROVE  VolumesInv'
<1> USE DEF VolumesInv
<1>1. /\ events' \in Seq(Events)
      /\ Volumes' = {} <=> Volumes = {}
      /\ \A i \in Volumes' : (\A j \in Volumes' : j <= i) => events'[i].value = ToPercent(told)
  <2>1. CASE events' = events
    BY <2>1 DEF VolumeTypes, PipelineInv, Volumes
  <2>2. ASSUME NEW e \in Events, e.kind # "volume", events' = Append(events, e)
        PROVE  <1>1!:
    BY <2>2, Grows DEF VolumeTypes, PipelineInv
  <2>3. CASE events # <<>> /\ Head1.kind # "volume" /\ events' = Tail(events)
    <3>1. /\ events' \in Seq(Events) /\ 1 \notin Volumes
          /\ \A i \in Volumes : i \in Nat /\ i >= 1
          /\ \A i \in Volumes' : i \in Nat /\ i + 1 \in Volumes /\ events'[i] = events[i + 1]
          /\ \A i \in Volumes : i - 1 \in Volumes'
      BY <2>3, Shrinks DEF VolumeTypes
    <3>2. ASSUME NEW i \in Volumes', \A j \in Volumes' : j <= i
          PROVE  events'[i].value = ToPercent(told)
      <4>1. \A j \in Volumes : j <= i + 1
        BY <3>1, <3>2
      <4> QED
        BY <3>1, <4>1 DEF PipelineInv
    <3> QED
      BY <3>1, <3>2
  <2> QED
    BY <2>1, <2>2, <2>3
<1>2. OnTheWay' <=> OnTheWay
  BY <1>1, Way
<1>3. VolumeTypes' /\ reads'.got = reads.got
  BY <1>1 DEF VolumeTypes
<1>4. ("raced" \in slips' <=> "raced" \in slips) /\ ("refused" \in slips' <=> "refused" \in slips)
  OBVIOUS
<1>5. PipelineInv'
  BY <1>1, <1>2, <1>4 DEF PipelineInv
<1> QED
  BY <1>2, <1>3, <1>4, <1>5 DEF ReadsInv, ShownInv

----------------------------------------------------------------------------
(* The way of a volume, step by step.                                      *)
LEMMA SetVolumeKeeps ==
    ASSUME VolumesInv, NEW db \in Loudness, SetVolume(db)
    PROVE  VolumesInv'
<1> USE DEF VolumesInv
<1> DEFINE e == Event("volume", None, ToPercent(db))
<1>1. /\ told' = db /\ shown' = Finite(db) /\ events' = Append(events, e)
      /\ reads' = [reads EXCEPT !.got = {[r EXCEPT !.stale = TRUE] : r \in @}]
      /\ slips' = slips \ {"raced"}
      /\ UNCHANGED <<wish, sending, put, level, trouble>>
  BY DEF SetVolume, Tell
<1>2. /\ ToPercent(db) \in Percents /\ ToPercent(Finite(db)) = ToPercent(db)
      /\ Finite(db) \in Muted..NoNumber /\ db # Untold
  BY Scale
<1>3. e \in Events /\ e.kind = "volume" /\ e.value = ToPercent(db)
  BY <1>2 DEF Events, Event
<1>4. /\ events' \in Seq(Events)
      /\ Volumes' = Volumes \cup {Len(events) + 1}
      /\ \A i \in Volumes : i < Len(events) + 1
      /\ events'[Len(events) + 1] = e
  <2> HIDE DEF e
  <2> QED
    BY <1>1, <1>3, Grows DEF VolumeTypes
<1> HIDE DEF e
<1>5. OnTheWay'
  BY <1>4, Way
<1>6. /\ reads' \in [asking : Nat, got : SUBSET [value : Percents, stale : BOOLEAN]]
      /\ \A r \in reads'.got : r.stale
  <2> DEFINE Read == [value : Percents, stale : BOOLEAN]
             G == {[r EXCEPT !.stale = TRUE] : r \in reads.got}
  <2>1. reads \in [asking : Nat, got : SUBSET Read] /\ reads' = [reads EXCEPT !.got = G]
    BY <1>1 DEF VolumeTypes
  <2>2. \A r \in G : r \in Read /\ r.stale
    BY <2>1
  <2> HIDE DEF G, Read
  <2>3. reads' \in [asking : Nat, got : SUBSET Read] /\ reads'.got = G
    BY <2>1, <2>2
  <2> QED
    BY <2>2, <2>3 DEF Read
<1>7. VolumeTypes'
  BY <1>1, <1>2, <1>4, <1>6 DEF VolumeTypes
<1>8. Len(events) + 1 \in Nat
  BY DEF VolumeTypes
<1>9. \A i \in Volumes' : (\A j \in Volumes' : j <= i) => i = Len(events) + 1
  BY <1>4, <1>8 DEF Volumes, VolumeTypes
<1>10. PipelineInv'
  BY <1>1, <1>2, <1>3, <1>4, <1>9 DEF PipelineInv
<1> QED
  BY <1>1, <1>2, <1>5, <1>6, <1>7, <1>10 DEF ReadsInv, ShownInv

LEMMA HandleVolumeKeeps ==
    ASSUME VolumesInv, HandleVolume
    PROVE  VolumesInv'
<1> USE DEF VolumesInv
<1>1. /\ events # <<>> /\ Head1.kind = "volume" /\ events' = Tail(events)
      /\ wish' = [value |-> Head1.value, new |-> TRUE]
      /\ UNCHANGED <<told, shown, sending, put, level, reads, trouble, slips>>
  BY DEF HandleVolume, Handles
<1>2. /\ events' \in Seq(Events) /\ Head1 = events[1] /\ Head1 \in Events /\ 1 \in Volumes
      /\ \A i \in Volumes : i \in Nat /\ i >= 1
      /\ \A i \in Volumes' : i \in Nat /\ i + 1 \in Volumes /\ events'[i] = events[i + 1]
      /\ \A i \in Volumes : i # 1 => i - 1 \in Volumes'
  BY <1>1, Shrinks DEF VolumeTypes
<1>3. OnTheWay /\ OnTheWay' /\ wish'.new
  BY <1>1, <1>2, Way
<1>4. Head1.value \in Percents
  BY <1>1, <1>2 DEF Events, Kinds
<1>5. VolumeTypes'
  BY <1>1, <1>2, <1>4 DEF VolumeTypes
<1>6. ASSUME NEW i \in Volumes', \A j \in Volumes' : j <= i
      PROVE  events'[i].value = ToPercent(told)
  <2>1. \A j \in Volumes : j <= i + 1
    BY <1>2, <1>6
  <2> QED
    BY <1>2, <2>1 DEF PipelineInv
<1>7. Volumes' = {} => Head1.value = ToPercent(told)
  <2>1. SUFFICES ASSUME Volumes' = {} PROVE Head1.value = ToPercent(told)
    OBVIOUS
  <2>2. \A j \in Volumes : j <= 1
    BY <1>2, <2>1
  <2> QED
    BY <1>2, <2>2 DEF PipelineInv
<1>8. PipelineInv'
  BY <1>1, <1>3, <1>6, <1>7 DEF PipelineInv
<1> QED
  BY <1>1, <1>3, <1>5, <1>8 DEF ReadsInv, ShownInv

LEMMA TakeVolumeKeeps ==
    ASSUME VolumesInv, TakeVolume
    PROVE  VolumesInv'
<1> USE DEF VolumesInv
<1>1. /\ sending = -1 /\ wish.new /\ sending' = wish.value
      /\ wish' = [wish EXCEPT !.new = FALSE]
      /\ UNCHANGED <<events, told, shown, put, level, reads, trouble, slips>>
  BY DEF TakeVolume
<1>2. wish'.value = wish.value /\ ~wish'.new /\ wish.value \in Percents
  BY <1>1 DEF VolumeTypes
<1>3. Volumes' = Volumes
  BY <1>1 DEF Volumes
<1>4. sending' # -1 /\ OnTheWay /\ OnTheWay'
  BY <1>1, <1>2, Way, AdapterAssumption DEF Percents
<1>5. VolumeTypes'
  BY <1>1, <1>2 DEF VolumeTypes
<1>6. PipelineInv'
  BY <1>1, <1>2, <1>3, <1>4 DEF PipelineInv
<1> QED
  BY <1>1, <1>4, <1>5, <1>6 DEF ReadsInv, ShownInv

LEMMA VolumeSetKeeps ==
    ASSUME VolumesInv, VolumeSet
    PROVE  VolumesInv'
<1> USE DEF VolumesInv
<1>1. /\ sending # -1 /\ sending' = -1 /\ level' = sending /\ put' = sending
      /\ slips' = slips \ {"refused"}
      /\ UNCHANGED <<events, told, shown, wish, reads, trouble>>
  BY DEF VolumeSet
<1>2. Volumes' = Volumes
  BY <1>1 DEF Volumes
<1>3. OnTheWay /\ (OnTheWay' <=> wish.new \/ Volumes # {})
  BY <1>1, <1>2, Way
<1>4. VolumeTypes'
  BY <1>1 DEF VolumeTypes
<1>5. PipelineInv'
  BY <1>1, <1>2, <1>3 DEF PipelineInv
<1>6. ~OnTheWay' => sending = ToPercent(told)
  BY <1>1, <1>3 DEF PipelineInv
<1> QED
  BY <1>1, <1>3, <1>4, <1>5, <1>6 DEF ReadsInv, ShownInv

LEMMA VolumeFailsKeeps ==
    ASSUME VolumesInv, VolumeFails
    PROVE  VolumesInv'
<1> USE DEF VolumesInv
<1>1. /\ sending # -1 /\ sending' = -1 /\ level' \in {level, sending} /\ trouble' = trouble + 1
      /\ slips' = slips \cup {"refused"}
      /\ UNCHANGED <<events, told, shown, wish, put, reads>>
  BY DEF VolumeFails, Trouble
<1>2. Volumes' = Volumes
  BY <1>1 DEF Volumes
<1>3. OnTheWay /\ (OnTheWay' <=> wish.new \/ Volumes # {})
  BY <1>1, <1>2, Way
<1>4. VolumeTypes' /\ trouble' # 0
  BY <1>1 DEF VolumeTypes
<1>5. PipelineInv'
  BY <1>1, <1>2, <1>3 DEF PipelineInv
<1> QED
  BY <1>1, <1>3, <1>4, <1>5 DEF ReadsInv, ShownInv

LEMMA RefreshReadsKeeps ==
    ASSUME VolumesInv, RefreshReads
    PROVE  VolumesInv'
<1> USE DEF VolumesInv
<1>1. /\ reads.asking > 0
      /\ UNCHANGED <<events, told, shown, wish, sending, put, level, slips>>
  BY DEF RefreshReads
<1>2. Volumes' = Volumes /\ (OnTheWay' <=> OnTheWay)
  BY <1>1 DEF Volumes, OnTheWay
<1>3. reads.asking - 1 \in Nat /\ OnTheWay \in BOOLEAN
  BY <1>1 DEF VolumeTypes, OnTheWay
<1>4. PipelineInv'
  BY <1>1, <1>2 DEF PipelineInv
<1>5. CASE /\ reads' = [asking |-> reads.asking - 1,
                        got |-> reads.got \cup {[value |-> level, stale |-> OnTheWay]}]
           /\ UNCHANGED trouble
  <2>1. [value |-> level, stale |-> OnTheWay] \in [value : Percents, stale : BOOLEAN]
    BY <1>3 DEF VolumeTypes
  <2>2. reads' \in [asking : Nat, got : SUBSET [value : Percents, stale : BOOLEAN]]
    BY <1>3, <1>5, <2>1 DEF VolumeTypes
  <2>3. VolumeTypes'
    BY <1>1, <1>5, <2>2 DEF VolumeTypes
  <2>4. \A r \in reads'.got : r \in reads.got \/ (r.value = level /\ r.stale = OnTheWay)
    BY <1>5
  <2> QED
    BY <1>1, <1>2, <1>4, <1>5, <2>3, <2>4 DEF ReadsInv, ShownInv
<1>6. CASE reads' = [reads EXCEPT !.asking = @ - 1] /\ Trouble
  <2>1. /\ reads' \in [asking : Nat, got : SUBSET [value : Percents, stale : BOOLEAN]]
        /\ reads'.got = reads.got
    BY <1>3, <1>6 DEF VolumeTypes
  <2>2. VolumeTypes' /\ trouble' # 0
    BY <1>1, <1>6, <2>1 DEF VolumeTypes, Trouble
  <2> QED
    BY <1>1, <1>2, <1>4, <2>1, <2>2 DEF ReadsInv, ShownInv
<1> QED
  BY <1>5, <1>6 DEF RefreshReads

LEMMA RefreshStoresKeeps ==
    ASSUME VolumesInv, NEW r \in reads.got, RefreshStores(r)
    PROVE  VolumesInv'
<1> USE DEF VolumesInv
<1>1. /\ shown' = ToDecibels(r.value) /\ reads' = [reads EXCEPT !.got = @ \ {r}]
      /\ slips' = IF r.stale THEN slips \cup {"raced"} ELSE slips
      /\ UNCHANGED <<events, told, wish, sending, put, level, trouble>>
  BY DEF RefreshStores
<1>2. Volumes' = Volumes /\ (OnTheWay' <=> OnTheWay)
  BY <1>1 DEF Volumes, OnTheWay
<1>3. r.value \in Percents
  BY DEF VolumeTypes
<1>4. /\ reads' \in [asking : Nat, got : SUBSET [value : Percents, stale : BOOLEAN]]
      /\ reads'.got \subseteq reads.got
  BY <1>1 DEF VolumeTypes
<1>5. ToPercent(shown') = r.value /\ shown' \in Muted..NoNumber
  BY <1>1, <1>3, Scale
<1>6. VolumeTypes'
  BY <1>1, <1>4, <1>5 DEF VolumeTypes
<1>7. "refused" \in slips' <=> "refused" \in slips
  BY <1>1
<1>8. PipelineInv'
  BY <1>1, <1>2, <1>7 DEF PipelineInv
<1>9. ReadsInv'
  BY <1>1, <1>2, <1>4 DEF ReadsInv
<1>10. ShownInv'
  BY <1>1, <1>2, <1>5 DEF ReadsInv, ShownInv
<1> QED
  BY <1>6, <1>8, <1>9, <1>10

----------------------------------------------------------------------------
(* Sessions are numbers.                                                   *)
IdsInv ==
    /\ made \in Nat /\ active \in Nat
    /\ call \in [rate : BOOLEAN, at : {"none", "called", "read"}, id : Nat]
    /\ held \in [Streams -> Nat] /\ old \in [Streams -> Nat]

IInv == VolumesInv /\ IdsInv

LEMMA IdsKept ==
    ASSUME IdsInv, [Next]_vars
    PROVE  IdsInv'
<1> USE DEF IdsInv
<1>1. None \in Nat /\ made + 1 \in Nat
  BY DEF None
<1>2. CASE UNCHANGED <<made, active, call, held, old>>
  BY <1>2
<1>3. ASSUME NEW playing \in BOOLEAN, SetRate(playing)
      PROVE  IdsInv'
  BY <1>1, <1>3 DEF SetRate, Call, NoCall, volumes
<1>4. CASE ReadActive
  BY <1>1, <1>4 DEF ReadActive
<1>5. CASE TellRate
  BY <1>1, <1>5 DEF TellRate, NoCall
<1>6. ASSUME NEW s \in Streams, Make(s)
      PROVE  IdsInv'
  BY <1>1, <1>6 DEF Make
<1>7. ASSUME NEW s \in Streams, DropOld(s)
      PROVE  IdsInv'
  BY <1>1, <1>7 DEF DropOld, Over
<1>8. ASSUME NEW s \in Streams, Stop(s)
      PROVE  IdsInv'
  BY <1>1, <1>8 DEF Stop, Over
<1> QED
  BY <1>2, <1>3, <1>4, <1>5, <1>6, <1>7, <1>8
  DEF Next, ReceiverStep, RuntimeStep, vars, receiver, volumes, SetUp, TearDown, StreamEnds,
      ApplyRate, Announce, SetVolume, Connect, HandleStarted, HandleRate, HandleEndedPaused,
      HandleStopped, HandleVolume, HandleConnected, TakeVolume, VolumeSet, VolumeFails,
      RefreshReads, GraceEnds, RefreshStores

LEMMA VolumesStep ==
    ASSUME IInv, [Next]_vars
    PROVE  VolumesInv'
<1> USE DEF IInv
<1>1. reads \in [asking : Nat, got : {reads.got}]
  BY DEF VolumesInv, VolumeTypes
<1>2. ASSUME NEW kind \in Kinds, NEW id \in Nat, NEW value \in BOOLEAN
      PROVE  Event(kind, id, value) \in Events /\ Event(kind, id, value).kind # "volume"
  BY <1>2 DEF Event, Events, Kinds
<1>3. /\ None \in Nat /\ call.id \in Nat /\ call.rate \in BOOLEAN
      /\ \A s \in Streams : held[s] \in Nat /\ old[s] \in Nat
  BY DEF IdsInv, None
<1> DEFINE Silent == events' = events \/ \E e \in Events : e.kind # "volume" /\ events' = Append(events, e)
           Slips == slips' \cap {"raced", "refused"} = slips \cap {"raced", "refused"}
<1>4. ASSUME UNCHANGED volumes, UNCHANGED trouble, Silent, Slips
      PROVE  VolumesInv'
  BY <1>1, <1>4, VolumesKept DEF volumes
<1>5. ASSUME NEW kind \in Kinds, NEW id \in Nat, NEW value \in BOOLEAN,
             Tell(Event(kind, id, value))
      PROVE  Silent
  BY <1>2, <1>5 DEF Tell
<1>6. ASSUME NEW k \in Nat, Over(k)
      PROVE  Silent
  BY <1>5, <1>6 DEF Over, Kinds
<1>7. CASE UNCHANGED <<volumes, trouble, events, slips>>
  BY <1>4, <1>7
<1>8. CASE ReadActive
  BY <1>4, <1>8 DEF ReadActive
<1>9. CASE TellRate
  <2>1. Silent
    BY <1>3, <1>5, <1>9 DEF TellRate, Kinds
  <2> QED
    BY <1>4, <1>9, <2>1 DEF TellRate
<1>10. CASE Connect
  <2>1. Silent
    BY <1>3, <1>5, <1>10 DEF Connect, Kinds
  <2> QED
    BY <1>4, <1>10, <2>1 DEF Connect
<1>11. ASSUME NEW s \in Streams, Make(s)
       PROVE  VolumesInv'
  BY <1>4, <1>11 DEF Make
<1>12. ASSUME NEW s \in Streams, Announce(s)
       PROVE  VolumesInv'
  <2>1. Silent
    BY <1>3, <1>5, <1>12 DEF Announce, Kinds
  <2> QED
    BY <1>4, <1>12, <2>1 DEF Announce
<1>13. ASSUME NEW s \in Streams, DropOld(s)
       PROVE  VolumesInv'
  <2>1. Silent
    BY <1>3, <1>6, <1>13 DEF DropOld
  <2> QED
    BY <1>4, <1>13, <2>1 DEF DropOld
<1>14. ASSUME NEW s \in Streams, Stop(s)
       PROVE  VolumesInv'
  <2>1. Silent
    BY <1>3, <1>5, <1>6, <1>14 DEF Stop, Kinds
  <2> QED
    BY <1>4, <1>14, <2>1 DEF Stop
<1>15. ASSUME NEW kind \in Kinds, Handles(kind), UNCHANGED <<volumes, trouble, slips>>
       PROVE  VolumesInv'
  BY <1>1, <1>15, VolumesKept DEF Handles, Kinds, volumes
<1>16. CASE HandleStarted \/ HandleRate \/ HandleEndedPaused \/ HandleStopped
  BY <1>15, <1>16 DEF HandleStarted, HandleRate, HandleEndedPaused, HandleStopped, Kinds
<1>17. CASE HandleConnected
  <2>1. reads.asking + 1 \in Nat
    BY <1>1
  <2>2. reads' \in [asking : Nat, got : {reads.got}]
    BY <1>1, <1>17, <2>1 DEF HandleConnected
  <2> QED
    BY <1>17, <2>2, VolumesKept DEF HandleConnected, Handles
<1>18. CASE ReceiverStep
  BY <1>7, <1>8, <1>9, <1>10, <1>11, <1>12, <1>13, <1>14, <1>18, SetVolumeKeeps
  DEF ReceiverStep, SetUp, TearDown, SetRate, StreamEnds, ApplyRate
<1>19. CASE RuntimeStep
  BY <1>7, <1>16, <1>17, <1>19, HandleVolumeKeeps, TakeVolumeKeeps, VolumeSetKeeps,
     VolumeFailsKeeps, RefreshReadsKeeps, RefreshStoresKeeps
  DEF RuntimeStep, GraceEnds
<1>20. CASE UNCHANGED vars
  BY <1>7, <1>20 DEF vars
<1> QED
  BY <1>18, <1>19, <1>20 DEF Next

LEMMA InitHolds == Init => IInv
<1> SUFFICES ASSUME Init PROVE IInv
  OBVIOUS
<1>1. IdsInv
  BY DEF Init, IdsInv, NoCall, None
<1>2. /\ Steps \in Nat \ {0} /\ Steps - 1 \in Percents
      /\ Fallback \in Percents /\ level \in Percents /\ level = Steps - 1
  BY AdapterAssumption DEF Init, Fallback, Percents
<1>3. shown \in Muted..NoNumber /\ trouble \in Nat /\ (trouble = 0 => ToPercent(shown) = level)
  BY <1>2, Scale DEF Init
<1>4. ~OnTheWay /\ Volumes = {}
  BY DEF Init, OnTheWay, Volumes
<1>5. VolumeTypes
  BY <1>2, <1>3 DEF Init, VolumeTypes
<1>6. PipelineInv
  BY <1>4 DEF Init, PipelineInv
<1> QED
  BY <1>1, <1>3, <1>4, <1>5, <1>6 DEF IInv, VolumesInv, ReadsInv, ShownInv, Init

LEMMA Invariant == Spec => []IInv
<1>1. IInv /\ [Next]_vars => IInv'
  BY IdsKept, VolumesStep DEF IInv
<1> QED
  BY InitHolds, <1>1, PTL DEF Spec

----------------------------------------------------------------------------
(* However fast a sender turns the volume and however slow the room is:    *)
(* when nothing is on its way, the room was set to the last value, unless  *)
(* its last request failed.                                                *)
THEOREM LastVolumeWinsHolds == Spec => []LastVolumeWins
<1>1. IInv => LastVolumeWins
  BY Way DEF IInv, VolumesInv, PipelineInv, LastVolumeWins
<1> QED
  BY Invariant, <1>1, PTL

(* The volume a sender sees is that of the room, unless an answer of the   *)
(* room was overtaken by a newer volume, or a request failed.              *)
THEOREM ShownIsRealHolds == Spec => []ShownIsReal
<1>1. IInv => ShownIsReal
  BY DEF IInv, VolumesInv, ShownInv, ShownIsReal
<1> QED
  BY Invariant, <1>1, PTL

----------------------------------------------------------------------------
(* Who has which session.  A session has one owner, the stream that made   *)
(* it, until its end is told; only the newest stream makes sessions, and   *)
(* the one it has is the newest, and the active one.                       *)
Owned(k) == \E s \in Streams : k \in {held[s], old[s]}
LastOrder(s) == IF orders[s] = <<>> THEN rate[s] ELSE orders[s][Len(orders[s])]
Sound == [playing : BOOLEAN, grace : BOOLEAN]

StreamsInv ==
    /\ stream \in 0..MaxStreams /\ wanted \in BOOLEAN
    /\ rate \in [Streams -> BOOLEAN] /\ orders \in [Streams -> Seq(BOOLEAN)]
    /\ ending \in [Streams -> {"none", "teardown", "ended", "paused"}]
    /\ thread \in [Streams -> {"off", "waiting", "making", "dropping"}]
    /\ \A s \in Streams :
        /\ s > stream => /\ thread[s] = "off" /\ held[s] = None /\ orders[s] = <<>> /\ ~rate[s]
                         /\ ending[s] = "none"
        /\ s < stream => ending[s] # "none"
        /\ ending[s] = "paused" => ~rate[s] /\ thread[s] # "making"
        /\ thread[s] = "making" => held[s] # None
        /\ thread[s] = "off" => held[s] = None
        /\ old[s] # None => thread[s] \in {"making", "dropping"}
        /\ thread[s] = "dropping" => old[s] # None
    /\ stream # None => wanted = LastOrder(stream)
    /\ call.at = "none" => call = NoCall
    /\ call.at # "none" => stream # None /\ call.rate = wanted

OwnersInv ==
    /\ call.id <= made /\ active <= made
    /\ \A s \in Streams : held[s] <= made /\ old[s] <= made
    /\ \A s, t \in Streams :
        /\ held[s] # None /\ held[s] = held[t] => s = t
        /\ old[s] # None /\ old[s] = old[t] => s = t
        /\ old[s] # None => old[s] # held[t]
    /\ stream # None /\ held[stream] # None => held[stream] = made /\ active = made

(* What the channel holds of a session: its start once, while its owner    *)
(* has it, and its end when nobody has it any more.                        *)
Is(i, kinds) == i \in DOMAIN events /\ events[i].kind \in kinds
Ends == {"stopped", "ended_paused"}

ChannelInv ==
    /\ sessions \in [DOMAIN sessions -> Sound] /\ DOMAIN sessions \subseteq 1..made
    /\ \A i \in DOMAIN events : events[i].id <= made
    /\ \A s \in Streams : thread[s] = "making" =>
          ~Knows(held[s]) /\ \A i \in DOMAIN events : Is(i, {"started"}) => events[i].id # held[s]
    /\ \A i \in DOMAIN events : Is(i, {"started"}) =>
          /\ events[i].value /\ events[i].id # None /\ ~Knows(events[i].id)
          /\ \A j \in DOMAIN events :
               /\ Is(j, {"started"}) /\ events[j].id = events[i].id => j = i
               /\ Is(j, Ends) /\ events[j].id = events[i].id => i < j
    /\ \A i \in DOMAIN events : Is(i, Ends) => events[i].id # None /\ ~Owned(events[i].id)
    /\ \A i \in DOMAIN events : Is(i, {"rate"}) => events[i].id # None
    /\ \A k \in DOMAIN sessions : sessions[k].grace => ~Owned(k)

(* Session k is the one the runtime has, once it has handled all starts.   *)
Standing(k) ==
    \/ \E i \in DOMAIN events :
          /\ Is(i, {"started"}) /\ events[i].id = k
          /\ \A j \in DOMAIN events : j > i => ~Is(j, {"started"})
    \/ Knows(k) /\ \A j \in DOMAIN events : ~Is(j, {"started"})

(* Session k is going to play, or not, once all is handled: as the last    *)
(* that was told of it says, else as it does.                              *)
Will(k, plays) ==
    \/ \E i \in DOMAIN events :
          /\ Is(i, {"started", "rate"}) /\ events[i].id = k /\ events[i].value = plays
          /\ \A j \in DOMAIN events : j > i => events[j].id # k
    \/ /\ \A j \in DOMAIN events : events[j].id # k
       /\ Knows(k) /\ sessions[k].playing = plays

RateInv ==
    /\ stream # None /\ Delivers(stream) =>
        /\ "crossed" \notin slips => Standing(held[stream])
        /\ Standing(held[stream]) =>
            /\ call.at = "none" =>
                  \/ Will(held[stream], wanted)
                  \/ "missed" \in slips /\ Will(held[stream], TRUE)
            /\ call.at = "read" =>
                  \/ call.id = held[stream]
                  \/ "missed" \in slips /\ Will(held[stream], TRUE)
    /\ stream # None /\ thread[stream] = "making" =>
        "missed" \in slips \/ call.at = "called" \/ (call.at = "none" /\ wanted)

(* The session of a stream that ended paused, and is not the newest.       *)
PausedInv ==
    \A s \in Streams : s < stream /\ ending[s] = "paused" /\ held[s] # None /\ Standing(held[s]) =>
        /\ ~Delivers(stream)
        /\ \/ "missed" \in slips
           \/ call.at = "called"
           \/ call.at = "none" /\ Will(held[s], LastOrder(s))

(* The end of session k is told and not handled, or its grace runs; and it *)
(* was paused before, and nothing told after says that it plays.           *)
PausedAt(k, i) ==
    \/ \E j \in DOMAIN events :
          /\ j < i /\ Is(j, {"rate"}) /\ events[j].id = k /\ ~events[j].value
          /\ \A l \in DOMAIN events : j < l /\ l < i => events[l].id # k
    \/ /\ \A j \in DOMAIN events : j < i => events[j].id # k
       /\ Knows(k) /\ ~sessions[k].playing

Pause(i) == Is(i, {"rate"}) /\ ~events[i].value

Fading(k) ==
    \/ \E i \in DOMAIN events : Is(i, {"stopped"}) /\ events[i].id = k
    \/ \E i \in DOMAIN events :
          /\ Is(i, {"ended_paused"}) /\ events[i].id = k /\ PausedAt(k, i)
          /\ \A j \in DOMAIN events : j > i /\ events[j].id = k => Pause(j)
    \/ /\ Knows(k) /\ sessions[k].grace
       /\ \A j \in DOMAIN events : events[j].id = k => Pause(j)

EndInv ==
    slips \cap {"late", "revived"} = {} =>
        \A k \in 1..made : ~Owned(k) /\ Standing(k) => Fading(k)

----------------------------------------------------------------------------
(* The streams keep their shape.                                           *)
LEMMA Quiets ==
    ASSUME [Next]_vars
    PROVE  \/ UNCHANGED <<receiver, made, active, events, sessions>>
              /\ slips' \cup {"raced", "refused"} = slips \cup {"raced", "refused"}
           \/ /\ UNCHANGED <<receiver, made, active, sessions>>
              /\ slips' \cup {"raced", "refused"} = slips \cup {"raced", "refused"}
              /\ Connect \/ \E db \in Loudness : SetVolume(db)
           \/ /\ UNCHANGED <<receiver, made, active, slips>>
              /\ \/ HandleStarted \/ HandleRate \/ HandleEndedPaused \/ HandleStopped
                 \/ HandleVolume \/ HandleConnected \/ \E k \in DOMAIN sessions : GraceEnds(k)
           \/ /\ UNCHANGED sessions
              /\ \/ SetUp \/ TearDown \/ ReadActive \/ TellRate
                 \/ \E playing \in BOOLEAN : SetRate(playing)
                 \/ \E s \in Streams : \/ StreamEnds(s) \/ ApplyRate(s) \/ Make(s) \/ Announce(s)
                                       \/ DropOld(s) \/ Stop(s)
<1>1. CASE UNCHANGED vars
  BY <1>1 DEF vars
<1>2. CASE ReceiverStep
  BY <1>2 DEF ReceiverStep, SetUp, TearDown, ReadActive, TellRate, SetRate, StreamEnds, ApplyRate,
              Make, Announce, DropOld, Stop, Connect, SetVolume
<1>3. CASE RuntimeStep
  BY <1>3 DEF RuntimeStep, HandleStarted, HandleRate, HandleEndedPaused, HandleStopped,
      HandleVolume, HandleConnected, TakeVolume, VolumeSet, VolumeFails, RefreshReads, GraceEnds,
      RefreshStores
<1> QED
  BY <1>1, <1>2, <1>3 DEF Next

(* The first and the last of a sequence that loses its first.              *)
LEMMA Orders ==
    ASSUME NEW S, NEW q \in Seq(S), q # <<>>
    PROVE  /\ Head(q) \in S /\ Tail(q) \in Seq(S)
           /\ Tail(q) = <<>> => q[Len(q)] = Head(q)
           /\ Tail(q) # <<>> => Tail(q)[Len(Tail(q))] = q[Len(q)]
<1>1. Len(q) \in Nat /\ Len(q) # 0 /\ Head(q) = q[1] /\ Tail(q) \in Seq(S)
  OBVIOUS
<1>2. Len(Tail(q)) = Len(q) - 1
  BY <1>1
<1>3. Tail(q) = <<>> => Len(q) = 1
  <2>1. Len(<<>>) = 0
    OBVIOUS
  <2>2. Tail(q) = <<>> => Len(Tail(q)) = 0
    BY <2>1, Zenon
  <2> QED
    BY <1>1, <1>2, <2>2
<1>4. Tail(q) # <<>> => Len(Tail(q)) \in 1..(Len(q) - 1)
  BY <1>1, <1>2
<1>5. \A i \in 1..(Len(q) - 1) : Tail(q)[i] = q[i + 1]
  BY <1>1
<1> QED
  BY <1>1, <1>2, <1>3, <1>4, <1>5

(* Every step keeps the shape of the streams.                              *)
LEMMA StreamsKept ==
    ASSUME IdsInv, StreamsInv, [Next]_vars
    PROVE  StreamsInv'
<1> USE DEF IdsInv, StreamsInv, Streams, None
<1>1. MaxStreams \in Nat
  BY AdapterAssumption
<1>2. CASE UNCHANGED receiver
  BY <1>2 DEF receiver, LastOrder
<1>3. CASE SetUp
  <2>1. /\ stream < MaxStreams /\ call = NoCall /\ stream' = stream + 1
        /\ thread' = [thread EXCEPT ![stream + 1] = "waiting"]
        /\ ending' = [s \in Streams |->
               IF s = stream /\ ending[s] = "none" THEN "teardown" ELSE ending[s]]
        /\ wanted' = FALSE /\ UNCHANGED <<call, orders, rate, held, old>>
    BY <1>3 DEF SetUp
  <2>2. stream' \in Streams /\ stream' \in 0..MaxStreams
    BY <1>1, <2>1
  <2>3. orders'[stream'] = <<>> /\ rate'[stream'] = FALSE /\ ending'[stream'] = "none"
        /\ held'[stream'] = 0 /\ old'[stream'] = 0
    BY <2>1, <2>2
  <2>4. wanted' = LastOrder(stream)'
    BY <2>1, <2>3 DEF LastOrder
  <2>5. /\ thread' \in [Streams -> {"off", "waiting", "making", "dropping"}]
        /\ ending' \in [Streams -> {"none", "teardown", "ended", "paused"}]
    BY <2>1
  <2>6. ASSUME NEW s \in Streams, s # stream'
        PROVE  /\ thread'[s] = thread[s] /\ (s > stream' => s > stream)
               /\ (s < stream' => s = stream \/ s < stream)
               /\ ending'[s] = IF s = stream /\ ending[s] = "none" THEN "teardown" ELSE ending[s]
    BY <2>1, <2>2, <2>6
  <2>7. thread'[stream'] = "waiting"
    BY <2>1, <2>2
  <2>8. ASSUME NEW s \in Streams
        PROVE  /\ s > stream' => /\ thread'[s] = "off" /\ held'[s] = None /\ orders'[s] = <<>>
                                 /\ ~rate'[s] /\ ending'[s] = "none"
               /\ s < stream' => ending'[s] # "none"
               /\ ending'[s] = "paused" => ~rate'[s] /\ thread'[s] # "making"
               /\ thread'[s] = "making" => held'[s] # None
               /\ thread'[s] = "off" => held'[s] = None
               /\ old'[s] # None => thread'[s] \in {"making", "dropping"}
               /\ thread'[s] = "dropping" => old'[s] # None
    <3>1. CASE s = stream'
      BY <3>1, <2>2, <2>3, <2>7
    <3>2. CASE s # stream'
      BY <3>2, <2>1, <2>6
    <3> QED
      BY <3>1, <3>2
  <2>9. call'.at = "none"
    BY <2>1 DEF NoCall
  <2> QED
    BY <2>1, <2>2, <2>4, <2>5, <2>8, <2>9
<1>4. CASE TearDown
  BY <1>1, <1>4 DEF TearDown, LastOrder, NoCall
<1>5. CASE ReadActive
  BY <1>5 DEF ReadActive, LastOrder
<1>6. CASE TellRate
  BY <1>6 DEF TellRate, LastOrder, NoCall
<1>7. ASSUME NEW playing \in BOOLEAN, SetRate(playing) PROVE StreamsInv'
  <2>1. /\ stream # 0 /\ thread[stream] # "off" /\ wanted' = playing
        /\ call' = [NoCall EXCEPT !.rate = playing, !.at = "called"]
        /\ orders' = [orders EXCEPT ![stream] = Append(@, playing)]
        /\ UNCHANGED <<stream, rate, ending, thread, held, old>>
    BY <1>7 DEF SetRate
  <2>2. stream \in Streams /\ orders[stream] \in Seq(BOOLEAN)
    BY <2>1
  <2>3. orders'[stream] = Append(orders[stream], playing) /\ orders' \in [Streams -> Seq(BOOLEAN)]
        /\ \A s \in Streams : s # stream => orders'[s] = orders[s]
    BY <2>1, <2>2
  <2>4. orders'[stream] # <<>> /\ orders'[stream][Len(orders'[stream])] = playing
    BY <2>2, <2>3
  <2>5. wanted' = LastOrder(stream)'
    BY <2>1, <2>4 DEF LastOrder
  <2>6. call'.at = "called" /\ call'.rate = playing
    BY <2>1 DEF NoCall
  <2> QED
    BY <2>1, <2>2, <2>3, <2>5, <2>6
<1>8. ASSUME NEW s \in Streams, StreamEnds(s) PROVE StreamsInv'
  BY <1>8 DEF StreamEnds, LastOrder
<1>9. ASSUME NEW s \in Streams, ApplyRate(s) PROVE StreamsInv'
  <2>1. /\ ending[s] = "none" /\ orders[s] # <<>> /\ orders[s] \in Seq(BOOLEAN)
        /\ rate' = [rate EXCEPT ![s] = Head(orders[s])]
        /\ orders' = [orders EXCEPT ![s] = Tail(@)]
        /\ UNCHANGED <<stream, wanted, call, ending, thread, held, old>>
    BY <1>9 DEF ApplyRate
  <2>2. /\ Head(orders[s]) \in BOOLEAN /\ Tail(orders[s]) \in Seq(BOOLEAN)
        /\ Tail(orders[s]) = <<>> => orders[s][Len(orders[s])] = Head(orders[s])
        /\ Tail(orders[s]) # <<>> =>
              Tail(orders[s])[Len(Tail(orders[s]))] = orders[s][Len(orders[s])]
    BY <2>1, Orders, Zenon
  <2>3. /\ rate' \in [Streams -> BOOLEAN] /\ orders' \in [Streams -> Seq(BOOLEAN)]
        /\ rate'[s] = Head(orders[s]) /\ orders'[s] = Tail(orders[s])
        /\ \A t \in Streams : t # s => rate'[t] = rate[t] /\ orders'[t] = orders[t]
    BY <2>1, <2>2
  <2>4. LastOrder(s)' = LastOrder(s) /\ \A t \in Streams : t # s => LastOrder(t)' = LastOrder(t)
    BY <2>1, <2>2, <2>3 DEF LastOrder
  <2>5. LastOrder(stream)' = IF stream = s THEN LastOrder(s)' ELSE LastOrder(stream)'
    BY <2>1 DEF LastOrder
  <2>6. stream # 0 => wanted' = LastOrder(stream)'
    BY <2>1, <2>4, <2>5 DEF LastOrder
  <2> QED
    BY <2>1, <2>3, <2>6
<1>10. ASSUME NEW s \in Streams, Make(s) PROVE StreamsInv'
  BY <1>10 DEF Make, LastOrder
<1>11. ASSUME NEW s \in Streams, Announce(s) PROVE StreamsInv'
  BY <1>11 DEF Announce, LastOrder
<1>12. ASSUME NEW s \in Streams, DropOld(s) PROVE StreamsInv'
  BY <1>12 DEF DropOld, LastOrder
<1>13. ASSUME NEW s \in Streams, Stop(s) PROVE StreamsInv'
  BY <1>13 DEF Stop, LastOrder
<1> QED
  BY <1>2, <1>3, <1>4, <1>5, <1>6, <1>7, <1>8, <1>9, <1>10, <1>11, <1>12, <1>13, Quiets
  DEF receiver

----------------------------------------------------------------------------
(* Who has which session.                                                  *)
LEMMA NewestMakes ==
    ASSUME StreamsInv, NEW s \in Streams, Make(s)
    PROVE  s = stream /\ old[s] = None /\ stream # None
  BY DEF StreamsInv, Make, Streams, None

(* Every step keeps the owners apart.                                      *)
LEMMA OwnersKept ==
    ASSUME IdsInv, StreamsInv, OwnersInv, [Next]_vars
    PROVE  OwnersInv'
<1> USE DEF OwnersInv
<1>1. /\ made \in Nat /\ active \in Nat /\ call.id \in Nat /\ stream \in 0..MaxStreams
      /\ held \in [Streams -> Nat] /\ old \in [Streams -> Nat] /\ None = 0
      /\ \A s \in Streams : s > stream => held[s] = None
      /\ \A s \in Streams : s \in Nat /\ s >= 1
      /\ stream # None => stream \in Streams
  BY DEF IdsInv, StreamsInv, None, Streams
<1>2. CASE UNCHANGED <<receiver, made, active>>
  BY <1>2 DEF receiver
<1>3. CASE SetUp
  <2>1. /\ stream' = stream + 1 /\ stream' \in Streams
        /\ UNCHANGED <<call, held, old, made, active>>
    BY <1>1, <1>3, AdapterAssumption DEF SetUp, Streams
  <2>2. held'[stream'] = None
    BY <1>1, <2>1
  <2> QED
    BY <2>1, <2>2
<1>4. CASE UNCHANGED <<stream, call, held, old, made, active>>
  BY <1>4
<1>5. CASE ReadActive
  <2>1. call'.id = active /\ UNCHANGED <<stream, held, old, made, active>>
    BY <1>5 DEF ReadActive, IdsInv
  <2> QED
    BY <1>1, <2>1
<1>6. ASSUME call'.id = None, UNCHANGED <<stream, held, old, made, active>>
      PROVE  OwnersInv'
  BY <1>1, <1>6
<1>7. CASE TellRate
  <2>1. call'.id = None
    BY <1>7 DEF TellRate, NoCall
  <2> QED
    BY <1>6, <1>7, <2>1 DEF TellRate
<1>8. ASSUME NEW playing \in BOOLEAN, SetRate(playing) PROVE OwnersInv'
  <2>1. call' = [NoCall EXCEPT !.rate = playing, !.at = "called"]
    BY <1>8 DEF SetRate
  <2>2. call'.id = None
    BY <2>1 DEF NoCall
  <2> QED
    BY <1>6, <1>8, <2>2 DEF SetRate
<1>9. ASSUME NEW s \in Streams, Make(s) PROVE OwnersInv'
  <2>1. s = stream /\ old[s] = None /\ stream # None
    BY <1>9, NewestMakes
  <2>2. /\ made' = made + 1 /\ active' = made + 1
        /\ held' = [held EXCEPT ![s] = made + 1] /\ old' = [old EXCEPT ![s] = held[s]]
        /\ UNCHANGED <<stream, call>>
    BY <1>9 DEF Make
  <2>3. /\ held'[s] = made + 1 /\ old'[s] = held[s]
        /\ \A t \in Streams : t # s => held'[t] = held[t] /\ old'[t] = old[t]
    BY <1>1, <2>2
  <2>4. call'.id <= made' /\ active' <= made' /\ \A t \in Streams : held'[t] <= made' /\ old'[t] <= made'
    BY <1>1, <2>2, <2>3
  <2>5. \A t, u \in Streams :
          /\ held'[t] # None /\ held'[t] = held'[u] => t = u
          /\ old'[t] # None /\ old'[t] = old'[u] => t = u
          /\ old'[t] # None => old'[t] # held'[u]
    <3>1. TAKE t, u \in Streams
    <3>2. held[t] # made + 1 /\ held[u] # made + 1 /\ old[t] # made + 1
      BY <1>1
    <3>3. held[t] \in Nat /\ held[u] \in Nat /\ old[t] \in Nat /\ old[u] \in Nat
      BY <1>1
    <3> QED
      BY <2>1, <2>3, <3>2
  <2> QED
    BY <2>1, <2>2, <2>3, <2>4, <2>5
<1>10. ASSUME NEW s \in Streams, DropOld(s) PROVE OwnersInv'
  <2>1. /\ old' = [old EXCEPT ![s] = None] /\ active' = IF active = old[s] THEN None ELSE active
        /\ UNCHANGED <<stream, call, held, made>> /\ old[s] # None
    BY <1>10 DEF DropOld, Over, StreamsInv
  <2>2. old'[s] = None /\ \A t \in Streams : t # s => old'[t] = old[t]
    BY <1>1, <2>1
  <2>3. stream # None /\ held[stream] # None => active' = made
    BY <1>1, <2>1
  <2> QED
    BY <1>1, <2>1, <2>2, <2>3
<1>11. ASSUME NEW s \in Streams, Stop(s) PROVE OwnersInv'
  <2>1. /\ held' = [held EXCEPT ![s] = None]
        /\ active' \in {active, IF active = held[s] THEN None ELSE active}
        /\ UNCHANGED <<stream, call, old, made>>
    BY <1>11 DEF Stop, Over
  <2>2. held'[s] = None /\ \A t \in Streams : t # s => held'[t] = held[t]
    BY <1>1, <2>1
  <2>3. stream # None /\ held'[stream] # None => active' = made /\ held[stream] = made
    BY <1>1, <2>1, <2>2
  <2>4. active' <= made
    BY <1>1, <2>1
  <2> QED
    BY <1>1, <2>1, <2>2, <2>3, <2>4
<1> QED
  BY <1>2, <1>3, <1>4, <1>5, <1>6, <1>9, <1>10, <1>11, <1>7, <1>8, Quiets
  DEF TearDown, StreamEnds, ApplyRate, Announce, HandleStarted, HandleRate, HandleEndedPaused,
      HandleStopped, HandleVolume, HandleConnected, GraceEnds, receiver

----------------------------------------------------------------------------
(* The channel as it grows and shrinks.                                    *)
LEMMA Pushed ==
    ASSUME events \in Seq(Events), NEW e \in Events, events' = Append(events, e)
    PROVE  /\ DOMAIN events' = DOMAIN events \cup {Len(events) + 1} /\ Len(events) + 1 \in Nat
           /\ \A i \in DOMAIN events : /\ i \in Nat /\ i >= 1 /\ i < Len(events) + 1
                                       /\ events'[i] = events[i] /\ events[i] \in Events
           /\ events'[Len(events) + 1] = e
  OBVIOUS

(* An event is handled.                                                    *)
LEMMA Popped ==
    ASSUME events \in Seq(Events), events # <<>>, events' = Tail(events)
    PROVE  /\ 1 \in DOMAIN events /\ Head1 = events[1] /\ Head1 \in Events
           /\ \A i \in DOMAIN events :
                /\ i \in Nat /\ i >= 1 /\ events[i] \in Events
                /\ i # 1 => i - 1 \in DOMAIN events' /\ events'[i - 1] = events[i]
           /\ \A i \in DOMAIN events' :
                i \in Nat /\ i >= 1 /\ i + 1 \in DOMAIN events /\ events'[i] = events[i + 1]
  BY DEF Head1

(* What an event has.                                                      *)
LEMMA Fields ==
    \A e \in Events : /\ e.id \in Nat /\ e.kind \in Kinds \cup {"volume"}
                      /\ e.kind # "volume" => e.value \in BOOLEAN
                      /\ e.kind = "volume" => e.id = None
  BY DEF Events, Kinds, None

(* Something else than a start or an end is told.                          *)
LEMMA ChannelSilent ==
    ASSUME events \in Seq(Events), ChannelInv, NEW e \in Events, events' = Append(events, e),
           e.kind \in {"rate", "volume", "connected"}, e.id <= made,
           e.kind = "rate" => e.id # None,
           UNCHANGED <<sessions, thread, held, old, made>>
    PROVE  ChannelInv'
<1> USE DEF ChannelInv
<1>1. /\ DOMAIN events' = DOMAIN events \cup {Len(events) + 1} /\ Len(events) + 1 \in Nat
      /\ \A i \in DOMAIN events : /\ i \in Nat /\ i >= 1 /\ i < Len(events) + 1
                                  /\ events'[i] = events[i] /\ events[i] \in Events
      /\ events'[Len(events) + 1] = e
  BY Pushed
<1>2. \A i \in DOMAIN events' : events'[i].id <= made'
  BY <1>1
<1>3. \A i : /\ Is(i, {"started"})' <=> Is(i, {"started"})
             /\ Is(i, Ends)' <=> Is(i, Ends)
             /\ Is(i, {"started"}) \/ Is(i, Ends) => i \in DOMAIN events /\ events'[i] = events[i]
  BY <1>1 DEF Is, Ends
<1>4. \A k : (Owned(k)' <=> Owned(k)) /\ (Knows(k)' <=> Knows(k))
  BY DEF Owned, Knows
<1>5. \A i \in DOMAIN events' : Is(i, {"rate"})' => events'[i].id # None
  BY <1>1 DEF Is
<1>6. (\A i \in DOMAIN events : Is(i, Ends) => events[i].id # None /\ ~Owned(events[i].id))'
  BY <1>3, <1>4
<1>7. (\A s \in Streams : thread[s] = "making" =>
          /\ ~Knows(held[s])
          /\ \A i \in DOMAIN events : Is(i, {"started"}) => events[i].id # held[s])'
  BY <1>3, <1>4
<1>8. (\A i \in DOMAIN events : Is(i, {"started"}) =>
        /\ events[i].value /\ events[i].id # None /\ ~Knows(events[i].id)
        /\ \A j \in DOMAIN events :
             /\ Is(j, {"started"}) /\ events[j].id = events[i].id => j = i
             /\ Is(j, Ends) /\ events[j].id = events[i].id => i < j)'
  BY <1>3, <1>4
<1> QED
  BY <1>2, <1>4, <1>5, <1>6, <1>7, <1>8

(* The start of a session is told by the stream that made it.              *)
LEMMA ChannelStarts ==
    ASSUME events \in Seq(Events), IdsInv, StreamsInv, OwnersInv, ChannelInv,
           NEW s \in Streams, Announce(s)
    PROVE  ChannelInv'
<1> USE DEF ChannelInv
<1>1. /\ thread[s] = "making" /\ events' = Append(events, Event("started", held[s], TRUE))
      /\ thread' = [thread EXCEPT ![s] = IF old[s] = None THEN "waiting" ELSE "dropping"]
      /\ UNCHANGED <<held, old, made, sessions>>
  BY DEF Announce, Tell
<1>2. held[s] \in Nat /\ held[s] # None /\ held[s] <= made
  BY <1>1 DEF IdsInv, StreamsInv, OwnersInv
<1>3. PICK e : e = Event("started", held[s], TRUE)
  OBVIOUS
<1>4. e \in Events /\ e.kind = "started" /\ e.id = held[s] /\ e.value
  BY <1>2, <1>3 DEF Event, Events, Kinds
<1>5. /\ DOMAIN events' = DOMAIN events \cup {Len(events) + 1} /\ Len(events) + 1 \in Nat
      /\ \A i \in DOMAIN events : /\ i \in Nat /\ i >= 1 /\ i < Len(events) + 1
                                  /\ events'[i] = events[i] /\ events[i] \in Events
      /\ events'[Len(events) + 1] = e
  BY <1>1, <1>3, <1>4, Pushed
<1>6. /\ ~Knows(held[s])
      /\ \A i \in DOMAIN events : Is(i, {"started"}) => events[i].id # held[s]
      /\ \A i \in DOMAIN events : Is(i, Ends) => events[i].id # held[s]
  BY <1>1 DEF Owned
<1>7. \A k : (Owned(k)' <=> Owned(k)) /\ (Knows(k)' <=> Knows(k))
  BY <1>1 DEF Owned, Knows
<1>8. \A i \in DOMAIN events' :
        /\ Is(i, {"started"})' <=> Is(i, {"started"}) \/ i = Len(events) + 1
        /\ Is(i, Ends)' <=> Is(i, Ends)
        /\ Is(i, {"rate"})' <=> Is(i, {"rate"})
        /\ events'[i].id = IF i = Len(events) + 1 THEN held[s] ELSE events[i].id
        /\ i # Len(events) + 1 => i \in DOMAIN events /\ events'[i] = events[i]
  BY <1>4, <1>5 DEF Is, Ends
<1>9. \A i : Is(i, {"started"}) \/ Is(i, Ends) \/ Is(i, {"rate"}) =>
                i \in DOMAIN events /\ i # Len(events) + 1 /\ i < Len(events) + 1
  BY <1>5 DEF Is
<1>10. \A i \in DOMAIN events' : events'[i].id <= made'
  BY <1>1, <1>2, <1>8
<1>11. (\A i \in DOMAIN events : Is(i, Ends) => events[i].id # None /\ ~Owned(events[i].id))'
  BY <1>7, <1>8, <1>9
<1>12. (\A i \in DOMAIN events : Is(i, {"rate"}) => events[i].id # None)'
  BY <1>8, <1>9
<1>13. (\A t \in Streams : thread[t] = "making" =>
           /\ ~Knows(held[t])
           /\ \A i \in DOMAIN events : Is(i, {"started"}) => events[i].id # held[t])'
  <2>1. SUFFICES ASSUME NEW t \in Streams, thread'[t] = "making"
                 PROVE  /\ ~Knows(held[t])'
                        /\ \A i \in DOMAIN events' : Is(i, {"started"})' => events'[i].id # held[t]
    BY <1>1
  <2>2. t # s /\ thread[t] = "making"
    BY <1>1, <2>1 DEF StreamsInv
  <2>3. held[t] # held[s]
    BY <1>2, <2>2 DEF OwnersInv
  <2>4. ~Knows(held[t])'
    BY <1>1, <2>2 DEF Knows
  <2> QED
    BY <1>8, <2>2, <2>3, <2>4
<1>14. (\A i \in DOMAIN events : Is(i, {"started"}) =>
        /\ events[i].value /\ events[i].id # None /\ ~Knows(events[i].id)
        /\ \A j \in DOMAIN events :
             /\ Is(j, {"started"}) /\ events[j].id = events[i].id => j = i
             /\ Is(j, Ends) /\ events[j].id = events[i].id => i < j)'
  <2>1. SUFFICES ASSUME NEW i \in DOMAIN events', Is(i, {"started"})'
                 PROVE  /\ events'[i].value /\ events'[i].id # None
                        /\ (~Knows(events[i].id))'
                        /\ \A j \in DOMAIN events' :
                             /\ Is(j, {"started"})' /\ events'[j].id = events'[i].id => j = i
                             /\ Is(j, Ends)' /\ events'[j].id = events'[i].id => i < j
    BY Zenon
  <2>2. CASE i = Len(events) + 1
    BY <1>2, <1>4, <1>5, <1>6, <1>7, <1>8, <1>9, <2>2
  <2>3. CASE i # Len(events) + 1
    <3>1. i \in DOMAIN events /\ events'[i] = events[i] /\ Is(i, {"started"})
      BY <1>8, <2>1, <2>3
    <3> QED
      BY <1>6, <1>7, <1>8, <3>1
  <2> QED
    BY <2>2, <2>3
<1> QED
  BY <1>1, <1>7, <1>10, <1>11, <1>12, <1>13, <1>14

(* The end of a session is told by who had it, and has it no more.         *)
LEMMA ChannelEnds ==
    ASSUME events \in Seq(Events), OwnersInv, ChannelInv, NEW e \in Events,
           events' = Append(events, e), e.kind \in Ends, e.id # None, e.id <= made,
           Owned(e.id), ~Owned(e.id)', \A k : Owned(k)' => Owned(k) \/ k = None,
           \A s \in Streams : thread'[s] = "making" => thread[s] = "making" /\ held'[s] = held[s],
           \A s \in Streams : thread[s] = "making" => e.id # held[s],
           UNCHANGED <<sessions, made>>
    PROVE  ChannelInv'
<1> USE DEF ChannelInv
<1>1. /\ DOMAIN events' = DOMAIN events \cup {Len(events) + 1} /\ Len(events) + 1 \in Nat
      /\ \A i \in DOMAIN events : /\ i \in Nat /\ i >= 1 /\ i < Len(events) + 1
                                  /\ events'[i] = events[i] /\ events[i] \in Events
      /\ events'[Len(events) + 1] = e
  BY Pushed
<1>2. \A k : Knows(k)' <=> Knows(k)
  BY DEF Knows
<1>3. \A i \in DOMAIN events' :
        /\ Is(i, {"started"})' <=> Is(i, {"started"})
        /\ Is(i, Ends)' <=> Is(i, Ends) \/ i = Len(events) + 1
        /\ Is(i, {"rate"})' <=> Is(i, {"rate"})
        /\ events'[i].id = IF i = Len(events) + 1 THEN e.id ELSE events[i].id
        /\ i # Len(events) + 1 => i \in DOMAIN events /\ events'[i] = events[i]
  BY <1>1 DEF Is, Ends
<1>4. \A i : Is(i, {"started"}) \/ Is(i, Ends) \/ Is(i, {"rate"}) =>
                i \in DOMAIN events /\ i # Len(events) + 1 /\ i < Len(events) + 1
  BY <1>1 DEF Is
<1>5. \A i \in DOMAIN events' : events'[i].id <= made'
  BY <1>3
<1>6. (\A i \in DOMAIN events : Is(i, Ends) => events[i].id # None /\ ~Owned(events[i].id))'
  <2>1. SUFFICES ASSUME NEW i \in DOMAIN events', Is(i, Ends)'
                 PROVE  events'[i].id # None /\ (~Owned(events[i].id))'
    BY Zenon
  <2>2. CASE i = Len(events) + 1
    <3>1. events'[i] = e
      BY <1>1, <2>2
    <3> QED
      BY <3>1
  <2>3. CASE i # Len(events) + 1
    <3>1. i \in DOMAIN events /\ events'[i] = events[i] /\ Is(i, Ends)
      BY <1>3, <2>1, <2>3
    <3> QED
      BY <3>1
  <2> QED
    BY <2>2, <2>3
<1>7. (\A i \in DOMAIN events : Is(i, {"rate"}) => events[i].id # None)'
  BY <1>3, <1>4
<1>8. (\A t \in Streams : thread[t] = "making" =>
           /\ ~Knows(held[t])
           /\ \A i \in DOMAIN events : Is(i, {"started"}) => events[i].id # held[t])'
  <2>1. SUFFICES ASSUME NEW t \in Streams, thread'[t] = "making"
                 PROVE  /\ ~Knows(held[t])'
                        /\ \A i \in DOMAIN events' : Is(i, {"started"})' => events'[i].id # held'[t]
    BY Zenon
  <2>2. thread[t] = "making" /\ held'[t] = held[t]
    BY <2>1
  <2> QED
    BY <1>2, <1>3, <1>4, <2>2
<1>9. (\A i \in DOMAIN events : Is(i, {"started"}) =>
        /\ events[i].value /\ events[i].id # None /\ ~Knows(events[i].id)
        /\ \A j \in DOMAIN events :
             /\ Is(j, {"started"}) /\ events[j].id = events[i].id => j = i
             /\ Is(j, Ends) /\ events[j].id = events[i].id => i < j)'
  <2>1. SUFFICES ASSUME NEW i \in DOMAIN events', Is(i, {"started"})'
                 PROVE  /\ events'[i].value /\ events'[i].id # None
                        /\ (~Knows(events[i].id))'
                        /\ \A j \in DOMAIN events' :
                             /\ Is(j, {"started"})' /\ events'[j].id = events'[i].id => j = i
                             /\ Is(j, Ends)' /\ events'[j].id = events'[i].id => i < j
    BY Zenon
  <2>2. Is(i, {"started"}) /\ i \in DOMAIN events /\ events'[i] = events[i] /\ i < Len(events) + 1
    BY <1>3, <1>4, <2>1
  <2>3. /\ events'[i].value /\ events'[i].id # None /\ (~Knows(events[i].id))'
    BY <1>2, <2>2
  <2>4. ASSUME NEW j \in DOMAIN events'
        PROVE  /\ Is(j, {"started"})' /\ events'[j].id = events'[i].id => j = i
               /\ Is(j, Ends)' /\ events'[j].id = events'[i].id => i < j
    <3>1. CASE j = Len(events) + 1
      BY <1>3, <1>4, <2>2, <3>1
    <3>2. CASE j # Len(events) + 1
      BY <1>3, <2>2, <3>2
    <3> QED
      BY <3>1, <3>2
  <2> QED
    BY <2>3, <2>4
<1>10. (\A k \in DOMAIN sessions : sessions[k].grace => ~Owned(k))'
  <2>1. \A k \in DOMAIN sessions : k # None
    BY DEF None
  <2> QED
    BY <2>1
<1> QED
  BY <1>5, <1>6, <1>7, <1>8, <1>9, <1>10

(* What the runtime does of a session as it handles the next event.        *)
Received ==
    /\ events # <<>> /\ events' = Tail(events)
    /\ \/ Head1.kind = "started"
          /\ sessions' = [k \in {Head1.id} |-> [playing |-> TRUE, grace |-> FALSE]]
       \/ /\ Head1.kind = "rate"
          /\ sessions' = IF Knows(Head1.id)
                         THEN [sessions EXCEPT ![Head1.id] = [playing |-> Head1.value,
                                                        grace |-> @.grace /\ ~Head1.value]]
                         ELSE sessions
       \/ /\ Head1.kind = "ended_paused"
          /\ sessions' = IF Knows(Head1.id) /\ ~sessions[Head1.id].playing
                         THEN [sessions EXCEPT ![Head1.id].grace = TRUE] ELSE sessions
       \/ Head1.kind = "stopped" /\ sessions' = Forget(Head1.id)
       \/ Head1.kind \in {"volume", "connected"} /\ sessions' = sessions

(* Every handler of the runtime is one of these.                           *)
LEMMA Receives ==
    ASSUME HandleStarted \/ HandleRate \/ HandleEndedPaused \/ HandleStopped
              \/ HandleVolume \/ HandleConnected
    PROVE  Received
  BY DEF Received, HandleStarted, HandleRate, HandleEndedPaused, HandleStopped, HandleVolume,
         HandleConnected, Handles

(* The sessions after it.                                                  *)
LEMMA Handling ==
    ASSUME events \in Seq(Events), ChannelInv, Received
    PROVE  /\ sessions' \in [DOMAIN sessions' -> Sound]
           /\ \A k : Knows(k)' <=>
                 CASE Head1.kind = "started" -> k = Head1.id
                   [] Head1.kind = "stopped" -> Knows(k) /\ k # Head1.id
                   [] OTHER -> Knows(k)
           /\ Head1.kind = "started" =>
                 sessions'[Head1.id].playing = TRUE /\ sessions'[Head1.id].grace = FALSE
           /\ \A k : Head1.kind # "started" /\ Knows(k)' =>
                 /\ k # Head1.id => sessions'[k] = sessions[k]
                 /\ sessions'[k].playing =
                       IF k = Head1.id /\ Head1.kind = "rate" THEN Head1.value
                       ELSE sessions[k].playing
                 /\ sessions'[k].grace =
                       IF k = Head1.id /\ Head1.kind = "rate"
                       THEN sessions[k].grace /\ ~Head1.value
                       ELSE IF k = Head1.id /\ Head1.kind = "ended_paused"
                       THEN sessions[k].grace \/ ~sessions[k].playing
                       ELSE sessions[k].grace
<1>1. sessions \in [DOMAIN sessions -> Sound]
  BY DEF ChannelInv
<1>2. Head1 \in Events /\ (Head1.kind # "volume" => Head1.value \in BOOLEAN)
  BY Popped, Fields DEF Received
<1>3. CASE Head1.kind = "started"
  <2>1. PICK h : h = [playing |-> TRUE, grace |-> FALSE]
    OBVIOUS
  <2>2. h \in Sound /\ h.playing = TRUE /\ h.grace = FALSE
    BY <2>1 DEF Sound
  <2>3. sessions' = [k \in {Head1.id} |-> h]
    BY <1>3, <2>1 DEF Received
  <2>4. /\ DOMAIN sessions' = {Head1.id} /\ sessions'[Head1.id] = h
        /\ sessions' \in [DOMAIN sessions' -> Sound]
    BY <2>2, <2>3
  <2> QED
    BY <1>3, <2>2, <2>4 DEF Knows
<1>4. CASE Head1.kind = "rate" /\ Knows(Head1.id)
  <2>1. PICK h : h = [playing |-> Head1.value, grace |-> sessions[Head1.id].grace /\ ~Head1.value]
    OBVIOUS
  <2>2. h \in Sound
    BY <1>1, <1>2, <1>4, <2>1 DEF Sound, Knows
  <2>3. sessions' = [sessions EXCEPT ![Head1.id] = h]
    BY <1>4, <2>1 DEF Received
  <2>4. /\ DOMAIN sessions' = DOMAIN sessions /\ sessions' \in [DOMAIN sessions -> Sound]
        /\ sessions'[Head1.id] = h
        /\ \A k \in DOMAIN sessions : k # Head1.id => sessions'[k] = sessions[k]
    BY <1>1, <1>4, <2>2, <2>3 DEF Knows
  <2> QED
    BY <1>4, <2>1, <2>4 DEF Knows
<1>5. CASE Head1.kind = "rate" /\ ~Knows(Head1.id)
  BY <1>1, <1>5 DEF Received, Knows
<1>6. CASE Head1.kind = "ended_paused"
  <2>1. CASE Knows(Head1.id) /\ ~sessions[Head1.id].playing
    <3>1. sessions' = [sessions EXCEPT ![Head1.id].grace = TRUE]
      BY <1>6, <2>1 DEF Received
    <3>2. sessions[Head1.id] \in Sound
      BY <1>1, <2>1 DEF Knows
    <3>3. /\ DOMAIN sessions' = DOMAIN sessions /\ sessions' \in [DOMAIN sessions -> Sound]
          /\ sessions'[Head1.id].grace = TRUE
          /\ sessions'[Head1.id].playing = sessions[Head1.id].playing
          /\ \A k \in DOMAIN sessions : k # Head1.id => sessions'[k] = sessions[k]
      BY <1>1, <2>1, <3>1, <3>2 DEF Knows, Sound
    <3> QED
      BY <1>6, <2>1, <3>3 DEF Knows
  <2>2. CASE ~(Knows(Head1.id) /\ ~sessions[Head1.id].playing)
    <3>1. sessions' = sessions
      BY <1>6, <2>2 DEF Received
    <3>2. \A k : Knows(k) => sessions[k].playing \in BOOLEAN /\ sessions[k].grace \in BOOLEAN
      BY <1>1 DEF Knows, Sound
    <3>3. Knows(Head1.id) => sessions[Head1.id].playing = TRUE
      BY <2>2, <3>2
    <3> QED
      BY <1>1, <1>6, <3>1, <3>2, <3>3 DEF Knows
  <2> QED
    BY <2>1, <2>2
<1>7. CASE Head1.kind = "stopped"
  BY <1>1, <1>7 DEF Received, Knows, Forget
<1>8. CASE Head1.kind \in {"volume", "connected"}
  BY <1>1, <1>8 DEF Received, Knows
<1> QED
  BY <1>3, <1>4, <1>5, <1>6, <1>7, <1>8 DEF Received

(* An event is handled: the channel keeps its order.                       *)
LEMMA ChannelPops ==
    ASSUME events \in Seq(Events), made \in Nat, ChannelInv, Received,
           UNCHANGED <<thread, held, old, made>>
    PROVE  ChannelInv'
<1> USE DEF ChannelInv
<1>1. /\ 1 \in DOMAIN events /\ Head1 = events[1] /\ Head1 \in Events
      /\ \A i \in DOMAIN events :
           /\ i \in Nat /\ i >= 1 /\ events[i] \in Events
           /\ i # 1 => i - 1 \in DOMAIN events' /\ events'[i - 1] = events[i]
      /\ \A i \in DOMAIN events' :
           i \in Nat /\ i >= 1 /\ i + 1 \in DOMAIN events /\ events'[i] = events[i + 1]
  BY Popped DEF Received
<1>2. \A i \in DOMAIN events' : \A K : Is(i, K)' => Is(i + 1, K)
  BY <1>1 DEF Is
<1>3. \A k : Owned(k)' <=> Owned(k)
  BY DEF Owned
<1>4. Head1.id <= made /\ Head1.id \in Nat
  BY <1>1, Fields
<1>5. \A K : Is(1, K) <=> Head1.kind \in K
  BY <1>1 DEF Is
<1>6. /\ sessions' \in [DOMAIN sessions' -> Sound]
      /\ \A k : Knows(k)' <=>
            CASE Head1.kind = "started" -> k = Head1.id
              [] Head1.kind = "stopped" -> Knows(k) /\ k # Head1.id
              [] OTHER -> Knows(k)
  BY Handling
<1>7. \A k : Knows(k)' => Knows(k) \/ (Is(1, {"started"}) /\ k = events[1].id)
  BY <1>1, <1>5, <1>6
<1>8. DOMAIN sessions' \subseteq 1..made
  <2>1. SUFFICES ASSUME NEW k \in DOMAIN sessions' PROVE k \in 1..made
    OBVIOUS
  <2>2. Knows(k) \/ (Is(1, {"started"}) /\ k = events[1].id)
    BY <1>7, <2>1 DEF Knows
  <2> QED
    BY <1>1, <1>4, <2>2 DEF Knows, None
<1>9. \A i \in DOMAIN events' : events'[i].id <= made'
  BY <1>1
<1>10. (\A i \in DOMAIN events : Is(i, Ends) => events[i].id # None /\ ~Owned(events[i].id))'
  BY <1>1, <1>2, <1>3
<1>11. (\A i \in DOMAIN events : Is(i, {"rate"}) => events[i].id # None)'
  BY <1>1, <1>2
<1>12. (\A t \in Streams : thread[t] = "making" =>
           /\ ~Knows(held[t])
           /\ \A i \in DOMAIN events : Is(i, {"started"}) => events[i].id # held[t])'
  <2>1. SUFFICES ASSUME NEW t \in Streams, thread[t] = "making"
                 PROVE  /\ (~Knows(held[t]))'
                        /\ \A i \in DOMAIN events' : Is(i, {"started"})' => events'[i].id # held[t]
    BY Zenon
  <2>2. ~Knows(held[t]) /\ \A i \in DOMAIN events : Is(i, {"started"}) => events[i].id # held[t]
    BY <2>1
  <2>3. (~Knows(held[t]))'
    BY <1>1, <1>7, <2>2 DEF Knows
  <2> QED
    BY <1>1, <1>2, <2>2, <2>3
<1>13. (\A i \in DOMAIN events : Is(i, {"started"}) =>
        /\ events[i].value /\ events[i].id # None /\ ~Knows(events[i].id)
        /\ \A j \in DOMAIN events :
             /\ Is(j, {"started"}) /\ events[j].id = events[i].id => j = i
             /\ Is(j, Ends) /\ events[j].id = events[i].id => i < j)'
  <2>1. SUFFICES ASSUME NEW i \in DOMAIN events', Is(i, {"started"})'
                 PROVE  /\ events'[i].value /\ events'[i].id # None
                        /\ (~Knows(events[i].id))'
                        /\ \A j \in DOMAIN events' :
                             /\ Is(j, {"started"})' /\ events'[j].id = events'[i].id => j = i
                             /\ Is(j, Ends)' /\ events'[j].id = events'[i].id => i < j
    BY Zenon
  <2>2. /\ i + 1 \in DOMAIN events /\ events'[i] = events[i + 1] /\ Is(i + 1, {"started"})
        /\ i + 1 # 1
    BY <1>1, <1>2, <2>1
  <2>3. events'[i].value /\ events'[i].id # None /\ ~Knows(events[i + 1].id)
    BY <2>2
  <2>4. ~(Is(1, {"started"}) /\ events[1].id = events[i + 1].id)
    BY <1>1, <2>2
  <2>5. (~Knows(events[i].id))'
    BY <1>7, <2>2, <2>3, <2>4 DEF Knows
  <2>6. ASSUME NEW j \in DOMAIN events'
        PROVE  /\ Is(j, {"started"})' /\ events'[j].id = events'[i].id => j = i
               /\ Is(j, Ends)' /\ events'[j].id = events'[i].id => i < j
    <3>1. /\ j + 1 \in DOMAIN events /\ events'[j] = events[j + 1] /\ j \in Nat /\ i \in Nat
          /\ Is(j, {"started"})' => Is(j + 1, {"started"})
          /\ Is(j, Ends)' => Is(j + 1, Ends)
      BY <1>1, <1>2
    <3> QED
      BY <2>2, <3>1
  <2> QED
    BY <2>3, <2>5, <2>6
<1>14. (\A k \in DOMAIN sessions : sessions[k].grace => ~Owned(k))'
  <2>1. SUFFICES ASSUME NEW k \in DOMAIN sessions', sessions'[k].grace PROVE ~Owned(k)
    BY <1>3
  <2>2. Knows(k)'
    BY DEF Knows
  <2>3. Head1.kind # "started"
    BY <1>6, <2>1, <2>2, Handling
  <2>4. sessions[k].grace \/ (k = Head1.id /\ Head1.kind = "ended_paused")
    BY <2>1, <2>2, <2>3, Handling
  <2>5. k \in DOMAIN sessions
    BY <1>7, <1>5, <2>2, <2>3 DEF Knows
  <2> QED
    BY <1>1, <1>5, <2>4, <2>5 DEF Ends
<1> QED
  BY <1>6, <1>8, <1>9, <1>10, <1>11, <1>12, <1>13, <1>14

(* Nothing is told or handled.                                             *)
LEMMA ChannelSame ==
    ASSUME ChannelInv, UNCHANGED events, made' = made,
           sessions' = sessions \/ \E k \in DOMAIN sessions : sessions' = Forget(k),
           \A k : Owned(k)' => Owned(k),
           \A s \in Streams : thread'[s] = "making" => thread[s] = "making" /\ held'[s] = held[s]
    PROVE  ChannelInv'
<1> USE DEF ChannelInv
<1>1. /\ sessions' \in [DOMAIN sessions' -> Sound] /\ DOMAIN sessions' \subseteq DOMAIN sessions
      /\ \A k \in DOMAIN sessions' : sessions'[k] = sessions[k]
  BY DEF Forget
<1>2. \A k : Knows(k)' => Knows(k)
  BY <1>1 DEF Knows
<1>3. \A i : \A K : Is(i, K)' <=> Is(i, K)
  BY DEF Is
<1>4. (\A t \in Streams : thread[t] = "making" =>
           /\ ~Knows(held[t])
           /\ \A i \in DOMAIN events : Is(i, {"started"}) => events[i].id # held[t])'
  <2>1. SUFFICES ASSUME NEW t \in Streams, thread'[t] = "making"
                 PROVE  /\ (~Knows(held[t]))'
                        /\ \A i \in DOMAIN events' : Is(i, {"started"})' => events'[i].id # held'[t]
    BY Zenon
  <2>2. thread[t] = "making" /\ held'[t] = held[t]
    BY <2>1
  <2>3. ~Knows(held[t]) /\ \A i \in DOMAIN events : Is(i, {"started"}) => events[i].id # held[t]
    BY <2>2
  <2>4. (~Knows(held[t]))'
    BY <1>1, <2>2, <2>3 DEF Knows
  <2> QED
    BY <1>3, <2>2, <2>3, <2>4
<1>5. (\A i \in DOMAIN events : Is(i, {"started"}) =>
        /\ events[i].value /\ events[i].id # None /\ ~Knows(events[i].id)
        /\ \A j \in DOMAIN events :
             /\ Is(j, {"started"}) /\ events[j].id = events[i].id => j = i
             /\ Is(j, Ends) /\ events[j].id = events[i].id => i < j)'
  BY <1>2, <1>3
<1>6. (\A k \in DOMAIN sessions : sessions[k].grace => ~Owned(k))'
  BY <1>1
<1> QED
  BY <1>1, <1>3, <1>4, <1>5, <1>6

(* A new session is in nobody's way.                                       *)
LEMMA ChannelMakes ==
    ASSUME events \in Seq(Events), IdsInv, StreamsInv, OwnersInv, ChannelInv,
           NEW s \in Streams, Make(s)
    PROVE  ChannelInv'
<1> USE DEF ChannelInv
<1>1. /\ made' = made + 1 /\ held' = [held EXCEPT ![s] = made + 1]
      /\ old' = [old EXCEPT ![s] = held[s]] /\ thread' = [thread EXCEPT ![s] = "making"]
      /\ UNCHANGED <<events, sessions>> /\ made \in Nat /\ None = 0
  BY DEF Make, IdsInv, None
<1>2. held'[s] = made + 1 /\ \A t \in Streams : t # s => held'[t] = held[t] /\ thread'[t] = thread[t]
  BY <1>1 DEF IdsInv, StreamsInv
<1>3. \A k : Owned(k)' => Owned(k) \/ k = made + 1
  BY <1>1 DEF Owned, IdsInv
<1>4. \A i : \A K : Is(i, K)' <=> Is(i, K)
  BY <1>1 DEF Is
<1>5. \A k : Knows(k)' <=> Knows(k)
  BY <1>1 DEF Knows
<1>6. DOMAIN sessions' \subseteq 1..made' /\ \A k \in DOMAIN sessions' : k # made + 1
  BY <1>1
<1>7. \A i \in DOMAIN events' : events'[i].id <= made' /\ events'[i].id # made + 1
  <2>1. \A i \in DOMAIN events : events[i].id <= made /\ events[i].id \in Nat
    BY Fields
  <2> QED
    BY <1>1, <2>1
<1>8. (\A i \in DOMAIN events : Is(i, Ends) => events[i].id # None /\ ~Owned(events[i].id))'
  BY <1>1, <1>3, <1>4, <1>7
<1>9. (\A t \in Streams : thread[t] = "making" =>
           /\ ~Knows(held[t])
           /\ \A i \in DOMAIN events : Is(i, {"started"}) => events[i].id # held[t])'
  <2>1. SUFFICES ASSUME NEW t \in Streams, thread'[t] = "making"
                 PROVE  /\ (~Knows(held[t]))'
                        /\ \A i \in DOMAIN events' : Is(i, {"started"})' => events'[i].id # held'[t]
    BY Zenon
  <2>2. CASE t = s
    BY <1>1, <1>2, <1>6, <1>7, <2>2 DEF Knows
  <2>3. CASE t # s
    <3>1. thread[t] = "making" /\ held'[t] = held[t]
      BY <1>2, <2>1, <2>3
    <3>2. (~Knows(held[t]))'
      BY <1>1, <3>1 DEF Knows
    <3> QED
      BY <1>1, <1>4, <3>1, <3>2
  <2> QED
    BY <2>2, <2>3
<1>10. (\A i \in DOMAIN events : Is(i, {"started"}) =>
        /\ events[i].value /\ events[i].id # None /\ ~Knows(events[i].id)
        /\ \A j \in DOMAIN events :
             /\ Is(j, {"started"}) /\ events[j].id = events[i].id => j = i
             /\ Is(j, Ends) /\ events[j].id = events[i].id => i < j)'
  BY <1>1, <1>4, <1>5
<1>11. (\A k \in DOMAIN sessions : sessions[k].grace => ~Owned(k))'
  BY <1>1, <1>3, <1>6
<1> QED
  BY <1>1, <1>4, <1>6, <1>7, <1>8, <1>9, <1>10, <1>11

(* Every step keeps the order of the channel.                              *)
LEMMA ChannelKept ==
    ASSUME events \in Seq(Events), IdsInv, StreamsInv, OwnersInv, ChannelInv, [Next]_vars
    PROVE  ChannelInv'
<1>1. /\ made \in Nat /\ call.id \in Nat /\ call.rate \in BOOLEAN /\ None = 0 /\ None \in Nat
      /\ held \in [Streams -> Nat] /\ old \in [Streams -> Nat]
  BY DEF IdsInv, None
<1>2. ASSUME UNCHANGED <<events, made, sessions, held, old>>,
             \A s \in Streams : thread'[s] = "making" => thread[s] = "making"
      PROVE  ChannelInv'
  BY <1>2, ChannelSame DEF Owned
<1>3. CASE UNCHANGED <<receiver, made, active, events, sessions>>
  BY <1>2, <1>3 DEF receiver
<1>4. ASSUME UNCHANGED <<receiver, made, active, sessions>>, Connect
      PROVE  ChannelInv'
  <2>1. PICK e : e = Event("connected", None, TRUE)
    OBVIOUS
  <2>2. /\ e \in Events /\ e.kind = "connected" /\ e.id <= made /\ events' = Append(events, e)
    BY <1>1, <1>4, <2>1 DEF Event, Events, Kinds, Connect, Tell
  <2> QED
    BY <1>4, <2>2, ChannelSilent DEF receiver
<1>5. ASSUME UNCHANGED <<receiver, made, active, sessions>>, NEW db \in Loudness, SetVolume(db)
      PROVE  ChannelInv'
  <2>1. PICK e : e = Event("volume", None, ToPercent(db))
    OBVIOUS
  <2>2. ToPercent(db) \in Percents
    BY Scale
  <2>3. /\ e \in Events /\ e.kind = "volume" /\ e.id <= made /\ events' = Append(events, e)
    BY <1>1, <1>5, <2>1, <2>2 DEF Event, Events, SetVolume, Tell
  <2> QED
    BY <1>5, <2>3, ChannelSilent DEF receiver
<1>6. ASSUME UNCHANGED <<receiver, made>>,
             \/ HandleStarted \/ HandleRate \/ HandleEndedPaused \/ HandleStopped
             \/ HandleVolume \/ HandleConnected
      PROVE  ChannelInv'
  BY <1>1, <1>6, Receives, ChannelPops DEF receiver
<1>7. ASSUME UNCHANGED <<receiver, made>>, NEW k \in DOMAIN sessions, GraceEnds(k)
      PROVE  ChannelInv'
  <2>1. UNCHANGED <<events, held, old, thread>> /\ sessions' = Forget(k)
    BY <1>7 DEF GraceEnds, receiver
  <2>2. \A i : Owned(i)' => Owned(i)
    BY <2>1 DEF Owned
  <2> QED
    BY <1>7, <2>1, <2>2, ChannelSame
<1>8. CASE SetUp
  <2>1. UNCHANGED <<events, made, sessions, held, old>>
        /\ thread' = [thread EXCEPT ![stream + 1] = "waiting"]
    BY <1>8 DEF SetUp
  <2> QED
    BY <1>2, <2>1 DEF StreamsInv
<1>9. ASSUME TearDown \/ ReadActive \/ \E playing \in BOOLEAN : SetRate(playing), UNCHANGED sessions
      PROVE  ChannelInv'
  BY <1>2, <1>9 DEF TearDown, ReadActive, SetRate
<1>10. ASSUME NEW s \in Streams, StreamEnds(s) \/ ApplyRate(s)
       PROVE  ChannelInv'
  BY <1>2, <1>10 DEF StreamEnds, ApplyRate
<1>11. CASE TellRate
  <2>1. CASE call.id = None
    BY <1>2, <1>11, <2>1 DEF TellRate
  <2>2. CASE call.id # None
    <3>1. PICK e : e = Event("rate", call.id, call.rate)
      OBVIOUS
    <3>2. /\ e \in Events /\ e.kind = "rate" /\ e.id <= made /\ e.id # None
          /\ events' = Append(events, e) /\ UNCHANGED <<sessions, thread, held, old, made>>
      BY <1>1, <1>11, <2>2, <3>1 DEF Event, Events, Kinds, TellRate, Tell, OwnersInv
    <3> QED
      BY <3>2, ChannelSilent
  <2> QED
    BY <2>1, <2>2
<1>12. ASSUME NEW s \in Streams, DropOld(s) PROVE ChannelInv'
  <2>1. PICK e : e = Event("stopped", old[s], TRUE)
    OBVIOUS
  <2>2. /\ thread[s] = "dropping" /\ events' = Append(events, e)
        /\ old' = [old EXCEPT ![s] = None] /\ thread' = [thread EXCEPT ![s] = "waiting"]
        /\ UNCHANGED <<held, made, sessions>>
    BY <1>12, <2>1 DEF DropOld, Over, Tell
  <2>3. old[s] # None /\ old[s] \in Nat /\ old[s] <= made
    BY <1>1, <2>2 DEF StreamsInv, OwnersInv
  <2>4. e \in Events /\ e.kind \in Ends /\ e.id = old[s]
    BY <2>1, <2>3 DEF Event, Events, Kinds, Ends
  <2>5. old'[s] = None /\ \A t \in Streams : t # s => old'[t] = old[t]
    BY <1>1, <2>2
  <2>6. \A t \in Streams : old[s] # held'[t] /\ old[s] # old'[t]
    BY <2>2, <2>3, <2>5 DEF OwnersInv
  <2>7. Owned(e.id) /\ (~Owned(e.id))'
    BY <2>4, <2>6 DEF Owned
  <2>8. \A k : Owned(k)' => Owned(k) \/ k = None
    BY <2>2, <2>5 DEF Owned
  <2>9. \A t \in Streams : /\ thread'[t] = "making" => thread[t] = "making" /\ held'[t] = held[t]
                           /\ thread[t] = "making" => e.id # held[t]
    BY <2>2, <2>3, <2>4 DEF StreamsInv, OwnersInv
  <2> QED
    BY <2>2, <2>3, <2>4, <2>7, <2>8, <2>9, ChannelEnds
<1>13. ASSUME NEW s \in Streams, Stop(s) PROVE ChannelInv'
  <2>1. /\ thread[s] = "waiting" /\ thread' = [thread EXCEPT ![s] = "off"]
        /\ held' = [held EXCEPT ![s] = None] /\ UNCHANGED <<old, made, sessions>>
    BY <1>13 DEF Stop
  <2>2. held'[s] = None /\ \A t \in Streams : t # s => held'[t] = held[t]
    BY <1>1, <2>1
  <2>3. CASE held[s] = None
    <3>1. held' = held
      BY <1>1, <2>1, <2>3
    <3>2. UNCHANGED events
      BY <1>13, <2>3 DEF Stop
    <3> QED
      BY <1>2, <2>1, <3>1, <3>2 DEF StreamsInv
  <2>4. CASE held[s] # None
    <3>1. PICK kind \in Ends : events' = Append(events, Event(kind, held[s], TRUE))
      BY <1>13, <2>4 DEF Stop, Over, Tell, Ends
    <3>2. PICK e : e = Event(kind, held[s], TRUE)
      OBVIOUS
    <3>3. held[s] \in Nat /\ held[s] <= made
      BY <1>1 DEF OwnersInv
    <3>4. e \in Events /\ e.kind \in Ends /\ e.id = held[s] /\ events' = Append(events, e)
      BY <3>1, <3>2, <3>3 DEF Event, Events, Kinds, Ends
    <3>5. \A t \in Streams : held[s] # held'[t] /\ held[s] # old'[t]
      BY <2>1, <2>2, <2>4 DEF OwnersInv
    <3>6. Owned(e.id) /\ (~Owned(e.id))'
      BY <3>4, <3>5 DEF Owned
    <3>7. \A k : Owned(k)' => Owned(k) \/ k = None
      BY <2>1, <2>2 DEF Owned
    <3>8. \A t \in Streams : /\ thread'[t] = "making" => thread[t] = "making" /\ held'[t] = held[t]
                             /\ thread[t] = "making" => e.id # held[t]
      BY <2>1, <2>2, <2>4, <3>4 DEF StreamsInv, OwnersInv
    <3> QED
      BY <2>1, <2>4, <3>3, <3>4, <3>6, <3>7, <3>8, ChannelEnds
  <2> QED
    BY <2>3, <2>4
<1> QED
  BY <1>3, <1>4, <1>5, <1>6, <1>7, <1>8, <1>9, <1>10, <1>11, <1>12, <1>13, ChannelStarts,
     ChannelMakes, Quiets

----------------------------------------------------------------------------
(* The session that stands, and what it will do, step by step.             *)
LEMMA StandingPushed ==
    ASSUME events \in Seq(Events), NEW e \in Events, events' = Append(events, e),
           UNCHANGED sessions, NEW k
    PROVE  /\ e.kind # "started" => (Standing(k)' <=> Standing(k))
           /\ e.kind = "started" => (Standing(k)' <=> k = e.id)
<1>1. PICK n : n = Len(events) + 1
  OBVIOUS
<1>2. /\ DOMAIN events' = DOMAIN events \cup {n} /\ n \in Nat
      /\ \A i \in DOMAIN events : /\ i \in Nat /\ i >= 1 /\ i < n
                                  /\ events'[i] = events[i] /\ events[i] \in Events
      /\ events'[n] = e
  BY <1>1, Pushed
<1>3. Knows(k)' <=> Knows(k)
  BY DEF Knows
<1>4. \A i \in DOMAIN events' :
        Is(i, {"started"})' <=> Is(i, {"started"}) \/ (i = n /\ e.kind = "started")
  BY <1>2 DEF Is
<1>5. \A i \in DOMAIN events : i \in DOMAIN events' /\ i # n
  BY <1>2
<1>6. CASE e.kind = "started"
  <2>1. Is(n, {"started"})'
    BY <1>2, <1>4, <1>6
  <2>2. ASSUME Standing(k)' PROVE k = e.id
    BY <1>2, <1>4, <2>1, <2>2 DEF Standing
  <2>3. ASSUME k = e.id PROVE Standing(k)'
    <3>1. \A j \in DOMAIN events' : ~(j > n)
      BY <1>2
    <3> QED
      BY <1>2, <2>1, <2>3, <3>1 DEF Standing
  <2> QED
    BY <1>6, <2>2, <2>3
<1>7. CASE e.kind # "started"
  <2>1. \A i \in DOMAIN events' : Is(i, {"started"})' <=> Is(i, {"started"})
    BY <1>4, <1>7
  <2>2. \A i : Is(i, {"started"}) => i \in DOMAIN events
    BY DEF Is
  <2>3. ASSUME Standing(k)' PROVE Standing(k)
    BY <1>2, <1>3, <1>5, <2>1, <2>2, <2>3 DEF Standing
  <2>4. ASSUME Standing(k) PROVE Standing(k)'
    BY <1>2, <1>3, <1>5, <2>1, <2>2, <2>4 DEF Standing
  <2> QED
    BY <1>7, <2>3, <2>4
<1> QED
  BY <1>6, <1>7

(* Handling an event makes no other session stand.                         *)
LEMMA StandingPopped ==
    ASSUME events \in Seq(Events), ChannelInv, Received, NEW k
    PROVE  /\ Standing(k)' => Standing(k)
           /\ Standing(k) /\ ~(Head1.kind = "stopped" /\ Head1.id = k) => Standing(k)'
<1>1. /\ 1 \in DOMAIN events /\ Head1 = events[1] /\ Head1 \in Events
      /\ \A i \in DOMAIN events :
           /\ i \in Nat /\ i >= 1 /\ events[i] \in Events
           /\ i # 1 => i - 1 \in DOMAIN events' /\ events'[i - 1] = events[i]
      /\ \A i \in DOMAIN events' :
           i \in Nat /\ i >= 1 /\ i + 1 \in DOMAIN events /\ events'[i] = events[i + 1]
  BY Popped DEF Received
<1>2. /\ \A i \in DOMAIN events' : Is(i, {"started"})' <=> Is(i + 1, {"started"})
      /\ \A i \in DOMAIN events : i # 1 => (Is(i - 1, {"started"})' <=> Is(i, {"started"}))
      /\ Is(1, {"started"}) <=> Head1.kind = "started"
  BY <1>1 DEF Is
<1>3. Knows(k)' <=>
            CASE Head1.kind = "started" -> k = Head1.id
              [] Head1.kind = "stopped" -> Knows(k) /\ k # Head1.id
              [] OTHER -> Knows(k)
  BY Handling
<1>4. ASSUME Standing(k)' PROVE Standing(k)
  <2>1. ASSUME NEW i \in DOMAIN events', Is(i, {"started"})', events'[i].id = k,
               \A j \in DOMAIN events' : j > i => ~Is(j, {"started"})'
        PROVE  Standing(k)
    <3>1. i + 1 \in DOMAIN events /\ Is(i + 1, {"started"}) /\ events[i + 1].id = k
      BY <1>1, <1>2, <2>1
    <3>2. ASSUME NEW j \in DOMAIN events, j > i + 1 PROVE ~Is(j, {"started"})
      <4>1. j # 1 /\ j - 1 \in DOMAIN events' /\ j - 1 > i
        BY <1>1, <3>2
      <4> QED
        BY <1>2, <2>1, <4>1
    <3> QED
      BY <3>1, <3>2 DEF Standing
  <2>2. ASSUME Knows(k)', \A j \in DOMAIN events' : ~Is(j, {"started"})'
        PROVE  Standing(k)
    <3>1. \A j \in DOMAIN events : j # 1 => ~Is(j, {"started"})
      BY <1>1, <1>2, <2>2
    <3>2. CASE Head1.kind = "started"
      <4>1. Is(1, {"started"}) /\ events[1].id = k /\ \A j \in DOMAIN events : j > 1 => ~Is(j, {"started"})
        BY <1>1, <1>2, <1>3, <2>2, <3>1, <3>2
      <4> QED
        BY <1>1, <4>1 DEF Standing
    <3>3. CASE Head1.kind # "started"
      BY <1>2, <1>3, <2>2, <3>1, <3>3 DEF Standing
    <3> QED
      BY <3>2, <3>3
  <2> QED
    BY <1>4, <2>1, <2>2 DEF Standing
<1>5. ASSUME Standing(k), ~(Head1.kind = "stopped" /\ Head1.id = k) PROVE Standing(k)'
  <2>1. ASSUME NEW i \in DOMAIN events, Is(i, {"started"}), events[i].id = k,
               \A j \in DOMAIN events : j > i => ~Is(j, {"started"})
        PROVE  Standing(k)'
    <3>1. ASSUME NEW j \in DOMAIN events', j + 1 > i PROVE ~Is(j, {"started"})'
      BY <1>1, <1>2, <2>1, <3>1
    <3>2. CASE i = 1
      <4>1. Knows(k)'
        BY <1>1, <1>2, <1>3, <2>1, <3>2
      <4>2. \A j \in DOMAIN events' : ~Is(j, {"started"})'
        BY <1>1, <3>1, <3>2
      <4> QED
        BY <4>1, <4>2 DEF Standing
    <3>3. CASE i # 1
      <4>1. i - 1 \in DOMAIN events' /\ Is(i - 1, {"started"})' /\ events'[i - 1].id = k
        BY <1>1, <1>2, <2>1, <3>3
      <4>2. \A j \in DOMAIN events' : j > i - 1 => ~Is(j, {"started"})'
        BY <1>1, <3>1
      <4> QED
        BY <4>1, <4>2 DEF Standing
    <3> QED
      BY <3>2, <3>3
  <2>2. ASSUME Knows(k), \A j \in DOMAIN events : ~Is(j, {"started"})
        PROVE  Standing(k)'
    <3>1. Knows(k)' /\ \A j \in DOMAIN events' : ~Is(j, {"started"})'
      BY <1>1, <1>2, <1>3, <1>5, <2>2
    <3> QED
      BY <3>1 DEF Standing
  <2> QED
    BY <1>5, <2>1, <2>2 DEF Standing
<1> QED
  BY <1>4, <1>5

(* Nor does the end of a grace.                                            *)
LEMMA StandingForgot ==
    ASSUME NEW g, sessions' = Forget(g), UNCHANGED events, NEW k
    PROVE  /\ Standing(k)' => Standing(k)
           /\ Standing(k) /\ k # g => Standing(k)'
<1>1. Knows(k)' <=> Knows(k) /\ k # g
  BY DEF Knows, Forget
<1>2. \A i : Is(i, {"started"})' <=> Is(i, {"started"})
  BY DEF Is
<1> QED
  BY <1>1, <1>2 DEF Standing

(* The last that is told of a session decides.                             *)
LEMMA WillPushed ==
    ASSUME events \in Seq(Events), NEW e \in Events, events' = Append(events, e),
           UNCHANGED sessions, NEW k, NEW v
    PROVE  /\ e.id # k /\ Will(k, v) => Will(k, v)'
           /\ e.kind \in {"started", "rate"} /\ e.id = k /\ e.value = v => Will(k, v)'
<1>1. PICK n : n = Len(events) + 1
  OBVIOUS
<1>2. /\ DOMAIN events' = DOMAIN events \cup {n} /\ n \in Nat
      /\ \A i \in DOMAIN events : /\ i \in Nat /\ i >= 1 /\ i < n
                                  /\ events'[i] = events[i] /\ events[i] \in Events
      /\ events'[n] = e
  BY <1>1, Pushed
<1>3. Knows(k)' <=> Knows(k)
  BY DEF Knows
<1>4. \A i \in DOMAIN events : Is(i, {"started", "rate"})' <=> Is(i, {"started", "rate"})
  BY <1>2 DEF Is
<1>5. ASSUME e.id # k, Will(k, v) PROVE Will(k, v)'
  <2>1. \A i \in DOMAIN events' : events'[i].id = k => i \in DOMAIN events /\ events[i].id = k
    BY <1>2, <1>5
  <2>2. ASSUME NEW i \in DOMAIN events, Is(i, {"started", "rate"}), events[i].id = k,
               events[i].value = v, \A j \in DOMAIN events : j > i => events[j].id # k
        PROVE  Will(k, v)'
    BY <1>2, <1>4, <2>1, <2>2 DEF Will
  <2>3. ASSUME \A j \in DOMAIN events : events[j].id # k, Knows(k), sessions[k].playing = v
        PROVE  Will(k, v)'
    BY <1>3, <2>1, <2>3 DEF Will
  <2> QED
    BY <1>5, <2>2, <2>3 DEF Will
<1>6. ASSUME e.kind \in {"started", "rate"}, e.id = k, e.value = v PROVE Will(k, v)'
  <2>1. \A j \in DOMAIN events' : ~(j > n)
    BY <1>2
  <2>2. Is(n, {"started", "rate"})'
    BY <1>2, <1>6 DEF Is
  <2> QED
    BY <1>2, <1>6, <2>1, <2>2 DEF Will
<1> QED
  BY <1>5, <1>6

(* What a session will do does not change as it is done.                   *)
LEMMA WillPopped ==
    ASSUME events \in Seq(Events), ChannelInv, Received, NEW k, NEW v, Standing(k), Will(k, v),
           ~(Head1.kind \in Ends /\ Head1.id = k)
    PROVE  Will(k, v)'
<1>1. /\ 1 \in DOMAIN events /\ Head1 = events[1] /\ Head1 \in Events
      /\ \A i \in DOMAIN events :
           /\ i \in Nat /\ i >= 1 /\ events[i] \in Events
           /\ i # 1 => i - 1 \in DOMAIN events' /\ events'[i - 1] = events[i]
      /\ \A i \in DOMAIN events' :
           i \in Nat /\ i >= 1 /\ i + 1 \in DOMAIN events /\ events'[i] = events[i + 1]
  BY Popped DEF Received
<1>2. ASSUME NEW i \in DOMAIN events, Is(i, {"started", "rate"}), events[i].id = k,
             events[i].value = v, \A j \in DOMAIN events : j > i => events[j].id # k
      PROVE  Will(k, v)'
  <2>1. ASSUME NEW j \in DOMAIN events', j + 1 > i PROVE events'[j].id # k
    BY <1>1, <1>2, <2>1
  <2>2. CASE i # 1
    <3>1. /\ i - 1 \in DOMAIN events' /\ events'[i - 1].id = k /\ events'[i - 1].value = v
          /\ Is(i - 1, {"started", "rate"})'
      BY <1>1, <1>2, <2>2 DEF Is
    <3>2. \A j \in DOMAIN events' : j > i - 1 => events'[j].id # k
      BY <1>1, <2>1
    <3> QED
      BY <3>1, <3>2 DEF Will
  <2>3. CASE i = 1
    <3>1. \A j \in DOMAIN events' : events'[j].id # k
      BY <1>1, <2>1, <2>3
    <3>2. Head1.kind \in {"started", "rate"} /\ Head1.id = k /\ Head1.value = v
      BY <1>1, <1>2, <2>3 DEF Is
    <3>3. Standing(k)'
      BY <3>2, StandingPopped
    <3>4. Knows(k)'
      BY <3>1, <3>3 DEF Standing
    <3>5. CASE Head1.kind = "started"
      <4>1. v = TRUE
        <5>1. Is(1, {"started"}) /\ events[1].value
          BY <1>1, <3>5 DEF Is, ChannelInv
        <5>2. Head1.value \in BOOLEAN
          BY <1>1, <3>5, Fields
        <5> QED
          BY <1>1, <3>2, <5>1, <5>2
      <4>2. sessions'[k].playing = TRUE
        BY <3>2, <3>5, Handling
      <4> QED
        BY <3>1, <3>4, <4>1, <4>2 DEF Will
    <3>6. CASE Head1.kind = "rate"
      <4>1. sessions'[k].playing = v
        BY <3>2, <3>4, <3>6, Handling
      <4> QED
        BY <3>1, <3>4, <4>1 DEF Will
    <3> QED
      BY <3>2, <3>5, <3>6
  <2> QED
    BY <2>2, <2>3
<1>3. ASSUME \A j \in DOMAIN events : events[j].id # k, Knows(k), sessions[k].playing = v
      PROVE  Will(k, v)'
  <2>1. \A j \in DOMAIN events' : events'[j].id # k
    BY <1>1, <1>3
  <2>2. Head1.id # k
    BY <1>1, <1>3
  <2>3. Head1.kind # "started"
    BY <1>1, <1>3 DEF Standing, Is
  <2>4. Knows(k)'
    BY <1>3, <2>2, <2>3, Handling
  <2>5. sessions'[k].playing = v
    BY <1>3, <2>2, <2>3, <2>4, Handling
  <2> QED
    BY <2>1, <2>4, <2>5 DEF Will
<1> QED
  BY <1>2, <1>3 DEF Will

(* Nor as another session is forgotten.                                    *)
LEMMA WillForgot ==
    ASSUME NEW g, sessions' = Forget(g), UNCHANGED events, NEW k, NEW v, Will(k, v), k # g
    PROVE  Will(k, v)'
<1>1. Knows(k)' <=> Knows(k)
  BY DEF Knows, Forget
<1>2. Knows(k) => sessions'[k] = sessions[k]
  BY DEF Knows, Forget
<1>3. \A i : Is(i, {"started", "rate"})' <=> Is(i, {"started", "rate"})
  BY DEF Is
<1> QED
  BY <1>1, <1>2, <1>3 DEF Will

----------------------------------------------------------------------------
(* The rate of the session that gets the sound.                            *)
LEMMA RateKeptBy ==
    ASSUME RateInv, UNCHANGED <<stream, wanted, call>>, NEW h, h = held[stream],
           Delivers(stream)' => Delivers(stream) /\ held'[stream] = h,
           thread'[stream] = "making" => thread[stream] = "making",
           "missed" \in slips => "missed" \in slips', "crossed" \in slips => "crossed" \in slips',
           stream # None /\ Delivers(stream) => (Standing(h)' <=> Standing(h)),
           \A v \in BOOLEAN :
               stream # None /\ Delivers(stream) /\ Standing(h) /\ Will(h, v) => Will(h, v)',
           wanted \in BOOLEAN
    PROVE  RateInv'
<1>1. SUFFICES ASSUME stream # None
               PROVE  /\ Delivers(stream)' =>
                            /\ "crossed" \notin slips' => Standing(held[stream])'
                            /\ Standing(held[stream])' =>
                                /\ call.at = "none" =>
                                      \/ Will(held[stream], wanted)'
                                      \/ "missed" \in slips' /\ Will(held[stream], TRUE)'
                                /\ call.at = "read" =>
                                      \/ call.id = held'[stream]
                                      \/ "missed" \in slips' /\ Will(held[stream], TRUE)'
                      /\ thread'[stream] = "making" =>
                            \/ "missed" \in slips' \/ call.at = "called"
                            \/ call.at = "none" /\ wanted
  BY DEF RateInv
<1>2. thread'[stream] = "making" =>
                            \/ "missed" \in slips' \/ call.at = "called"
                            \/ call.at = "none" /\ wanted
  BY <1>1 DEF RateInv
<1>3. SUFFICES ASSUME Delivers(stream)'
               PROVE  /\ "crossed" \notin slips' => Standing(held[stream])'
                      /\ Standing(held[stream])' =>
                                /\ call.at = "none" =>
                                      \/ Will(held[stream], wanted)'
                                      \/ "missed" \in slips' /\ Will(held[stream], TRUE)'
                                /\ call.at = "read" =>
                                      \/ call.id = held'[stream]
                                      \/ "missed" \in slips' /\ Will(held[stream], TRUE)'
  BY <1>2
<1>4. Delivers(stream) /\ held'[stream'] = h
  BY <1>3
<1>5. (Standing(held[stream])' <=> Standing(h)') /\ (Standing(h)' <=> Standing(h))
  BY <1>1, <1>4
<1>6. \A v : Will(held[stream], v)' <=> Will(h, v)'
  BY <1>4
<1> QED
  BY <1>1, <1>4, <1>5, <1>6 DEF RateInv

(* Every step keeps RateInv.                                               *)
LEMMA RateKept ==
    ASSUME events \in Seq(Events), IdsInv, StreamsInv, OwnersInv, ChannelInv, RateInv, [Next]_vars
    PROVE  RateInv'
<1>1. /\ made \in Nat /\ call.id \in Nat /\ call.rate \in BOOLEAN /\ None = 0 /\ None \in Nat
      /\ held \in [Streams -> Nat] /\ old \in [Streams -> Nat] /\ wanted \in BOOLEAN
      /\ stream # None => stream \in Streams
  BY DEF IdsInv, None, StreamsInv, Streams
<1>2. PICK h : h = held[stream]
  OBVIOUS
<1>3. stream # None /\ Delivers(stream) => Owned(h) /\ h # None
  BY <1>1, <1>2 DEF Owned, Delivers
<1>4. ASSUME UNCHANGED <<stream, wanted, call, events, sessions>>,
             Delivers(stream)' => Delivers(stream) /\ held'[stream] = h,
             thread'[stream] = "making" => thread[stream] = "making",
             "missed" \in slips => "missed" \in slips', "crossed" \in slips => "crossed" \in slips'
      PROVE  RateInv'
  <2>1. \A k : Standing(k)' <=> Standing(k)
    BY <1>4 DEF Standing, Is, Knows
  <2>2. \A k, v : Will(k, v)' <=> Will(k, v)
    BY <1>4 DEF Will, Is, Knows
  <2> QED
    BY <1>1, <1>2, <1>4, <2>1, <2>2, RateKeptBy
<1>5. ASSUME UNCHANGED <<stream, wanted, call, sessions>>, NEW e \in Events,
             events' = Append(events, e), e.kind # "started", e.id # h \/ ~Delivers(stream),
             Delivers(stream)' => Delivers(stream) /\ held'[stream] = h,
             thread'[stream] = "making" => thread[stream] = "making",
             "missed" \in slips => "missed" \in slips', "crossed" \in slips => "crossed" \in slips'
      PROVE  RateInv'
  <2>1. Standing(h)' <=> Standing(h)
    BY <1>5, StandingPushed
  <2>2. \A v : e.id # h /\ Will(h, v) => Will(h, v)'
    BY <1>5, WillPushed
  <2> QED
    BY <1>1, <1>2, <1>5, <2>1, <2>2, RateKeptBy
<1>6. CASE UNCHANGED <<receiver, made, active, events, sessions>>
              /\ slips' \cup {"raced", "refused"} = slips \cup {"raced", "refused"}
  <2>1. ("missed" \in slips' <=> "missed" \in slips) /\ ("crossed" \in slips' <=> "crossed" \in slips)
    BY <1>6
  <2> QED
    BY <1>2, <1>4, <1>6, <2>1 DEF receiver, Delivers
<1>7. ASSUME UNCHANGED <<receiver, made, active, sessions>>,
             slips' \cup {"raced", "refused"} = slips \cup {"raced", "refused"},
             Connect \/ \E db \in Loudness : SetVolume(db)
      PROVE  RateInv'
  <2>1. PICK e \in Events : events' = Append(events, e) /\ e.id = None /\ e.kind # "started"
    <3>1. \A db \in Loudness : ToPercent(db) \in Percents
      BY Scale
    <3>2. /\ Event("connected", None, TRUE) \in Events
          /\ \A db \in Loudness : Event("volume", None, ToPercent(db)) \in Events
      BY <1>1, <3>1 DEF Event, Events, Kinds
    <3>3. CASE Connect
      BY <3>2, <3>3 DEF Connect, Tell, Event
    <3>4. ASSUME NEW db \in Loudness, SetVolume(db)
          PROVE  \E e \in Events : events' = Append(events, e) /\ e.id = None /\ e.kind # "started"
      <4>1. PICK e : e = Event("volume", None, ToPercent(db))
        OBVIOUS
      <4> QED
        BY <3>2, <3>4, <4>1 DEF SetVolume, Tell, Event
    <3> QED
      BY <1>7, <3>3, <3>4
  <2>2. ("missed" \in slips' <=> "missed" \in slips) /\ ("crossed" \in slips' <=> "crossed" \in slips)
    BY <1>7
  <2>3. (Delivers(stream)' <=> Delivers(stream)) /\ held'[stream] = h /\ thread'[stream] = thread[stream]
    BY <1>2, <1>7 DEF receiver, Delivers
  <2>4. e.id # h \/ ~Delivers(stream)
    BY <1>2, <2>1 DEF Delivers
  <2> QED
    BY <1>5, <1>7, <2>1, <2>2, <2>3, <2>4 DEF receiver
<1>8. ASSUME UNCHANGED <<receiver, slips>>, Received
      PROVE  RateInv'
  <2>1. (Delivers(stream)' <=> Delivers(stream)) /\ held'[stream] = h /\ thread'[stream] = thread[stream]
    BY <1>2, <1>8 DEF receiver, Delivers
  <2>2. stream # None /\ Delivers(stream) => ~(Head1.kind \in Ends /\ Head1.id = h)
    <3>1. 1 \in DOMAIN events /\ Head1 = events[1]
      BY <1>8, Popped DEF Received
    <3> QED
      BY <1>3, <3>1 DEF ChannelInv, Is
  <2>3. stream # None /\ Delivers(stream) => (Standing(h)' <=> Standing(h))
    BY <1>8, <2>2, StandingPopped DEF Ends
  <2>4. \A v : stream # None /\ Delivers(stream) /\ Standing(h) /\ Will(h, v) => Will(h, v)'
    BY <1>8, <2>2, WillPopped
  <2> QED
    BY <1>1, <1>2, <1>8, <2>1, <2>3, <2>4, RateKeptBy DEF receiver
<1>9. ASSUME UNCHANGED <<receiver, slips>>, NEW k \in DOMAIN sessions, GraceEnds(k)
      PROVE  RateInv'
  <2>1. (Delivers(stream)' <=> Delivers(stream)) /\ held'[stream] = h /\ thread'[stream] = thread[stream]
    BY <1>2, <1>9 DEF receiver, Delivers
  <2>2. sessions' = Forget(k) /\ UNCHANGED events /\ ~Owned(k)
    BY <1>9 DEF GraceEnds, ChannelInv
  <2>3. stream # None /\ Delivers(stream) => h # k
    BY <1>3, <2>2
  <2>4. stream # None /\ Delivers(stream) => (Standing(h)' <=> Standing(h))
    BY <2>2, <2>3, StandingForgot
  <2>5. \A v : stream # None /\ Delivers(stream) /\ Standing(h) /\ Will(h, v) => Will(h, v)'
    BY <2>2, <2>3, WillForgot
  <2> QED
    BY <1>1, <1>2, <1>9, <2>1, <2>4, <2>5, RateKeptBy DEF receiver
<1>10. CASE SetUp
  <2>1. stream' = stream + 1 /\ stream' \in Streams /\ held' = held
        /\ thread' = [thread EXCEPT ![stream + 1] = "waiting"]
    BY <1>10, AdapterAssumption DEF SetUp, StreamsInv, Streams
  <2>2. held[stream'] = None /\ thread'[stream'] = "waiting"
    BY <2>1 DEF StreamsInv
  <2>3. ~Delivers(stream)'
    BY <2>1, <2>2 DEF Delivers
  <2> QED
    BY <2>2, <2>3 DEF RateInv
<1>11. ASSUME UNCHANGED sessions, TearDown \/ \E s \in Streams : StreamEnds(s) \/ ApplyRate(s)
       PROVE  RateInv'
  <2>1. UNCHANGED <<stream, wanted, call, events, sessions, held, thread, slips>>
    BY <1>11 DEF TearDown, StreamEnds, ApplyRate
  <2> QED
    BY <1>2, <1>4, <2>1 DEF Delivers
<1>12. ASSUME UNCHANGED sessions, NEW playing \in BOOLEAN, SetRate(playing)
       PROVE  RateInv'
  <2>1. UNCHANGED <<stream, events, sessions, held, thread, slips>>
        /\ call' = [NoCall EXCEPT !.rate = playing, !.at = "called"]
    BY <1>12 DEF SetRate
  <2>2. call'.at = "called"
    BY <2>1 DEF NoCall
  <2>3. \A k : Standing(k)' <=> Standing(k)
    BY <2>1 DEF Standing, Is, Knows
  <2>4. Delivers(stream)' <=> Delivers(stream)
    BY <2>1 DEF Delivers
  <2>5. Standing(held[stream])' <=> Standing(held[stream])
    BY <2>1 DEF Standing, Is, Knows
  <2> QED
    BY <2>1, <2>2, <2>4, <2>5 DEF RateInv
<1>13. ASSUME UNCHANGED sessions, ReadActive
       PROVE  RateInv'
  <2>1. /\ UNCHANGED <<stream, wanted, events, sessions, held, thread>> /\ call.at = "called"
        /\ call' = [call EXCEPT !.at = "read", !.id = active]
        /\ slips' = IF Delivers(stream) THEN slips \ {"missed"} ELSE slips \cup {"missed"}
    BY <1>13 DEF ReadActive
  <2>2. call'.at = "read" /\ call'.id = active
    BY <2>1 DEF IdsInv
  <2>3. Delivers(stream)' <=> Delivers(stream)
    BY <2>1 DEF Delivers
  <2>4. Standing(held[stream])' <=> Standing(held[stream])
    BY <2>1 DEF Standing, Is, Knows
  <2>5. stream # None /\ Delivers(stream) => call'.id = held'[stream]
    BY <2>1, <2>2 DEF OwnersInv, Delivers
  <2>6. stream # None /\ thread[stream] = "making" => "missed" \in slips'
    BY <2>1 DEF Delivers
  <2> QED
    BY <2>1, <2>2, <2>3, <2>4, <2>5, <2>6 DEF RateInv
<1>14. CASE TellRate
  <2>1. /\ UNCHANGED <<stream, wanted, sessions, held, thread>> /\ call.at = "read"
        /\ call' = NoCall /\ slips \subseteq slips' /\ slips' \subseteq slips \cup {"revived"}
    BY <1>14 DEF TellRate
  <2>2. call'.at = "none" /\ stream # None /\ call.rate = wanted
    BY <2>1 DEF NoCall, StreamsInv
  <2>3. Delivers(stream)' <=> Delivers(stream)
    BY <2>1 DEF Delivers
  <2>4. thread[stream] = "making" => "missed" \in slips'
    BY <2>1, <2>2 DEF RateInv
  <2>5. CASE call.id = None
    <3>1. UNCHANGED events
      BY <1>14, <2>5 DEF TellRate
    <3>2. \A k : Standing(k)' <=> Standing(k)
      BY <2>1, <3>1 DEF Standing, Is, Knows
    <3>3. \A k, v : Will(k, v)' <=> Will(k, v)
      BY <2>1, <3>1 DEF Will, Is, Knows
    <3>4. Standing(held[stream])' <=> Standing(h)
      BY <1>2, <2>1, <3>1 DEF Standing, Is, Knows
    <3>5. Will(held[stream], TRUE)' <=> Will(h, TRUE)
      BY <1>2, <2>1, <3>1 DEF Will, Is, Knows
    <3>6. Delivers(stream) /\ Standing(h) => "missed" \in slips' /\ Will(h, TRUE)
      BY <1>2, <2>1, <2>2, <2>5 DEF RateInv, Delivers
    <3>7. "crossed" \notin slips' => "crossed" \notin slips
      BY <2>1
    <3> QED
      BY <1>2, <2>1, <2>2, <2>3, <2>4, <3>4, <3>5, <3>6, <3>7 DEF RateInv
  <2>6. CASE call.id # None
    <3>1. PICK e : e = Event("rate", call.id, call.rate)
      OBVIOUS
    <3>2. /\ e \in Events /\ e.kind = "rate" /\ e.id = call.id /\ e.value = wanted
          /\ events' = Append(events, e)
      BY <1>1, <1>14, <2>2, <2>6, <3>1 DEF Event, Events, Kinds, TellRate, Tell
    <3>3. Standing(h)' <=> Standing(h)
      BY <2>1, <3>2, StandingPushed
    <3>4. (call.id = h => Will(h, wanted)') /\ (call.id # h /\ Will(h, TRUE) => Will(h, TRUE)')
      <4>1. PICK v : v = wanted
        OBVIOUS
      <4>2. call.id = h => Will(h, v)'
        BY <2>1, <3>2, <4>1, WillPushed
      <4>3. Will(h, v)' <=> Will(h, wanted)'
        BY <2>1, <4>1
      <4> QED
        BY <2>1, <3>2, <4>2, <4>3, WillPushed
    <3>5. held'[stream'] = h /\ stream' = stream /\ wanted' = wanted
      BY <1>2, <2>1
    <3>6. /\ Standing(held[stream])' <=> Standing(h)'
          /\ \A v : Will(held[stream], v)' <=> Will(h, v)'
      BY <3>5
    <3>7. Delivers(stream) /\ Standing(h) =>
              call.id = h \/ ("missed" \in slips /\ Will(h, TRUE))
      BY <1>2, <2>1, <2>2 DEF RateInv
    <3>8. Delivers(stream) /\ "crossed" \notin slips' => Standing(h)
      BY <1>2, <2>1, <2>2 DEF RateInv
    <3> QED
      BY <2>1, <2>2, <2>3, <2>4, <3>3, <3>4, <3>5, <3>6, <3>7, <3>8 DEF RateInv
  <2> QED
    BY <2>5, <2>6

<1>15. ASSUME NEW s \in Streams, Make(s) PROVE RateInv'
  <2>1. s = stream /\ stream # None
    BY <1>15, NewestMakes
  <2>2. /\ UNCHANGED <<stream, wanted, call>> /\ thread' = [thread EXCEPT ![s] = "making"]
        /\ slips' = IF call # NoCall \/ ~wanted THEN slips \cup {"missed"} ELSE slips
    BY <1>15, <2>1 DEF Make
  <2>3. thread'[stream'] = "making"
    BY <2>1, <2>2 DEF StreamsInv
  <2>4. ~Delivers(stream)'
    BY <2>3 DEF Delivers
  <2>5. "missed" \in slips' \/ (call.at = "none" /\ wanted)
    BY <2>2 DEF NoCall
  <2> QED
    BY <2>2, <2>4, <2>5 DEF RateInv
<1>16. ASSUME NEW s \in Streams, UNCHANGED sessions, Announce(s) PROVE RateInv'
  <2>1. PICK e : e = Event("started", held[s], TRUE)
    OBVIOUS
  <2>2. /\ e \in Events /\ e.kind = "started" /\ e.id = held[s] /\ e.value = TRUE
        /\ events' = Append(events, e)
    BY <1>1, <1>16, <2>1 DEF Event, Events, Kinds, Announce, Tell
  <2>3. /\ UNCHANGED <<stream, wanted, call, held>> /\ thread[s] = "making"
        /\ thread' = [thread EXCEPT ![s] = IF old[s] = None THEN "waiting" ELSE "dropping"]
        /\ slips' = IF held[s] = made THEN slips ELSE slips \cup {"crossed"}
    BY <1>16 DEF Announce
  <2>4. held[s] # None
    BY <2>3 DEF StreamsInv
  <2>5. \A k : Standing(k)' <=> k = held[s]
    BY <1>16, <2>2, StandingPushed
  <2>6. held'[stream'] = h /\ stream' = stream /\ wanted' = wanted
    BY <1>2, <2>3
  <2>7. Standing(held[stream])' <=> h = held[s]
    BY <2>5, <2>6
  <2>8. CASE s = stream
    <3>1. Will(h, TRUE)'
      BY <1>2, <1>16, <2>2, <2>8, WillPushed
    <3>2. Will(held[stream], TRUE)' /\ (wanted => Will(held[stream], wanted)')
      <4>1. \A v : Will(held[stream], v)' <=> Will(h, v)'
        BY <2>6
      <4>2. wanted => wanted = TRUE
        BY <1>1
      <4> QED
        BY <2>6, <3>1, <4>1, <4>2
    <3>3. thread'[stream] # "making"
      BY <1>1, <2>3, <2>8 DEF StreamsInv
    <3>4. stream # None => "missed" \in slips' \/ call.at = "called" \/ (call.at = "none" /\ wanted)
      BY <2>3, <2>8 DEF RateInv
    <3>5. Standing(held[stream])'
      BY <1>2, <2>7, <2>8
    <3> QED
      BY <2>3, <2>6, <3>2, <3>3, <3>4, <3>5 DEF RateInv
  <2>9. CASE s # stream
    <3>1. (Delivers(stream)' <=> Delivers(stream)) /\ thread'[stream] = thread[stream]
      BY <1>1, <2>3, <2>9 DEF Delivers, StreamsInv
    <3>2. stream # None /\ Delivers(stream) => h # held[s] /\ h = made
      BY <1>1, <1>2, <2>4, <2>9 DEF OwnersInv, Delivers
    <3>3. stream # None /\ Delivers(stream) => "crossed" \in slips' /\ ~Standing(held[stream])'
      BY <2>3, <2>7, <3>2
    <3>4. thread[stream] = "making" /\ stream # None =>
             "missed" \in slips' \/ call.at = "called" \/ (call.at = "none" /\ wanted)
      BY <2>3 DEF RateInv
    <3> QED
      BY <2>3, <3>1, <3>3, <3>4 DEF RateInv
  <2> QED
    BY <2>8, <2>9
<1>17. ASSUME NEW s \in Streams, UNCHANGED sessions, DropOld(s) PROVE RateInv'
  <2>1. PICK e : e = Event("stopped", old[s], TRUE)
    OBVIOUS
  <2>2. /\ e \in Events /\ e.kind = "stopped" /\ e.id = old[s] /\ events' = Append(events, e)
    BY <1>1, <1>17, <2>1 DEF Event, Events, Kinds, DropOld, Over, Tell
  <2>3. /\ UNCHANGED <<stream, wanted, call, held, slips>> /\ thread[s] = "dropping"
        /\ thread' = [thread EXCEPT ![s] = "waiting"]
    BY <1>17 DEF DropOld
  <2>4. old[s] # None
    BY <2>3 DEF StreamsInv
  <2>5. e.id # h \/ ~Delivers(stream)
    BY <1>1, <1>2, <2>2, <2>4 DEF OwnersInv, Delivers, StreamsInv, Streams, None
  <2>6. /\ Delivers(stream)' => Delivers(stream) /\ held'[stream] = h
        /\ thread'[stream] = "making" => thread[stream] = "making"
    BY <1>2, <2>3 DEF Delivers, StreamsInv
  <2> QED
    BY <1>5, <1>17, <2>2, <2>3, <2>5, <2>6
<1>18. ASSUME NEW s \in Streams, UNCHANGED sessions, Stop(s) PROVE RateInv'
  <2>1. /\ UNCHANGED <<stream, wanted, call>> /\ thread[s] = "waiting"
        /\ thread' = [thread EXCEPT ![s] = "off"] /\ held' = [held EXCEPT ![s] = None]
        /\ slips \subseteq slips' /\ slips' \subseteq slips \cup {"late"}
    BY <1>18 DEF Stop
  <2>2. /\ Delivers(stream)' => Delivers(stream) /\ held'[stream] = h /\ s # stream
        /\ thread'[stream] = "making" => thread[stream] = "making"
    BY <1>1, <1>2, <2>1 DEF Delivers, StreamsInv
  <2>3. CASE held[s] = None
    <3>1. UNCHANGED events
      BY <1>18, <2>3 DEF Stop
    <3> QED
      BY <1>4, <1>18, <2>1, <2>2, <3>1
  <2>4. CASE held[s] # None
    <3>1. PICK kind \in Ends : events' = Append(events, Event(kind, held[s], TRUE))
      BY <1>18, <2>4 DEF Stop, Over, Tell, Ends
    <3>2. PICK e : e = Event(kind, held[s], TRUE)
      OBVIOUS
    <3>3. /\ e \in Events /\ e.kind # "started" /\ e.id = held[s] /\ events' = Append(events, e)
      BY <1>1, <3>1, <3>2 DEF Event, Events, Kinds, Ends
    <3>4. CASE s = stream
      <4>1. ~Delivers(stream)' /\ thread'[stream'] # "making"
        BY <2>1, <2>2, <3>4 DEF Delivers, StreamsInv
      <4> QED
        BY <4>1 DEF RateInv
    <3>5. CASE s # stream
      <4>1. e.id # h \/ ~Delivers(stream)
        BY <1>1, <1>2, <2>4, <3>3, <3>5 DEF OwnersInv, Delivers, StreamsInv, Streams, None
      <4> QED
        BY <1>5, <1>18, <2>1, <2>2, <3>3, <4>1
    <3> QED
      BY <3>4, <3>5
  <2> QED
    BY <2>3, <2>4
<1> QED
  BY <1>6, <1>7, <1>8, <1>9, <1>10, <1>11, <1>12, <1>13, <1>14, <1>15, <1>16, <1>17, <1>18,
     Receives, Quiets

----------------------------------------------------------------------------
(* The sessions that ended paused.                                         *)
LEMMA PausedKeptBy ==
    ASSUME PausedInv, UNCHANGED <<stream, call>>, Delivers(stream)' => Delivers(stream),
           "missed" \in slips => "missed" \in slips',
           \A s \in Streams : s < stream /\ ending'[s] = "paused" /\ held'[s] # None =>
               /\ ending[s] = "paused" /\ held[s] = held'[s] /\ LastOrder(s)' = LastOrder(s)
               /\ \A k, v : k = held[s] =>
                     /\ Standing(k)' => Standing(k)
                     /\ Standing(k) /\ Will(k, v) => Will(k, v)'
    PROVE  PausedInv'
<1>1. SUFFICES ASSUME NEW s \in Streams, s < stream', ending'[s] = "paused", held'[s] # None,
                      Standing(held[s])'
               PROVE  /\ ~Delivers(stream)'
                      /\ \/ "missed" \in slips'
                         \/ call'.at = "called"
                         \/ call'.at = "none" /\ Will(held[s], LastOrder(s))'
  BY DEF PausedInv
<1>2. PICK k : k = held[s]
  OBVIOUS
<1>3. PICK v : v = LastOrder(s)
  OBVIOUS
<1>4. /\ ending[s] = "paused" /\ held'[s] = k /\ LastOrder(s)' = v /\ s < stream
      /\ Standing(k)' => Standing(k)
      /\ Standing(k) /\ Will(k, v) => Will(k, v)'
  BY <1>1, <1>2, <1>3
<1>5. Standing(k)
  BY <1>1, <1>4
<1>6. /\ ~Delivers(stream)
      /\ \/ "missed" \in slips
         \/ call.at = "called"
         \/ call.at = "none" /\ Will(k, v)
  BY <1>1, <1>2, <1>3, <1>4, <1>5 DEF PausedInv
<1>7. Will(held[s], LastOrder(s))' <=> Will(k, v)'
  BY <1>4
<1> QED
  BY <1>4, <1>5, <1>6, <1>7

(* Every step keeps PausedInv.                                             *)
LEMMA PausedKept ==
    ASSUME events \in Seq(Events), IdsInv, StreamsInv, OwnersInv, ChannelInv, RateInv, PausedInv,
           [Next]_vars
    PROVE  PausedInv'
<1>1. /\ made \in Nat /\ call.id \in Nat /\ call.rate \in BOOLEAN /\ None = 0 /\ None \in Nat
      /\ held \in [Streams -> Nat] /\ old \in [Streams -> Nat] /\ wanted \in BOOLEAN
      /\ stream # None => stream \in Streams
      /\ stream \in Nat /\ Streams \subseteq Nat
  BY DEF IdsInv, None, StreamsInv, Streams
<1>2. ASSUME UNCHANGED <<stream, call, events, sessions>>,
             Delivers(stream)' => Delivers(stream), "missed" \in slips => "missed" \in slips',
             \A s \in Streams : s < stream /\ ending'[s] = "paused" /\ held'[s] # None =>
               /\ ending[s] = "paused" /\ held[s] = held'[s] /\ LastOrder(s)' = LastOrder(s)
      PROVE  PausedInv'
  <2>1. \A k : Standing(k)' <=> Standing(k)
    BY <1>2 DEF Standing, Is, Knows
  <2>2. \A k, v : Will(k, v)' <=> Will(k, v)
    BY <1>2 DEF Will, Is, Knows
  <2> QED
    BY <1>2, <2>1, <2>2, PausedKeptBy
<1>3. ASSUME UNCHANGED <<stream, call, sessions>>, NEW e \in Events,
             events' = Append(events, e), e.kind # "started",
             Delivers(stream)' => Delivers(stream), "missed" \in slips => "missed" \in slips',
             \A s \in Streams : s < stream /\ ending'[s] = "paused" /\ held'[s] # None =>
               /\ ending[s] = "paused" /\ held[s] = held'[s] /\ LastOrder(s)' = LastOrder(s)
               /\ e.id # held[s]
      PROVE  PausedInv'
  <2>1. \A k : Standing(k)' <=> Standing(k)
    BY <1>3, StandingPushed
  <2>2. \A k, v : e.id # k /\ Will(k, v) => Will(k, v)'
    BY <1>3, WillPushed
  <2> QED
    BY <1>3, <2>1, <2>2, PausedKeptBy
<1>4. CASE UNCHANGED <<receiver, made, active, events, sessions>>
              /\ slips' \cup {"raced", "refused"} = slips \cup {"raced", "refused"}
  <2>1. "missed" \in slips' <=> "missed" \in slips
    BY <1>4
  <2> QED
    BY <1>2, <1>4, <2>1 DEF receiver, Delivers, LastOrder
<1>5. ASSUME UNCHANGED <<receiver, made, active, sessions>>,
             slips' \cup {"raced", "refused"} = slips \cup {"raced", "refused"},
             Connect \/ \E db \in Loudness : SetVolume(db)
      PROVE  PausedInv'
  <2>1. PICK e \in Events : events' = Append(events, e) /\ e.id = None /\ e.kind # "started"
    <3>1. \A db \in Loudness : ToPercent(db) \in Percents
      BY Scale
    <3>2. /\ Event("connected", None, TRUE) \in Events
          /\ \A db \in Loudness : Event("volume", None, ToPercent(db)) \in Events
      BY <1>1, <3>1 DEF Event, Events, Kinds
    <3>3. CASE Connect
      BY <3>2, <3>3 DEF Connect, Tell, Event
    <3>4. ASSUME NEW db \in Loudness, SetVolume(db)
          PROVE  \E e \in Events : events' = Append(events, e) /\ e.id = None /\ e.kind # "started"
      <4>1. PICK e : e = Event("volume", None, ToPercent(db))
        OBVIOUS
      <4> QED
        BY <3>2, <3>4, <4>1 DEF SetVolume, Tell, Event
    <3> QED
      BY <1>5, <3>3, <3>4
  <2>2. "missed" \in slips' <=> "missed" \in slips
    BY <1>5
  <2> QED
    BY <1>3, <1>5, <2>1, <2>2 DEF receiver, Delivers, LastOrder
<1>6. ASSUME UNCHANGED <<receiver, slips>>, Received
      PROVE  PausedInv'
  <2>1. \A s \in Streams : held[s] # None => ~(Head1.kind \in Ends /\ Head1.id = held[s])
    <3>1. 1 \in DOMAIN events /\ Head1 = events[1]
      BY <1>6, Popped DEF Received
    <3> QED
      BY <3>1 DEF ChannelInv, Is, Owned
  <2>2. \A k : Standing(k)' => Standing(k)
    BY <1>6, StandingPopped
  <2>3. \A k, v : Standing(k) /\ Will(k, v) /\ ~(Head1.kind \in Ends /\ Head1.id = k)
                     => Will(k, v)'
    BY <1>6, WillPopped
  <2> QED
    BY <1>6, <2>1, <2>2, <2>3, PausedKeptBy DEF receiver, Delivers, LastOrder
<1>7. ASSUME UNCHANGED <<receiver, slips>>, NEW g \in DOMAIN sessions, GraceEnds(g)
      PROVE  PausedInv'
  <2>1. sessions' = Forget(g) /\ UNCHANGED events /\ ~Owned(g)
    BY <1>7 DEF GraceEnds, ChannelInv
  <2>2. \A s \in Streams : held[s] # g
    BY <2>1 DEF Owned
  <2>3. \A k : Standing(k)' => Standing(k)
    BY <2>1, StandingForgot
  <2>4. \A k, v : k # g /\ Will(k, v) => Will(k, v)'
    BY <2>1, WillForgot
  <2> QED
    BY <1>7, <2>2, <2>3, <2>4, PausedKeptBy DEF receiver, Delivers, LastOrder
<1>8. CASE SetUp /\ UNCHANGED sessions
  <2>1. /\ stream' = stream + 1 /\ stream' \in Streams /\ call = NoCall
        /\ ending' = [s \in Streams |->
               IF s = stream /\ ending[s] = "none" THEN "teardown" ELSE ending[s]]
        /\ UNCHANGED <<call, held, orders, rate, slips, events, sessions>>
    BY <1>8, AdapterAssumption DEF SetUp, StreamsInv, Streams
  <2>2. held[stream'] = None /\ call.at = "none"
    BY <2>1 DEF StreamsInv, NoCall
  <2>3. ~Delivers(stream)'
    BY <2>1, <2>2 DEF Delivers
  <2>4. SUFFICES ASSUME NEW s \in Streams, s < stream', ending'[s] = "paused", held'[s] # None,
                      Standing(held[s])'
               PROVE  "missed" \in slips \/ Will(held[s], LastOrder(s))'
    BY <2>1, <2>2, <2>3 DEF PausedInv
  <2>5. ending[s] = "paused" /\ held[s] # None /\ s <= stream
    BY <1>1, <2>1, <2>4
  <2>6. Standing(held[s])
    BY <2>1, <2>4 DEF Standing, Is, Knows
  <2>7. Will(held[s], LastOrder(s))' <=> Will(held[s], LastOrder(s))
    BY <2>1 DEF Will, Is, Knows, LastOrder
  <2>8. CASE s < stream
    BY <2>2, <2>5, <2>6, <2>7, <2>8 DEF PausedInv
  <2>9. CASE s = stream
    <3>1. stream # None /\ Delivers(stream)
      BY <2>5, <2>9 DEF Delivers, StreamsInv, Streams, None
    <3>2. wanted = LastOrder(s)
      BY <2>9, <3>1 DEF StreamsInv
    <3>3. Will(held[s], wanted) \/ "missed" \in slips
      BY <2>2, <2>6, <2>9, <3>1 DEF RateInv
    <3> QED
      BY <2>7, <3>2, <3>3
  <2> QED
    BY <1>1, <2>5, <2>8, <2>9
<1>9. CASE TearDown /\ UNCHANGED sessions
  <2>1. /\ UNCHANGED <<stream, call, events, held, thread, orders, rate, slips>>
        /\ ending' = [ending EXCEPT ![stream] = "teardown"]
    BY <1>9 DEF TearDown
  <2>2. \A s \in Streams : ending'[s] = "paused" => ending[s] = "paused"
    BY <2>1 DEF StreamsInv
  <2> QED
    BY <1>2, <1>9, <2>1, <2>2 DEF Delivers, LastOrder
<1>10. ASSUME UNCHANGED sessions, NEW t \in Streams, StreamEnds(t)
       PROVE  PausedInv'
  <2>1. /\ UNCHANGED <<stream, call, events, held, thread, orders, rate, slips>>
        /\ ending' = [ending EXCEPT ![t] = IF rate[t] THEN "ended" ELSE "paused"]
        /\ ending[t] = "none"
    BY <1>10 DEF StreamEnds
  <2>2. \A s \in Streams : s < stream => s # t /\ ending'[s] = ending[s]
    BY <2>1 DEF StreamsInv
  <2> QED
    BY <1>2, <1>10, <2>1, <2>2 DEF Delivers, LastOrder
<1>11. ASSUME UNCHANGED sessions, NEW t \in Streams, ApplyRate(t)
       PROVE  PausedInv'
  <2>1. /\ UNCHANGED <<stream, call, events, held, thread, ending, slips>>
        /\ rate' = [rate EXCEPT ![t] = Head(orders[t])]
        /\ orders' = [orders EXCEPT ![t] = Tail(@)] /\ ending[t] = "none"
    BY <1>11 DEF ApplyRate
  <2>2. \A s \in Streams : s < stream => s # t
    BY <2>1 DEF StreamsInv
  <2>3. \A s \in Streams : s < stream => LastOrder(s)' = LastOrder(s)
    BY <2>1, <2>2 DEF LastOrder, StreamsInv
  <2> QED
    BY <1>2, <1>11, <2>1, <2>3 DEF Delivers
<1>12. ASSUME UNCHANGED sessions, NEW playing \in BOOLEAN, SetRate(playing)
       PROVE  PausedInv'
  <2>1. UNCHANGED <<stream, events, sessions, held, thread, ending, slips>>
        /\ call' = [NoCall EXCEPT !.rate = playing, !.at = "called"]
    BY <1>12 DEF SetRate
  <2>2. call'.at = "called"
    BY <2>1 DEF NoCall
  <2>3. Delivers(stream)' <=> Delivers(stream)
    BY <2>1 DEF Delivers
  <2>4. \A s \in Streams : Standing(held[s])' <=> Standing(held[s])
    BY <2>1 DEF Standing, Is, Knows
  <2> QED
    BY <2>1, <2>2, <2>3, <2>4 DEF PausedInv
<1>13. ASSUME UNCHANGED sessions, ReadActive
       PROVE  PausedInv'
  <2>1. /\ UNCHANGED <<stream, events, sessions, held, thread, ending>>
        /\ slips' = IF Delivers(stream) THEN slips \ {"missed"} ELSE slips \cup {"missed"}
    BY <1>13 DEF ReadActive
  <2>2. Delivers(stream)' <=> Delivers(stream)
    BY <2>1 DEF Delivers
  <2>3. \A s \in Streams : Standing(held[s])' <=> Standing(held[s])
    BY <2>1 DEF Standing, Is, Knows
  <2> QED
    BY <2>1, <2>2, <2>3 DEF PausedInv
<1>14. CASE TellRate /\ UNCHANGED sessions
  <2>1. /\ UNCHANGED <<stream, sessions, held, thread, ending>> /\ call.at = "read"
        /\ slips \subseteq slips'
    BY <1>14 DEF TellRate
  <2>2. Delivers(stream)' <=> Delivers(stream)
    BY <2>1 DEF Delivers
  <2>3. \A k : Standing(k)' <=> Standing(k)
    <3>1. CASE call.id = None
      BY <1>14, <2>1, <3>1 DEF TellRate, Standing, Is, Knows
    <3>2. CASE call.id # None
      <4>1. PICK e : e = Event("rate", call.id, call.rate)
        OBVIOUS
      <4>2. e \in Events /\ e.kind = "rate" /\ events' = Append(events, e)
        BY <1>1, <1>14, <3>2, <4>1 DEF Event, Events, Kinds, TellRate, Tell
      <4> QED
        BY <2>1, <4>2, StandingPushed
    <3> QED
      BY <3>1, <3>2
  <2>4. SUFFICES ASSUME NEW s \in Streams, s < stream', ending'[s] = "paused", held'[s] # None,
                      Standing(held[s])'
               PROVE  ~Delivers(stream)' /\ "missed" \in slips'
    BY DEF PausedInv
  <2>5. PICK k : k = held[s]
    OBVIOUS
  <2>6. held'[s] = k /\ Standing(k)
    BY <2>1, <2>3, <2>4, <2>5
  <2> QED
    BY <2>1, <2>2, <2>4, <2>5, <2>6 DEF PausedInv
<1>15. ASSUME NEW t \in Streams, Make(t), UNCHANGED sessions PROVE PausedInv'
  <2>1. t = stream /\ stream # None
    BY <1>15, NewestMakes
  <2>2. /\ UNCHANGED <<stream, call, events, sessions, ending, orders, rate>> /\ slips \subseteq slips'
        /\ thread' = [thread EXCEPT ![t] = "making"] /\ held' = [held EXCEPT ![t] = made + 1]
    BY <1>15 DEF Make
  <2>3. ~Delivers(stream)'
    BY <2>1, <2>2 DEF Delivers, StreamsInv
  <2>4. \A s \in Streams : s < stream => held'[s] = held[s]
    BY <1>1, <2>1, <2>2
  <2> QED
    BY <1>2, <2>2, <2>3, <2>4 DEF LastOrder
<1>16. ASSUME NEW t \in Streams, UNCHANGED sessions, Announce(t) PROVE PausedInv'
  <2>1. PICK e : e = Event("started", held[t], TRUE)
    OBVIOUS
  <2>2. /\ e \in Events /\ e.kind = "started" /\ e.id = held[t] /\ events' = Append(events, e)
        /\ thread[t] = "making" /\ UNCHANGED <<stream, held, ending>>
    BY <1>1, <1>16, <2>1 DEF Event, Events, Kinds, Announce, Tell
  <2>3. \A k : Standing(k)' <=> k = held[t]
    BY <1>16, <2>2, StandingPushed
  <2>4. SUFFICES ASSUME NEW s \in Streams, ending'[s] = "paused", held'[s] # None,
                      Standing(held[s])'
               PROVE  FALSE
    BY DEF PausedInv
  <2>5. PICK k : k = held[s]
    OBVIOUS
  <2>6. held[s] = held[t]
    BY <2>2, <2>3, <2>4, <2>5
  <2> QED
    BY <2>2, <2>4, <2>6 DEF StreamsInv, OwnersInv
<1>17. ASSUME NEW t \in Streams, UNCHANGED sessions, DropOld(t) PROVE PausedInv'
  <2>1. PICK e : e = Event("stopped", old[t], TRUE)
    OBVIOUS
  <2>2. /\ e \in Events /\ e.kind = "stopped" /\ e.id = old[t] /\ events' = Append(events, e)
    BY <1>1, <1>17, <2>1 DEF Event, Events, Kinds, DropOld, Over, Tell
  <2>3. /\ UNCHANGED <<stream, call, held, slips, ending, orders, rate>> /\ thread[t] = "dropping"
        /\ thread' = [thread EXCEPT ![t] = "waiting"]
    BY <1>17 DEF DropOld
  <2>4. \A s \in Streams : e.id # held[s]
    BY <2>2, <2>3 DEF StreamsInv, OwnersInv
  <2>5. Delivers(stream)' => Delivers(stream)
    BY <2>3 DEF Delivers, StreamsInv
  <2> QED
    BY <1>3, <1>17, <2>2, <2>3, <2>4, <2>5 DEF LastOrder
<1>18. ASSUME NEW t \in Streams, UNCHANGED sessions, Stop(t) PROVE PausedInv'
  <2>1. /\ UNCHANGED <<stream, call, ending, orders, rate>> /\ thread[t] = "waiting"
        /\ thread' = [thread EXCEPT ![t] = "off"] /\ held' = [held EXCEPT ![t] = None]
        /\ slips \subseteq slips'
    BY <1>18 DEF Stop
  <2>2. Delivers(stream)' => Delivers(stream)
    BY <1>1, <2>1 DEF Delivers, StreamsInv
  <2>3. \A s \in Streams : held'[s] # None => s # t /\ held'[s] = held[s]
    BY <1>1, <2>1
  <2>4. CASE held[t] = None
    <3>1. UNCHANGED events
      BY <1>18, <2>4 DEF Stop
    <3> QED
      BY <1>2, <1>18, <2>1, <2>2, <2>3, <3>1 DEF LastOrder
  <2>5. CASE held[t] # None
    <3>1. PICK kind \in Ends : events' = Append(events, Event(kind, held[t], TRUE))
      BY <1>18, <2>5 DEF Stop, Over, Tell, Ends
    <3>2. PICK e : e = Event(kind, held[t], TRUE)
      OBVIOUS
    <3>3. /\ e \in Events /\ e.kind # "started" /\ e.id = held[t] /\ events' = Append(events, e)
      BY <1>1, <3>1, <3>2 DEF Event, Events, Kinds, Ends
    <3>4. \A s \in Streams : held'[s] # None => e.id # held[s]
      BY <2>3, <2>5, <3>3 DEF OwnersInv
    <3> QED
      BY <1>3, <1>18, <2>1, <2>2, <2>3, <3>3, <3>4 DEF LastOrder
  <2> QED
    BY <2>4, <2>5
<1> QED
  BY <1>4, <1>5, <1>6, <1>7, <1>8, <1>9, <1>10, <1>11, <1>12, <1>13, <1>14, <1>15, <1>16, <1>17,
     <1>18, Receives, Quiets

----------------------------------------------------------------------------
(* The sessions that nobody has any more.                                  *)
LEMMA FadingPushed ==
    ASSUME events \in Seq(Events), NEW e \in Events, events' = Append(events, e),
           UNCHANGED sessions, NEW k, Fading(k), e.id = k => e.kind = "rate" /\ ~e.value
    PROVE  Fading(k)'
<1>1. PICK n : n = Len(events) + 1
  OBVIOUS
<1>2. /\ DOMAIN events' = DOMAIN events \cup {n} /\ n \in Nat
      /\ \A i \in DOMAIN events : /\ i \in Nat /\ i >= 1 /\ i < n
                                  /\ events'[i] = events[i] /\ events[i] \in Events
      /\ events'[n] = e
  BY <1>1, Pushed
<1>3. \A i \in DOMAIN events : \A K : Is(i, K)' <=> Is(i, K)
  BY <1>2 DEF Is
<1>4. \A j \in DOMAIN events' : j \in DOMAIN events \/ (j = n /\ (e.id = k => Pause(j)'))
  BY <1>2 DEF Pause, Is
<1>5. \A j \in DOMAIN events : Pause(j)' <=> Pause(j)
  BY <1>2, <1>3 DEF Pause
<1>6. Knows(k)' <=> Knows(k)
  BY DEF Knows
<1>7. ASSUME NEW i \in DOMAIN events, Is(i, {"stopped"}), events[i].id = k
      PROVE  Fading(k)'
  BY <1>2, <1>3, <1>7 DEF Fading
<1>8. ASSUME NEW i \in DOMAIN events, Is(i, {"ended_paused"}), events[i].id = k, PausedAt(k, i),
             \A j \in DOMAIN events : j > i /\ events[j].id = k => Pause(j)
      PROVE  Fading(k)'
  <2>1. \A j \in DOMAIN events' : j > i /\ events'[j].id = k => Pause(j)'
    BY <1>2, <1>4, <1>5, <1>8
  <2>2. \A j \in DOMAIN events' : j < i => j \in DOMAIN events /\ events'[j] = events[j]
    BY <1>2
  <2>3. PausedAt(k, i)'
    <3>1. CASE \A j \in DOMAIN events : j < i => events[j].id # k
      BY <1>2, <1>6, <1>8, <2>2, <3>1 DEF PausedAt
    <3>2. ASSUME NEW j \in DOMAIN events, j < i, Is(j, {"rate"}), events[j].id = k, ~events[j].value,
                 \A l \in DOMAIN events : j < l /\ l < i => events[l].id # k
          PROVE  PausedAt(k, i)'
      BY <1>2, <1>3, <2>2, <3>2 DEF PausedAt
    <3> QED
      BY <1>8, <3>1, <3>2 DEF PausedAt
  <2> QED
    BY <1>2, <1>3, <1>8, <2>1, <2>3 DEF Fading
<1>9. ASSUME Knows(k), sessions[k].grace, \A j \in DOMAIN events : events[j].id = k => Pause(j)
      PROVE  Fading(k)'
  BY <1>2, <1>4, <1>5, <1>6, <1>9 DEF Fading
<1> QED
  BY <1>7, <1>8, <1>9 DEF Fading

(* So it does as the runtime handles the next event.                       *)
LEMMA FadingPopped ==
    ASSUME events \in Seq(Events), ChannelInv, Received, NEW k, Fading(k), Standing(k)'
    PROVE  Fading(k)'
<1>1. /\ 1 \in DOMAIN events /\ Head1 = events[1] /\ Head1 \in Events
      /\ \A i \in DOMAIN events :
           /\ i \in Nat /\ i >= 1 /\ events[i] \in Events
           /\ i # 1 => i - 1 \in DOMAIN events' /\ events'[i - 1] = events[i]
      /\ \A i \in DOMAIN events' :
           i \in Nat /\ i >= 1 /\ i + 1 \in DOMAIN events /\ events'[i] = events[i + 1]
  BY Popped DEF Received
<1>2. \A i \in DOMAIN events : i # 1 => \A K : Is(i, K) => Is(i - 1, K)'
  BY <1>1 DEF Is
<1>3. \A j \in DOMAIN events' : /\ \A K : Is(j + 1, K) <=> Is(j, K)'
                                /\ Pause(j + 1) <=> Pause(j)'
  BY <1>1 DEF Is, Pause
<1>4. Standing(k)
  BY StandingPopped
<1>5. Knows(k)' \/ \E p \in DOMAIN events : p # 1 /\ Is(p, {"started"}) /\ events[p].id = k
  <2>1. ASSUME NEW i \in DOMAIN events', Is(i, {"started"})', events'[i].id = k
        PROVE  i + 1 \in DOMAIN events /\ i + 1 # 1 /\ Is(i + 1, {"started"}) /\ events[i + 1].id = k
    BY <1>1, <1>3, <2>1
  <2> QED
    BY <2>1 DEF Standing
<1>6. Knows(k) => Knows(k)' /\ Head1.kind # "started"
  <2>1. SUFFICES ASSUME Knows(k) PROVE Knows(k)' /\ Head1.kind # "started"
    OBVIOUS
  <2>2. \A p \in DOMAIN events : ~(Is(p, {"started"}) /\ events[p].id = k)
    BY <2>1 DEF ChannelInv
  <2>3. Knows(k)'
    BY <1>5, <2>2
  <2>4. Head1.kind = "started" => k = Head1.id
    BY <2>3, Handling
  <2> QED
    BY <1>1, <2>2, <2>3, <2>4 DEF Is
<1>7. ASSUME NEW i \in DOMAIN events, Is(i, {"stopped"}), events[i].id = k
      PROVE  Fading(k)'
  <2>1. CASE i = 1
    <3>1. ASSUME NEW p \in DOMAIN events, Is(p, {"started"}), events[p].id = k
          PROVE  FALSE
      <4>1. \A j \in DOMAIN events : Is(j, Ends) /\ events[j].id = events[p].id => p < j
        BY <3>1 DEF ChannelInv
      <4>2. p < i
        BY <1>7, <3>1, <4>1 DEF Is, Ends
      <4> QED
        BY <1>1, <2>1, <4>2
    <3>2. Head1.kind = "stopped" /\ Head1.id = k
      BY <1>1, <1>7, <2>1 DEF Is
    <3>3. ~Knows(k)'
      BY <3>2, Handling
    <3> QED
      BY <1>5, <3>1, <3>3
  <2>2. CASE i # 1
    BY <1>1, <1>2, <1>7, <2>2 DEF Fading
  <2> QED
    BY <2>1, <2>2
<1>8. ASSUME NEW i \in DOMAIN events, Is(i, {"ended_paused"}), events[i].id = k, PausedAt(k, i),
             \A j \in DOMAIN events : j > i /\ events[j].id = k => Pause(j)
      PROVE  Fading(k)'
  <2>1. \A j \in DOMAIN events' : j + 1 > i /\ events'[j].id = k => Pause(j)'
    BY <1>1, <1>3, <1>8
  <2>2. CASE i = 1
    <3>1. Head1.kind = "ended_paused" /\ Head1.id = k
      BY <1>1, <1>8, <2>2 DEF Is
    <3>2. Knows(k) /\ ~sessions[k].playing
      BY <1>1, <1>8, <2>2 DEF PausedAt
    <3>3. Knows(k)' /\ sessions'[k].grace
      BY <1>6, <3>1, <3>2, Handling
    <3>4. \A j \in DOMAIN events' : events'[j].id = k => Pause(j)'
      BY <1>1, <2>1, <2>2
    <3> QED
      BY <3>3, <3>4 DEF Fading
  <2>3. CASE i # 1
    <3>1. PICK m : m = i - 1
      OBVIOUS
    <3>2. /\ m \in DOMAIN events' /\ events'[m].id = k /\ Is(m, {"ended_paused"})'
          /\ \A j \in DOMAIN events' : j > m /\ events'[j].id = k => Pause(j)'
      <4>1. Is(m, {"ended_paused"})'
        BY <1>2, <1>8, <2>3, <3>1
      <4>2. m \in DOMAIN events' /\ events'[m].id = k
        BY <1>1, <1>8, <2>3, <3>1
      <4>3. \A j \in DOMAIN events' : j > m => j + 1 > i
        BY <1>1, <3>1
      <4> QED
        BY <2>1, <4>1, <4>2, <4>3
    <3>3. PausedAt(k, m)'
      <4>1. ASSUME NEW j \in DOMAIN events, j < i, Is(j, {"rate"}), events[j].id = k,
                   ~events[j].value,
                   \A l \in DOMAIN events : j < l /\ l < i => events[l].id # k
            PROVE  PausedAt(k, m)'
        <5>1. ASSUME NEW l \in DOMAIN events', j < l + 1, l < m PROVE events'[l].id # k
          BY <1>1, <3>1, <4>1, <5>1
        <5>2. CASE j # 1
          <6>1. PICK q : q = j - 1
            OBVIOUS
          <6>2. q \in DOMAIN events' /\ events'[q] = events[j] /\ q < m
            BY <1>1, <3>1, <4>1, <5>2, <6>1
          <6>3. Is(q, {"rate"})'
            BY <1>2, <4>1, <5>2, <6>1
          <6>4. \A l \in DOMAIN events' : q < l /\ l < m => events'[l].id # k
            BY <1>1, <5>1, <6>1
          <6> QED
            BY <4>1, <6>2, <6>3, <6>4 DEF PausedAt
        <5>3. CASE j = 1
          <6>1. Head1.kind = "rate" /\ Head1.id = k /\ ~Head1.value
            BY <1>1, <4>1, <5>3 DEF Is
          <6>2. ASSUME NEW p \in DOMAIN events, Is(p, {"started"}), events[p].id = k
                PROVE  FALSE
            <7>1. p < i
              BY <1>8, <6>2 DEF ChannelInv, Ends, Is
            <7>2. p # 1
              BY <1>1, <6>1, <6>2 DEF Is
            <7> QED
              BY <1>1, <4>1, <5>3, <6>2, <7>1, <7>2
          <6>3. Knows(k)
            BY <1>4, <6>2 DEF Standing
          <6>4. Knows(k)' /\ ~sessions'[k].playing
            BY <1>6, <6>1, <6>3, Handling
          <6>5. \A l \in DOMAIN events' : l < m => events'[l].id # k
            BY <1>1, <5>1, <5>3
          <6> QED
            BY <6>4, <6>5 DEF PausedAt
        <5> QED
          BY <5>2, <5>3
      <4>2. ASSUME \A j \in DOMAIN events : j < i => events[j].id # k,
                   Knows(k), ~sessions[k].playing
            PROVE  PausedAt(k, m)'
        <5>1. \A j \in DOMAIN events' : j < m => events'[j].id # k
          BY <1>1, <3>1, <4>2
        <5>2. Head1.id # k
          BY <1>1, <1>8, <2>3, <4>2
        <5>3. Knows(k)' /\ ~sessions'[k].playing
          BY <1>6, <4>2, <5>2, Handling
        <5> QED
          BY <5>1, <5>3 DEF PausedAt
      <4> QED
        BY <1>8, <4>1, <4>2 DEF PausedAt
    <3> QED
      BY <3>2, <3>3 DEF Fading
  <2> QED
    BY <2>2, <2>3
<1>9. ASSUME Knows(k), sessions[k].grace, \A j \in DOMAIN events : events[j].id = k => Pause(j)
      PROVE  Fading(k)'
  <2>1. \A j \in DOMAIN events' : events'[j].id = k => Pause(j)'
    BY <1>1, <1>3, <1>9
  <2>2. Head1.id = k => Head1.kind = "rate" /\ ~Head1.value
    BY <1>1, <1>9 DEF Pause, Is
  <2>3. Knows(k)' /\ sessions'[k].grace
    BY <1>6, <1>9, <2>2, Handling
  <2> QED
    BY <2>1, <2>3 DEF Fading
<1> QED
  BY <1>7, <1>8, <1>9 DEF Fading

(* So it does as another session is forgotten.                             *)
LEMMA FadingForgot ==
    ASSUME ChannelInv, NEW g \in DOMAIN sessions, sessions' = Forget(g), UNCHANGED events,
           NEW k, Fading(k), Standing(k)'
    PROVE  Fading(k)'
<1>1. \A i : \A K : Is(i, K)' <=> Is(i, K)
  BY DEF Is
<1>2. k # g
  BY <1>1 DEF Standing, Knows, Forget, ChannelInv
<1>3. /\ Knows(k)' <=> Knows(k)
      /\ Knows(k) => sessions'[k] = sessions[k]
  BY <1>2 DEF Knows, Forget
<1>4. \A i : PausedAt(k, i) => PausedAt(k, i)'
  BY <1>1, <1>3 DEF PausedAt
<1>5. \A i : Pause(i)' <=> Pause(i)
  BY <1>1 DEF Pause
<1> QED
  BY <1>1, <1>3, <1>4, <1>5 DEF Fading

(* A stream that ended paused had told the pause, but for the slips.       *)
LEMMA StopsPaused ==
    ASSUME events \in Seq(Events), IdsInv, StreamsInv, OwnersInv, ChannelInv, RateInv, PausedInv,
           NEW s \in Streams, Stop(s), held[s] # None, UNCHANGED sessions,
           "late" \notin slips', NEW k, k = held[s], Standing(k)'
    PROVE  Fading(k)'
<1>1. /\ thread[s] = "waiting" /\ ending[s] # "none" /\ k \in Nat /\ k # None
  BY DEF Stop, IdsInv
<1>2. CASE ending[s] # "paused"
  <2>1. PICK e : e = Event("stopped", k, TRUE)
    OBVIOUS
  <2>2. e \in Events /\ e.kind = "stopped" /\ e.id = k /\ events' = Append(events, e)
    BY <1>1, <1>2, <2>1 DEF Event, Events, Kinds, Stop, Over, Tell
  <2>3. PICK n : n = Len(events) + 1
    OBVIOUS
  <2>4. n \in DOMAIN events' /\ events'[n] = e
    BY <2>2, <2>3, Pushed
  <2>5. Is(n, {"stopped"})'
    BY <2>2, <2>4 DEF Is
  <2> QED
    BY <2>2, <2>4, <2>5 DEF Fading
<1>3. CASE ending[s] = "paused"
  <2>1. PICK e : e = Event("ended_paused", k, TRUE)
    OBVIOUS
  <2>2. e \in Events /\ e.kind = "ended_paused" /\ e.id = k /\ events' = Append(events, e)
    BY <1>1, <1>3, <2>1 DEF Event, Events, Kinds, Stop, Tell
  <2>3. ~PlayUnseen(s) /\ call = NoCall /\ "missed" \notin slips
    BY <1>3 DEF Stop
  <2>4. Standing(k)
    BY <2>2, StandingPushed
  <2>5. s <= stream /\ stream # None /\ s \in Nat /\ stream \in Nat
    BY <1>1 DEF StreamsInv, Streams, None
  <2>6. LastOrder(s) = FALSE
    <3>1. rate[s] = FALSE /\ orders[s] \in Seq(BOOLEAN)
      BY <1>3 DEF StreamsInv
    <3>2. orders[s] # <<>> => orders[s][Len(orders[s])] \in BOOLEAN /\ ~orders[s][Len(orders[s])]
      <4>1. SUFFICES ASSUME orders[s] # <<>>
                     PROVE  orders[s][Len(orders[s])] \in BOOLEAN /\ ~orders[s][Len(orders[s])]
        OBVIOUS
      <4>2. Len(orders[s]) \in 1..Len(orders[s])
        BY <3>1, <4>1
      <4>3. orders[s][Len(orders[s])] \in BOOLEAN
        BY <3>1, <4>2
      <4> QED
        BY <2>3, <4>1, <4>3 DEF PlayUnseen
    <3> QED
      BY <3>1, <3>2 DEF LastOrder
  <2>7. call.at = "none"
    BY <2>3 DEF NoCall
  <2>8. Will(k, FALSE)
    <3>1. CASE s = stream
      <4>1. Delivers(stream)
        BY <1>1, <3>1 DEF Delivers
      <4>2. Will(k, wanted)
        BY <2>3, <2>4, <2>5, <2>7, <3>1, <4>1 DEF RateInv
      <4>3. wanted = FALSE
        BY <2>5, <2>6, <3>1 DEF StreamsInv
      <4> QED
        BY <4>2, <4>3
    <3>2. CASE s # stream
      <4>1. s < stream
        BY <2>5, <3>2
      <4>2. Will(k, LastOrder(s))
        BY <1>3, <2>3, <2>4, <2>7, <4>1 DEF PausedInv
      <4> QED
        BY <2>6, <4>2
    <3> QED
      BY <3>1, <3>2
  <2>9. PICK n : n = Len(events) + 1
    OBVIOUS
  <2>10. /\ DOMAIN events' = DOMAIN events \cup {n} /\ n \in Nat
         /\ \A i \in DOMAIN events : /\ i \in Nat /\ i >= 1 /\ i < n
                                     /\ events'[i] = events[i] /\ events[i] \in Events
         /\ events'[n] = e
    BY <2>2, <2>9, Pushed
  <2>11. PausedAt(k, n)'
    <3>1. ASSUME NEW i \in DOMAIN events, Is(i, {"started", "rate"}), events[i].id = k,
                 events[i].value = FALSE, \A j \in DOMAIN events : j > i => events[j].id # k
          PROVE  PausedAt(k, n)'
      <4>1. Is(i, {"rate"})'
        BY <2>10, <3>1 DEF Is, ChannelInv
      <4>2. /\ i \in DOMAIN events' /\ i < n /\ events'[i].id = k /\ ~events'[i].value
            /\ \A l \in DOMAIN events' : i < l /\ l < n => events'[l].id # k
        BY <2>10, <3>1
      <4> QED
        BY <4>1, <4>2 DEF PausedAt
    <3>2. ASSUME \A j \in DOMAIN events : events[j].id # k, Knows(k), sessions[k].playing = FALSE
          PROVE  PausedAt(k, n)'
      BY <2>10, <3>2 DEF PausedAt, Knows
    <3> QED
      BY <2>8, <3>1, <3>2 DEF Will
  <2>12. Is(n, {"ended_paused"})'
    BY <2>2, <2>10 DEF Is
  <2>13. \A j \in DOMAIN events' : ~(j > n)
    BY <2>10
  <2> QED
    BY <2>2, <2>10, <2>11, <2>12, <2>13 DEF Fading
<1> QED
  BY <1>2, <1>3

(* Every step keeps EndInv.                                                *)
LEMMA EndKept ==
    ASSUME events \in Seq(Events), IdsInv, StreamsInv, OwnersInv, ChannelInv, RateInv, PausedInv,
           EndInv, [Next]_vars
    PROVE  EndInv'
<1>1. /\ made \in Nat /\ call.id \in Nat /\ call.rate \in BOOLEAN /\ None = 0 /\ None \in Nat
      /\ held \in [Streams -> Nat] /\ old \in [Streams -> Nat]
  BY DEF IdsInv, None
<1>2. SUFFICES ASSUME "late" \notin slips', "revived" \notin slips',
                      NEW k \in 1..made', ~Owned(k)', Standing(k)'
               PROVE  Fading(k)'
  BY DEF EndInv
<1>3. ASSUME "late" \notin slips, "revived" \notin slips, k \in 1..made, ~Owned(k), Standing(k)
      PROVE  Fading(k)
  BY <1>3 DEF EndInv
<1>4. ASSUME slips \cap {"late", "revived"} \subseteq slips', made' = made,
             Owned(k) => Owned(k)', UNCHANGED <<events, sessions>>
      PROVE  Fading(k)'
  <2>1. Standing(k)
    BY <1>2, <1>4 DEF Standing, Is, Knows
  <2>2. Fading(k)
    BY <1>2, <1>3, <1>4, <2>1
  <2> QED
    BY <1>4, <2>2 DEF Fading, PausedAt, Pause, Is, Knows
<1>5. ASSUME slips \cap {"late", "revived"} \subseteq slips', made' = made,
             Owned(k) => Owned(k)', UNCHANGED sessions, NEW e \in Events,
             events' = Append(events, e), e.kind # "started",
             e.id = k => e.kind = "rate" /\ ~e.value
      PROVE  Fading(k)'
  <2>1. Standing(k)
    BY <1>2, <1>5, StandingPushed
  <2>2. Fading(k)
    BY <1>2, <1>3, <1>5, <2>1
  <2> QED
    BY <1>5, <2>2, FadingPushed
<1>6. CASE UNCHANGED <<receiver, made, active, events, sessions>>
              /\ slips' \cup {"raced", "refused"} = slips \cup {"raced", "refused"}
  <2>1. slips \cap {"late", "revived"} \subseteq slips'
    BY <1>6
  <2> QED
    BY <1>4, <1>6, <2>1 DEF receiver, Owned
<1>7. ASSUME UNCHANGED <<receiver, made, active, sessions>>,
             slips' \cup {"raced", "refused"} = slips \cup {"raced", "refused"},
             Connect \/ \E db \in Loudness : SetVolume(db)
      PROVE  Fading(k)'
  <2>1. PICK e \in Events : events' = Append(events, e) /\ e.id = None /\ e.kind # "started"
    <3>1. \A db \in Loudness : ToPercent(db) \in Percents
      BY Scale
    <3>2. /\ Event("connected", None, TRUE) \in Events
          /\ \A db \in Loudness : Event("volume", None, ToPercent(db)) \in Events
      BY <1>1, <3>1 DEF Event, Events, Kinds
    <3>3. CASE Connect
      BY <3>2, <3>3 DEF Connect, Tell, Event
    <3>4. ASSUME NEW db \in Loudness, SetVolume(db)
          PROVE  \E e \in Events : events' = Append(events, e) /\ e.id = None /\ e.kind # "started"
      <4>1. PICK e : e = Event("volume", None, ToPercent(db))
        OBVIOUS
      <4> QED
        BY <3>2, <3>4, <4>1 DEF SetVolume, Tell, Event
    <3> QED
      BY <1>7, <3>3, <3>4
  <2>2. slips \cap {"late", "revived"} \subseteq slips'
    BY <1>7
  <2>3. e.id # k
    BY <1>1, <1>2, <2>1
  <2>4. Owned(k) => Owned(k)'
    BY <1>7 DEF receiver, Owned
  <2> QED
    BY <1>5, <1>7, <2>1, <2>2, <2>3, <2>4
<1>8. ASSUME UNCHANGED <<receiver, made, slips>>, Received
      PROVE  Fading(k)'
  <2>1. Standing(k)
    BY <1>2, <1>8, StandingPopped
  <2>2. Owned(k) => Owned(k)'
    BY <1>8 DEF receiver, Owned
  <2>3. Fading(k)
    BY <1>2, <1>3, <1>8, <2>1, <2>2
  <2> QED
    BY <1>2, <1>8, <2>3, FadingPopped
<1>9. ASSUME UNCHANGED <<receiver, made, slips>>, NEW g \in DOMAIN sessions, GraceEnds(g)
      PROVE  Fading(k)'
  <2>1. sessions' = Forget(g) /\ UNCHANGED events
    BY <1>9 DEF GraceEnds
  <2>2. Standing(k)
    BY <1>2, <2>1, StandingForgot
  <2>3. Owned(k) => Owned(k)'
    BY <1>9 DEF receiver, Owned
  <2>4. Fading(k)
    BY <1>2, <1>3, <1>9, <2>2, <2>3
  <2> QED
    BY <1>2, <2>1, <2>4, FadingForgot
<1>10. ASSUME UNCHANGED sessions,
              \/ SetUp \/ TearDown \/ ReadActive \/ \E playing \in BOOLEAN : SetRate(playing)
              \/ \E s \in Streams : StreamEnds(s) \/ ApplyRate(s)
       PROVE  Fading(k)'
  <2>1. UNCHANGED <<made, events, held, old>> /\ slips \ {"missed"} \subseteq slips'
    BY <1>10 DEF SetUp, TearDown, ReadActive, SetRate, StreamEnds, ApplyRate
  <2>2. slips \cap {"late", "revived"} \subseteq slips'
    BY <2>1
  <2> QED
    BY <1>4, <1>10, <2>1, <2>2 DEF Owned
<1>11. ASSUME UNCHANGED sessions, TellRate
       PROVE  Fading(k)'
  <2>1. /\ UNCHANGED <<made, held, old>> /\ slips \subseteq slips' /\ call.at = "read"
        /\ call.rate /\ (\A s \in Streams : held[s] # call.id) => "revived" \in slips'
    BY <1>11 DEF TellRate
  <2>2. slips \cap {"late", "revived"} \subseteq slips'
    BY <2>1
  <2>3. Owned(k) => Owned(k)'
    BY <2>1 DEF Owned
  <2>4. CASE call.id = None
    BY <1>4, <1>11, <2>1, <2>2, <2>3, <2>4 DEF TellRate
  <2>5. CASE call.id # None
    <3>1. PICK e : e = Event("rate", call.id, call.rate)
      OBVIOUS
    <3>2. /\ e \in Events /\ e.kind = "rate" /\ e.id = call.id /\ e.value = call.rate
          /\ events' = Append(events, e)
      BY <1>1, <1>11, <2>5, <3>1 DEF Event, Events, Kinds, TellRate, Tell
    <3>3. call.id = k => ~call.rate
      BY <1>2, <2>1 DEF Owned
    <3> QED
      BY <1>5, <1>11, <2>1, <2>2, <2>3, <3>2, <3>3
  <2> QED
    BY <2>4, <2>5
<1>12. ASSUME UNCHANGED sessions, NEW s \in Streams, Make(s)
       PROVE  Fading(k)'
  <2>1. /\ held' = [held EXCEPT ![s] = made + 1] /\ old' = [old EXCEPT ![s] = held[s]]
        /\ made' = made + 1 /\ UNCHANGED events /\ slips \subseteq slips'
    BY <1>12 DEF Make
  <2>2. old[s] = None
    BY <1>12, NewestMakes
  <2>3. /\ held'[s] = made + 1 /\ old'[s] = held[s]
        /\ \A t \in Streams : t # s => held'[t] = held[t] /\ old'[t] = old[t]
    BY <1>1, <2>1
  <2>4. k # made + 1
    BY <1>2, <2>3 DEF Owned
  <2>5. k \in 1..made
    BY <1>1, <1>2, <2>1, <2>4
  <2>6. ~Owned(k)
    <3>1. \A t \in Streams : k # held'[t] /\ k # old'[t]
      BY <1>2 DEF Owned
    <3>2. k # None
      BY <1>1, <2>5
    <3>3. ASSUME NEW t \in Streams PROVE k # held[t] /\ k # old[t]
      <4>1. CASE t = s
        BY <2>2, <2>3, <3>1, <3>2, <4>1
      <4>2. CASE t # s
        BY <2>3, <3>1, <4>2
      <4> QED
        BY <4>1, <4>2
    <3> QED
      BY <3>3 DEF Owned
  <2>7. Standing(k)
    BY <1>2, <1>12, <2>1 DEF Standing, Is, Knows
  <2>8. Fading(k)
    BY <1>2, <1>3, <2>1, <2>5, <2>6, <2>7
  <2> QED
    BY <1>12, <2>1, <2>8 DEF Fading, PausedAt, Pause, Is, Knows
<1>13. ASSUME UNCHANGED sessions, NEW s \in Streams, Announce(s)
       PROVE  Fading(k)'
  <2>1. PICK e : e = Event("started", held[s], TRUE)
    OBVIOUS
  <2>2. /\ e \in Events /\ e.kind = "started" /\ e.id = held[s] /\ events' = Append(events, e)
        /\ UNCHANGED held
    BY <1>1, <1>13, <2>1 DEF Event, Events, Kinds, Announce, Tell
  <2>3. k = held[s]
    BY <1>2, <1>13, <2>2, StandingPushed
  <2> QED
    BY <1>2, <2>2, <2>3 DEF Owned
<1>14. ASSUME UNCHANGED sessions, NEW s \in Streams, DropOld(s)
       PROVE  Fading(k)'
  <2>1. PICK e : e = Event("stopped", old[s], TRUE)
    OBVIOUS
  <2>2. /\ e \in Events /\ e.kind = "stopped" /\ e.id = old[s] /\ events' = Append(events, e)
        /\ old' = [old EXCEPT ![s] = None] /\ UNCHANGED <<held, made, slips>>
    BY <1>1, <1>14, <2>1 DEF Event, Events, Kinds, DropOld, Over, Tell
  <2>3. CASE old[s] = k
    <3>1. PICK n : n = Len(events) + 1
      OBVIOUS
    <3>2. n \in DOMAIN events' /\ events'[n] = e
      BY <2>2, <3>1, Pushed
    <3>3. Is(n, {"stopped"})'
      BY <2>2, <3>2 DEF Is
    <3> QED
      BY <2>2, <2>3, <3>2, <3>3 DEF Fading
  <2>4. CASE old[s] # k
    <3>1. Owned(k) => Owned(k)'
      BY <1>1, <2>2, <2>4 DEF Owned
    <3> QED
      BY <1>5, <1>14, <2>2, <2>4, <3>1
  <2> QED
    BY <2>3, <2>4
<1>15. ASSUME UNCHANGED sessions, NEW s \in Streams, Stop(s)
       PROVE  Fading(k)'
  <2>1. /\ held' = [held EXCEPT ![s] = None] /\ UNCHANGED <<old, made>> /\ slips \subseteq slips'
    BY <1>15 DEF Stop
  <2>2. slips \cap {"late", "revived"} \subseteq slips'
    BY <2>1
  <2>3. k # None
    BY <1>1, <1>2
  <2>4. CASE held[s] = k
    BY <1>2, <1>15, <2>3, <2>4, StopsPaused
  <2>5. CASE held[s] # k
    <3>1. Owned(k) => Owned(k)'
      BY <1>1, <2>1, <2>5 DEF Owned
    <3>2. CASE held[s] = None
      BY <1>4, <1>15, <2>1, <2>2, <3>1, <3>2 DEF Stop
    <3>3. CASE held[s] # None
      <4>1. PICK kind \in Ends : events' = Append(events, Event(kind, held[s], TRUE))
        BY <1>15, <3>3 DEF Stop, Over, Tell, Ends
      <4>2. PICK e : e = Event(kind, held[s], TRUE)
        OBVIOUS
      <4>3. /\ e \in Events /\ e.kind # "started" /\ e.id = held[s] /\ events' = Append(events, e)
        BY <1>1, <4>1, <4>2 DEF Event, Events, Kinds, Ends
      <4> QED
        BY <1>5, <1>15, <2>1, <2>2, <2>5, <3>1, <4>3
    <3> QED
      BY <3>2, <3>3
  <2> QED
    BY <2>4, <2>5
<1>16. CASE UNCHANGED <<receiver, made, active, slips>> /\
              \/ HandleStarted \/ HandleRate \/ HandleEndedPaused \/ HandleStopped
              \/ HandleVolume \/ HandleConnected
  BY <1>8, <1>16, Receives
<1> QED
  BY <1>6, <1>7, <1>9, <1>10, <1>11, <1>12, <1>13, <1>14, <1>15, <1>16, Quiets

----------------------------------------------------------------------------
(* All of it is invariant.                                                 *)
SessionsInv == StreamsInv /\ OwnersInv /\ ChannelInv /\ RateInv /\ PausedInv /\ EndInv

(* It holds in the beginning.                                              *)
LEMMA SessionsBegin == Init => SessionsInv
<1> SUFFICES ASSUME Init PROVE SessionsInv
  OBVIOUS
<1>1. /\ stream = None /\ made = 0 /\ events = <<>> /\ sessions = <<>> /\ active = None
      /\ call = NoCall /\ wanted = FALSE /\ None = 0
      /\ \A s \in Streams : /\ held[s] = None /\ old[s] = None /\ thread[s] = "off"
                            /\ orders[s] = <<>> /\ rate[s] = FALSE /\ ending[s] = "none"
  BY DEF Init, None
<1>2. StreamsInv
  <2>1. /\ rate \in [Streams -> BOOLEAN] /\ orders \in [Streams -> Seq(BOOLEAN)]
        /\ ending \in [Streams -> {"none", "teardown", "ended", "paused"}]
        /\ thread \in [Streams -> {"off", "waiting", "making", "dropping"}]
    BY DEF Init
  <2>2. stream \in 0..MaxStreams /\ call.at = "none"
    BY <1>1, AdapterAssumption DEF NoCall
  <2>3. \A s \in Streams : ~(s < stream)
    BY <1>1 DEF Streams
  <2> QED
    BY <1>1, <2>1, <2>2, <2>3 DEF StreamsInv
<1>3. OwnersInv
  BY <1>1 DEF OwnersInv, NoCall
<1>4. DOMAIN sessions = {} /\ DOMAIN events = {}
  BY <1>1
<1>5. ChannelInv
  <2>1. sessions \in [DOMAIN sessions -> Sound] /\ DOMAIN sessions \subseteq 1..made
    BY <1>1, <1>4
  <2> QED
    BY <1>1, <1>4, <2>1 DEF ChannelInv
<1>6. RateInv /\ PausedInv
  BY <1>1 DEF RateInv, PausedInv
<1>7. EndInv
  BY <1>1 DEF EndInv
<1> QED
  BY <1>2, <1>3, <1>5, <1>6, <1>7 DEF SessionsInv

(* Streams, sessions and the channel fit together, the rate of the session *)
(* that gets the sound is known, and an ended session is on its way out.   *)
THEOREM SessionsFollow == Spec => [](IInv /\ SessionsInv)
<1>1. IInv => events \in Seq(Events)
  BY DEF IInv, VolumesInv, VolumeTypes
<1>2. IInv /\ SessionsInv /\ [Next]_vars => SessionsInv'
  BY <1>1, StreamsKept, OwnersKept, ChannelKept, RateKept, PausedKept, EndKept
  DEF SessionsInv, IInv
<1> QED
  BY <1>2, SessionsBegin, Invariant, PTL DEF Spec

(* Once everything told is handled, the session that gets the sound is the *)
(* runtime's session, and plays or pauses as the sender said last, but for *)
(* a pause that met the making of the session, and a start that was told   *)
(* after that of its successor.                                            *)
THEOREM RateIsAlwaysHeard == Spec => []RateIsHeard
<1>1. SessionsInv => RateIsHeard
  <2>1. SUFFICES ASSUME SessionsInv, stream # None, Delivers(stream), events = <<>>,
                        call = NoCall, "crossed" \notin slips
                 PROVE  /\ Knows(held[stream])
                        /\ \/ sessions[held[stream]].playing = wanted
                           \/ sessions[held[stream]].playing /\ "missed" \in slips
    BY DEF RateIsHeard
  <2>2. DOMAIN events = {} /\ call.at = "none"
    BY <2>1 DEF NoCall
  <2>3. Standing(held[stream])
    BY <2>1 DEF SessionsInv, RateInv
  <2>4. Will(held[stream], wanted) \/ ("missed" \in slips /\ Will(held[stream], TRUE))
    BY <2>1, <2>2, <2>3 DEF SessionsInv, RateInv
  <2> QED
    BY <2>2, <2>3, <2>4 DEF Standing, Will
<1> QED
  BY SessionsFollow, <1>1, PTL

(* The runtime does not keep a session whose stream is over: its end is    *)
(* told, or its grace runs, or another start is on its way; but for the    *)
(* end and the rate told in the wrong order.                               *)
THEOREM EndedSessionsAlwaysGo == Spec => []EndedSessionsGo
<1>1. SessionsInv => EndedSessionsGo
  <2>1. SUFFICES ASSUME SessionsInv, NEW k \in DOMAIN sessions, ~Owned(k),
                        \A i \in DOMAIN events : events[i].kind # "started",
                        slips \cap {"late", "revived"} = {}
                 PROVE  sessions[k].grace \/ Told(k, {"started", "stopped", "ended_paused"})
    BY DEF EndedSessionsGo, Owned
  <2>2. Standing(k) /\ k \in 1..made
    BY <2>1 DEF Standing, Knows, Is, SessionsInv, ChannelInv
  <2>3. Fading(k)
    BY <2>1, <2>2 DEF SessionsInv, EndInv
  <2> QED
    BY <2>3 DEF Fading, Told, Is
<1> QED
  BY SessionsFollow, <1>1, PTL
=============================================================================
