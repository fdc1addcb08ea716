-------------------------- MODULE MCBridgeRuntime --------------------------
(* Constants for checking BridgeRuntime: every room plays one sender.      *)
EXTENDS BridgeRuntime, Integers, TLC

CONSTANTS phone
MCSender == [z \in Zones |-> phone]
MCSymmetry == Permutations(Zones)

(* The delays of SyncDelays for offsets by id, by name and of the rest;    *)
(* the name of the last room is the id of the first.                       *)
Delays == INSTANCE SyncDelays
MCRooms == {[id |-> "a", name |-> "A"], [id |-> "b", name |-> "B"], [id |-> "c", name |-> "a"]}
MCSync == [fallback : {-1, 2}, deadline : {0, 60},
           zones : UNION {[keys -> {-3, 0, 5}] : keys \in SUBSET {"a", "b", "B"}}]
ASSUME DelaysAssumption ==
    \A sync \in MCSync : \A own \in SUBSET MCRooms \ {{}} :
        /\ Delays!ValidSync(sync)
        /\ Delays!SoundTogether(sync, own)
        /\ Delays!NoAddedDelay(sync, own)
        /\ \A kept \in [MCRooms -> {0, 3}] : \A c \in MCRooms :
              LET members == [r \in own \ {c} |-> c]
              IN  (\A r \in MCRooms : Delays!Fits(sync, kept[r])) =>
                      Delays!QueueHoldsDelays(sync, own, members, kept)

(* The state after one sender selected two rooms at once: both sessions    *)
(* started, in one open cohort, and neither worker moved yet.  It has used *)
(* one of the events and failures.                                         *)
MCSelected ==
    /\ \E a, b \in Zones :
          /\ a # b
          /\ sessions = [z \in Zones |-> IF z \in {a, b}
                 THEN [NewSession EXCEPT !.reset = TRUE, !.gen = 1, !.encoder = 1] ELSE Nothing]
          /\ generation = [z \in Zones |-> IF z \in {a, b} THEN 1 ELSE 0]
          /\ cohorts = <<[sessions |-> <<a, b>>, prepared |-> [z \in Zones |-> 0],
                          phase |-> "open"]>>
          /\ slot = [z \in Zones |-> IF z \in {a, b} THEN [kind |-> "Prepare", gen |-> 1]
                                                     ELSE Nothing]
          /\ fresh = [z \in Zones |-> z \in {a, b}]
    /\ registry = generation
    /\ groups = <<>>
    /\ calls = <<>>
    /\ busy = [z \in Zones |-> Nothing]
    /\ answers = [z \in Zones |-> <<>>]
    /\ preps = [z \in Zones |-> {}]
    /\ retries = [z \in Zones |-> {}]
    /\ cleanups = {}
    /\ wake = FALSE
    /\ events = 1
    /\ failures = 1

MCSelectedSpec == MCSelected /\ [][Next]_vars

(* A later state of four rooms: x coordinates the group of m and both play *)
(* the sender, which selected two more rooms a moment ago.  One event and  *)
(* no failure are left.                                                    *)
MCJoining ==
    /\ \E x, m \in Zones :
          LET others == Zones \ {x, m}
              playing == [NewSession EXCEPT !.gen = 1, !.encoder = 1, !.prepared = TRUE,
                                            !.observed = "Playing"]
          IN  /\ x # m
              /\ groups = [c \in {x} |-> <<m>>]
              /\ sessions = [z \in Zones |->
                     CASE z = x -> [playing EXCEPT !.plan = "group"]
                       [] z = m -> [playing EXCEPT !.plan = "held"]
                       [] OTHER -> [NewSession EXCEPT !.reset = TRUE, !.gen = 1, !.encoder = 1]]
              /\ \E a, b \in others :
                    /\ a # b
                    /\ cohorts = <<[sessions |-> <<a, b>>, prepared |-> [z \in Zones |-> 0],
                                    phase |-> "open"]>>
              /\ slot = [z \in Zones |->
                     [kind |-> CASE z = x -> "PlayGroup" [] z = m -> "Join" [] OTHER -> "Prepare",
                      gen |-> 1]]
              /\ fresh = [z \in Zones |-> z \in others]
    /\ generation = [z \in Zones |-> 1]
    /\ registry = generation
    /\ calls = <<>>
    /\ busy = [z \in Zones |-> Nothing]
    /\ answers = [z \in Zones |-> <<>>]
    /\ preps = [z \in Zones |-> {}]
    /\ retries = [z \in Zones |-> {}]
    /\ cleanups = {}
    /\ wake = FALSE
    /\ events = MaxEvents - 1
    /\ failures = MaxFailures

MCJoiningSpec == MCJoining /\ [][Next]_vars

(* Two rooms, from the start and from the selected state.                  *)
MCTwoRoomsSpec == (Init \/ MCSelected) /\ [][Next]_vars
=============================================================================
