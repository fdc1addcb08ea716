----------------------------- MODULE Discovery -----------------------------
(***************************************************************************)
(* Finding the Sonos rooms (discovery.rs, topology.rs): listen to SSDP     *)
(* replies, add the configured addresses, ask every player found for its   *)
(* description and for the topology of its household, and take the rooms   *)
(* from the first usable topology.                                         *)
(*                                                                         *)
(* Addresses and room ids are numbers, ordered as the code orders them.    *)
(* The network loses replies and requests; "trouble" bounds how often.     *)
(***************************************************************************)
EXTENDS Integers, Sequences, FiniteSets

CONSTANTS Addresses,   \* the addresses that may answer, in their order
          PlayerAt,    \* [Addresses -> player or Nothing]: who listens there
          Parallel,    \* probes in flight, 4 in the code
          MaxTrouble,  \* bound: losses, failures and outside changes
          Nothing

ASSUME AddressesAssumption == Addresses \subseteq Nat /\ IsFiniteSet(Addresses)
ASSUME DiscoveryBoundsAssumption == Parallel \in Nat \ {0} /\ MaxTrouble \in Nat

VARIABLES config,    \* the configuration; here static_ips and auto_discover
          household, \* address -> the topology that player tells
          search,    \* "idle", "listening", "probing", "done" or "failed"
          heard,     \* the addresses whose SSDP reply arrived
          seeds,     \* the addresses to ask
          waiting,   \* the seeds not asked yet, in order
          probes,    \* the addresses asked, no answer yet
          zones,     \* id -> what is known of the zone player
          topology,  \* the first usable topology, or Nothing
          trouble

given == <<config, household>>
searchVars == <<search, heard, seeds, waiting, probes, zones, topology, trouble>>

Players == {a \in Addresses : PlayerAt[a] # Nothing}

(* Sorted by address, each address once (the BTree order, dedup_by_key).   *)
InOrder(S) ==
    CHOOSE s \in [1..Cardinality(S) -> S] : \A i, j \in DOMAIN s : i < j => s[i] < s[j]

SearchIdle ==
    /\ search = "idle"
    /\ heard = {} /\ seeds = {} /\ waiting = <<>> /\ probes = {}
    /\ zones = <<>> /\ topology = Nothing

(* Something goes wrong outside the program, within the bound.             *)
Trouble == trouble < MaxTrouble /\ trouble' = trouble + 1

----------------------------------------------------------------------------
(* Asking the seeds.                                                       *)

(* The loop that keeps at most Parallel probes in flight.                  *)
Refill(running, queue) ==
    LET room == Parallel - Cardinality(running)
        n == IF room < Len(queue) THEN room ELSE Len(queue)
    IN  /\ probes' = running \cup {queue[i] : i \in 1..n}
        /\ waiting' = SubSeq(queue, n + 1, Len(queue))

(* merge_discovery_sources; without any device the result is no zones.     *)
Merge(replies) ==
    /\ seeds' = replies \cup config.static
    /\ IF replies \cup config.static = {}
       THEN search' = "done" /\ UNCHANGED <<waiting, probes>>
       ELSE search' = "probing" /\ Refill({}, InOrder(replies \cup config.static))
    /\ UNCHANGED <<heard, zones, topology>>

----------------------------------------------------------------------------
(* Listening (discover_sonos_devices).                                     *)

BeginSearch ==
    /\ search = "idle"
    /\ IF config.auto
       THEN search' = "listening" /\ UNCHANGED <<heard, seeds, waiting, probes, zones, topology>>
       ELSE Merge({})
    /\ UNCHANGED trouble

(* A reply whose location is the sender's own address.                     *)
Hear(a) ==
    /\ search = "listening"
    /\ a \in Players \ heard
    /\ heard' = heard \cup {a}
    /\ UNCHANGED <<search, seeds, waiting, probes, zones, topology, trouble>>

(* The listening window ends; a player not heard by then costs trouble.    *)
ListenEnds ==
    /\ search = "listening"
    /\ IF heard = Players THEN UNCHANGED trouble ELSE Trouble
    /\ Merge(heard)

(* A socket error drops the replies; static addresses are tried anyway.    *)
ListenFails ==
    /\ search = "listening"
    /\ Trouble
    /\ IF config.static # {}
       THEN Merge({})
       ELSE /\ search' = "failed"
            /\ UNCHANGED <<heard, seeds, waiting, probes, zones, topology>>

----------------------------------------------------------------------------
(* Descriptions and topologies.                                            *)

Zone(room, at) == [room |-> room, at |-> at, visible |-> FALSE]

Known(found, id, zone) ==
    [i \in DOMAIN found \cup {id} |-> IF i = id THEN zone ELSE found[i]]

(* A topology with a member that is known or can be reached at its         *)
(* location; a malformed one has no members at all.                        *)
Usable(members, found) ==
    \E i \in DOMAIN members : members[i].id \in DOMAIN found \/ members[i].at # Nothing

(* The zone of the description, and its topology when it is the first one. *)
Learn(a, members) ==
    /\ zones' = Known(zones, PlayerAt[a].id, Zone(PlayerAt[a].room, a))
    /\ topology' = IF topology = Nothing /\ Usable(members, zones') THEN members ELSE topology

(* A probe ends: with description and topology, with the description and   *)
(* no usable answer on the topology, or without either.                    *)
ProbeEnds(a) ==
    /\ search = "probing"
    /\ a \in probes
    /\ \/ a \in Players /\ Learn(a, household[a]) /\ UNCHANGED trouble
       \/ a \in Players /\ Learn(a, <<>>) /\ Trouble
       \/ /\ UNCHANGED <<zones, topology>>
          /\ IF a \in Players THEN Trouble ELSE UNCHANGED trouble
    /\ Refill(probes \ {a}, waiting)
    /\ UNCHANGED <<search, heard, seeds>>

(* apply_topology for one member: a zone that did not answer is added from *)
(* its location; only the topology makes a room visible.                   *)
Applied(found, m) ==
    LET known == IF m.id \in DOMAIN found \/ m.at = Nothing
                 THEN found ELSE Known(found, m.id, Zone(m.room, m.at))
    IN  IF m.id \notin DOMAIN known THEN known
        ELSE [known EXCEPT ![m.id].visible = m.visible,
                           ![m.id].room = IF m.room = Nothing THEN @ ELSE m.room]

\* Wrong variant of ApplyTopology: only players that answered are kept.
ApplyToKnown(found, members) ==
    [i \in DOMAIN found |->
        IF \E k \in DOMAIN members : members[k].id = i
        THEN [found[i] EXCEPT !.visible =
                 \E k \in DOMAIN members : members[k].id = i /\ members[k].visible]
        ELSE found[i]]

ApplyTopology(found, members) ==
    LET upTo[n \in 0..Len(members)] ==
            IF n = 0 THEN found ELSE Applied(upTo[n - 1], members[n])
    IN  upTo[Len(members)]

(* All probes ended, or the deadline passed and the others are aborted.    *)
SearchEnds ==
    /\ search = "probing"
    /\ IF probes = {} THEN UNCHANGED trouble ELSE Trouble
    /\ IF topology = Nothing
       THEN search' = "failed" /\ UNCHANGED zones
       ELSE search' = "done" /\ zones' = ApplyTopology(zones, topology)
    /\ probes' = {} /\ waiting' = <<>>
    /\ UNCHANGED <<heard, seeds, topology>>

SearchStep ==
    \/ ListenEnds \/ ListenFails \/ SearchEnds
    \/ \E a \in Addresses : Hear(a) \/ ProbeEnds(a)

----------------------------------------------------------------------------
(* The rooms of a household, told by any of its players.                   *)
RoomsOf(members) ==
    {members[i].id : i \in {k \in DOMAIN members :
        members[k].visible /\ members[k].at # Nothing}}
=============================================================================
