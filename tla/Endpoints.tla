----------------------------- MODULE Endpoints -----------------------------
(***************************************************************************)
(* From a configuration and the zones found to AirPlay endpoints: what a   *)
(* valid configuration is (config.rs), the options of the Home Assistant   *)
(* add-on (home_assistant.rs), which rooms are bridged (types.rs), on      *)
(* which port each (ids.rs, main.rs), and what "doctor" says of all that   *)
(* (airsonos2-diagnostics).                                                *)
(*                                                                         *)
(* A configuration is a record of the fields that decide something here;   *)
(* addresses are reduced to their family.                                  *)
(***************************************************************************)
EXTENDS Integers, Sequences, FiniteSets

CONSTANTS MaxPort,      \* the largest port, 65535 in the code
          MaxOffset,    \* the largest sync offset, 10000 ms in the code
          MaxDeadline,  \* the largest start deadline, 60000 ms in the code
          EntityIds     \* well-formed media_player entity ids

ASSUME EndpointsAssumption == {MaxPort, MaxOffset, MaxDeadline} \subseteq Nat

Ports == 1..MaxPort

----------------------------------------------------------------------------
(* Config::validate                                                        *)

Distinct(s) == \A i, j \in DOMAIN s : s[i] = s[j] => i = j

(* A specific address the stream listener accepts; "any" is 0.0.0.0 or ::. *)
ValidAdvertise(c) ==
    \/ c.advertise = "none"
    \/ c.advertise \in {"v4", "v6"}
       /\ (c.bind \in {c.advertise, "any6"} \/ <<c.advertise, c.bind>> = <<"v4", "any4">>)

ValidPlayers(c) ==
    /\ \A i \in DOMAIN c.players : c.players[i] \in EntityIds
    /\ Distinct(c.players)
    /\ c.players # <<>> => c.haUrl

ValidSync(c) ==
    /\ \A o \in c.offsets : o \in -MaxOffset..MaxOffset
    /\ c.deadline <= MaxDeadline /\ c.window <= c.deadline

Valid(c) ==
    /\ {c.http, c.base, c.diag} \subseteq Ports
    /\ ValidAdvertise(c) /\ ValidPlayers(c) /\ ValidSync(c)
    /\ c.codec \in {"mp3", "wav"}

(* The add-on's config.toml: fixed port, URL and codec names; Nothing when *)
(* render-ha-config fails, and run.sh then starts nothing.                 *)
Rendered(options, nothing) ==
    LET c == [options EXCEPT !.http = 7, !.haUrl = TRUE]
    IN  IF Valid(c) THEN c ELSE nothing

----------------------------------------------------------------------------
(* filter_zones: the visible rooms the include and exclude lists leave, in *)
(* the order of their ids.                                                 *)
Filtered(c, zones) ==
    {i \in DOMAIN zones :
        /\ zones[i].visible
        /\ c.include = {} \/ zones[i].room \in c.include
        /\ zones[i].room \notin c.exclude}

Sorted(S) ==
    CHOOSE s \in [1..Cardinality(S) -> S] : \A i, j \in DOMAIN s : i < j => s[i] < s[j]

(* discover_renderers: Sonos rooms, then the players of Home Assistant.    *)
Renderers(c, zones) == Sorted(Filtered(c, zones)) \o c.players

(* allocate_rtsp_port for every place; an overflow fails all of them.      *)
PortAt(c, i) == c.base + (i - 1)

Fits(c, renderers) == \A i \in DOMAIN renderers : PortAt(c, i) <= MaxPort

(* build_endpoints                                                         *)
BuildEndpoints(c, renderers) ==
    [i \in DOMAIN renderers |-> [id |-> renderers[i], port |-> PortAt(c, i)]]

----------------------------------------------------------------------------
(* run_doctor: the checks that fail.  w is what the checks meet: whether   *)
(* the search ended with zones, FFmpeg works, the directories can be       *)
(* written, all Sonos rooms and Home Assistant players answer; and the     *)
(* ports other programs hold.                                              *)

(* endpoint_port_plan: a room whose port would overflow has none.          *)
PlannedPorts(c, renderers) ==
    LET placed == {i \in DOMAIN renderers : PortAt(c, i) <= MaxPort}
    IN  <<c.http, c.diag>> \o [i \in placed |-> PortAt(c, i)]

\* Wrong variant of PortsFree: the own listeners are not held while checking.
PortsFreeOneByOne(ports, taken) == \A i \in DOMAIN ports : ports[i] \notin taken

(* check_listener_ports: every port is free, and planned once.             *)
PortsFree(ports, taken) ==
    Distinct(ports) /\ \A i \in DOMAIN ports : ports[i] \notin taken

(* check_encoder: MP3 needs an FFmpeg that encodes a short sound.          *)
EncoderFails(c, w) == c.codec = "mp3" /\ ~w.ffmpeg

(* check_sonos_reachability asks the rooms that would be bridged.          *)
RoomsFail(c, zones, w) == Filtered(c, zones) # {} /\ ~w.roomsAnswer

(* check_home_assistant: its API, and each player it should have.          *)
PlayersFail(c, w) == c.players # <<>> /\ ~w.playersAnswer

DoctorFails(c, zones, w) ==
    LET found == IF w.found THEN zones ELSE <<>>
        renderers == Renderers(c, found)
    IN  \/ ~Valid(c)
        \/ EncoderFails(c, w)
        \/ ~w.writable
        \/ ~w.found
        \/ RoomsFail(c, found, w)
        \/ PlayersFail(c, w)
        \/ ~Fits(c, renderers)
        \/ ~PortsFree(PlannedPorts(c, renderers), w.taken)
=============================================================================
