------------------------------- MODULE Serve -------------------------------
(***************************************************************************)
(* The life of the process (serve, start_speakers, the pairing stores, the *)
(* shutdown of the bridge) and the commands run beside it: attempts to     *)
(* start the speakers that repeat until one succeeds, a way out at any     *)
(* time, a shutdown under one deadline, crashes and restarts.              *)
(*                                                                         *)
(* Discovery finds the rooms, Endpoints turns them into ports.  A room     *)
(* that plays stands for its session and its zone worker, which            *)
(* BridgeRuntime and ZoneWorker describe.                                  *)
(***************************************************************************)
EXTENDS Discovery, Endpoints

CONSTANTS Configs,     \* the configurations to start with
          Households,  \* the households to start with, as told by each player
          Rooms,       \* ids of rooms and players that may get an endpoint
          PairedRoom,  \* the room whose pairing store is followed
          Contested,   \* ports another program may take
          Clients,     \* AirPlay senders that pair with it
          MaxLives     \* bound: starts of the process

ASSUME ServeAssumption == MaxLives \in Nat /\ EntityIds \subseteq Rooms /\ PairedRoom \in Rooms
                         /\ Contested \subseteq Ports

(* The configured addresses and players; and what a player tells: members  *)
(* with an id, the rooms among them with a name and a location, a member   *)
(* that is told twice in the same way, and some member, itself at least,   *)
(* that can be reached.                                                    *)
ASSUME ConfigsAssumption ==
    \A c \in Configs :
        c.static \subseteq Nat /\ IsFiniteSet(c.static) /\ c.players \in Seq(Rooms)
ASSUME HouseholdsAssumption ==
    \A told \in Households, a \in Players :
        /\ told[a] # Nothing
        /\ Len(told[a]) \in Nat /\ DOMAIN told[a] = 1..Len(told[a])
        /\ \E i \in DOMAIN told[a] : told[a][i].at # Nothing
        /\ \A i \in DOMAIN told[a] : told[a][i].id \in Nat
        /\ \A i, j \in DOMAIN told[a] :
              LET m == told[a][i]
                  n == told[a][j]
              IN  /\ m.visible => m.room # Nothing /\ m.at # Nothing
                  /\ m.id = n.id => m.visible = n.visible /\ m.room = n.room

VARIABLES stage,      \* what the process does
          listeners,  \* "http" and "diag" -> their task
          endpoints,  \* the endpoints of this attempt, in order
          running,    \* the places of those whose server runs
          room,       \* what each room does
          failure,    \* why the last attempt failed
          report,     \* what doctor said last, and the trouble before it
          taken,      \* ports other programs hold
          writable,   \* the state directory can be written
          keys,       \* the pairing store in memory, file: what is on disk
          file,
          unsaved,    \* memory and disk may differ: a save failed, or a reset
          forgot,     \* clients a reset removed while nothing ran
          lives, clean

stores == <<keys, file, unsaved, forgot>>
world == <<taken, writable>>
servers == <<endpoints, running>>
life == <<lives, clean>>
vars == <<given, searchVars, stage, listeners, servers, room, failure, report, world,
          stores, life>>

BeforeStart == {"attempt", "search", "start", "undo", "setup"}
Cleanup == {"drain", "servers", "sessions", "workers"}
Exiting == Cleanup \cup {"leave"}
Stages == {"off", "doctor", "running"} \cup BeforeStart \cup Exiting

NoListeners == [l \in {"http", "diag"} |-> "off"]

(* A pairing store that does not parse.                                    *)
Damaged == Nothing

Init ==
    /\ config \in Configs /\ household \in Households
    /\ SearchIdle /\ trouble = 0
    /\ stage = "off" /\ listeners = NoListeners
    /\ endpoints = <<>> /\ running = {}
    /\ room = [r \in Rooms |-> "quiet"]
    /\ failure = "none" /\ report = Nothing
    /\ taken = {} /\ writable = TRUE
    /\ keys = {} /\ file = {} /\ unsaved = FALSE /\ forgot = {}
    /\ lives = 0 /\ clean = TRUE

PortOf(l) == IF l = "http" THEN config.http ELSE config.diag
OwnPorts == {PortOf(l) : l \in {k \in {"http", "diag"} : listeners[k] = "up"}}
            \cup {endpoints[i].port : i \in running}
Free(p) == p \notin OwnPorts \cup taken

(* What the search leaves behind when its future is gone.                  *)
ForgetSearch ==
    /\ search' = "idle" /\ heard' = {} /\ waiting' = <<>> /\ probes' = {}
    /\ zones' = <<>> /\ topology' = Nothing

----------------------------------------------------------------------------
(* Starting the speakers.                                                  *)

(* main: an invalid configuration ends the process at once.  The two       *)
(* listeners are spawned before the first attempt.                         *)
Launch ==
    /\ stage = "off"
    /\ lives < MaxLives
    /\ lives' = lives + 1
    /\ IF Valid(config)
       THEN /\ stage' = "attempt"
            /\ listeners' = [l \in {"http", "diag"} |-> "binding"]
            /\ room' = [r \in Rooms |-> "quiet"]
            /\ clean' = TRUE
       ELSE UNCHANGED <<stage, listeners, room, clean>>
    /\ UNCHANGED <<given, searchVars, servers, failure, report, world, stores>>

Bind(l) ==
    /\ stage \in BeforeStart \cup {"running"}
    /\ listeners[l] = "binding"
    /\ listeners' = [listeners EXCEPT ![l] = IF Free(PortOf(l)) THEN "up" ELSE "failed"]
    /\ UNCHANGED <<given, searchVars, stage, servers, room, failure, report, world, stores,
                   life>>

(* The error of start_speakers: the page shows it, and serve sleeps.       *)
Fail(why) == stage' = "setup" /\ failure' = why

CreateDirectories ==
    /\ stage = "attempt"
    /\ IF writable
       THEN BeginSearch /\ stage' = "search" /\ UNCHANGED failure
       ELSE Fail("directory") /\ UNCHANGED searchVars
    /\ UNCHANGED <<given, listeners, servers, room, report, world, stores, life>>

Search ==
    /\ stage \in {"search", "doctor"}
    /\ SearchStep
    /\ UNCHANGED <<given, stage, listeners, servers, room, failure, report, world, stores,
                   life>>

(* The rest of discover_renderers, build_endpoints and                     *)
(* persist_endpoint_identities.                                            *)
PlanEndpoints ==
    /\ stage = "search"
    /\ search \in {"done", "failed"}
    /\ LET found == Renderers(config, zones)
       IN  CASE search = "failed" -> Fail("search") /\ UNCHANGED endpoints
             [] search = "done" /\ found = <<>> -> Fail("empty") /\ UNCHANGED endpoints
             [] search = "done" /\ found # <<>> /\ ~Fits(config, found) ->
                  Fail("overflow") /\ UNCHANGED endpoints
             [] search = "done" /\ found # <<>> /\ Fits(config, found) /\ ~writable ->
                  Fail("identities") /\ UNCHANGED endpoints
             [] OTHER ->
                  /\ endpoints' = BuildEndpoints(config, found)
                  /\ stage' = "start"
                  /\ UNCHANGED failure
    /\ ForgetSearch
    /\ UNCHANGED <<given, seeds, trouble, listeners, running, room, report, world,
                   stores, life>>

(* start_airplay_endpoints, the next endpoint: its pairing store is loaded *)
(* and its server takes exactly its port, or those that run are stopped.   *)
Next1 == Cardinality(running) + 1

\* Wrong variant of LoadStore: the keys of the last attempt are kept.
LoadStoreToo(e) ==
    IF e.id = PairedRoom THEN keys' = keys \cup file /\ unsaved' = FALSE
                         ELSE UNCHANGED <<keys, unsaved>>

LoadStore(e) ==
    IF e.id = PairedRoom THEN keys' = file /\ unsaved' = FALSE
                         ELSE UNCHANGED <<keys, unsaved>>

StartEndpoint ==
    /\ stage = "start"
    /\ Next1 \in DOMAIN endpoints
    /\ LET e == endpoints[Next1]
       IN  IF e.id = PairedRoom /\ file = Damaged
           THEN /\ stage' = "undo" /\ failure' = "pairings"
                /\ UNCHANGED <<running, keys, unsaved>>
           ELSE /\ LoadStore(e)
                /\ IF Free(e.port)
                   THEN running' = running \cup {Next1} /\ UNCHANGED <<stage, failure>>
                   ELSE stage' = "undo" /\ failure' = "port" /\ UNCHANGED running
    /\ UNCHANGED <<given, searchVars, listeners, endpoints, room, report, world, file,
                   forgot, life>>

(* The servers that run are stopped, then start_speakers fails.            *)
UndoStart ==
    /\ stage = "undo"
    /\ IF running = {}
       THEN stage' = "setup" /\ endpoints' = <<>> /\ UNCHANGED running
       ELSE /\ running' = running \ {CHOOSE i \in running : \A j \in running : i <= j}
            /\ UNCHANGED <<stage, endpoints>>
    /\ UNCHANGED <<given, searchVars, listeners, room, failure, report, world, stores,
                   life>>

(* All endpoints are up: the runtime is made and the page says Running.    *)
Started ==
    /\ stage = "start"
    /\ running = DOMAIN endpoints
    /\ stage' = "running" /\ failure' = "none"
    /\ UNCHANGED <<given, searchVars, listeners, servers, room, report, world, stores, life>>

\* Wrong variant of Retry: only a search that found nothing is repeated.
RetryEmpty ==
    /\ stage = "setup"
    /\ failure \in {"search", "empty"}
    /\ stage' = "attempt"
    /\ UNCHANGED <<given, searchVars, listeners, servers, room, failure, report, world, stores,
                   life>>

(* SETUP_RETRY passed.                                                     *)
Retry ==
    /\ stage = "setup"
    /\ stage' = "attempt"
    /\ UNCHANGED <<given, searchVars, listeners, servers, room, failure, report, world, stores,
                   life>>

----------------------------------------------------------------------------
(* While it runs.                                                          *)

Serves(r) == \E i \in running : endpoints[i].id = r

RoomPlays(r) ==
    /\ stage = "running" /\ Serves(r)
    /\ room[r] = "quiet"
    /\ room' = [room EXCEPT ![r] = "playing"]
    /\ UNCHANGED <<given, searchVars, stage, listeners, servers, failure, report, world, stores,
                   life>>

RoomQuiet(r) ==
    /\ stage = "running"
    /\ room[r] = "playing"
    /\ room' = [room EXCEPT ![r] = "quiet"]
    /\ UNCHANGED <<given, searchVars, stage, listeners, servers, failure, report, world, stores,
                   life>>

(* FilePairingStore::put and remove: memory first, then the whole file,    *)
(* replaced atomically; a save that fails is only logged.                  *)
Save(next) ==
    /\ keys' = next
    /\ \/ writable /\ file' = next /\ unsaved' = FALSE /\ UNCHANGED trouble
       \/ /\ UNCHANGED file /\ unsaved' = TRUE
          /\ IF writable THEN Trouble ELSE UNCHANGED trouble

\* Wrong variant of Pair: the file is written before the key is added.
PairLate(c) ==
    /\ Serves(PairedRoom) /\ stage \in Stages \ {"off", "leave"}
    /\ c \notin keys
    /\ keys' = keys \cup {c}
    /\ file' = IF writable THEN keys ELSE file
    /\ forgot' = forgot \ {c}
    /\ UNCHANGED <<given, search, heard, seeds, waiting, probes, zones, topology, trouble, stage,
                   listeners, servers, room, failure, report, world, unsaved, life>>

Pair(c) ==
    /\ Serves(PairedRoom)
    /\ c \notin keys
    /\ Save(keys \cup {c})
    /\ forgot' = forgot \ {c}
    /\ UNCHANGED <<given, search, heard, seeds, waiting, probes, zones, topology, stage,
                   listeners, servers, room, failure, report, world, life>>

Unpair(c) ==
    /\ Serves(PairedRoom)
    /\ c \in keys
    /\ Save(keys \ {c})
    /\ UNCHANGED <<given, search, heard, seeds, waiting, probes, zones, topology, stage,
                   listeners, servers, room, failure, report, world, forgot, life>>

----------------------------------------------------------------------------
(* The way out.                                                            *)

ListenerFailed == \E l \in {"http", "diag"} : listeners[l] = "failed"

\* Wrong variant of Exit: the sleep between attempts is not interrupted.
ExitAwake ==
    /\ stage \in {"attempt", "search", "start", "undo", "running"}
    /\ stage' = IF stage = "running" THEN "drain" ELSE "leave"
    /\ IF stage = "running"
       THEN UNCHANGED servers
       ELSE running' = {} /\ endpoints' = <<>>
    /\ listeners' = [listeners EXCEPT !["http"] = "off"]
    /\ ForgetSearch
    /\ UNCHANGED <<given, seeds, trouble, room, failure, report, world, stores, life>>

(* A signal, a restart asked for on the page, or a listener that ended; it *)
(* drops the future of start_speakers, and with it the servers that run,   *)
(* or the future of the runtime.                                           *)
Exit ==
    /\ stage \in BeforeStart \cup {"running"}
    /\ stage' = IF stage = "running" THEN "drain" ELSE "leave"
    /\ IF stage = "running"
       THEN UNCHANGED servers
       ELSE running' = {} /\ endpoints' = <<>>
    /\ listeners' = [listeners EXCEPT !["http"] = "off"]
    /\ ForgetSearch
    /\ UNCHANGED <<given, seeds, trouble, room, failure, report, world, stores, life>>

Off(tidy) ==
    /\ stage' = "off" /\ listeners' = NoListeners
    /\ endpoints' = <<>> /\ running' = {} /\ failure' = "none"
    /\ keys' = {} /\ unsaved' = FALSE
    /\ seeds' = {} /\ ForgetSearch
    /\ clean' = tidy

(* Nothing was started: the page's listener drains for at most 10 s.       *)
Leave ==
    /\ stage = "leave"
    /\ Off(TRUE)
    /\ UNCHANGED <<given, trouble, room, report, world, file, forgot, lives>>

(* The cleanup: the page's listener, the servers in order, the sessions,   *)
(* and the workers, which drain their last command.                        *)
DrainPage ==
    /\ stage = "drain"
    /\ stage' = "servers"
    /\ listeners' = NoListeners
    /\ UNCHANGED <<given, searchVars, servers, room, failure, report, world, stores, life>>

StopServer ==
    /\ stage = "servers"
    /\ IF running = {}
       THEN stage' = "sessions" /\ UNCHANGED running
       ELSE /\ running' = running \ {CHOOSE i \in running : \A j \in running : i <= j}
            /\ UNCHANGED stage
    /\ UNCHANGED <<given, searchVars, listeners, endpoints, room, failure, report,
                   world, stores, life>>

\* Wrong variant of StopSessions: the sessions are dropped.
DropSessions ==
    /\ stage = "sessions"
    /\ stage' = "workers"
    /\ UNCHANGED <<given, searchVars, listeners, servers, room, failure, report, world, stores,
                   life>>

(* BridgeRuntime::shutdown: stop_session of every session.                 *)
StopSessions ==
    /\ stage = "sessions"
    /\ stage' = "workers"
    /\ room' = [r \in Rooms |-> IF room[r] = "playing" THEN "stopping" ELSE room[r]]
    /\ UNCHANGED <<given, searchVars, listeners, servers, failure, report, world, stores, life>>

(* ZoneWorker::shutdown: the worker sends its last command, the Stop.      *)
WorkerStops(r) ==
    /\ stage = "workers"
    /\ room[r] = "stopping"
    /\ \/ room' = [room EXCEPT ![r] = "stopped"] /\ UNCHANGED trouble
       \/ room' = [room EXCEPT ![r] = "refused"] /\ Trouble
    /\ UNCHANGED <<given, search, heard, seeds, waiting, probes, zones, topology, stage,
                   listeners, servers, failure, report, world, stores, life>>

CleanupEnds ==
    /\ stage = "workers"
    /\ \A r \in Rooms : room[r] # "stopping"
    /\ Off(TRUE)
    /\ UNCHANGED <<given, trouble, room, report, world, file, forgot, lives>>

(* The ten seconds are over before the cleanup is, or the process is       *)
(* killed at any moment.                                                   *)
Deadline ==
    /\ stage \in Cleanup
    /\ Trouble
    /\ Off(FALSE)
    /\ UNCHANGED <<given, room, report, world, file, forgot, lives>>

Crash ==
    /\ stage \notin {"off", "doctor"}
    /\ Trouble
    /\ Off(FALSE)
    /\ UNCHANGED <<given, room, report, world, file, forgot, lives>>

----------------------------------------------------------------------------
(* Beside the process: doctor, pairings reset, and the outside world.      *)

StartDoctor ==
    /\ stage = "off"
    /\ report = Nothing
    /\ Valid(config)
    /\ stage' = "doctor"
    /\ BeginSearch
    /\ report' = [ok |-> FALSE, trouble |-> trouble]
    /\ UNCHANGED <<given, listeners, servers, room, failure, world, stores, life>>

(* run_doctor, once its search ended.                                      *)
DoctorReports ==
    /\ stage = "doctor"
    /\ search \in {"done", "failed"}
    /\ \E ffmpeg, roomsAnswer, playersAnswer \in BOOLEAN :
          report' = [report EXCEPT !.ok =
              ~DoctorFails(config, zones, [found |-> search = "done", ffmpeg |-> ffmpeg,
                   writable |-> writable, roomsAnswer |-> roomsAnswer,
                   playersAnswer |-> playersAnswer, taken |-> taken])]
    /\ stage' = "off"
    /\ seeds' = {} /\ ForgetSearch
    /\ UNCHANGED <<given, trouble, listeners, servers, room, failure, world, stores, life>>

(* pairings reset: it removes the file, whatever the process remembers.    *)
Reset ==
    /\ writable
    /\ file # {}
    /\ file' = {}
    /\ unsaved' = Serves(PairedRoom)
    /\ forgot' = IF Serves(PairedRoom) \/ file = Damaged THEN forgot ELSE forgot \cup file
    /\ UNCHANGED <<given, searchVars, stage, listeners, servers, room, failure, report, world,
                   keys, life>>

(* Another program takes or frees a port, the directory's permissions      *)
(* change, or the store is damaged by hand or by the disk.                 *)
WorldChanges ==
    /\ Trouble
    /\ \/ \E p \in Contested : taken' = {p} /\ Free(p) /\ UNCHANGED <<writable, file>>
       \/ taken # {} /\ taken' = {} /\ UNCHANGED <<writable, file>>
       \/ writable' = ~writable /\ UNCHANGED <<taken, file>>
       \/ ~Serves(PairedRoom) /\ file' = Damaged /\ UNCHANGED <<taken, writable>>
    /\ UNCHANGED <<given, search, heard, seeds, waiting, probes, zones, topology, stage,
                   listeners, servers, room, failure, report, keys, unsaved, forgot, life>>

----------------------------------------------------------------------------
StartStep ==
    \/ CreateDirectories \/ Search \/ PlanEndpoints \/ StartEndpoint \/ UndoStart \/ Started
    \/ Retry

ExitStep ==
    \/ Leave \/ DrainPage \/ StopServer \/ StopSessions \/ CleanupEnds
    \/ \E r \in Rooms : WorkerStops(r)

Next ==
    \/ Launch \/ StartStep \/ Exit \/ ExitStep \/ Deadline \/ Crash
    \/ \E l \in {"http", "diag"} : Bind(l)
    \/ \E r \in Rooms : RoomPlays(r) \/ RoomQuiet(r)
    \/ \E c \in Clients : Pair(c) \/ Unpair(c)
    \/ StartDoctor \/ DoctorReports \/ Reset \/ WorldChanges

(* The task of serve goes on: searches and requests have deadlines, and    *)
(* the stop of a server does not block.  A failed listener is noticed.     *)
Fairness ==
    /\ WF_vars(StartStep)
    /\ WF_vars(ExitStep)
    /\ \A l \in {"http", "diag"} : WF_vars(Bind(l))
    /\ WF_vars(ListenerFailed /\ Exit)

Spec == Init /\ [][Next]_vars /\ Fairness

----------------------------------------------------------------------------
(* The visible rooms that the filters leave, of the household a told.      *)
RoomsBy(a) ==
    Sorted({r \in RoomsOf(household[a]) : \E i \in DOMAIN household[a] :
        LET m == household[a][i]
        IN  /\ m.id = r
            /\ config.include = {} \/ m.room \in config.include
            /\ m.room \notin config.exclude})

(* All players tell of the same wanted rooms.                              *)
OneHousehold == \A a, b \in Players : RoomsBy(a) = RoomsBy(b)

(* Whichever players answer, in whatever order and however few: the bridge *)
(* starts with every wanted room of a household, each on the port its      *)
(* place gives it, then the players of Home Assistant.  Rooms are missed   *)
(* only when no player was heard of at all.                                *)
StartsWithTheRooms ==
    stage = "running" =>
        LET of(rooms) == BuildEndpoints(config, rooms \o config.players)
        IN  IF seeds = {} THEN endpoints = of(<<>>)
            ELSE \E a \in seeds \cap Players : endpoints = of(RoomsBy(a))

(* "Run doctor as the same user that runs the service": what makes a start *)
(* fail, or a listener, and was so already when doctor ran, doctor found.  *)
(* It does not fail when no room matches and does not read the pairing     *)
(* stores; and players of two households may answer it in another order.   *)
DoctorForetellsStart ==
    report # Nothing /\ stage # "doctor" /\ report.ok /\ report.trouble = trouble
        /\ OneHousehold =>
            failure \in {"none", "empty", "pairings"} /\ ~ListenerFailed

(* "Pairings survive daemon restart": what an endpoint knows is on disk,   *)
(* so that the next process knows it even after a crash, unless a save     *)
(* failed or the file was reset under it.                                  *)
PairingsSurvive == Serves(PairedRoom) /\ ~unsaved => keys = file

(* A client that "pairings reset" removed while the room was not served is *)
(* unknown until it pairs again.                                           *)
ResetForgets ==
    /\ Serves(PairedRoom) => forgot \cap keys = {}
    /\ file # Damaged => forgot \cap file = {}

(* When the process ended and its deadline did not pass, no room plays on  *)
(* that was not told to stop.                                              *)
RoomsStopped ==
    stage = "off" /\ clean => \A r \in Rooms : room[r] \in {"quiet", "stopped", "refused"}

(* Nothing outside keeps the speakers from starting.                       *)
CanStart ==
    /\ writable /\ file # Damaged
    /\ \A a \in Players :
          LET found == RoomsBy(a) \o config.players
          IN  /\ found # <<>> /\ Fits(config, found)
              /\ PortsFree(PlannedPorts(config, found), taken)

(* serve "keeps the GUI up and retries": it does not try for ever once     *)
(* nothing outside keeps it from starting.                                 *)
StartsWhenItCan == []<>~(stage \in BeforeStart /\ CanStart)

(* A listener that failed, and any other reason to exit, ends the process  *)
(* in whatever stage it meets it.                                          *)
ExitEnds == ListenerFailed \/ stage \in Exiting ~> stage = "off"
=============================================================================
