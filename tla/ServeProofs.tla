---------------------------- MODULE ServeProofs -----------------------------
(***************************************************************************)
(* Proofs about Serve, for every configuration, household, set of clients  *)
(* and number of starts and troubles: pairings survive, a reset forgets,   *)
(* a process that ends in time leaves no room playing, the bridge starts   *)
(* with the rooms of a household, and doctor foretells the start.          *)
(***************************************************************************)
EXTENDS Serve, FiniteSetTheorems, SequenceTheorems, WellFoundedInduction, TLAPS

(* Stages in which no AirPlay server runs.                                 *)
NoServers == {"off", "doctor", "attempt", "search", "setup", "leave", "sessions", "workers"}

(* Endpoints are replaced only while no server runs, so that a server that *)
(* runs keeps the room it serves.                                          *)
ServersInv ==
    /\ stage \in Stages
    /\ stage \in NoServers => running = {}

(* A room that is not quiet was started by a runtime that still has it, or *)
(* was told to stop, unless the process ended without its cleanup.         *)
RoomsInv ==
    /\ stage \in Stages
    /\ room = [r \in Rooms |-> room[r]]
    /\ stage \in BeforeStart \cup {"leave"} => \A r \in Rooms : room[r] = "quiet"
    /\ stage \in {"running", "drain", "servers", "sessions"} =>
          \A r \in Rooms : room[r] \in {"quiet", "playing"}
    /\ stage = "workers" =>
          \A r \in Rooms : room[r] \in {"quiet", "stopping", "stopped", "refused"}
    /\ stage \in {"off", "doctor"} /\ clean =>
          \A r \in Rooms : room[r] \in {"quiet", "stopped", "refused"}

(* What an endpoint knows, what is on disk and what was forgotten.         *)
StoresInv == PairingsSurvive /\ ResetForgets

IInv == ServersInv /\ RoomsInv /\ StoresInv

----------------------------------------------------------------------------
(* What each step does to the stage and to the servers.                    *)

LEMMA ServersStep == ASSUME ServersInv, [Next]_vars PROVE ServersInv'
<1> USE DEF ServersInv, NoServers, Stages, BeforeStart, Exiting, Cleanup
<1>1. CASE Launch
  BY <1>1 DEF Launch, servers
<1>2. CASE CreateDirectories
  BY <1>2 DEF CreateDirectories, servers, Fail
<1>3. CASE Search
  BY <1>3 DEF Search, servers
<1>4. CASE PlanEndpoints
  <2>1. running' = running /\ stage' \in {"setup", "start"} /\ stage = "search"
    BY <1>4 DEF PlanEndpoints, Fail
  <2> QED
    BY <2>1
<1>5. CASE StartEndpoint
  BY <1>5 DEF StartEndpoint
<1>6. CASE UndoStart
  BY <1>6 DEF UndoStart
<1>7. CASE Started
  BY <1>7 DEF Started, servers
<1>8. CASE Retry
  BY <1>8 DEF Retry, servers
<1>9. CASE Exit
  BY <1>9 DEF Exit, servers
<1>10. CASE Leave
  BY <1>10 DEF Leave, Off
<1>11. CASE DrainPage
  BY <1>11 DEF DrainPage, servers
<1>12. CASE StopServer
  BY <1>12 DEF StopServer
<1>13. CASE StopSessions
  BY <1>13 DEF StopSessions, servers
<1>14. CASE CleanupEnds
  BY <1>14 DEF CleanupEnds, Off
<1>15. CASE Deadline
  BY <1>15 DEF Deadline, Off
<1>16. CASE Crash
  BY <1>16 DEF Crash, Off
<1>17. CASE StartDoctor
  BY <1>17 DEF StartDoctor, servers
<1>18. CASE DoctorReports
  BY <1>18 DEF DoctorReports, servers
<1>19. CASE Reset
  BY <1>19 DEF Reset, servers
<1>20. CASE WorldChanges
  BY <1>20 DEF WorldChanges, servers
<1>21. CASE \E r \in Rooms : WorkerStops(r) \/ RoomPlays(r) \/ RoomQuiet(r)
  BY <1>21 DEF WorkerStops, RoomPlays, RoomQuiet, servers
<1>22. CASE \E l \in {"http", "diag"} : Bind(l)
  BY <1>22 DEF Bind, servers
<1>23. CASE \E c \in Clients : Pair(c) \/ Unpair(c)
  BY <1>23 DEF Pair, Unpair, servers
<1>24. CASE UNCHANGED vars
  BY <1>24 DEF vars, servers
<1> QED
  BY <1>1, <1>2, <1>3, <1>4, <1>5, <1>6, <1>7, <1>8, <1>9, <1>10, <1>11, <1>12, <1>13, <1>14,
     <1>15, <1>16, <1>17, <1>18, <1>19, <1>20, <1>21, <1>22, <1>23, <1>24
     DEF Next, StartStep, ExitStep

----------------------------------------------------------------------------
(* Steps that start no server and change no store keep what is said of     *)
(* them.                                                                   *)
LEMMA StoresKept ==
    ASSUME StoresInv, UNCHANGED <<endpoints, stores>>, running' \subseteq running
    PROVE  StoresInv'
<1>1. UNCHANGED <<endpoints, keys, file, unsaved, forgot>>
  BY DEF stores
<1>2. Serves(PairedRoom)' => Serves(PairedRoom)
  BY <1>1 DEF Serves
<1> QED
  BY <1>1, <1>2 DEF StoresInv, PairingsSurvive, ResetForgets

(* Nor do steps after which no server runs and nothing is remembered.      *)
LEMMA StoresDropped ==
    ASSUME StoresInv, running' = {}, UNCHANGED <<file, forgot>>
    PROVE  StoresInv'
<1>1. ~Serves(PairedRoom)'
  BY DEF Serves
<1> QED
  BY <1>1 DEF StoresInv, PairingsSurvive, ResetForgets

LEMMA StoresStep == ASSUME ServersInv, StoresInv, [Next]_vars PROVE StoresInv'
<1>1. CASE StartEndpoint
  <2> DEFINE e == endpoints[Next1]
  <2>1. UNCHANGED <<endpoints, file, forgot>>
    BY <1>1 DEF StartEndpoint
  <2>2. CASE running' = running /\ UNCHANGED <<keys, unsaved>>
    BY <2>1, <2>2, StoresKept DEF stores
  <2>3. CASE e.id = PairedRoom /\ file # Damaged /\ keys' = file /\ unsaved' = FALSE
    BY <2>1, <2>3 DEF StoresInv, PairingsSurvive, ResetForgets
  <2>4. CASE e.id # PairedRoom /\ UNCHANGED <<keys, unsaved>>
               /\ running' \subseteq running \cup {Next1}
    <3>1. Serves(PairedRoom)' => Serves(PairedRoom)
      BY <2>1, <2>4 DEF Serves
    <3> QED
      BY <2>1, <2>4, <3>1 DEF StoresInv, PairingsSurvive, ResetForgets
  <2>5. \/ running' = running /\ UNCHANGED <<keys, unsaved>>
        \/ /\ ~(e.id = PairedRoom /\ file = Damaged)
           /\ LoadStore(e)
           /\ running' \subseteq running \cup {Next1}
    BY <1>1 DEF StartEndpoint
  <2> QED
    BY <2>2, <2>3, <2>4, <2>5 DEF LoadStore
<1>2. ASSUME NEW c \in Clients, Pair(c) PROVE StoresInv'
  <2>1. /\ UNCHANGED <<endpoints, running>> /\ Serves(PairedRoom)
        /\ forgot' = forgot \ {c} /\ keys' = keys \cup {c}
        /\ \/ file' = keys' /\ unsaved' = FALSE
           \/ UNCHANGED file /\ unsaved' = TRUE
    BY <1>2 DEF Pair, Save, servers
  <2>2. forgot' \cap keys' = {}
    BY <2>1 DEF StoresInv, ResetForgets
  <2>3. file' # Damaged => forgot' \cap file' = {}
    BY <2>1, <2>2 DEF StoresInv, ResetForgets
  <2> QED
    BY <2>1, <2>2, <2>3 DEF StoresInv, PairingsSurvive, ResetForgets
<1>3. ASSUME NEW c \in Clients, Unpair(c) PROVE StoresInv'
  <2>1. /\ UNCHANGED <<endpoints, running, forgot>> /\ Serves(PairedRoom)
        /\ keys' = keys \ {c}
        /\ \/ file' = keys' /\ unsaved' = FALSE
           \/ UNCHANGED file /\ unsaved' = TRUE
    BY <1>3 DEF Unpair, Save, servers
  <2>2. forgot' \cap keys' = {}
    BY <2>1 DEF StoresInv, ResetForgets
  <2>3. file' # Damaged => forgot' \cap file' = {}
    BY <2>1, <2>2 DEF StoresInv, ResetForgets
  <2> QED
    BY <2>1, <2>2, <2>3 DEF StoresInv, PairingsSurvive, ResetForgets
<1>4. CASE Reset
  <2>1. /\ UNCHANGED <<endpoints, running, keys>> /\ file' = {}
        /\ unsaved' = Serves(PairedRoom)
        /\ Serves(PairedRoom) => forgot' = forgot
    BY <1>4 DEF Reset, servers
  <2>2. Serves(PairedRoom)' = Serves(PairedRoom)
    BY <2>1 DEF Serves
  <2>3. Serves(PairedRoom) => forgot \cap keys = {}
    BY DEF StoresInv, ResetForgets
  <2> QED
    BY <2>1, <2>2, <2>3 DEF StoresInv, PairingsSurvive, ResetForgets
<1>5. CASE WorldChanges
  <2>1. /\ UNCHANGED <<endpoints, running, keys, unsaved, forgot>>
        /\ UNCHANGED file \/ (~Serves(PairedRoom) /\ file' = Damaged)
    BY <1>5 DEF WorldChanges, servers
  <2>2. Serves(PairedRoom)' = Serves(PairedRoom)
    BY <2>1 DEF Serves
  <2> QED
    BY <2>1, <2>2 DEF StoresInv, PairingsSurvive, ResetForgets
<1>6. CASE PlanEndpoints
  <2>1. running' = {}
    BY <1>6 DEF PlanEndpoints, ServersInv, NoServers
  <2> QED
    BY <1>6, <2>1, StoresDropped DEF PlanEndpoints, stores
<1>7. CASE UndoStart
  <2>1. CASE running = {}
    BY <1>7, <2>1, StoresDropped DEF UndoStart, stores
  <2>2. CASE running # {}
    BY <1>7, <2>2, StoresKept DEF UndoStart
  <2> QED
    BY <2>1, <2>2
<1>8. CASE Exit
  <2>1. CASE stage = "running"
    BY <1>8, <2>1, StoresKept DEF Exit, servers
  <2>2. CASE stage # "running"
    BY <1>8, <2>2, StoresDropped DEF Exit, stores
  <2> QED
    BY <2>1, <2>2
<1>9. CASE Leave \/ CleanupEnds \/ Deadline \/ Crash
  BY <1>9, StoresDropped DEF Leave, CleanupEnds, Deadline, Crash, Off
<1>10. CASE StopServer
  BY <1>10, StoresKept DEF StopServer
<1>11. CASE \/ Launch \/ CreateDirectories \/ Search \/ Started \/ Retry
            \/ DrainPage \/ StopSessions \/ StartDoctor \/ DoctorReports
  BY <1>11, StoresKept
     DEF Launch, CreateDirectories, Search, Started, Retry, DrainPage, StopSessions,
         StartDoctor, DoctorReports, servers
<1>12. CASE \/ \E r \in Rooms : WorkerStops(r) \/ RoomPlays(r) \/ RoomQuiet(r)
            \/ \E l \in {"http", "diag"} : Bind(l)
  BY <1>12, StoresKept DEF WorkerStops, RoomPlays, RoomQuiet, Bind, servers
<1>13. CASE UNCHANGED vars
  BY <1>13, StoresKept DEF vars, servers
<1> QED
  BY <1>1, <1>2, <1>3, <1>4, <1>5, <1>6, <1>7, <1>8, <1>9, <1>10, <1>11, <1>12, <1>13
     DEF Next, StartStep, ExitStep
----------------------------------------------------------------------------
(* What the rooms do in each stage.                                        *)
LEMMA RoomsStep == ASSUME RoomsInv, [Next]_vars PROVE RoomsInv'
<1> USE DEF RoomsInv, Stages, BeforeStart, Exiting, Cleanup
<1>1. CASE Launch
  BY <1>1 DEF Launch
<1>2. CASE CreateDirectories
  BY <1>2 DEF CreateDirectories, Fail, life
<1>3. CASE Search
  BY <1>3 DEF Search, life
<1>4. CASE PlanEndpoints
  <2>1. UNCHANGED room /\ stage' \in {"setup", "start"} /\ stage = "search"
    BY <1>4 DEF PlanEndpoints, Fail
  <2> QED
    BY <2>1
<1>5. CASE StartEndpoint
  <2>1. UNCHANGED room /\ stage' \in {"start", "undo"} /\ stage = "start"
    BY <1>5 DEF StartEndpoint
  <2> QED
    BY <2>1
<1>6. CASE UndoStart
  BY <1>6 DEF UndoStart
<1>7. CASE Started
  BY <1>7 DEF Started
<1>8. CASE Retry
  BY <1>8 DEF Retry
<1>9. CASE Exit
  BY <1>9 DEF Exit
<1>10. CASE Leave
  BY <1>10 DEF Leave, Off
<1>11. CASE DrainPage
  BY <1>11 DEF DrainPage
<1>12. CASE StopServer
  BY <1>12 DEF StopServer
<1>13. CASE StopSessions
  BY <1>13 DEF StopSessions
<1>14. CASE CleanupEnds
  BY <1>14 DEF CleanupEnds, Off
<1>15. CASE Deadline
  BY <1>15 DEF Deadline, Off
<1>16. CASE Crash
  BY <1>16 DEF Crash, Off
<1>17. CASE StartDoctor
  BY <1>17 DEF StartDoctor, life
<1>18. CASE DoctorReports
  BY <1>18 DEF DoctorReports, life
<1>19. CASE Reset
  BY <1>19 DEF Reset, life
<1>20. CASE WorldChanges
  BY <1>20 DEF WorldChanges, life
<1>21. ASSUME NEW r \in Rooms, WorkerStops(r) PROVE RoomsInv'
  BY <1>21 DEF WorkerStops, life
<1>22. ASSUME NEW r \in Rooms, RoomPlays(r) \/ RoomQuiet(r) PROVE RoomsInv'
  BY <1>22 DEF RoomPlays, RoomQuiet, life
<1>23. CASE \E l \in {"http", "diag"} : Bind(l)
  BY <1>23 DEF Bind, life
<1>24. CASE \E c \in Clients : Pair(c) \/ Unpair(c)
  BY <1>24 DEF Pair, Unpair, life
<1>25. CASE UNCHANGED vars
  BY <1>25 DEF vars, life
<1> QED
  BY <1>1, <1>2, <1>3, <1>4, <1>5, <1>6, <1>7, <1>8, <1>9, <1>10, <1>11, <1>12, <1>13, <1>14,
     <1>15, <1>16, <1>17, <1>18, <1>19, <1>20, <1>21, <1>22, <1>23, <1>24, <1>25
     DEF Next, StartStep, ExitStep

----------------------------------------------------------------------------
(* The invariant holds in every reachable state.                           *)
THEOREM Invariant == Spec => []IInv
<1>1. Init => IInv
  BY DEF Init, IInv, ServersInv, NoServers, RoomsInv, StoresInv, PairingsSurvive, ResetForgets,
         Serves, Stages, BeforeStart, Exiting, Cleanup
<1>2. IInv /\ [Next]_vars => IInv'
  BY ServersStep, StoresStep, RoomsStep DEF IInv
<1> QED
  BY <1>1, <1>2, PTL DEF Spec

(* Whatever fails and whenever the process crashes: what a served room     *)
(* remembers of its clients is on disk, unless a save of it failed or the  *)
(* file was reset under it.                                                *)
THEOREM PairingsAreKept == Spec => []PairingsSurvive
<1>1. IInv => PairingsSurvive
  BY DEF IInv, StoresInv
<1> QED
  BY <1>1, Invariant, PTL

(* A client removed by a reset beside the process stays removed, in memory *)
(* and on disk, until it pairs again.                                      *)
THEOREM ResetIsKept == Spec => []ResetForgets
<1>1. IInv => ResetForgets
  BY DEF IInv, StoresInv
<1> QED
  BY <1>1, Invariant, PTL

(* A process that ended in its time told every room that played to stop.   *)
THEOREM EveryRoomIsStopped == Spec => []RoomsStopped
<1>1. IInv => RoomsStopped
  BY DEF IInv, RoomsInv, RoomsStopped
<1> QED
  BY <1>1, Invariant, PTL

----------------------------------------------------------------------------
(* Natural numbers have a least one.                                       *)
LEMMA LeastNatural ==
    ASSUME NEW S, S \subseteq Nat, S # {}
    PROVE  \E x \in S : \A y \in S : x <= y
<1>1. PICK x \in S : \A y \in S : <<y, x>> \notin OpToRel(<, Nat)
  BY WFMin, NatLessThanWellFounded, Zenon
<1>2. \A y \in S : ~ (y < x)
  BY <1>1, Zenon DEF OpToRel
<1>3. \A y \in S : x <= y
  BY <1>2, SMT
<1> QED
  BY <1>3, Zenon

(* The first number with which something fails, none before it.            *)
LEMMA FirstFailure ==
    ASSUME NEW N \in Nat, NEW S, S \subseteq 0..N, S # {}, 0 \notin S
    PROVE  \E n \in S : n \in 1..N /\ n - 1 \in 0..N /\ n - 1 \notin S
<1>1. S \subseteq Nat
  OBVIOUS
<1>2. PICK n \in S : \A y \in S : n <= y
  BY <1>1, LeastNatural
<1>3. n \in 0..N /\ n # 0
  OBVIOUS
<1>4. n \in 1..N /\ n - 1 \in 0..N /\ ~(n <= n - 1)
  BY <1>3
<1> QED
  BY <1>2, <1>4

----------------------------------------------------------------------------
(* Finite sets of numbers in their order.                                  *)

(* The numbers of S, from the smallest to the largest.                     *)
Ascending(s, S) ==
    /\ s \in [1..Cardinality(S) -> S]
    /\ \A i, j \in DOMAIN s : i < j => s[i] < s[j]

(* A new smallest number goes before those that are in order.              *)
LEMMA PutFirst ==
    ASSUME NEW S, S \subseteq Nat, IsFiniteSet(S), NEW x \in S, \A y \in S : x <= y,
           NEW s, Ascending(s, S \ {x})
    PROVE  \E t : Ascending(t, S)
<1> DEFINE n == Cardinality(S)
           t == [i \in 1..n |-> IF i = 1 THEN x ELSE s[i - 1]]
<1>1. n \in Nat /\ Cardinality(S \ {x}) = n - 1 /\ n # 0
  <2>1. n \in Nat
    BY FS_CardinalityType
  <2>2. Cardinality(S \ {x}) = n - 1
    BY FS_RemoveElement
  <2>3. n # 0
    BY FS_EmptySet
  <2> QED
    BY <2>1, <2>2, <2>3
<1>2. s \in [1..(n - 1) -> S \ {x}] /\ \A i, j \in 1..(n - 1) : i < j => s[i] < s[j]
  BY <1>1 DEF Ascending
<1> HIDE DEF n
<1>3. \A i \in 1..n : i # 1 => i - 1 \in 1..(n - 1) /\ s[i - 1] \in S /\ x < s[i - 1]
  <2> SUFFICES ASSUME NEW i \in 1..n, i # 1
               PROVE  i - 1 \in 1..(n - 1) /\ s[i - 1] \in S /\ x < s[i - 1]
    OBVIOUS
  <2>1. i - 1 \in 1..(n - 1)
    BY <1>1
  <2>2. s[i - 1] \in S \ {x}
    BY <1>2, <2>1
  <2>3. s[i - 1] \in Nat /\ x \in Nat /\ s[i - 1] # x /\ x <= s[i - 1]
    BY <2>2
  <2>4. x < s[i - 1]
    BY <2>3
  <2> QED
    BY <2>1, <2>2, <2>4, Zenon
<1>4. t \in [1..n -> S]
  BY <1>3
<1>5. ASSUME NEW i \in 1..n, NEW j \in 1..n, i < j
      PROVE  t[i] < t[j]
  <2>1. j # 1 /\ j - 1 \in 1..(n - 1)
    BY <1>1, <1>3, <1>5
  <2>2. CASE i = 1
    BY <1>3, <2>1, <2>2
  <2>3. CASE i # 1
    <3>1. i - 1 \in 1..(n - 1) /\ i - 1 < j - 1
      BY <1>3, <1>5, <2>3
    <3>2. s[i - 1] < s[j - 1]
      BY <1>2, <2>1, <3>1
    <3>3. t[i] = s[i - 1] /\ t[j] = s[j - 1]
      BY <2>1, <2>3
    <3> QED
      BY <3>2, <3>3
  <2> QED
    BY <2>2, <2>3
<1>6. Ascending(t, S)
  BY <1>4, <1>5 DEF Ascending, n
<1> QED
  BY <1>6

(* Every finite set of numbers has its order.                              *)
LEMMA InOrderExists ==
    ASSUME NEW S, S \subseteq Nat, IsFiniteSet(S)
    PROVE  \E s : Ascending(s, S)
<1> DEFINE Bad == {n \in Nat : \E T \in SUBSET S :
                                  Cardinality(T) = n /\ ~\E s : Ascending(s, T)}
<1>1. Bad = {}
  <2> SUFFICES ASSUME Bad # {} PROVE FALSE
    OBVIOUS
  <2>1. PICK n \in Bad : \A m \in Bad : n <= m
    BY LeastNatural
  <2>2. PICK T \in SUBSET S : Cardinality(T) = n /\ ~\E s : Ascending(s, T)
    OBVIOUS
  <2>3. IsFiniteSet(T) /\ T \subseteq Nat /\ n \in Nat
    BY FS_Subset
  <2>4. T # {}
    <3> SUFFICES ASSUME T = {} PROVE FALSE
      OBVIOUS
    <3> DEFINE none == [i \in 1..0 |-> 0]
    <3>1. n = 0
      BY <2>2, FS_EmptySet
    <3>2. none \in [1..0 -> T] /\ \A i, j \in DOMAIN none : FALSE
      OBVIOUS
    <3> HIDE DEF none
    <3>3. Ascending(none, T)
      BY <2>2, <3>1, <3>2 DEF Ascending
    <3> QED
      BY <2>2, <3>3
  <2>5. PICK x \in T : \A y \in T : x <= y
    BY <2>3, <2>4, LeastNatural
  <2> DEFINE R == T \ {x}
  <2>6. IsFiniteSet(R) /\ Cardinality(R) = n - 1
    BY <2>2, <2>3, FS_RemoveElement
  <2>7. Cardinality(R) \in Nat
    BY <2>6, FS_CardinalityType
  <2>8. R \in SUBSET S /\ Cardinality(R) \notin Bad
    BY <2>1, <2>3, <2>6, <2>7
  <2>9. PICK s : Ascending(s, R)
    BY <2>7, <2>8
  <2> QED
    BY <2>2, <2>3, <2>5, <2>9, PutFirst
<1>2. Cardinality(S) \in Nat /\ S \in SUBSET S
  BY FS_CardinalityType
<1> QED
  BY <1>1, <1>2

(* It holds every number of the set.                                       *)
LEMMA AscendingCovers ==
    ASSUME NEW S, S \subseteq Nat, IsFiniteSet(S), NEW s, Ascending(s, S)
    PROVE  /\ s \in Seq(S) /\ DOMAIN s = 1..Len(s) /\ Len(s) = Cardinality(S)
           /\ Cardinality(S) \in Nat
           /\ \A v \in S : \E i \in DOMAIN s : s[i] = v
<1> DEFINE n == Cardinality(S)
<1>1. n \in Nat
  BY FS_CardinalityType
<1>2. s \in [1..n -> S] /\ \A i, j \in 1..n : i < j => s[i] < s[j]
  BY DEF Ascending
<1> HIDE DEF n
<1>3. s \in Injection(1..n, S)
  <2>1. ASSUME NEW i \in 1..n, NEW j \in 1..n, s[i] = s[j] PROVE i = j
    <3>1. s[i] \in Nat /\ s[j] \in Nat
      BY <1>2
    <3>2. ~(i < j) /\ ~(j < i)
      BY <1>2, <2>1, <3>1
    <3> QED
      BY <3>2, <1>1
  <2> QED
    BY <1>2, <2>1 DEF Injection, IsInjective
<1>4. Cardinality(1..n) = n
  BY <1>1, FS_Interval
<1>5. s \in Surjection(1..n, S)
  BY <1>3, <1>4, FS_Injection DEF n
<1>6. \A v \in S : \E i \in 1..n : s[i] = v
  BY <1>5 DEF Surjection
<1>7. s \in Seq(S) /\ Len(s) = n /\ DOMAIN s = 1..n
  BY <1>1, <1>2
<1> QED
  BY <1>1, <1>6, <1>7 DEF n

(* The queue of the search holds every seed and nothing else.              *)
LEMMA InOrderCovers ==
    ASSUME NEW S, S \subseteq Nat, IsFiniteSet(S)
    PROVE  /\ InOrder(S) \in Seq(S)
           /\ \A v \in S : \E i \in 1..Len(InOrder(S)) : InOrder(S)[i] = v
<1>1. Ascending(InOrder(S), S)
  <2>1. PICK s : Ascending(s, S)
    BY InOrderExists
  <2> QED
    BY <2>1, Zenon DEF InOrder, Ascending
<1> DEFINE q == InOrder(S)
<1> HIDE DEF q
<1>2. q \in Seq(S) /\ DOMAIN q = 1..Len(q) /\ \A v \in S : \E i \in DOMAIN q : q[i] = v
  BY <1>1, AscendingCovers, Zenon DEF q
<1> QED
  BY <1>2, Zenon DEF q

(* The rooms of a plan are a sequence; none make an empty one.             *)
LEMMA SortedIsSequence ==
    ASSUME NEW S, S \subseteq Nat, IsFiniteSet(S)
    PROVE  Sorted(S) \in Seq(S)
<1>1. Ascending(Sorted(S), S)
  <2>1. PICK s : Ascending(s, S)
    BY InOrderExists
  <2> QED
    BY <2>1, Zenon DEF Sorted, Ascending
<1> QED
  BY <1>1, AscendingCovers

LEMMA NothingSorted == Sorted({}) = <<>>
<1>1. Sorted({}) \in Seq({})
  BY SortedIsSequence, FS_EmptySet
<1> DEFINE s == Sorted({})
<1> HIDE DEF s
<1>2. Len(s) \in Nat /\ \A i \in 1..Len(s) : s[i] \in {}
  BY <1>1 DEF s
<1>3. Len(s) = 0
  BY <1>2
<1>4. s = <<>>
  BY <1>1, <1>3 DEF s
<1> QED
  BY <1>4 DEF s

----------------------------------------------------------------------------
(* The queue of the search.                                                *)

(* The addresses of a queue.                                               *)
Queued(queue) == {queue[i] : i \in 1..Len(queue)}

(* Refill moves addresses from the queue to the probes in flight, up to    *)
(* the limit, and loses none; with no probe in flight the queue is empty.  *)
LEMMA RefillKeeps ==
    ASSUME NEW S, NEW P \in SUBSET S, IsFiniteSet(P), Cardinality(P) <= Parallel,
           NEW queue \in Seq(S), Refill(P, queue)
    PROVE  /\ probes' \in SUBSET S /\ IsFiniteSet(probes') /\ Cardinality(probes') <= Parallel
           /\ waiting' \in Seq(S)
           /\ P \cup Queued(queue) = probes' \cup Queued(waiting')
           /\ probes' = {} => waiting' = <<>>
<1> DEFINE free == Parallel - Cardinality(P)
           n == IF free < Len(queue) THEN free ELSE Len(queue)
           moved == {queue[i] : i \in 1..n}
<1>1. Parallel \in Nat \ {0} /\ Cardinality(P) \in Nat /\ Len(queue) \in Nat
  BY DiscoveryBoundsAssumption, FS_CardinalityType
<1>2. n \in Nat /\ n <= Len(queue) /\ n <= free /\ free \in Nat
      /\ (n = 0 => free = 0 \/ Len(queue) = 0)
  BY <1>1
<1>3. probes' = P \cup moved /\ waiting' = SubSeq(queue, n + 1, Len(queue))
  BY DEF Refill
<1> HIDE DEF free, n
<1>4. \A i \in 1..n : i \in 1..Len(queue) /\ queue[i] \in S
  BY <1>1, <1>2
<1>5. IsFiniteSet(moved) /\ Cardinality(moved) <= n
  <2>1. IsFiniteSet(1..n) /\ Cardinality(1..n) = n
    BY <1>2, FS_Interval
  <2> DEFINE f == [i \in 1..n |-> queue[i]]
  <2>2. f \in Surjection(1..n, moved)
    BY DEF Surjection
  <2> QED
    BY <2>1, <2>2, FS_Surjection
<1>6. probes' \in SUBSET S
  BY <1>3, <1>4
<1>7. IsFiniteSet(probes') /\ Cardinality(probes') <= Parallel
  <2>1. /\ IsFiniteSet(P \cup moved)
        /\ Cardinality(P \cup moved)
              = Cardinality(P) + Cardinality(moved) - Cardinality(P \cap moved)
    BY <1>5, FS_Union
  <2>2. Cardinality(P \cap moved) \in Nat /\ Cardinality(moved) \in Nat
    <3>1. P \cap moved \in SUBSET P
      OBVIOUS
    <3>2. IsFiniteSet(P \cap moved)
      BY <3>1, FS_Subset
    <3> QED
      BY <1>5, <3>2, FS_CardinalityType
  <2>3. Cardinality(P) + Cardinality(moved) - Cardinality(P \cap moved) <= Parallel
    BY <1>1, <1>2, <1>5, <2>2 DEF free
  <2> QED
    BY <1>3, <2>1, <2>3
<1>8. /\ waiting' \in Seq(S)
      /\ Len(waiting') = IF n + 1 <= Len(queue) THEN Len(queue) - n ELSE 0
      /\ \A i \in 1..(Len(queue) - n) : waiting'[i] = queue[n + i]
  <2>1. \A i \in (n + 1)..Len(queue) : queue[i] \in S
    BY <1>1, <1>2
  <2>2. n + 1 \in Int /\ Len(queue) \in Int
    BY <1>1, <1>2
  <2>3. /\ waiting' \in Seq(S)
        /\ Len(waiting') = IF n + 1 <= Len(queue) THEN Len(queue) - (n + 1) + 1 ELSE 0
        /\ \A i \in 1..(Len(queue) - (n + 1) + 1) : waiting'[i] = queue[n + 1 + i - 1]
    BY <1>3, <2>1, <2>2, SubSeqProperties
  <2> QED
    BY <1>1, <1>2, <2>3
<1>9. P \cup Queued(queue) = probes' \cup Queued(waiting')
  <2>1. ASSUME NEW i \in 1..Len(queue) PROVE queue[i] \in moved \cup Queued(waiting')
    <3>1. CASE i \in 1..n
      BY <3>1
    <3>2. CASE i \notin 1..n
      <4>1. i - n \in 1..(Len(queue) - n) /\ n + (i - n) = i /\ n + 1 <= Len(queue)
        BY <1>1, <1>2, <3>2
      <4>2. i - n \in 1..Len(waiting') /\ waiting'[i - n] = queue[i]
        BY <1>8, <4>1
      <4> QED
        BY <4>2 DEF Queued
    <3> QED
      BY <3>1, <3>2
  <2>2. ASSUME NEW i \in 1..Len(waiting') PROVE waiting'[i] \in Queued(queue)
    <3>1. i \in 1..(Len(queue) - n) /\ n + i \in 1..Len(queue)
      BY <1>1, <1>2, <1>8
    <3> QED
      BY <1>8, <3>1 DEF Queued
  <2>3. moved \subseteq Queued(queue)
    BY <1>4 DEF Queued
  <2> QED
    BY <1>3, <2>1, <2>2, <2>3 DEF Queued
<1>10. probes' = {} => waiting' = <<>>
  <2> SUFFICES ASSUME probes' = {} PROVE waiting' = <<>>
    OBVIOUS
  <2>1. P = {} /\ n = 0
    <3>1. P = {} /\ moved = {}
      BY <1>3
    <3>2. n # 0 => queue[1] \in moved
      BY <1>2
    <3> QED
      BY <3>1, <3>2
  <2>2. free # 0
    BY <1>1, <2>1, FS_EmptySet DEF free
  <2>3. Len(queue) = 0
    BY <1>2, <2>1, <2>2
  <2>4. Len(waiting') = 0
    BY <1>8, <2>1, <2>3
  <2> QED
    BY <1>8, <2>4
<1> QED
  BY <1>6, <1>7, <1>8, <1>9, <1>10
----------------------------------------------------------------------------
(* What the topology says of the zones.                                    *)

(* Zones as the search knows them.                                         *)
IsZone(z) == \E r, t, v : z = [room |-> r, at |-> t, visible |-> v]
AreZones(found) == \A i \in DOMAIN found : IsZone(found[i])

(* A member of the topology, applied: only its zone changes.               *)
HasApplied(result, found, m) ==
    /\ AreZones(result)
    /\ DOMAIN result = IF m.at = Nothing THEN DOMAIN found ELSE DOMAIN found \cup {m.id}
    /\ \A i \in DOMAIN found : i # m.id => result[i] = found[i]
    /\ m.id \in DOMAIN result =>
          /\ result[m.id].visible = m.visible
          /\ m.room # Nothing => result[m.id].room = m.room

LEMMA AppliedWhat ==
    ASSUME NEW found, AreZones(found), NEW m
    PROVE  HasApplied(Applied(found, m), found, m)
<1> DEFINE known == IF m.id \in DOMAIN found \/ m.at = Nothing
                    THEN found ELSE Known(found, m.id, Zone(m.room, m.at))
<1>1. /\ DOMAIN known = IF m.at = Nothing THEN DOMAIN found ELSE DOMAIN found \cup {m.id}
      /\ \A i \in DOMAIN found : i # m.id => known[i] = found[i]
      /\ AreZones(known)
  <2>1. CASE m.id \in DOMAIN found \/ m.at = Nothing
    <3>1. known = found
      BY <2>1
    <3> HIDE DEF known
    <3>2. DOMAIN found = IF m.at = Nothing THEN DOMAIN found ELSE DOMAIN found \cup {m.id}
      BY <2>1
    <3> QED
      BY <3>1, <3>2
  <2>2. CASE ~(m.id \in DOMAIN found \/ m.at = Nothing)
    <3> DEFINE new == Zone(m.room, m.at)
    <3>1. known = [i \in DOMAIN found \cup {m.id} |-> IF i = m.id THEN new ELSE found[i]]
      BY <2>2 DEF Known
    <3>2. IsZone(new)
      BY DEF Zone, IsZone
    <3> HIDE DEF known, new
    <3>3. /\ DOMAIN known = DOMAIN found \cup {m.id} /\ known[m.id] = new
          /\ \A i \in DOMAIN found : i # m.id => known[i] = found[i]
      BY <3>1
    <3>4. AreZones(known)
      BY <3>2, <3>3 DEF AreZones
    <3> QED
      BY <2>2, <3>3, <3>4
  <2> QED
    BY <2>1, <2>2
<1> DEFINE result == Applied(found, m)
<1>2. result = IF m.id \notin DOMAIN known THEN known
               ELSE [known EXCEPT ![m.id].visible = m.visible,
                                  ![m.id].room = IF m.room = Nothing THEN @ ELSE m.room]
  BY Zenon DEF Applied
<1> HIDE DEF known, result
<1> SUFFICES HasApplied(result, found, m)
  BY DEF result
<1>3. CASE m.id \notin DOMAIN known
  <2>1. result = known
    BY <1>2, <1>3
  <2> QED
    BY <1>1, <1>3, <2>1 DEF HasApplied
<1>4. CASE m.id \in DOMAIN known
  <2>1. PICK r, t, v : known[m.id] = [room |-> r, at |-> t, visible |-> v]
    BY <1>1, <1>4 DEF AreZones, IsZone
  <2> DEFINE z == [room |-> IF m.room = Nothing THEN r ELSE m.room, at |-> t,
                   visible |-> m.visible]
  <2>2. /\ DOMAIN result = DOMAIN known
        /\ \A i \in DOMAIN known : i # m.id => result[i] = known[i]
        /\ result[m.id] = z
    <3> DEFINE seen == [known EXCEPT ![m.id].visible = m.visible]
    <3>1. result = [seen EXCEPT ![m.id].room = IF m.room = Nothing THEN @ ELSE m.room]
      BY <1>2, <1>4, Zenon
    <3>2. /\ DOMAIN seen = DOMAIN known
          /\ \A i \in DOMAIN known : i # m.id => seen[i] = known[i]
          /\ seen[m.id] = [room |-> r, at |-> t, visible |-> m.visible]
      BY <1>4, <2>1
    <3> HIDE DEF seen
    <3>3. /\ DOMAIN result = DOMAIN seen
          /\ \A i \in DOMAIN seen : i # m.id => result[i] = seen[i]
          /\ result[m.id] = z
      BY <1>4, <3>1, <3>2
    <3> QED
      BY <3>2, <3>3
  <2>3. IsZone(z) /\ z.visible = m.visible /\ (m.room # Nothing => z.room = m.room)
    BY DEF IsZone
  <2> HIDE DEF z
  <2>4. AreZones(result)
    BY <1>1, <2>2, <2>3 DEF AreZones
  <2>5. \A i \in DOMAIN found : i # m.id => i \in DOMAIN known
    BY <1>1
  <2> QED
    BY <1>1, <2>2, <2>3, <2>4, <2>5 DEF HasApplied
<1> QED
  BY <1>3, <1>4

(* A topology, applied: a zone is visible if and only if a visible member  *)
(* says so, and has that member's room.                                    *)
AppliedUpTo(f, found, members, n) ==
    IF n = 0 THEN found ELSE Applied(f[n - 1], members[n])

(* The topology is applied member by member.                               *)
LEMMA TopologySteps ==
    ASSUME NEW found, NEW members, Len(members) \in Nat
    PROVE  \E f : /\ ApplyTopology(found, members) = f[Len(members)]
                  /\ \A n \in 0..Len(members) : f[n] = AppliedUpTo(f, found, members, n)
<1> DEFINE N == Len(members)
           upTo[n \in 0..Len(members)] ==
            IF n = 0 THEN found ELSE Applied(upTo[n - 1], members[n])
<1>1. ApplyTopology(found, members) = upTo[Len(members)]
  BY Zenon DEF ApplyTopology
<1>2. ASSUME NEW f, NEW g, NEW n \in Nat, n # 0 => f[n - 1] = g[n - 1]
      PROVE  AppliedUpTo(f, found, members, n) = AppliedUpTo(g, found, members, n)
  BY <1>2, Zenon DEF AppliedUpTo
<1>3. \E f : \A n \in 0..N : f[n] = AppliedUpTo(f, found, members, n)
  <2> DEFINE Upto(n) == \E f : \A m \in 0..n : f[m] = AppliedUpTo(f, found, members, m)
             S == {n \in 0..N : ~Upto(n)}
  <2>1. Upto(0)
    <3> DEFINE f == [m \in {0} |-> found]
    <3>1. \A m \in 0..0 : m = 0
      OBVIOUS
    <3>2. f[0] = found
      OBVIOUS
    <3> HIDE DEF f
    <3>3. \A m \in 0..0 : f[m] = AppliedUpTo(f, found, members, m)
      BY <3>1, <3>2, Zenon DEF AppliedUpTo
    <3> QED
      BY <3>3, Zenon
  <2>2. ASSUME NEW n \in 1..N, Upto(n - 1)
        PROVE  Upto(n)
    <3>1. PICK f : \A m \in 0..(n - 1) : f[m] = AppliedUpTo(f, found, members, m)
      BY <2>2
    <3> DEFINE g == [m \in 0..n |->
                        IF m = n THEN AppliedUpTo(f, found, members, n) ELSE f[m]]
    <3>2. /\ n \in Nat /\ n \in 0..n
          /\ \A m \in 0..n : m \in Nat
          /\ \A m \in 0..n : m # n => m \in 0..(n - 1)
          /\ \A m \in 0..n : m # 0 => m - 1 \in 0..n /\ m - 1 # n
      OBVIOUS
    <3>3. g[n] = AppliedUpTo(f, found, members, n) /\ \A m \in 0..n : m # n => g[m] = f[m]
      BY <3>2, Zenon
    <3> HIDE DEF g
    <3>4. \A m \in 0..n : AppliedUpTo(g, found, members, m)
                            = AppliedUpTo(f, found, members, m)
      BY <1>2, <3>2, <3>3, Zenon
    <3>5. \A m \in 0..n : g[m] = AppliedUpTo(g, found, members, m)
      BY <3>1, <3>2, <3>3, <3>4, Zenon
    <3> QED
      BY <3>5, Zenon
  <2> HIDE DEF Upto
  <2>3. S = {}
    <3> SUFFICES ASSUME S # {} PROVE FALSE
      OBVIOUS
    <3>1. N \in Nat /\ S \subseteq 0..N /\ 0 \notin S
      BY <2>1
    <3>2. PICK n \in S : n \in 1..N /\ n - 1 \in 0..N /\ n - 1 \notin S
      BY <3>1, FirstFailure, Zenon
    <3> QED
      BY <2>2, <3>2, Zenon
  <2>4. N \in 0..N
    OBVIOUS
  <2>5. Upto(N)
    BY <2>3, <2>4, Zenon
  <2> QED
    BY <2>5, Zenon DEF Upto
<1>4. \E f : f = [n \in 0..Len(members) |-> AppliedUpTo(f, found, members, n)]
  <2>1. PICK f : \A n \in 0..N : f[n] = AppliedUpTo(f, found, members, n)
    BY <1>3, Zenon
  <2> DEFINE g == [n \in 0..N |-> f[n]]
  <2>2. \A n \in 0..N : n \in Nat /\ (n # 0 => n - 1 \in 0..N)
    OBVIOUS
  <2>3. \A n \in 0..N : AppliedUpTo(g, found, members, n) = AppliedUpTo(f, found, members, n)
    <3>1. \A n \in 0..N : g[n] = f[n]
      OBVIOUS
    <3> HIDE DEF g
    <3> QED
      BY <1>2, <2>2, <3>1, Zenon
  <2>4. g = [n \in 0..N |-> AppliedUpTo(g, found, members, n)]
    BY <2>1, <2>3, Zenon
  <2> QED
    BY <2>4, Zenon
<1>5. upTo = [n \in 0..Len(members) |-> AppliedUpTo(upTo, found, members, n)]
  <2> DEFINE g == CHOOSE f : f = [n \in 0..Len(members) |-> AppliedUpTo(f, found, members, n)]
  <2>1. upTo = g
    BY Zenon DEF AppliedUpTo
  <2>2. g = [n \in 0..Len(members) |-> AppliedUpTo(g, found, members, n)]
    BY <1>4, Zenon
  <2> HIDE DEF upTo, g
  <2> QED
    BY <2>1, <2>2, Zenon
<1> HIDE DEF upTo
<1>6. \A n \in 0..Len(members) : upTo[n] = AppliedUpTo(upTo, found, members, n)
  BY <1>5, Zenon
<1> QED
  BY <1>1, <1>6, Zenon

(* The visible member of that id, among the first n.                       *)
Names(members, n, i) == \E k \in 1..n : members[k].id = i /\ members[k].visible

(* What is told of the members: visible ones have a name and a location,   *)
(* and a member is told in one way.                                        *)
WellTold(members) ==
    /\ Len(members) \in Nat /\ DOMAIN members = 1..Len(members)
    /\ \A j \in DOMAIN members : members[j].id \in Nat
    /\ \A j \in DOMAIN members :
          members[j].visible => members[j].room # Nothing /\ members[j].at # Nothing
    /\ \A j, k \in DOMAIN members :
          members[j].id = members[k].id =>
              members[j].visible = members[k].visible /\ members[j].room = members[k].room

(* Before the topology is applied, no zone is visible; after it, exactly   *)
(* the zones are that it names, under the name it tells.                   *)
LEMMA TopologyTells ==
    ASSUME NEW found, AreZones(found), \A i \in DOMAIN found : ~found[i].visible,
           NEW members, WellTold(members)
    PROVE  LET result == ApplyTopology(found, members)
           IN  /\ \A k \in DOMAIN members : members[k].visible =>
                     /\ members[k].id \in DOMAIN result
                     /\ result[members[k].id].visible
                     /\ result[members[k].id].room = members[k].room
               /\ \A i \in DOMAIN result : result[i].visible =>
                     \E k \in DOMAIN members : members[k].id = i /\ members[k].visible
<1> DEFINE N == Len(members)
<1>1. N \in Nat /\ DOMAIN members = 1..N
  BY DEF WellTold
<1>2. PICK f : /\ ApplyTopology(found, members) = f[N]
               /\ \A n \in 0..N : f[n] = AppliedUpTo(f, found, members, n)
  BY <1>1, TopologySteps, Zenon
<1> DEFINE Shown(n) == \A k \in 1..n : members[k].visible =>
                          /\ members[k].id \in DOMAIN f[n]
                          /\ f[n][members[k].id].visible
                          /\ f[n][members[k].id].room = members[k].room
           Told(n) == \A i \in DOMAIN f[n] : f[n][i].visible => Names(members, n, i)
           Right(n) == AreZones(f[n]) /\ Shown(n) /\ Told(n)
           S == {n \in 0..N : ~Right(n)}
<1>3. Right(0)
  <2>1. f[0] = found
    BY <1>1, <1>2 DEF AppliedUpTo
  <2>2. Shown(0)
    OBVIOUS
  <2>3. Told(0)
    BY <2>1
  <2> QED
    BY <2>1, <2>2, <2>3
<1>4. ASSUME NEW n \in 1..N, Right(n - 1) PROVE Right(n)
  <2> DEFINE p == members[n]
             old == f[n - 1]
             new == f[n]
  <2>1. new = Applied(old, p) /\ n \in DOMAIN members /\ n - 1 \in Nat
        /\ 1..n = (1..(n - 1)) \cup {n} /\ \A k \in 1..n : k \in DOMAIN members
    BY <1>1, <1>2 DEF AppliedUpTo
  <2>2. AreZones(old)
    BY <1>4
  <2>3. /\ AreZones(new)
        /\ DOMAIN new = IF p.at = Nothing THEN DOMAIN old ELSE DOMAIN old \cup {p.id}
        /\ \A i \in DOMAIN old : i # p.id => new[i] = old[i]
        /\ p.id \in DOMAIN new =>
              /\ new[p.id].visible = p.visible
              /\ p.room # Nothing => new[p.id].room = p.room
    <3> HIDE DEF p, old, new
    <3>1. HasApplied(new, old, p)
      BY <2>1, <2>2, AppliedWhat, Zenon
    <3> QED
      BY <3>1 DEF HasApplied
  <2>4. Shown(n)
    <3> SUFFICES ASSUME NEW k \in 1..n, members[k].visible
                 PROVE  /\ members[k].id \in DOMAIN new
                        /\ new[members[k].id].visible
                        /\ new[members[k].id].room = members[k].room
      OBVIOUS
    <3>1. k \in DOMAIN members /\ members[k].room # Nothing /\ members[k].at # Nothing
      BY <2>1 DEF WellTold
    <3>2. CASE members[k].id = p.id
      <4>1. p.visible = members[k].visible /\ p.room = members[k].room
            /\ (p.visible => p.room # Nothing /\ p.at # Nothing)
        BY <2>1, <3>1, <3>2 DEF WellTold
      <4> HIDE DEF p, old, new
      <4> QED
        BY <2>3, <3>2, <4>1
    <3>3. CASE members[k].id # p.id
      <4>1. k \in 1..(n - 1)
        BY <2>1, <3>3
      <4>2. /\ members[k].id \in DOMAIN old
            /\ old[members[k].id].visible
            /\ old[members[k].id].room = members[k].room
        BY <1>4, <4>1
      <4> HIDE DEF p, old, new
      <4> QED
        BY <2>3, <3>3, <4>2
    <3> QED
      BY <3>2, <3>3
  <2>5. Told(n)
    <3> SUFFICES ASSUME NEW i \in DOMAIN new, new[i].visible
                 PROVE  Names(members, n, i)
      OBVIOUS
    <3>1. CASE i = p.id
      BY <2>1, <2>3, <3>1 DEF Names
    <3>2. CASE i # p.id
      <4>1. i \in DOMAIN old /\ old[i].visible
        <5> HIDE DEF p, old, new
        <5> QED
          BY <2>3, <3>2
      <4>2. Names(members, n - 1, i)
        BY <1>4, <4>1
      <4> QED
        BY <2>1, <4>2 DEF Names
    <3> QED
      BY <3>1, <3>2
  <2> QED
    BY <2>3, <2>4, <2>5
<1> HIDE DEF Right
<1>5. S = {}
  <2> SUFFICES ASSUME S # {} PROVE FALSE
    OBVIOUS
  <2>1. S \subseteq 0..N /\ 0 \notin S
    BY <1>3
  <2>2. PICK n \in S : n \in 1..N /\ n - 1 \in 0..N /\ n - 1 \notin S
    BY <1>1, <2>1, FirstFailure, Zenon
  <2> QED
    BY <1>4, <2>2, Zenon
<1>6. Right(N)
  BY <1>1, <1>5
<1>7. Shown(N) /\ Told(N)
  BY <1>6 DEF Right
<1> QED
  BY <1>1, <1>2, <1>7, Zenon DEF Names

----------------------------------------------------------------------------
(* The rooms of a household.                                               *)

(* The rooms a player tells of that the filters leave (RoomsBy).           *)
Wanted(c, members) ==
    {r \in RoomsOf(members) : \E i \in DOMAIN members :
        LET m == members[i]
        IN  /\ m.id = r
            /\ c.include = {} \/ m.room \in c.include
            /\ m.room \notin c.exclude}

LEMMA RoomsAreWanted == \A a : RoomsBy(a) = Sorted(Wanted(config, household[a]))
  BY DEF RoomsBy, Wanted

(* The filtered zones are the wanted rooms of the topology, whatever zones *)
(* answered before.                                                        *)
LEMMA TopologyIsFiltered ==
    ASSUME NEW found, AreZones(found), \A i \in DOMAIN found : ~found[i].visible,
           NEW members, WellTold(members), NEW c
    PROVE  Filtered(c, ApplyTopology(found, members)) = Wanted(c, members)
<1> DEFINE result == ApplyTopology(found, members)
<1>1. \A k \in DOMAIN members : members[k].visible =>
          /\ members[k].id \in DOMAIN result
          /\ result[members[k].id].visible
          /\ result[members[k].id].room = members[k].room
  BY TopologyTells
<1>2. \A i \in DOMAIN result : result[i].visible =>
          \E k \in DOMAIN members : members[k].id = i /\ members[k].visible
  BY TopologyTells
<1> HIDE DEF result
<1>3. ASSUME NEW i \in Filtered(c, result) PROVE i \in Wanted(c, members)
  <2>1. /\ i \in DOMAIN result /\ result[i].visible
        /\ c.include = {} \/ result[i].room \in c.include
        /\ result[i].room \notin c.exclude
    BY DEF Filtered
  <2>2. PICK k \in DOMAIN members : members[k].id = i /\ members[k].visible
    BY <1>2, <2>1
  <2>3. members[k].at # Nothing /\ result[i].room = members[k].room
    BY <1>1, <2>2 DEF WellTold
  <2>4. i \in RoomsOf(members)
    BY <2>2, <2>3 DEF RoomsOf
  <2> QED
    BY <2>1, <2>2, <2>3, <2>4 DEF Wanted
<1>4. ASSUME NEW i \in Wanted(c, members) PROVE i \in Filtered(c, result)
  <2>1. PICK j \in DOMAIN members : members[j].id = i /\ members[j].visible
    BY DEF Wanted, RoomsOf
  <2>2. PICK k \in DOMAIN members :
           /\ members[k].id = i
           /\ c.include = {} \/ members[k].room \in c.include
           /\ members[k].room \notin c.exclude
    BY DEF Wanted
  <2>3. members[k].visible
    BY <2>1, <2>2 DEF WellTold
  <2>4. i \in DOMAIN result /\ result[i].visible /\ result[i].room = members[k].room
    BY <1>1, <2>2, <2>3
  <2> QED
    BY <2>2, <2>4 DEF Filtered
<1>5. Filtered(c, result) = Wanted(c, members)
  BY <1>3, <1>4
<1> QED
  BY <1>5 DEF result

(* They are numbers, and finitely many.                                    *)
LEMMA WantedIsFinite ==
    ASSUME NEW members, WellTold(members), NEW c
    PROVE  Wanted(c, members) \subseteq Nat /\ IsFiniteSet(Wanted(c, members))
<1> DEFINE N == Len(members)
           ids == {members[i].id : i \in 1..N}
           f == [i \in 1..N |-> members[i].id]
<1>1. N \in Nat /\ DOMAIN members = 1..N /\ \A i \in 1..N : members[i].id \in Nat
  BY DEF WellTold
<1>2. Wanted(c, members) \in SUBSET ids
  BY <1>1 DEF Wanted, RoomsOf
<1>3. f \in Surjection(1..N, ids)
  BY DEF Surjection
<1>4. IsFiniteSet(1..N)
  BY <1>1, FS_Interval
<1>5. IsFiniteSet(ids)
  BY <1>3, <1>4, FS_Surjection
<1>6. ids \subseteq Nat
  BY <1>1
<1> QED
  BY <1>2, <1>5, <1>6, FS_Subset

(* What the households are assumed to be.                                  *)
LEMMA HouseholdsAreWellTold ==
    ASSUME NEW told \in Households, NEW a \in Players
    PROVE  /\ WellTold(told[a]) /\ told[a] # Nothing /\ told[a] # <<>>
           /\ \E i \in DOMAIN told[a] : told[a][i].at # Nothing
<1> DEFINE members == told[a]
<1>1. /\ members # Nothing
      /\ Len(members) \in Nat /\ DOMAIN members = 1..Len(members)
      /\ \E i \in DOMAIN members : members[i].at # Nothing
      /\ \A i \in DOMAIN members : members[i].id \in Nat
      /\ \A i, j \in DOMAIN members :
            /\ members[i].visible => members[i].room # Nothing /\ members[i].at # Nothing
            /\ members[i].id = members[j].id =>
                  members[i].visible = members[j].visible /\ members[i].room = members[j].room
  BY HouseholdsAssumption
<1> HIDE DEF members
<1>2. WellTold(members)
  BY <1>1 DEF WellTold
<1>3. members # <<>>
  BY <1>1
<1> QED
  BY <1>1, <1>2, <1>3 DEF members

----------------------------------------------------------------------------
(* The search and what a start makes of it.                                *)

(* The search asks its seeds only, at most Parallel at a time; before it   *)
(* ends no zone is visible, and then those are that a player among the     *)
(* seeds tells of.                                                         *)
SearchInv ==
    /\ config \in Configs /\ household \in Households
    /\ seeds \subseteq Nat /\ IsFiniteSet(seeds) /\ heard \subseteq Players
    /\ probes \in SUBSET seeds /\ IsFiniteSet(probes) /\ Cardinality(probes) <= Parallel
    /\ waiting \in Seq(seeds)
    /\ probes = {} => waiting = <<>>
    /\ search \in {"idle", "listening"} => probes = {} /\ zones = <<>> /\ topology = Nothing
    /\ search = "probing" => seeds # {}
    /\ search # "done" => AreZones(zones) /\ \A i \in DOMAIN zones : ~zones[i].visible
    /\ topology = Nothing \/ \E a \in seeds \cap Players : topology = household[a]
    /\ search = "done" =>
          \/ seeds = {} /\ zones = <<>>
          \/ \E a \in seeds \cap Players :
                Filtered(config, zones) = Wanted(config, household[a])

(* The endpoints are those of the rooms a player among the seeds tells of, *)
(* or of none when there are no seeds, from the plan on.                   *)
StartsInv ==
    stage \in {"start", "running"} =>
        LET of(rooms) == BuildEndpoints(config, rooms \o config.players)
        IN  IF seeds = {} THEN endpoints = of(<<>>)
            ELSE \E a \in seeds \cap Players : endpoints = of(RoomsBy(a))

(* What a search in which nothing goes wrong asks, and what a start makes  *)
(* of it when all players tell of the same rooms.                          *)
Sources == (IF config.auto THEN Players ELSE {}) \cup config.static
Plan == IF Sources \cap Players = {} THEN <<>> ELSE RoomsBy(CHOOSE a \in Players : TRUE)
Expected == Plan \o config.players

(* Every player that should be asked is asked, or a topology is known.     *)
CleanSearch ==
    /\ search = "listening" => config.auto
    /\ search \in {"probing", "done"} => seeds = Sources
    /\ search = "probing" =>
          topology # Nothing \/ Sources \cap Players \subseteq probes \cup Queued(waiting)
    /\ search = "failed" => Sources \cap Players = {} /\ Sources # {}

IsReport == \E ok \in BOOLEAN, before \in 0..trouble : report = [ok |-> ok, trouble |-> before]

(* The report tells of the trouble so far; a process that is off, also     *)
(* while doctor runs, has nothing left of the last one.                    *)
ReportInv ==
    /\ trouble \in Nat
    /\ report = Nothing \/ IsReport
    /\ stage = "doctor" => IsReport
    /\ DOMAIN listeners = {"http", "diag"}
    /\ stage \in {"off", "doctor"} =>
          failure = "none" /\ listeners = NoListeners /\ running = {}

(* What doctor found in order is so until there is trouble.                *)
Foretold ==
    /\ writable
    /\ Sources = {} \/ Sources \cap Players # {}
    /\ Fits(config, Expected) /\ PortsFree(PlannedPorts(config, Expected), taken)
    /\ failure \in {"none", "empty", "pairings"} /\ ~ListenerFailed
    /\ running \subseteq DOMAIN endpoints
    /\ stage = "start" \/ running # {} => endpoints = BuildEndpoints(config, Expected)
    /\ stage = "start" => \E k \in Nat : running = 1..k

Untroubled ==
    (report # Nothing \/ stage = "doctor") /\ report.trouble = trouble /\ OneHousehold

DoctorInv ==
    Untroubled =>
        /\ Valid(config) /\ CleanSearch
        /\ stage = "doctor" => ~report.ok
        /\ report.ok => Foretold

----------------------------------------------------------------------------
(* The steps of the search.                                                *)

LEMMA PlayersAreAddresses == Players \subseteq Nat /\ IsFiniteSet(Players)
<1>1. Players \in SUBSET Addresses
  BY DEF Players
<1> QED
  BY <1>1, AddressesAssumption, FS_Subset

(* The seeds, and that each of them is asked.                              *)
LEMMA MergeStep ==
    ASSUME SearchInv, UNCHANGED given, NEW replies \in SUBSET Players, Merge(replies),
           probes = {}, zones = <<>>, topology = Nothing
    PROVE  /\ SearchInv'
           /\ seeds' = replies \cup config.static /\ topology' = Nothing
           /\ \/ search' = "done" /\ seeds' = {}
              \/ search' = "probing" /\ seeds' \subseteq probes' \cup Queued(waiting')
<1> DEFINE S == replies \cup config.static
<1>1. config' = config /\ household' = household /\ config \in Configs /\ household \in Households
  BY DEF given, SearchInv
<1>2. S \subseteq Nat /\ IsFiniteSet(S)
  <2>1. replies \subseteq Nat /\ IsFiniteSet(replies)
    BY PlayersAreAddresses, FS_Subset
  <2>2. config.static \subseteq Nat /\ IsFiniteSet(config.static)
    BY <1>1, ConfigsAssumption
  <2> QED
    BY <2>1, <2>2, FS_Union
<1>3. /\ seeds' = S /\ heard' = heard /\ zones' = <<>> /\ topology' = Nothing
      /\ IF S = {} THEN search' = "done" /\ UNCHANGED <<waiting, probes>>
                   ELSE search' = "probing" /\ Refill({}, InOrder(S))
  BY DEF Merge
<1>4. heard \subseteq Players /\ waiting = <<>>
  BY DEF SearchInv
<1>5. AreZones(<<>>) /\ \A i \in DOMAIN <<>> : ~<<>>[i].visible
  BY DEF AreZones
<1> HIDE DEF S
<1>6. CASE S = {}
  <2>1. /\ search' = "done" /\ seeds' = {} /\ probes' = {} /\ waiting' = <<>>
        /\ zones' = <<>> /\ topology' = Nothing /\ heard' \subseteq Players
    BY <1>3, <1>4, <1>6
  <2>2. IsFiniteSet({}) /\ Cardinality({}) <= Parallel /\ <<>> \in Seq({})
    BY FS_EmptySet, DiscoveryBoundsAssumption
  <2>3. SearchInv'
    BY <1>1, <2>1, <2>2 DEF SearchInv
  <2> QED
    BY <1>3, <2>1, <2>3 DEF S
<1>7. CASE S # {}
  <2>1. search' = "probing" /\ Refill({}, InOrder(S))
    BY <1>3, <1>7
  <2> DEFINE q == InOrder(S)
  <2>2. q \in Seq(S) /\ S \subseteq Queued(q)
    BY <1>2, InOrderCovers DEF Queued
  <2> HIDE DEF q
  <2>3. {} \in SUBSET S /\ IsFiniteSet({}) /\ Cardinality({}) <= Parallel
    BY FS_EmptySet, DiscoveryBoundsAssumption
  <2>4. Refill({}, q)
    BY <2>1 DEF q
  <2>5. /\ probes' \in SUBSET S /\ IsFiniteSet(probes') /\ Cardinality(probes') <= Parallel
        /\ waiting' \in Seq(S)
        /\ {} \cup Queued(q) = probes' \cup Queued(waiting')
        /\ probes' = {} => waiting' = <<>>
    BY <2>2, <2>3, <2>4, RefillKeeps
  <2>6. SearchInv'
    BY <1>1, <1>2, <1>3, <1>4, <1>5, <1>7, <2>1, <2>5 DEF SearchInv
  <2> QED
    BY <1>3, <2>1, <2>2, <2>5, <2>6 DEF S
<1> QED
  BY <1>6, <1>7

LEMMA BeginSearchStep ==
    ASSUME SearchInv, UNCHANGED given, BeginSearch
    PROVE  SearchInv' /\ CleanSearch' /\ trouble' = trouble
<1>1. search = "idle" /\ trouble' = trouble /\ config' = config
  BY DEF BeginSearch, given
<1>2. CASE config.auto
  <2>1. /\ search' = "listening"
        /\ UNCHANGED <<config, household, heard, seeds, waiting, probes, zones, topology>>
    BY <1>2 DEF BeginSearch, given
  <2>2. SearchInv'
    <3>1. AreZones(zones') /\ \A i \in DOMAIN zones' : ~zones'[i].visible
      BY <1>1, <2>1 DEF SearchInv
    <3> QED
      BY <1>1, <2>1, <3>1 DEF SearchInv
  <2> QED
    BY <1>1, <1>2, <2>1, <2>2 DEF CleanSearch
<1>3. CASE ~config.auto
  <2>1. PICK replies \in SUBSET Players : replies = {}
    OBVIOUS
  <2>2. Merge(replies) /\ probes = {} /\ zones = <<>> /\ topology = Nothing
    BY <1>1, <1>3, <2>1 DEF BeginSearch, SearchInv
  <2>3. /\ SearchInv' /\ seeds' = config.static
        /\ \/ search' = "done" /\ seeds' = {}
           \/ search' = "probing" /\ seeds' \subseteq probes' \cup Queued(waiting')
    <3>1. /\ SearchInv' /\ seeds' = replies \cup config.static
          /\ \/ search' = "done" /\ seeds' = {}
             \/ search' = "probing" /\ seeds' \subseteq probes' \cup Queued(waiting')
      BY <2>2, MergeStep
    <3> QED
      BY <2>1, <3>1
  <2>4. Sources' = config.static
    BY <1>1, <1>3 DEF Sources
  <2>5. CleanSearch'
    BY <2>3, <2>4 DEF CleanSearch
  <2> QED
    BY <1>1, <2>3, <2>5
<1> QED
  BY <1>2, <1>3

LEMMA ListenStep ==
    ASSUME SearchInv, UNCHANGED given, trouble \in Nat,
           ListenEnds \/ ListenFails \/ \E a \in Addresses : Hear(a)
    PROVE  SearchInv' /\ (CleanSearch /\ trouble' = trouble => CleanSearch')
<1>1. config' = config /\ household' = household 
  BY DEF given
<1>2. Sources' = Sources /\ Players' = Players
  BY <1>1 DEF Sources, Players
<1>3. CASE ListenEnds
  <2>1. /\ search = "listening" /\ Merge(heard) /\ heard \in SUBSET Players
        /\ probes = {} /\ zones = <<>> /\ topology = Nothing
    BY <1>3 DEF ListenEnds, SearchInv
  <2>2. /\ SearchInv' /\ seeds' = heard \cup config.static
        /\ \/ search' = "done" /\ seeds' = {}
           \/ search' = "probing" /\ seeds' \subseteq probes' \cup Queued(waiting')
    BY <2>1, MergeStep
  <2>3. ASSUME CleanSearch, trouble' = trouble PROVE CleanSearch'
    <3>1. heard = Players
      BY <1>3, <2>3 DEF ListenEnds, Trouble
    <3>2. config.auto
      BY <2>1, <2>3 DEF CleanSearch
    <3>3. seeds' = Sources
      BY <2>2, <3>1, <3>2 DEF Sources
    <3> QED
      BY <1>2, <2>2, <3>3 DEF CleanSearch
  <2> QED
    BY <2>2, <2>3
<1>4. CASE ListenFails
  <2>1. /\ search = "listening" /\ trouble' = trouble + 1
        /\ probes = {} /\ zones = <<>> /\ topology = Nothing
    BY <1>4 DEF ListenFails, Trouble, SearchInv
  <2>2. CASE config.static # {}
    <3>1. PICK replies \in SUBSET Players : replies = {}
      OBVIOUS
    <3>2. Merge(replies)
      BY <1>4, <2>2, <3>1 DEF ListenFails
    <3> QED
      BY <2>1, <3>2, MergeStep
  <2>3. CASE config.static = {}
    <3>1. /\ search' = "failed"
          /\ UNCHANGED <<heard, seeds, waiting, probes, zones, topology>>
      BY <1>4, <2>3 DEF ListenFails
    <3>2. AreZones(zones') /\ \A i \in DOMAIN zones' : ~zones'[i].visible
      BY <2>1, <3>1 DEF SearchInv
    <3>3. SearchInv'
      BY <1>1, <1>2, <2>1, <3>1, <3>2 DEF SearchInv
    <3> QED
      BY <2>1, <3>3
  <2> QED
    BY <2>2, <2>3
<1>5. ASSUME NEW a \in Addresses, Hear(a)
      PROVE  SearchInv' /\ (CleanSearch /\ trouble' = trouble => CleanSearch')
  <2>1. /\ search = "listening" /\ heard' \subseteq Players
        /\ UNCHANGED <<search, seeds, waiting, probes, zones, topology>>
    BY <1>5 DEF Hear, SearchInv
  <2>2. AreZones(zones') /\ \A i \in DOMAIN zones' : ~zones'[i].visible
    BY <2>1 DEF SearchInv
  <2>3. SearchInv'
    BY <1>1, <1>2, <2>1, <2>2 DEF SearchInv
  <2>4. CleanSearch => CleanSearch'
    BY <1>1, <2>1 DEF CleanSearch
  <2> QED
    BY <2>3, <2>4
<1> QED
  BY <1>3, <1>4, <1>5

(* What a player tells when its description is read.                       *)
LEMMA LearnStep ==
    ASSUME SearchInv, search = "probing", NEW a \in Players, a \in seeds,
           NEW members, members \in {household[a], <<>>}, Learn(a, members)
    PROVE  /\ AreZones(zones') /\ \A i \in DOMAIN zones' : ~zones'[i].visible
           /\ topology' \in {topology, household[a]}
           /\ topology # Nothing => topology' = topology
           /\ members = household[a] => topology' # Nothing
<1> DEFINE new == Zone(PlayerAt[a].room, a)
           id == PlayerAt[a].id
<1>1. IsZone(new) /\ ~new.visible
  BY DEF Zone, IsZone
<1>2. AreZones(zones) /\ \A i \in DOMAIN zones : ~zones[i].visible
  BY DEF SearchInv
<1>3. zones' = [i \in DOMAIN zones \cup {id} |-> IF i = id THEN new ELSE zones[i]]
  BY DEF Learn, Known
<1>4. topology' = IF topology = Nothing /\ Usable(members, zones') THEN members ELSE topology
  BY DEF Learn
<1> HIDE DEF new, id
<1>5. AreZones(zones') /\ \A i \in DOMAIN zones' : ~zones'[i].visible
  <2>1. \A i \in DOMAIN zones' : IF i = id THEN zones'[i] = new
                                           ELSE i \in DOMAIN zones /\ zones'[i] = zones[i]
    BY <1>3
  <2> QED
    BY <1>1, <1>2, <2>1 DEF AreZones
<1>6. /\ household[a] # Nothing /\ household[a] # <<>>
      /\ \E i \in DOMAIN household[a] : household[a][i].at # Nothing
  BY HouseholdsAreWellTold DEF SearchInv
<1>7. ~Usable(<<>>, zones') /\ Usable(household[a], zones')
  <2>1. DOMAIN <<>> = {}
    OBVIOUS
  <2> QED
    BY <1>6, <2>1 DEF Usable
<1> QED
  BY <1>4, <1>5, <1>6, <1>7


LEMMA ProbeEndsStep ==
    ASSUME SearchInv, UNCHANGED given, trouble \in Nat, NEW a \in Addresses, ProbeEnds(a)
    PROVE  SearchInv' /\ (CleanSearch /\ trouble' = trouble => CleanSearch')
<1> DEFINE rest == probes \ {a}
<1>1. config' = config /\ household' = household /\ Players' = Players /\ Sources' = Sources
  BY DEF given, Players, Sources
<1>2. /\ search = "probing" /\ a \in probes /\ a \in seeds
      /\ UNCHANGED <<search, heard, seeds>> /\ Refill(rest, waiting)
  BY DEF ProbeEnds, SearchInv
<1>3. /\ probes' \in SUBSET seeds /\ IsFiniteSet(probes') /\ Cardinality(probes') <= Parallel
      /\ waiting' \in Seq(seeds)
      /\ rest \cup Queued(waiting) = probes' \cup Queued(waiting')
      /\ probes' = {} => waiting' = <<>>
  <2>1. /\ probes \in SUBSET seeds /\ IsFiniteSet(probes) /\ Cardinality(probes) <= Parallel
        /\ waiting \in Seq(seeds)
    BY DEF SearchInv
  <2>2. IsFiniteSet(rest) /\ Cardinality(rest) <= Cardinality(probes)
    BY <2>1, FS_Subset
  <2>3. Cardinality(rest) \in Nat /\ Cardinality(probes) \in Nat /\ Parallel \in Nat
    BY <2>1, <2>2, FS_CardinalityType, DiscoveryBoundsAssumption
  <2>4. rest \in SUBSET seeds /\ Cardinality(rest) <= Parallel
    BY <2>1, <2>2, <2>3
  <2> HIDE DEF rest
  <2> QED
    BY <1>2, <2>1, <2>2, <2>4, RefillKeeps
<1>4. AreZones(zones) /\ \A i \in DOMAIN zones : ~zones[i].visible
  BY <1>2 DEF SearchInv
<1>5. \/ a \in Players /\ Learn(a, household[a]) /\ UNCHANGED trouble
      \/ a \in Players /\ Learn(a, <<>>) /\ Trouble
      \/ /\ UNCHANGED <<zones, topology>>
         /\ IF a \in Players THEN Trouble ELSE UNCHANGED trouble
  BY DEF ProbeEnds
<1>6. /\ AreZones(zones') /\ \A i \in DOMAIN zones' : ~zones'[i].visible
      /\ topology' = topology \/ (a \in Players /\ topology' = household[a])
      /\ topology # Nothing => topology' = topology
  <2>1. CASE a \in Players /\ Learn(a, household[a])
    BY <1>2, <2>1, LearnStep
  <2>2. CASE a \in Players /\ Learn(a, <<>>)
    BY <1>2, <2>2, LearnStep
  <2>3. CASE UNCHANGED <<zones, topology>>
    BY <1>4, <2>3
  <2> QED
    BY <1>5, <2>1, <2>2, <2>3
<1>7. topology' = Nothing \/ \E b \in seeds \cap Players : topology' = household[b]
  BY <1>2, <1>6 DEF SearchInv
<1>8. SearchInv'
  BY <1>1, <1>2, <1>3, <1>6, <1>7 DEF SearchInv
<1>9. ASSUME CleanSearch, trouble' = trouble PROVE CleanSearch'
  <2>1. /\ seeds = Sources
        /\ topology # Nothing \/ Sources \cap Players \subseteq probes \cup Queued(waiting)
    BY <1>2, <1>9 DEF CleanSearch
  <2>2. ~Trouble
    BY <1>9 DEF Trouble
  <2>3. CASE a \in Players /\ Learn(a, household[a])
    <3>1. topology' # Nothing
      BY <1>2, <2>3, LearnStep
    <3> QED
      BY <1>1, <1>2, <2>1, <3>1 DEF CleanSearch
  <2>4. CASE a \notin Players /\ UNCHANGED <<zones, topology>>
    <3>1. topology' # Nothing \/ Sources \cap Players \subseteq probes' \cup Queued(waiting')
      BY <1>3, <2>1, <2>4
    <3> QED
      BY <1>1, <1>2, <2>1, <3>1 DEF CleanSearch
  <2> QED
    BY <1>5, <2>2, <2>3, <2>4
<1> QED
  BY <1>8, <1>9

LEMMA SearchEndsStep ==
    ASSUME SearchInv, UNCHANGED given, trouble \in Nat, SearchEnds
    PROVE  SearchInv' /\ (CleanSearch /\ trouble' = trouble => CleanSearch')
<1>1. config' = config /\ household' = household /\ Players' = Players /\ Sources' = Sources
  BY DEF given, Players, Sources
<1>2. /\ search = "probing" /\ probes' = {} /\ waiting' = <<>>
      /\ UNCHANGED <<heard, seeds, topology>>
      /\ IF topology = Nothing THEN search' = "failed" /\ UNCHANGED zones
         ELSE search' = "done" /\ zones' = ApplyTopology(zones, topology)
  BY DEF SearchEnds
<1>3. IsFiniteSet({}) /\ Cardinality({}) <= Parallel /\ <<>> \in Seq(seeds)
  BY FS_EmptySet, DiscoveryBoundsAssumption
<1>4. AreZones(zones) /\ \A i \in DOMAIN zones : ~zones[i].visible
  BY <1>2 DEF SearchInv
<1>5. CASE topology = Nothing
  <2>1. AreZones(zones') /\ (\A i \in DOMAIN zones' : ~zones'[i].visible) /\ search' = "failed"
    BY <1>2, <1>4, <1>5
  <2>2. SearchInv'
    BY <1>1, <1>2, <1>3, <2>1, <1>5 DEF SearchInv
  <2>3. ASSUME CleanSearch, trouble' = trouble PROVE CleanSearch'
    <3>1. probes = {} /\ waiting = <<>>
      BY <2>3 DEF SearchEnds, Trouble, SearchInv
    <3>2. Queued(waiting) = {}
      BY <3>1 DEF Queued
    <3>3. seeds = Sources /\ Sources \cap Players = {} /\ Sources # {}
      BY <1>2, <1>5, <2>3, <3>1, <3>2 DEF CleanSearch, SearchInv
    <3> QED
      BY <1>1, <2>1, <3>3 DEF CleanSearch
  <2> QED
    BY <2>2, <2>3
<1>6. CASE topology # Nothing
  <2>1. search' = "done" /\ zones' = ApplyTopology(zones, topology)
    BY <1>2, <1>6
  <2>2. PICK a \in seeds \cap Players : topology = household[a]
    BY <1>6 DEF SearchInv
  <2>3. Filtered(config, zones') = Wanted(config, household[a])
    <3>1. WellTold(household[a])
      BY HouseholdsAreWellTold DEF SearchInv
    <3> QED
      BY <1>4, <2>1, <2>2, <3>1, TopologyIsFiltered
  <2>4. SearchInv'
    BY <1>1, <1>2, <1>3, <2>1, <2>2, <2>3 DEF SearchInv
  <2>5. CleanSearch => CleanSearch'
    BY <1>1, <1>2, <2>1 DEF CleanSearch
  <2> QED
    BY <2>4, <2>5
<1> QED
  BY <1>5, <1>6

LEMMA SearchStepKeeps ==
    ASSUME SearchInv, UNCHANGED given, trouble \in Nat, SearchStep
    PROVE  SearchInv' /\ (CleanSearch /\ trouble' = trouble => CleanSearch')
BY ListenStep, ProbeEndsStep, SearchEndsStep DEF SearchStep

LEMMA ForgetSearchStep ==
    ASSUME SearchInv, UNCHANGED given, ForgetSearch, seeds' \in {seeds, {}}
    PROVE  SearchInv' /\ CleanSearch'
<1>1. config' = config /\ household' = household /\ Players' = Players
  BY DEF given, Players
<1>2. IsFiniteSet({}) /\ Cardinality({}) <= Parallel /\ <<>> \in Seq(seeds')
  BY FS_EmptySet, DiscoveryBoundsAssumption
<1>3. seeds' \subseteq Nat /\ IsFiniteSet(seeds')
  BY <1>2 DEF SearchInv
<1>4. /\ search' = "idle" /\ heard' = {} /\ waiting' = <<>> /\ probes' = {}
      /\ zones' = <<>> /\ topology' = Nothing
  BY DEF ForgetSearch
<1>5. AreZones(zones') /\ \A i \in DOMAIN zones' : ~zones'[i].visible
  BY <1>4 DEF AreZones
<1> QED
  BY <1>1, <1>2, <1>3, <1>4, <1>5 DEF SearchInv, CleanSearch

LEMMA SearchKept ==
    ASSUME SearchInv,
           UNCHANGED <<given, search, heard, seeds, waiting, probes, zones, topology>>
    PROVE  SearchInv' /\ (CleanSearch => CleanSearch')
<1>1. UNCHANGED <<config, household, Players, Sources>>
  BY DEF given, Players, Sources
<1>2. AreZones(zones)' = AreZones(zones)
  BY DEF AreZones
<1> QED
  BY <1>1, <1>2 DEF SearchInv, CleanSearch

(* What a step does to the search.                                         *)
LEMMA SearchMoves ==
    ASSUME [Next]_vars
    PROVE  /\ UNCHANGED given
           /\ \/ BeginSearch
              \/ SearchStep
              \/ ForgetSearch /\ seeds' \in {seeds, {}}
              \/ UNCHANGED <<search, heard, seeds, waiting, probes, zones, topology>>
<1> DEFINE Moves ==
            /\ UNCHANGED given
            /\ \/ BeginSearch
               \/ SearchStep
               \/ ForgetSearch /\ seeds' \in {seeds, {}}
               \/ UNCHANGED <<search, heard, seeds, waiting, probes, zones, topology>>
<1>1. CASE CreateDirectories
  BY <1>1 DEF CreateDirectories, searchVars
<1>2. CASE Search
  BY <1>2 DEF Search
<1>3. CASE PlanEndpoints
  BY <1>3 DEF PlanEndpoints
<1>4. CASE Exit
  BY <1>4 DEF Exit
<1>5. CASE Leave \/ CleanupEnds \/ Deadline \/ Crash
  BY <1>5 DEF Leave, CleanupEnds, Deadline, Crash, Off
<1>6. CASE StartDoctor \/ DoctorReports
  BY <1>6 DEF StartDoctor, DoctorReports
<1>7. CASE Launch \/ StartEndpoint \/ UndoStart \/ Started \/ Retry
  BY <1>7 DEF Launch, StartEndpoint, UndoStart, Started, Retry, searchVars
<1>8. CASE DrainPage \/ StopServer \/ StopSessions \/ Reset
  BY <1>8 DEF DrainPage, StopServer, StopSessions, Reset, searchVars
<1>9. CASE WorldChanges
  BY <1>9 DEF WorldChanges
<1>10. CASE \E r \in Rooms : WorkerStops(r) \/ RoomPlays(r) \/ RoomQuiet(r)
  BY <1>10 DEF WorkerStops, RoomPlays, RoomQuiet, searchVars
<1>11. CASE \E l \in {"http", "diag"} : Bind(l)
  BY <1>11 DEF Bind, searchVars
<1>12. CASE \E c \in Clients : Pair(c) \/ Unpair(c)
  BY <1>12 DEF Pair, Unpair
<1>13. CASE UNCHANGED vars
  BY <1>13 DEF vars, searchVars
<1> QED
  BY <1>1, <1>2, <1>3, <1>4, <1>5, <1>6, <1>7, <1>8, <1>9, <1>10, <1>11, <1>12, <1>13
     DEF Next, StartStep, ExitStep

LEMMA SearchKeeps ==
    ASSUME SearchInv, trouble \in Nat, [Next]_vars
    PROVE  SearchInv' /\ (CleanSearch /\ trouble' = trouble => CleanSearch')
BY SearchMoves, BeginSearchStep, SearchStepKeeps, ForgetSearchStep, SearchKept

(* What a search that ended well hands to the plan.                        *)
LEMMA RenderersFound ==
    ASSUME SearchInv, search = "done"
    PROVE  IF seeds = {} THEN Renderers(config, zones) = <<>> \o config.players
           ELSE \E a \in seeds \cap Players :
                    Renderers(config, zones) = RoomsBy(a) \o config.players
<1>1. CASE seeds = {} /\ zones = <<>>
  <2>1. Filtered(config, zones) = {}
    BY <1>1 DEF Filtered
  <2> QED
    BY <1>1, <2>1, NothingSorted, Zenon DEF Renderers
<1>2. ASSUME NEW a \in seeds \cap Players, Filtered(config, zones) = Wanted(config, household[a])
      PROVE  seeds # {} /\ Renderers(config, zones) = RoomsBy(a) \o config.players
  BY <1>2, RoomsAreWanted, Zenon DEF Renderers
<1> QED
  BY <1>1, <1>2 DEF SearchInv

(* A start goes on with the endpoints of its plan.                         *)
LEMMA StartsKept ==
    ASSUME StartsInv, UNCHANGED <<given, seeds, endpoints>>,
           stage' \in {"start", "running"} => stage \in {"start", "running"}
    PROVE  StartsInv'
<1>1. UNCHANGED <<config, household, Players>>
  BY DEF given, Players
<1>2. \A a : RoomsBy(a)' = RoomsBy(a)
  BY <1>1 DEF RoomsBy
<1>3. \A a : BuildEndpoints(config', RoomsBy(a)' \o config'.players)
                = BuildEndpoints(config, RoomsBy(a) \o config.players)
  BY <1>1, <1>2
<1> QED
  BY <1>1, <1>3 DEF StartsInv

LEMMA StartsStep == ASSUME SearchInv, StartsInv, [Next]_vars PROVE StartsInv'
<1>1. CASE stage' \notin {"start", "running"}
  BY <1>1 DEF StartsInv
<1>2. CASE PlanEndpoints
  <2>1. CASE stage' = "start"
    <3> DEFINE found == Renderers(config, zones)
    <3>1. /\ search = "done" /\ endpoints' = BuildEndpoints(config, found)
          /\ UNCHANGED <<given, seeds>>
      BY <1>2, <2>1 DEF PlanEndpoints, Fail
    <3>2. UNCHANGED <<config, household, Players>>
      BY <3>1 DEF given, Players
    <3>3. IF seeds = {} THEN found = <<>> \o config.players
          ELSE \E a \in seeds \cap Players : found = RoomsBy(a) \o config.players
      BY <3>1, RenderersFound
    <3> HIDE DEF found
    <3>4. IF seeds = {} THEN endpoints' = BuildEndpoints(config, <<>> \o config.players)
          ELSE \E a \in seeds \cap Players :
                  endpoints' = BuildEndpoints(config, RoomsBy(a) \o config.players)
      BY <3>1, <3>3, Zenon
    <3>5. \A a : RoomsBy(a)' = RoomsBy(a)
      BY <3>2 DEF RoomsBy
    <3> QED
      BY <3>1, <3>2, <3>4, <3>5, Zenon DEF StartsInv
  <2>2. CASE stage' # "start"
    BY <1>2, <2>2 DEF PlanEndpoints, Fail, StartsInv
  <2> QED
    BY <2>1, <2>2
<1>3. CASE StartEndpoint \/ Started
  BY <1>3, StartsKept DEF StartEndpoint, Started, searchVars, servers
<1>4. CASE Search
  BY <1>4, <1>1 DEF Search
<1>5. CASE \/ \E r \in Rooms : RoomPlays(r) \/ RoomQuiet(r) \/ WorkerStops(r)
           \/ \E l \in {"http", "diag"} : Bind(l)
           \/ \E c \in Clients : Pair(c) \/ Unpair(c)
  BY <1>5, StartsKept
     DEF RoomPlays, RoomQuiet, WorkerStops, Bind, Pair, Unpair, searchVars, servers
<1>6. CASE Reset \/ WorldChanges
  BY <1>6, StartsKept DEF Reset, WorldChanges, searchVars, servers
<1>7. CASE UNCHANGED vars
  BY <1>7, StartsKept DEF vars, searchVars, servers
<1>8. CASE \/ Launch \/ CreateDirectories \/ UndoStart \/ Retry
           \/ DrainPage \/ StopServer \/ StopSessions
  BY <1>8, <1>1, StartsKept
     DEF Launch, CreateDirectories, Fail, UndoStart, Retry, DrainPage, StopServer,
         StopSessions, searchVars, servers
<1>9. CASE Exit \/ Leave \/ CleanupEnds \/ Deadline \/ Crash \/ StartDoctor \/ DoctorReports
  BY <1>9, <1>1
     DEF Exit, Leave, CleanupEnds, Deadline, Crash, Off, StartDoctor, DoctorReports
<1> QED
  BY <1>2, <1>3, <1>4, <1>5, <1>6, <1>7, <1>8, <1>9 DEF Next, StartStep, ExitStep

----------------------------------------------------------------------------
(* What doctor says of a start.                                            *)

(* The rooms a start plans with are a sequence.                            *)
LEMMA ExpectedIsSequence ==
    ASSUME SearchInv
    PROVE  Len(Expected) \in Nat /\ DOMAIN Expected = 1..Len(Expected)
<1>1. config.players \in Seq(Rooms)
  BY ConfigsAssumption DEF SearchInv
<1>2. Plan \in Seq(Nat)
  <2>1. CASE Sources \cap Players = {}
    BY <2>1 DEF Plan
  <2>2. CASE Sources \cap Players # {}
    <3> DEFINE a == CHOOSE b \in Players : TRUE
    <3>1. a \in Players
      BY <2>2
    <3> HIDE DEF a
    <3>2. WellTold(household[a])
      BY <3>1, HouseholdsAreWellTold DEF SearchInv
    <3> DEFINE W == Wanted(config, household[a])
    <3>3. W \subseteq Nat /\ IsFiniteSet(W)
      BY <3>2, WantedIsFinite
    <3>4. Sorted(W) \in Seq(W)
      BY <3>3, SortedIsSequence
    <3> DEFINE s == Sorted(W)
    <3>5. s = RoomsBy(a)
      BY RoomsAreWanted
    <3>6. s \in Seq(W)
      BY <3>4
    <3> HIDE DEF s, W
    <3>7. s \in Seq(Nat)
      BY <3>3, <3>6, SeqMonotonic
    <3>8. Plan = s
      BY <2>2, <3>5, Zenon DEF Plan, a
    <3> QED
      BY <3>7, <3>8
  <2> QED
    BY <2>1, <2>2
<1> DEFINE plan == Plan
           players == config.players
           T == Nat \cup Rooms
<1>3. plan \in Seq(T) /\ players \in Seq(T)
  BY <1>1, <1>2
<1> HIDE DEF plan, players, T
<1>4. plan \o players \in Seq(T)
  BY <1>3
<1>5. Expected = plan \o players
  BY DEF Expected, plan, players
<1> QED
  BY <1>4, <1>5

(* The ports of a plan that doctor found in order: all are free of other   *)
(* programs, and no endpoint has a port of the listeners.                  *)
LEMMA PlannedPortsApart ==
    ASSUME NEW c, Valid(c), NEW s, Len(s) \in Nat, DOMAIN s = 1..Len(s), Fits(c, s), NEW held,
           PortsFree(PlannedPorts(c, s), held)
    PROVE  /\ c.base \in Nat /\ c.http # c.diag /\ c.http \notin held /\ c.diag \notin held
           /\ \A i \in DOMAIN s : /\ PortAt(c, i) \notin held
                                  /\ PortAt(c, i) # c.http /\ PortAt(c, i) # c.diag
<1> DEFINE N == Len(s)
           placed == {i \in DOMAIN s : PortAt(c, i) <= MaxPort}
           ports == [i \in placed |-> PortAt(c, i)]
           q == PlannedPorts(c, s)
<1>1. c.base \in Nat /\ c.http \in Nat /\ c.diag \in Nat
  BY DEF Valid, Ports
<1>2. placed = 1..N
  BY DEF Fits
<1>3. \A i \in 1..N : PortAt(c, i) \in Int
  BY <1>1 DEF PortAt
<1>4. ports \in Seq(Int) /\ Len(ports) = N /\ \A i \in 1..N : ports[i] = PortAt(c, i)
  <2>1. ports = [i \in 1..N |-> PortAt(c, i)] /\ N \in Nat
    BY <1>2
  <2> HIDE DEF ports, N, placed
  <2> QED
    BY <1>3, <2>1
<1>5. q = <<c.http, c.diag>> \o ports
  BY DEF PlannedPorts
<1> HIDE DEF N, placed, ports, q
<1>6. PICK own : own = <<c.http, c.diag>>
  OBVIOUS
<1>7. own \in Seq(Int) /\ Len(own) = 2 /\ own[1] = c.http /\ own[2] = c.diag
  BY <1>1, <1>6
<1>8. N \in Nat /\ DOMAIN s = 1..N
  BY DEF N
<1>9. /\ DOMAIN q = 1..(N + 2) /\ q[1] = c.http /\ q[2] = c.diag
      /\ \A i \in 1..N : i + 2 \in DOMAIN q /\ q[i + 2] = PortAt(c, i)
  <2>1. q = own \o ports
    BY <1>5, <1>6
  <2>2. q \in Seq(Int) /\ Len(q) = 2 + N
    <3>1. own \in Seq(Int) /\ ports \in Seq(Int)
      BY <1>4, <1>7
    <3>2. own \o ports \in Seq(Int) /\ Len(own \o ports) = Len(own) + Len(ports)
      BY <3>1, ConcatProperties
    <3> QED
      BY <1>4, <1>7, <2>1, <3>2
  <2>3. DOMAIN q = 1..(N + 2)
    BY <1>8, <2>2
  <2>4. q[1] = c.http /\ q[2] = c.diag
    BY <1>4, <1>7, <1>8, <2>1, ConcatProperties
  <2>5. ASSUME NEW i \in 1..N PROVE i + 2 \in DOMAIN q /\ q[i + 2] = PortAt(c, i)
    <3>1. i + 2 \in DOMAIN q /\ i + 2 > 2 /\ (i + 2) - 2 = i
      BY <1>8, <2>3
    <3>2. q[i + 2] = ports[(i + 2) - 2]
      BY <1>4, <1>7, <2>1, <2>3, <3>1
    <3> QED
      BY <1>4, <3>1, <3>2
  <2> QED
    BY <2>3, <2>4, <2>5
<1>10. Distinct(q) /\ \A i \in DOMAIN q : q[i] \notin held
  BY DEF PortsFree, q
<1>11. 1 \in DOMAIN q /\ 2 \in DOMAIN q
  BY <1>8, <1>9
<1>12. c.http # c.diag /\ c.http \notin held /\ c.diag \notin held
  BY <1>9, <1>10, <1>11 DEF Distinct
<1>13. ASSUME NEW i \in 1..N
       PROVE  PortAt(c, i) \notin held /\ PortAt(c, i) # c.http /\ PortAt(c, i) # c.diag
  <2>1. i + 2 \in DOMAIN q /\ q[i + 2] = PortAt(c, i) /\ i + 2 # 1 /\ i + 2 # 2
    BY <1>8, <1>9
  <2> QED
    BY <1>9, <1>10, <1>11, <2>1 DEF Distinct
<1> QED
  BY <1>1, <1>8, <1>12, <1>13

(* What the search finds is what is expected.                              *)
LEMMA ExpectedIsFound ==
    ASSUME SearchInv, CleanSearch, OneHousehold, search = "done"
    PROVE  /\ Renderers(config, zones) = Expected
           /\ Sources = {} \/ Sources \cap Players # {}
<1>1. seeds = Sources
  BY DEF CleanSearch
<1>2. CASE seeds = {}
  BY <1>1, <1>2, RenderersFound DEF Expected, Plan
<1>3. CASE seeds # {}
  <2>1. PICK a \in seeds \cap Players : Renderers(config, zones) = RoomsBy(a) \o config.players
    BY <1>3, RenderersFound
  <2> DEFINE b == CHOOSE d \in Players : TRUE
  <2>2. b \in Players
    BY <2>1
  <2>3. RoomsBy(a) = RoomsBy(b)
    BY <2>1, <2>2 DEF OneHousehold
  <2>4. Plan = RoomsBy(b)
    BY <1>1, <2>1, Zenon DEF Plan
  <2> QED
    BY <1>1, <2>1, <2>3, <2>4, Zenon DEF Expected
<1> QED
  BY <1>2, <1>3

----------------------------------------------------------------------------
(* The report, and what is left of the process when it is off.             *)

(* Trouble is counted, and never taken back.                               *)
LEMMA TroubleGrows ==
    ASSUME trouble \in Nat, [Next]_vars
    PROVE  trouble' \in Nat /\ (trouble' = trouble \/ trouble' = trouble + 1)
<1> USE DEF Trouble, searchVars
<1>1. CASE CreateDirectories \/ StartDoctor
  BY <1>1 DEF CreateDirectories, StartDoctor, BeginSearch
<1>2. CASE Search
  <2>1. CASE ListenEnds \/ ListenFails
    BY <2>1 DEF ListenEnds, ListenFails
  <2>2. CASE SearchEnds
    BY <2>2 DEF SearchEnds
  <2>3. CASE \E a \in Addresses : Hear(a)
    BY <2>3 DEF Hear
  <2>4. CASE \E a \in Addresses : ProbeEnds(a)
    BY <2>4 DEF ProbeEnds
  <2> QED
    BY <1>2, <2>1, <2>2, <2>3, <2>4 DEF Search, SearchStep
<1>3. CASE PlanEndpoints \/ Exit \/ Leave \/ CleanupEnds \/ Deadline \/ Crash \/ DoctorReports
  <2>1. CASE PlanEndpoints
    BY <2>1 DEF PlanEndpoints
  <2>2. CASE Exit \/ Leave \/ CleanupEnds
    BY <2>2 DEF Exit, Leave, CleanupEnds
  <2>3. CASE Deadline \/ Crash
    <3>1. trouble' = trouble + 1
      BY <2>3, Zenon DEF Deadline, Crash
    <3> QED
      BY <3>1
  <2>4. CASE DoctorReports
    BY <2>4 DEF DoctorReports
  <2> QED
    BY <1>3, <2>1, <2>2, <2>3, <2>4
<1>4. CASE \/ Launch \/ StartEndpoint \/ UndoStart \/ Started \/ Retry
           \/ DrainPage \/ StopServer \/ StopSessions \/ Reset \/ WorldChanges
  BY <1>4 DEF Launch, StartEndpoint, UndoStart, Started, Retry, DrainPage, StopServer,
              StopSessions, Reset, WorldChanges
<1>5. CASE \/ \E r \in Rooms : WorkerStops(r) \/ RoomPlays(r) \/ RoomQuiet(r)
           \/ \E l \in {"http", "diag"} : Bind(l)
  BY <1>5 DEF WorkerStops, RoomPlays, RoomQuiet, Bind
<1>6. CASE \E c \in Clients : Pair(c) \/ Unpair(c)
  BY <1>6 DEF Pair, Unpair, Save
<1>7. CASE UNCHANGED vars
  BY <1>7 DEF vars
<1> QED
  BY <1>1, <1>2, <1>3, <1>4, <1>5, <1>6, <1>7 DEF Next, StartStep, ExitStep

LEMMA ReportKept ==
    ASSUME trouble \in Nat, trouble' \in Nat, trouble' = trouble \/ trouble' = trouble + 1,
           report' = report, IsReport
    PROVE  IsReport'
<1>1. PICK ok \in BOOLEAN, before \in 0..trouble : report = [ok |-> ok, trouble |-> before]
  BY DEF IsReport
<1>2. before \in 0..trouble'
  BY <1>1
<1> QED
  BY <1>1, <1>2 DEF IsReport

(* What is left when the process is off, and the listeners.                *)
LEMMA OffKept ==
    ASSUME ReportInv, [Next]_vars
    PROVE  /\ DOMAIN listeners' = {"http", "diag"}
           /\ stage' \in {"off", "doctor"} =>
                 failure' = "none" /\ listeners' = NoListeners /\ running' = {}
<1> USE DEF ReportInv, servers, NoListeners
<1>1. CASE Launch
  BY <1>1 DEF Launch
<1>2. CASE CreateDirectories \/ Search \/ Started \/ Retry \/ StartDoctor \/ DoctorReports
  BY <1>2 DEF CreateDirectories, Fail, Search, Started, Retry, StartDoctor, DoctorReports
<1>3. CASE PlanEndpoints
  <2>1. UNCHANGED listeners /\ stage' \in {"setup", "start"}
    BY <1>3 DEF PlanEndpoints, Fail
  <2> QED
    BY <2>1
<1>4. CASE StartEndpoint \/ UndoStart
  BY <1>4 DEF StartEndpoint, UndoStart
<1>5. CASE Exit
  BY <1>5 DEF Exit
<1>6. CASE Leave \/ CleanupEnds \/ Deadline \/ Crash
  BY <1>6 DEF Leave, CleanupEnds, Deadline, Crash, Off
<1>7. CASE DrainPage \/ StopServer \/ StopSessions
  BY <1>7 DEF DrainPage, StopServer, StopSessions
<1>8. CASE Reset \/ WorldChanges
  BY <1>8 DEF Reset, WorldChanges
<1>9. CASE \E r \in Rooms : WorkerStops(r) \/ RoomPlays(r) \/ RoomQuiet(r)
  BY <1>9 DEF WorkerStops, RoomPlays, RoomQuiet
<1>10. CASE \E l \in {"http", "diag"} : Bind(l)
  BY <1>10 DEF Bind, BeforeStart
<1>11. CASE \E c \in Clients : Pair(c) \/ Unpair(c)
  BY <1>11 DEF Pair, Unpair
<1>12. CASE UNCHANGED vars
  BY <1>12 DEF vars
<1> QED
  BY <1>1, <1>2, <1>3, <1>4, <1>5, <1>6, <1>7, <1>8, <1>9, <1>10, <1>11, <1>12
     DEF Next, StartStep, ExitStep

(* Doctor alone writes the report.                                         *)
LEMMA ReportMoves ==
    ASSUME [Next]_vars, ~StartDoctor, ~DoctorReports
    PROVE  report' = report /\ (stage' = "doctor" => stage = "doctor")
<1>1. CASE Launch \/ CreateDirectories \/ Search \/ Started \/ Retry
  BY <1>1 DEF Launch, CreateDirectories, Fail, Search, Started, Retry
<1>2. CASE PlanEndpoints
  <2>1. UNCHANGED report /\ stage' \in {"setup", "start"}
    BY <1>2 DEF PlanEndpoints, Fail
  <2> QED
    BY <2>1
<1>3. CASE StartEndpoint \/ UndoStart \/ Exit
  BY <1>3 DEF StartEndpoint, UndoStart, Exit
<1>4. CASE Leave \/ CleanupEnds \/ Deadline \/ Crash
  BY <1>4 DEF Leave, CleanupEnds, Deadline, Crash, Off
<1>5. CASE DrainPage \/ StopServer \/ StopSessions \/ Reset \/ WorldChanges
  BY <1>5 DEF DrainPage, StopServer, StopSessions, Reset, WorldChanges
<1>6. CASE \/ \E r \in Rooms : WorkerStops(r) \/ RoomPlays(r) \/ RoomQuiet(r)
           \/ \E l \in {"http", "diag"} : Bind(l)
  BY <1>6 DEF WorkerStops, RoomPlays, RoomQuiet, Bind
<1>7. CASE \E c \in Clients : Pair(c) \/ Unpair(c)
  BY <1>7 DEF Pair, Unpair
<1>8. CASE UNCHANGED vars
  BY <1>8 DEF vars
<1> QED
  BY <1>1, <1>2, <1>3, <1>4, <1>5, <1>6, <1>7, <1>8 DEF Next, StartStep, ExitStep

LEMMA ReportStep == ASSUME ReportInv, [Next]_vars PROVE ReportInv'
<1>1. trouble \in Nat /\ trouble' \in Nat /\ (trouble' = trouble \/ trouble' = trouble + 1)
  BY TroubleGrows DEF ReportInv
<1>2. /\ DOMAIN listeners' = {"http", "diag"}
      /\ stage' \in {"off", "doctor"} =>
            failure' = "none" /\ listeners' = NoListeners /\ running' = {}
  BY OffKept
<1>3. CASE StartDoctor
  <2>1. trouble' = trouble /\ report' = [ok |-> FALSE, trouble |-> trouble]
    BY <1>3 DEF StartDoctor, BeginSearch
  <2>2. trouble \in 0..trouble' /\ FALSE \in BOOLEAN
    BY <1>1, <2>1
  <2>3. IsReport'
    BY <2>1, <2>2, Zenon DEF IsReport
  <2> QED
    BY <1>1, <1>2, <2>3 DEF ReportInv, NoListeners
<1>4. CASE DoctorReports
  <2>1. trouble' = trouble /\ IsReport
    BY <1>4 DEF DoctorReports, ReportInv
  <2>2. PICK failed \in BOOLEAN : report' = [report EXCEPT !.ok = ~failed]
    BY <1>4 DEF DoctorReports, DoctorFails
  <2>3. PICK ok \in BOOLEAN, before \in 0..trouble : report = [ok |-> ok, trouble |-> before]
    BY <2>1 DEF IsReport
  <2>4. report' = [ok |-> ~failed, trouble |-> before]
    BY <2>2, <2>3
  <2>5. IsReport'
    BY <2>1, <2>4 DEF IsReport
  <2> QED
    BY <1>1, <1>2, <2>5 DEF ReportInv, NoListeners
<1>5. CASE ~StartDoctor /\ ~DoctorReports
  <2>1. report' = report /\ (stage' = "doctor" => stage = "doctor")
    BY <1>5, ReportMoves
  <2>2. IsReport => IsReport'
    BY <1>1, <2>1, ReportKept
  <2> QED
    BY <1>1, <1>2, <2>1, <2>2 DEF ReportInv, NoListeners
<1> QED
  BY <1>3, <1>4, <1>5

----------------------------------------------------------------------------
(* What doctor found in order stays so.                                    *)

(* The plan depends on what does not change.                               *)
LEMMA PlanKept ==
    ASSUME UNCHANGED given
    PROVE  /\ config' = config /\ Sources' = Sources /\ Players' = Players
           /\ Expected' = Expected /\ OneHousehold' = OneHousehold
<1>1. UNCHANGED <<config, household, Players>>
  BY DEF given, Players
<1>2. \A a : RoomsBy(a)' = RoomsBy(a)
  BY <1>1 DEF RoomsBy
<1>3. Sources' = Sources
  BY <1>1 DEF Sources
<1>4. Plan' = Plan
  <2> DEFINE first == CHOOSE a \in Players : TRUE
  <2>1. first' = first
    BY <1>1
  <2> HIDE DEF first
  <2>2. RoomsBy(first)' = RoomsBy(first)
    BY <1>1, <2>1 DEF RoomsBy
  <2>3. Plan = IF Sources \cap Players = {} THEN <<>> ELSE RoomsBy(first)
    BY Zenon DEF Plan, first
  <2>4. Plan' = IF Sources' \cap Players' = {} THEN <<>> ELSE RoomsBy(first)'
    BY Zenon DEF Plan, first
  <2> QED
    BY <1>1, <1>3, <2>2, <2>3, <2>4
<1>5. Expected' = Expected
  BY <1>1, <1>4, Zenon DEF Expected
<1>6. OneHousehold' = OneHousehold
  BY <1>1, <1>2, Zenon DEF OneHousehold
<1> QED
  BY <1>1, <1>3, <1>5, <1>6

(* A step after which doctor's report still holds.                         *)
LEMMA StaysUntroubled ==
    ASSUME ReportInv, [Next]_vars, ~StartDoctor, Untroubled'
    PROVE  /\ Untroubled /\ trouble' = trouble
           /\ ~DoctorReports => report' = report
<1>1. trouble \in Nat /\ (trouble' = trouble \/ trouble' = trouble + 1) /\ UNCHANGED given
  BY TroubleGrows, SearchMoves DEF ReportInv
<1>2. OneHousehold
  BY <1>1, PlanKept DEF Untroubled
<1>3. CASE DoctorReports
  <2>1. IsReport /\ trouble' = trouble
    BY <1>3 DEF DoctorReports, ReportInv
  <2>2. PICK failed \in BOOLEAN : report' = [report EXCEPT !.ok = ~failed]
    BY <1>3 DEF DoctorReports, DoctorFails
  <2>3. PICK ok \in BOOLEAN, before \in 0..trouble : report = [ok |-> ok, trouble |-> before]
    BY <2>1 DEF IsReport
  <2>4. report.trouble = report'.trouble
    BY <2>2, <2>3
  <2> QED
    BY <1>2, <1>3, <2>1, <2>4 DEF Untroubled, DoctorReports
<1>4. CASE ~DoctorReports
  <2>1. report' = report /\ (stage' = "doctor" => stage = "doctor")
    BY <1>4, ReportMoves
  <2>2. (report # Nothing \/ stage = "doctor") /\ report.trouble = trouble'
    BY <2>1 DEF Untroubled
  <2>3. IsReport
    BY <2>2 DEF ReportInv
  <2>4. report.trouble \in 0..trouble
    BY <2>3 DEF IsReport
  <2>5. trouble' = trouble
    BY <1>1, <2>2, <2>4
  <2> QED
    BY <1>2, <1>4, <2>1, <2>2, <2>5 DEF Untroubled
<1> QED
  BY <1>3, <1>4

(* A step that starts no endpoint and binds no listener, and after which   *)
(* the directory and the ports are as they were.                           *)
LEMMA ForetoldKept ==
    ASSUME Foretold, UNCHANGED given, UNCHANGED <<world, listeners, endpoints>>,
           failure' \in {"none", "empty", "pairings"} \cup {failure},
           running' \subseteq running,
           stage' = "start" => stage = "start" /\ running' = running
    PROVE  Foretold'
<1>1. /\ config' = config /\ Sources' = Sources /\ Players' = Players /\ Expected' = Expected
      /\ writable' = writable /\ taken' = taken
  BY PlanKept DEF world
<1>2. Fits(config, Expected)' /\ PortsFree(PlannedPorts(config, Expected), taken)'
  BY <1>1, Zenon DEF Foretold
<1> QED
  BY <1>1, <1>2 DEF Foretold, ListenerFailed

(* The same of a step that does start or bind something.                   *)
LEMMA ForetoldAfter ==
    ASSUME Foretold, UNCHANGED given, UNCHANGED world,
           failure' \in {"none", "empty", "pairings"}, ~ListenerFailed',
           running' \subseteq DOMAIN endpoints',
           stage' = "start" \/ running' # {} => endpoints' = BuildEndpoints(config, Expected),
           stage' = "start" => \E k \in Nat : running' = 1..k
    PROVE  Foretold'
<1>1. /\ config' = config /\ Sources' = Sources /\ Players' = Players /\ Expected' = Expected
      /\ writable' = writable /\ taken' = taken
  BY PlanKept DEF world
<1>2. Fits(config, Expected)' /\ PortsFree(PlannedPorts(config, Expected), taken)'
  BY <1>1, Zenon DEF Foretold
<1> QED
  BY <1>1, <1>2 DEF Foretold

(* No port of the plan is held, also by the process itself, when it is     *)
(* taken.                                                                  *)
LEMMA ForetoldPortsFree ==
    ASSUME SearchInv, Valid(config), Foretold
    PROVE  /\ \A l \in {"http", "diag"} : listeners[l] # "up" => Free(PortOf(l))
           /\ \A i \in DOMAIN Expected : i \notin running => Free(PortAt(config, i))
<1> DEFINE c == config
           s == Expected
<1>1. Len(s) \in Nat /\ DOMAIN s = 1..Len(s)
  BY ExpectedIsSequence
<1>2. Fits(c, s) /\ PortsFree(PlannedPorts(c, s), taken)
  BY DEF Foretold
<1>3. Valid(c)
  OBVIOUS
<1> HIDE DEF c, s
<1>4. /\ c.base \in Nat /\ c.http # c.diag /\ c.http \notin taken /\ c.diag \notin taken
      /\ \A i \in DOMAIN s : /\ PortAt(c, i) \notin taken
                             /\ PortAt(c, i) # c.http /\ PortAt(c, i) # c.diag
  BY <1>1, <1>2, <1>3, PlannedPortsApart
<1>5. running # {} => endpoints = BuildEndpoints(c, s)
  BY DEF Foretold, c, s
<1>6. running # {} => running \subseteq DOMAIN s
  BY <1>5 DEF Foretold, BuildEndpoints
<1>7. \A i \in running : i \in DOMAIN s /\ endpoints[i].port = PortAt(c, i)
  BY <1>5, <1>6 DEF BuildEndpoints
<1>8. PortOf("http") = c.http /\ PortOf("diag") = c.diag
  BY DEF PortOf, c
<1>9. ASSUME NEW l \in {"http", "diag"}, listeners[l] # "up" PROVE Free(PortOf(l))
  <2>1. PortOf(l) \notin taken
    BY <1>4, <1>8
  <2>2. \A i \in running : endpoints[i].port # PortOf(l)
    BY <1>4, <1>7, <1>8
  <2>3. \A k \in {"http", "diag"} : listeners[k] = "up" => PortOf(k) # PortOf(l)
    BY <1>4, <1>8, <1>9
  <2> QED
    BY <2>1, <2>2, <2>3 DEF Free, OwnPorts
<1>10. ASSUME NEW i \in DOMAIN s, i \notin running PROVE Free(PortAt(c, i))
  <2>1. PortAt(c, i) \notin taken
    BY <1>4
  <2>2. \A j \in running : endpoints[j].port # PortAt(c, i)
    BY <1>1, <1>4, <1>7, <1>10 DEF PortAt
  <2>3. \A k \in {"http", "diag"} : PortOf(k) # PortAt(c, i)
    BY <1>4, <1>8
  <2> QED
    BY <2>1, <2>2, <2>3 DEF Free, OwnPorts
<1> QED
  BY <1>5, <1>9, <1>10 DEF c, s

(* An endpoint that starts: its port is free.                              *)
LEMMA StartEndpointForetold ==
    ASSUME SearchInv, Valid(config), Foretold, StartEndpoint
    PROVE  Foretold'
<1>1. stage = "start" /\ Next1 \in DOMAIN endpoints /\ endpoints = BuildEndpoints(config, Expected)
  BY DEF StartEndpoint, Foretold
<1>2. PICK k \in Nat : running = 1..k
  BY <1>1 DEF Foretold
<1>3. Next1 = k + 1
  <2>1. Cardinality(1..k) = k
    BY FS_Interval
  <2> QED
    BY <1>2, <2>1 DEF Next1
<1>4. Next1 \in DOMAIN Expected /\ endpoints[Next1].port = PortAt(config, Next1)
  BY <1>1 DEF BuildEndpoints
<1>5. Next1 \notin running
  BY <1>2, <1>3
<1>6. Free(endpoints[Next1].port)
  <2>1. Free(PortAt(config, Next1))
    BY <1>4, <1>5, ForetoldPortsFree
  <2> QED
    BY <1>4, <2>1
<1>7. /\ UNCHANGED <<given, world, listeners, endpoints>>
      /\ \/ stage' = "undo" /\ failure' = "pairings" /\ running' = running
         \/ running' = running \cup {Next1} /\ stage' = stage /\ failure' = failure
  BY <1>6 DEF StartEndpoint
<1>8. failure' \in {"none", "empty", "pairings"} /\ ~ListenerFailed'
  BY <1>7 DEF Foretold, ListenerFailed
<1>9. running' \subseteq DOMAIN endpoints'
  BY <1>1, <1>7 DEF Foretold
<1>10. stage' = "start" => \E j \in Nat : running' = 1..j
  <2>1. (1..k) \cup {k + 1} = 1..(k + 1) /\ k + 1 \in Nat
    OBVIOUS
  <2> QED
    BY <1>2, <1>3, <1>7, <2>1
<1> QED
  BY <1>1, <1>7, <1>8, <1>9, <1>10, ForetoldAfter

(* A search that is planned with: it found rooms, and they fit.            *)
LEMMA PlanForetold ==
    ASSUME SearchInv, ServersInv, CleanSearch, OneHousehold, Foretold, PlanEndpoints
    PROVE  Foretold'
<1> DEFINE found == Renderers(config, zones)
<1>1. search \in {"done", "failed"} /\ running = {} /\ running' = running
      /\ UNCHANGED <<given, world, listeners>>
  BY DEF PlanEndpoints, ServersInv, NoServers
<1>2. Sources = {} \/ Sources \cap Players # {}
  BY DEF Foretold
<1>3. search = "done"
  BY <1>1, <1>2 DEF CleanSearch
<1>4. found = Expected
  BY <1>3, ExpectedIsFound
<1>5. Fits(config, found) /\ writable
  BY <1>4 DEF Foretold
<1> HIDE DEF found
<1>6. \/ failure' = "empty" /\ stage' = "setup" /\ endpoints' = endpoints
      \/ endpoints' = BuildEndpoints(config, found) /\ stage' = "start" /\ failure' = failure
  BY <1>3, <1>5 DEF PlanEndpoints, Fail, found
<1>7. failure' \in {"none", "empty", "pairings"} /\ ~ListenerFailed'
  BY <1>1, <1>6 DEF Foretold, ListenerFailed
<1>8. running' = 1..0
  BY <1>1
<1> QED
  BY <1>1, <1>4, <1>6, <1>7, <1>8, ForetoldAfter

(* While nothing goes wrong, what doctor found in order stays in order.    *)
LEMMA ForetoldStep ==
    ASSUME SearchInv, ServersInv, ReportInv, Valid(config), CleanSearch, OneHousehold, Foretold,
           [Next]_vars, trouble' = trouble, ~StartDoctor, ~DoctorReports
    PROVE  Foretold'
<1> USE DEF world, servers
<1>1. UNCHANGED given
  BY SearchMoves
<1>2. /\ failure \in {"none", "empty", "pairings"} /\ ~ListenerFailed
      /\ running \subseteq DOMAIN endpoints
      /\ stage = "start" \/ running # {} => endpoints = BuildEndpoints(config, Expected)
      /\ DOMAIN listeners = {"http", "diag"}
  BY DEF Foretold, ReportInv
<1>3. ~Trouble
  BY DEF Trouble, ReportInv
<1>4. CASE Launch
  <2>1. \A l \in {"http", "diag"} : listeners'[l] # "failed"
    BY <1>2, <1>4 DEF Launch, ListenerFailed
  <2>2. ~ListenerFailed' /\ (stage' = "start" => stage = "start")
    BY <1>4, <2>1 DEF Launch, ListenerFailed
  <2>3. UNCHANGED <<running, endpoints, failure, world>> /\ (stage = "start" => FALSE)
    BY <1>4 DEF Launch
  <2> QED
    BY <1>1, <1>2, <2>2, <2>3, ForetoldAfter
<1>5. ASSUME NEW l \in {"http", "diag"}, Bind(l) PROVE Foretold'
  <2>1. listeners[l] = "binding" /\ Free(PortOf(l))
    BY <1>5, ForetoldPortsFree DEF Bind
  <2>2. /\ listeners' = [listeners EXCEPT ![l] = "up"]
        /\ UNCHANGED <<stage, running, endpoints, failure, world>>
    BY <1>5, <2>1 DEF Bind
  <2>3. ~ListenerFailed'
    BY <1>2, <2>2 DEF ListenerFailed
  <2>4. stage' = "start" => \E k \in Nat : running' = 1..k
    BY <2>2 DEF Foretold
  <2> QED
    BY <1>1, <1>2, <2>2, <2>3, <2>4, ForetoldAfter
<1>6. CASE CreateDirectories
  <2>1. /\ stage' = "search" /\ UNCHANGED <<world, listeners, endpoints, running, failure>>
    BY <1>6 DEF CreateDirectories, Foretold
  <2> QED
    BY <1>1, <2>1, ForetoldKept
<1>7. CASE PlanEndpoints
  BY <1>7, PlanForetold
<1>8. CASE StartEndpoint
  BY <1>8, StartEndpointForetold
<1>9. CASE UndoStart
  <2>1. /\ UNCHANGED <<world, listeners, failure>> /\ stage' # "start"
        /\ running' \subseteq running
        /\ endpoints' = endpoints \/ (endpoints' = <<>> /\ running' = {})
    BY <1>9 DEF UndoStart
  <2>2. ~ListenerFailed'
    BY <1>2, <2>1 DEF ListenerFailed
  <2>3. running' \subseteq DOMAIN endpoints'
    BY <1>2, <2>1
  <2> QED
    BY <1>1, <1>2, <2>1, <2>2, <2>3, ForetoldAfter
<1>10. CASE Search \/ Started \/ Retry \/ StopServer \/ StopSessions \/ Reset
  BY <1>1, <1>10, ForetoldKept DEF Search, Started, Retry, StopServer, StopSessions, Reset
<1>11. CASE Exit
  <2>1. /\ UNCHANGED <<world, failure>> /\ stage' # "start"
        /\ listeners' = [listeners EXCEPT !["http"] = "off"]
        /\ UNCHANGED servers \/ (running' = {} /\ endpoints' = <<>>)
    BY <1>11 DEF Exit
  <2>2. ~ListenerFailed'
    BY <1>2, <2>1 DEF ListenerFailed
  <2>3. running' \subseteq DOMAIN endpoints' /\ (running' # {} => UNCHANGED servers)
    BY <1>2, <2>1
  <2> QED
    BY <1>1, <1>2, <2>1, <2>2, <2>3, ForetoldAfter
<1>12. CASE Leave \/ CleanupEnds
  <2>1. /\ UNCHANGED world /\ failure' = "none" /\ stage' = "off" /\ listeners' = NoListeners
        /\ running' = {} /\ endpoints' = <<>>
    BY <1>12 DEF Leave, CleanupEnds, Off
  <2>2. ~ListenerFailed'
    BY <2>1 DEF ListenerFailed, NoListeners
  <2> QED
    BY <1>1, <2>1, <2>2, ForetoldAfter
<1>13. CASE DrainPage
  <2>1. /\ UNCHANGED <<world, failure, running, endpoints>> /\ stage' = "servers"
        /\ listeners' = NoListeners
    BY <1>13 DEF DrainPage
  <2>2. ~ListenerFailed'
    BY <2>1 DEF ListenerFailed, NoListeners
  <2> QED
    BY <1>1, <1>2, <2>1, <2>2, ForetoldAfter
<1>14. CASE \E r \in Rooms : RoomPlays(r) \/ RoomQuiet(r) \/ WorkerStops(r)
  BY <1>1, <1>14, ForetoldKept DEF RoomPlays, RoomQuiet, WorkerStops
<1>15. CASE \E c \in Clients : Pair(c) \/ Unpair(c)
  BY <1>1, <1>15, ForetoldKept DEF Pair, Unpair
<1>16. CASE UNCHANGED vars
  BY <1>1, <1>16, ForetoldKept DEF vars
<1> QED
  BY <1>3, <1>4, <1>5, <1>6, <1>7, <1>8, <1>9, <1>10, <1>11, <1>12, <1>13, <1>14, <1>15, <1>16
     DEF Next, StartStep, ExitStep, Deadline, Crash, WorldChanges

(* A doctor that ran without trouble and finds nothing wrong: a start      *)
(* finds the same.                                                         *)
LEMMA DoctorFindsForetold ==
    ASSUME SearchInv, ServersInv, ReportInv, Valid(config), CleanSearch, OneHousehold,
           DoctorReports, ~report.ok, report'.ok
    PROVE  Foretold'
<1>1. /\ stage = "doctor" /\ stage' = "off" /\ search \in {"done", "failed"}
      /\ UNCHANGED given /\ UNCHANGED <<listeners, endpoints, running, failure, writable, taken>>
  BY DEF DoctorReports, servers, world
<1>2. PICK ffmpeg, roomsAnswer, playersAnswer \in BOOLEAN :
          report' = [report EXCEPT !.ok =
              ~DoctorFails(config, zones, [found |-> search = "done", ffmpeg |-> ffmpeg,
                   writable |-> writable, roomsAnswer |-> roomsAnswer,
                   playersAnswer |-> playersAnswer, taken |-> taken])]
  BY DEF DoctorReports
<1> DEFINE w == [found |-> search = "done", ffmpeg |-> ffmpeg,
                   writable |-> writable, roomsAnswer |-> roomsAnswer,
                   playersAnswer |-> playersAnswer, taken |-> taken]
<1>3. ~DoctorFails(config, zones, w)
  <2> DEFINE fails == DoctorFails(config, zones, w)
  <2>1. report' = [report EXCEPT !.ok = ~fails]
    BY <1>2
  <2> HIDE DEF fails
  <2>2. PICK ok \in BOOLEAN, before \in 0..trouble : report = [ok |-> ok, trouble |-> before]
    BY <1>1 DEF ReportInv, IsReport
  <2> QED
    BY <2>1, <2>2 DEF fails
<1>4. w.found = (search = "done") /\ w.writable = writable /\ w.taken = taken
  OBVIOUS
<1> HIDE DEF w
<1>5. /\ search = "done" /\ writable
      /\ Fits(config, Renderers(config, zones))
      /\ PortsFree(PlannedPorts(config, Renderers(config, zones)), taken)
  BY <1>3, <1>4 DEF DoctorFails
<1>6. Renderers(config, zones) = Expected /\ (Sources = {} \/ Sources \cap Players # {})
  BY <1>5, ExpectedIsFound
<1>7. Fits(config, Expected) /\ PortsFree(PlannedPorts(config, Expected), taken)
  BY <1>5, <1>6
<1>8. failure = "none" /\ listeners = NoListeners /\ running = {}
  BY <1>1 DEF ReportInv
<1>9. Foretold
  <2>1. ~ListenerFailed
    BY <1>8 DEF ListenerFailed, NoListeners
  <2> QED
    BY <1>1, <1>5, <1>6, <1>7, <1>8, <2>1 DEF Foretold
<1> QED
  BY <1>1, <1>9, ForetoldKept DEF world

LEMMA DoctorStep ==
    ASSUME SearchInv, ServersInv, ReportInv, DoctorInv, [Next]_vars
    PROVE  DoctorInv'
<1> SUFFICES ASSUME Untroubled'
             PROVE  /\ Valid(config)' /\ CleanSearch'
                    /\ stage' = "doctor" => ~report'.ok
                    /\ report'.ok => Foretold'
  BY DEF DoctorInv
<1>1. trouble \in Nat /\ UNCHANGED given
  BY SearchMoves DEF ReportInv
<1>2. config' = config /\ OneHousehold' = OneHousehold
  BY <1>1, PlanKept
<1>3. CASE StartDoctor
  <2>1. Valid(config) /\ BeginSearch /\ report' = [ok |-> FALSE, trouble |-> trouble]
    BY <1>3 DEF StartDoctor
  <2>2. CleanSearch'
    BY <1>1, <2>1, BeginSearchStep
  <2>3. Valid(config)'
    BY <1>2, <2>1, Zenon
  <2> QED
    BY <2>1, <2>2, <2>3
<1>4. CASE ~StartDoctor
  <2>1. /\ Untroubled /\ trouble' = trouble /\ OneHousehold
        /\ ~DoctorReports => report' = report
    BY <1>4, StaysUntroubled DEF Untroubled
  <2>2. /\ Valid(config) /\ CleanSearch
        /\ stage = "doctor" => ~report.ok
        /\ report.ok => Foretold
    BY <2>1 DEF DoctorInv
  <2>3. CleanSearch'
    BY <1>1, <2>1, <2>2, SearchKeeps
  <2>4. Valid(config)'
    BY <1>2, <2>2, Zenon
  <2>5. CASE DoctorReports
    <3>1. stage = "doctor" /\ stage' = "off"
      BY <2>5 DEF DoctorReports
    <3>2. report'.ok => Foretold'
      BY <2>1, <2>2, <2>5, <3>1, DoctorFindsForetold
    <3> QED
      BY <2>3, <2>4, <3>1, <3>2
  <2>6. CASE ~DoctorReports
    <3>1. report' = report /\ (stage' = "doctor" => stage = "doctor")
      BY <1>4, <2>6, ReportMoves
    <3>2. report.ok => Foretold'
      BY <1>4, <2>1, <2>2, <2>6, ForetoldStep
    <3> QED
      BY <2>2, <2>3, <2>4, <3>1, <3>2
  <2> QED
    BY <2>5, <2>6
<1> QED
  BY <1>3, <1>4

----------------------------------------------------------------------------
(* The search, the start and the doctor, in every reachable state.         *)
SInv == ServersInv /\ SearchInv /\ StartsInv /\ ReportInv /\ DoctorInv

THEOREM SearchAndStart == Spec => []SInv
<1>1. Init => SInv
  <2> SUFFICES ASSUME Init PROVE SInv
    OBVIOUS
  <2>1. ServersInv
    BY DEF Init, ServersInv, NoServers, Stages
  <2>2. SearchInv
    <3>1. /\ config \in Configs /\ household \in Households
          /\ search = "idle" /\ heard = {} /\ seeds = {} /\ waiting = <<>> /\ probes = {}
          /\ zones = <<>> /\ topology = Nothing
      BY DEF Init, SearchIdle
    <3>2. IsFiniteSet({}) /\ Cardinality({}) <= Parallel
      BY FS_EmptySet, DiscoveryBoundsAssumption
    <3>3. AreZones(zones) /\ \A i \in DOMAIN zones : ~zones[i].visible
      BY <3>1 DEF AreZones
    <3> QED
      BY <3>1, <3>2, <3>3 DEF SearchInv
  <2>3. StartsInv
    BY DEF Init, StartsInv
  <2>4. ReportInv
    BY DEF Init, ReportInv, NoListeners
  <2>5. DoctorInv
    BY DEF Init, DoctorInv, Untroubled
  <2> QED
    BY <2>1, <2>2, <2>3, <2>4, <2>5 DEF SInv
<1>2. SInv /\ [Next]_vars => SInv'
  <2> SUFFICES ASSUME SInv, [Next]_vars PROVE SInv'
    OBVIOUS
  <2>1. ServersInv /\ SearchInv /\ StartsInv /\ ReportInv /\ DoctorInv /\ trouble \in Nat
    BY DEF SInv, ReportInv
  <2> QED
    BY <2>1, ServersStep, SearchKeeps, StartsStep, ReportStep, DoctorStep DEF SInv
<1> QED
  BY <1>1, <1>2, PTL DEF Spec

(* Whichever players answer the search, in whatever order and however few: *)
(* the bridge runs with every wanted room of a household, each on the port *)
(* its place gives it, then the players of Home Assistant.                 *)
THEOREM EveryRoomIsStarted == Spec => []StartsWithTheRooms
<1>1. SInv => StartsWithTheRooms
  BY DEF SInv, StartsInv, StartsWithTheRooms
<1> QED
  BY <1>1, SearchAndStart, PTL

(* Where all players tell of the same rooms, what doctor found in order    *)
(* does not fail a start, or a listener, until something outside changes.  *)
THEOREM DoctorIsRight == Spec => []DoctorForetellsStart
<1>1. SInv => DoctorForetellsStart
  BY DEF SInv, DoctorInv, Untroubled, Foretold, DoctorForetellsStart
<1> QED
  BY <1>1, SearchAndStart, PTL
=============================================================================
