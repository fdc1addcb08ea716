------------------------ MODULE BridgeRuntimeProofs ------------------------
(***************************************************************************)
(* Proofs about BridgeRuntime, for every set of rooms and senders, with    *)
(* and without native groups, and for every budget of retries and bound on *)
(* events and failures: what the runtime believes of a room agrees with    *)
(* what it last told the room's worker and with the stream that is         *)
(* registered, nothing that should play is left with nothing under way,    *)
(* and cohorts and groups name the right rooms.                            *)
(*                                                                         *)
(* The properties are stated for Idle states, between two events.  The     *)
(* invariant IInv holds in between as well: where a handler has broken one *)
(* for the moment, it says which call is pending that mends it.            *)
(*                                                                         *)
(* A second invariant on top of it, Followed, says that of a session's     *)
(* present generation at most one thing is under way: so nothing is told   *)
(* to play twice, and no coordinator with an encoder leaves its members    *)
(* waiting for nothing.                                                    *)
(***************************************************************************)
EXTENDS BridgeRuntime, WellFoundedInduction, TLAPS

Cohort == [sessions : Seq(Zones), prepared : [Zones -> Nat], phase : Phases]
Calls == [op : Ops, zone : Zones, gen : Nat]
AnswerMessage == [gen : Nat, outcome : Outcomes \ {"Prepared"}]

Sessions == [Zones -> Session \cup {Nothing}]
Channels == [Zones -> Command \cup {Nothing}]

TypeInv ==
    /\ sessions \in Sessions
    /\ generation \in [Zones -> Nat]
    /\ registry \in [Zones -> Nat]
    /\ cohorts \in Seq(Cohort)
    /\ DOMAIN groups \subseteq Zones /\ \A c \in DOMAIN groups : groups[c] \in Seq(Zones)
    /\ calls \in Seq(Calls)
    /\ slot \in Channels /\ busy \in Channels /\ fresh \in [Zones -> BOOLEAN]
    /\ answers \in [Zones -> Seq(AnswerMessage)]
    /\ preps \in [Zones -> SUBSET Nat] /\ retries \in [Zones -> SUBSET Nat]
    /\ cleanups \subseteq Zones

(* A call of one of these kinds is still to run for the room.              *)
Waiting(ops, z) == \E c \in SeqSet(calls) : c.op \in ops /\ c.zone = z

(* A session that begins is the last thing an event does.                  *)
BeginLast(s) == \A i \in DOMAIN s : s[i].op = "begin" => i = Len(s)

(* What a call that is still to run says of its room.                      *)
Founded(c) ==
    /\ c.op \in {"restart", "replace", "create"} => Wanted(c.zone)
    /\ c.op = "create" =>
          /\ sessions[c.zone].observed = "Unknown" /\ sessions[c.zone].gen # 0
          /\ slot[c.zone] # Nothing /\ slot[c.zone].kind = "Stop"
    /\ c.op = "pause" => ~Wanted(c.zone)
    /\ c.op = "stopped" => ~Live(c.zone) /\ c.gen \in 1..generation[c.zone]
    /\ c.op = "begin" => ~Live(c.zone)

(* Only the call on top of the stack creates a stream, since a restart     *)
(* of another room may not come between a Stop and its Prepare.            *)
CallsInv ==
    /\ \A c \in SeqSet(calls) : Founded(c)
    /\ calls # <<>> => \A c \in SeqSet(Tail(calls)) : c.op # "create"
    /\ BeginLast(calls)

(* QuietUnlessWanted and RegistryMatchesEncoder, while calls are pending.  *)
Quiet(z) ==
    ~Wanted(z) /\ slot[z] # Nothing => slot[z].kind = "Stop" \/ Waiting({"pause", "stopped"}, z)

Registered(z) == registry[z] = IF Live(z) THEN sessions[z].encoder ELSE 0

(* The generations the cohorts count as prepared for the room.             *)
Counted(z) == {cohorts[i].prepared[z] : i \in DOMAIN cohorts}

(* Every message has a generation that was drawn for its room.             *)
Drawn(z) ==
    /\ Live(z) => sessions[z].gen <= generation[z]
    /\ slot[z] # Nothing => slot[z].gen \in 1..generation[z]
    /\ fresh[z] => slot[z] # Nothing
    /\ busy[z] # Nothing => busy[z].gen \in 1..generation[z]
    /\ \A i \in DOMAIN answers[z] : answers[z][i].gen \in 1..generation[z]
    /\ \A g \in Counted(z) : g <= generation[z]

(* Only a session that should play is believed to play. One that has no    *)
(* generation yet, or should play with the encoder of an earlier one, is   *)
(* about to restart.                                                       *)
Streaming(z) ==
    Live(z) =>
        /\ Playing(z) => sessions[z].desired
        /\ sessions[z].gen = 0 => Waiting({"restart", "replace"}, z)
        /\ sessions[z].encoder \notin {0, sessions[z].gen} =>
              /\ ~Playing(z)
              /\ sessions[z].desired => Waiting({"restart", "replace"}, z)

Told(z, kinds) == slot[z] # Nothing /\ slot[z].kind \in kinds /\ slot[z].gen = sessions[z].gen

HasStarted(z) ==
    \E i \in DOMAIN answers[z] : /\ answers[z][i].gen = sessions[z].gen
                                 /\ answers[z][i].outcome \in {"Started", "Joined"}

(* Commands of one generation come in their order: Stop, Prepare, start.   *)
InOrder(z) ==
    Live(z) =>
        /\ busy[z] # Nothing /\ busy[z].gen = sessions[z].gen =>
              /\ busy[z].kind # "Stop" => Told(z, Kinds \ {"Stop"})
              /\ busy[z].kind \in StartKinds => Told(z, StartKinds)
        /\ HasStarted(z) => Told(z, StartKinds)
        /\ Playing(z) /\ sessions[z].encoder # 0 => Told(z, StartKinds)

(* NoStall, while calls are pending.                                       *)
Moving(z) ==
    Wanted(z) => \/ Playing(z) \/ UnderWay(z) \/ GaveUp(z)
                 \/ Waiting({"restart", "replace", "create"}, z)

(* All that is said of one room.                                           *)
RoomInv(z) ==
    Quiet(z) /\ Registered(z) /\ Drawn(z) /\ Streaming(z) /\ InOrder(z) /\ Moving(z)

Distinct(rooms) == \A i, j \in DOMAIN rooms : rooms[i] = rooms[j] => i = j

(* A room has one place in one cohort.                                     *)
PlacesInv ==
    /\ \A i \in DOMAIN cohorts : Distinct(cohorts[i].sessions)
    /\ \A i, j \in DOMAIN cohorts :
          i # j => SeqSet(cohorts[i].sessions) \cap SeqSet(cohorts[j].sessions) = {}

(* What a cohort counts as prepared is the stream its room holds, or the   *)
(* room is being paused.                                                   *)
PreparedInv ==
    \A i \in DOMAIN cohorts, z \in Zones :
        cohorts[i].prepared[z] # 0 =>
            /\ z \in SeqSet(cohorts[i].sessions)
            /\ Live(z) /\ cohorts[i].prepared[z] = sessions[z].gen
                   => sessions[z].prepared \/ Waiting({"pause"}, z)

(* What ShouldStart says of a cohort once it is pruned.                    *)
Startable(c) ==
    \/ c.phase = "expired"
    \/ \A z \in SeqSet(c.sessions) :
          Wanted(z) => c.prepared[z] # 0 /\ c.prepared[z] = sessions[z].gen

(* A call is pending that releases cohorts, or leads to one.               *)
Releasing == \E c \in SeqSet(calls) : c.op \in {"release", "pause", "stopped"}

(* The oldest cohort is released once it may start.                        *)
WakeInv == cohorts # <<>> /\ Startable(Head(cohorts)) => wake \/ Releasing

IInv ==
    /\ TypeInv /\ CallsInv /\ \A z \in Zones : RoomInv(z)
    /\ PlacesInv /\ PreparedInv /\ WakeInv /\ GroupsSound

----------------------------------------------------------------------------
(* Natural numbers.                                                        *)

(* A set of natural numbers that is not empty has a least element.         *)
LEMMA LeastNatural ==
    ASSUME NEW S, S \subseteq Nat, S # {}
    PROVE  \E x \in S : \A y \in S : x <= y
<1>1. PICK x \in S : \A y \in S : <<y, x>> \notin OpToRel(<, Nat)
  BY WFMin, NatLessThanWellFounded, Zenon
<1>2. \A y \in S : ~ (y < x)
  BY <1>1, Zenon DEF OpToRel
<1>3. \A y \in S : x <= y
  BY <1>2, SMT
<1> QED
  BY <1>3, Zenon

(* The first number with which something fails, none before it.            *)
LEMMA FirstFailure ==
    ASSUME NEW N \in Nat, NEW S, S \subseteq 0..N, S # {}, 0 \notin S
    PROVE  \E n \in S : n \in 1..N /\ n - 1 \in 0..N /\ n - 1 \notin S
<1>1. S \subseteq Nat
  OBVIOUS
<1>2. PICK n \in S : \A y \in S : n <= y
  BY <1>1, LeastNatural
<1>3. n \in 0..N /\ n # 0
  OBVIOUS
<1>4. n \in 1..N /\ n - 1 \in 0..N /\ ~(n <= n - 1)
  BY <1>3
<1> QED
  BY <1>2, <1>4

----------------------------------------------------------------------------
(* Retain.                                                                 *)

(* The room it looks at last, and what it kept before.                     *)
RetainStep(f, n, rooms, set) ==
    IF n = 0 THEN <<>>
    ELSE IF rooms[n] \in set THEN Append(f[n - 1], rooms[n]) ELSE f[n - 1]

(* Retain is built room by room.                                           *)
LEMMA RetainSteps ==
    ASSUME NEW rooms, Len(rooms) \in Nat, NEW set
    PROVE  \E f : /\ Retain(rooms, set) = f[Len(rooms)]
                  /\ \A n \in 0..Len(rooms) : f[n] = RetainStep(f, n, rooms, set)
<1> DEFINE N == Len(rooms)
           kept[n \in 0..Len(rooms)] ==
            IF n = 0 THEN <<>>
            ELSE IF rooms[n] \in set THEN Append(kept[n - 1], rooms[n]) ELSE kept[n - 1]
<1>1. Retain(rooms, set) = kept[Len(rooms)]
  BY Zenon DEF Retain
<1>2. ASSUME NEW f, NEW g, NEW n \in Nat, n # 0 => f[n - 1] = g[n - 1]
      PROVE  RetainStep(f, n, rooms, set) = RetainStep(g, n, rooms, set)
  BY <1>2, Zenon DEF RetainStep
<1>3. \E f : \A n \in 0..N : f[n] = RetainStep(f, n, rooms, set)
  <2> DEFINE Upto(n) == \E f : \A m \in 0..n : f[m] = RetainStep(f, m, rooms, set)
             S == {n \in 0..N : ~Upto(n)}
  <2>1. Upto(0)
    <3> DEFINE f == [m \in {0} |-> <<>>]
    <3>1. \A m \in 0..0 : m = 0
      OBVIOUS
    <3>2. f[0] = <<>>
      OBVIOUS
    <3> HIDE DEF f
    <3>3. \A m \in 0..0 : f[m] = RetainStep(f, m, rooms, set)
      BY <3>1, <3>2, Zenon DEF RetainStep
    <3> QED
      BY <3>3, Zenon
  <2>2. ASSUME NEW n \in 1..N, Upto(n - 1)
        PROVE  Upto(n)
    <3>1. PICK f : \A m \in 0..(n - 1) : f[m] = RetainStep(f, m, rooms, set)
      BY <2>2
    <3> DEFINE g == [m \in 0..n |-> IF m = n THEN RetainStep(f, n, rooms, set) ELSE f[m]]
    <3>2. /\ n \in Nat /\ n \in 0..n
          /\ \A m \in 0..n : m \in Nat
          /\ \A m \in 0..n : m # n => m \in 0..(n - 1)
          /\ \A m \in 0..n : m # 0 => m - 1 \in 0..n /\ m - 1 # n
      OBVIOUS
    <3>3. g[n] = RetainStep(f, n, rooms, set) /\ \A m \in 0..n : m # n => g[m] = f[m]
      BY <3>2, Zenon
    <3> HIDE DEF g
    <3>4. \A m \in 0..n : RetainStep(g, m, rooms, set) = RetainStep(f, m, rooms, set)
      BY <1>2, <3>2, <3>3, Zenon
    <3>5. \A m \in 0..n : g[m] = RetainStep(g, m, rooms, set)
      BY <3>1, <3>2, <3>3, <3>4, Zenon
    <3> QED
      BY <3>5, Zenon
  <2> HIDE DEF Upto
  <2>3. S = {}
    <3> SUFFICES ASSUME S # {} PROVE FALSE
      OBVIOUS
    <3>1. N \in Nat /\ S \subseteq 0..N /\ 0 \notin S
      BY <2>1
    <3>2. PICK n \in S : n \in 1..N /\ n - 1 \in 0..N /\ n - 1 \notin S
      BY <3>1, FirstFailure, Zenon
    <3> QED
      BY <2>2, <3>2, Zenon
  <2>4. N \in 0..N
    OBVIOUS
  <2>5. Upto(N)
    BY <2>3, <2>4, Zenon
  <2> QED
    BY <2>5, Zenon DEF Upto
<1>4. \E f : f = [n \in 0..Len(rooms) |-> RetainStep(f, n, rooms, set)]
  <2>1. PICK f : \A n \in 0..N : f[n] = RetainStep(f, n, rooms, set)
    BY <1>3, Zenon
  <2> DEFINE g == [n \in 0..N |-> f[n]]
  <2>2. \A n \in 0..N : n \in Nat /\ (n # 0 => n - 1 \in 0..N)
    OBVIOUS
  <2>3. \A n \in 0..N : RetainStep(g, n, rooms, set) = RetainStep(f, n, rooms, set)
    <3>1. \A n \in 0..N : g[n] = f[n]
      OBVIOUS
    <3> HIDE DEF g
    <3> QED
      BY <1>2, <2>2, <3>1, Zenon
  <2>4. g = [n \in 0..N |-> RetainStep(g, n, rooms, set)]
    BY <2>1, <2>3, Zenon
  <2> QED
    BY <2>4, Zenon
<1>5. kept = [n \in 0..Len(rooms) |-> RetainStep(kept, n, rooms, set)]
  <2> DEFINE g == CHOOSE f : f = [n \in 0..Len(rooms) |-> RetainStep(f, n, rooms, set)]
  <2>1. kept = g
    BY Zenon DEF RetainStep
  <2>2. g = [n \in 0..Len(rooms) |-> RetainStep(g, n, rooms, set)]
    BY <1>4, Zenon
  <2> HIDE DEF kept, g
  <2> QED
    BY <2>1, <2>2, Zenon
<1> HIDE DEF kept
<1>6. \A n \in 0..Len(rooms) : kept[n] = RetainStep(kept, n, rooms, set)
  BY <1>5, Zenon
<1> QED
  BY <1>1, <1>6, Zenon

(* Retain keeps exactly the rooms of the set, and no room twice that was   *)
(* there once.                                                             *)
LEMMA RetainedRooms ==
    ASSUME NEW rooms \in Seq(Zones), NEW set
    PROVE  /\ Retain(rooms, set) \in Seq(Zones)
           /\ SeqSet(Retain(rooms, set)) = SeqSet(rooms) \cap set
           /\ Distinct(rooms) => Distinct(Retain(rooms, set))
<1> DEFINE N == Len(rooms)
           Before(n) == {rooms[i] : i \in 1..n}
<1>1. N \in Nat /\ DOMAIN rooms = 1..N /\ \A i \in 1..N : rooms[i] \in Zones
  OBVIOUS
<1>2. PICK f : /\ Retain(rooms, set) = f[N]
               /\ \A n \in 0..N : f[n] = RetainStep(f, n, rooms, set)
  BY <1>1, RetainSteps, Zenon
<1> DEFINE Right(n) == /\ f[n] \in Seq(Zones)
                       /\ SeqSet(f[n]) = Before(n) \cap set
                       /\ Distinct(rooms) => Distinct(f[n])
           S == {n \in 0..N : ~Right(n)}
<1>3. Right(0)
  <2>1. f[0] = <<>>
    BY <1>1, <1>2 DEF RetainStep
  <2>2. Before(0) = {} /\ SeqSet(<<>>) = {} /\ Distinct(<<>>) /\ <<>> \in Seq(Zones)
    BY DEF SeqSet, Distinct
  <2> HIDE DEF Before
  <2> QED
    BY <2>1, <2>2
<1>4. ASSUME NEW n \in 1..N, Right(n - 1)
      PROVE  Right(n)
  <2>1. n \in 0..N /\ n # 0 /\ n \in DOMAIN rooms /\ rooms[n] \in Zones
    BY <1>1
  <2>2. Before(n) = Before(n - 1) \cup {rooms[n]}
    <3>1. n \in Nat /\ n - 1 \in Nat /\ 1..n = 1..(n - 1) \cup {n}
      BY <1>1
    <3> QED
      BY <3>1, Zenon
  <2>3. Distinct(rooms) => rooms[n] \notin Before(n - 1)
    <3>1. \A i \in 1..(n - 1) : i \in DOMAIN rooms /\ i # n
      BY <1>1
    <3> QED
      BY <2>1, <3>1 DEF Distinct
  <2> HIDE DEF Before
  <2>4. CASE rooms[n] \in set
    <3>1. f[n] = Append(f[n - 1], rooms[n])
      BY <1>2, <2>1, <2>4, Zenon DEF RetainStep
    <3> DEFINE s == f[n - 1]
               z == rooms[n]
    <3>2. s \in Seq(Zones) /\ z \in Zones
      BY <1>4, <2>1
    <3>3. z \notin SeqSet(s) \/ ~Distinct(rooms)
      BY <1>4, <2>3, Zenon
    <3> HIDE DEF s, z
    <3>4. /\ Append(s, z) \in Seq(Zones)
          /\ SeqSet(Append(s, z)) = SeqSet(s) \cup {z}
          /\ Distinct(s) /\ z \notin SeqSet(s) => Distinct(Append(s, z))
      <4>1. /\ DOMAIN Append(s, z) = DOMAIN s \cup {Len(s) + 1}
            /\ \A i \in DOMAIN s : Append(s, z)[i] = s[i]
            /\ Append(s, z)[Len(s) + 1] = z
            /\ Append(s, z) \in Seq(Zones)
        BY <3>2
      <4> QED
        BY <4>1, Zenon DEF SeqSet, Distinct
    <3>5. SeqSet(s) = Before(n - 1) \cap set /\ z \in set /\ (Distinct(rooms) => Distinct(s))
      BY <1>4, <2>4, Zenon DEF s, z
    <3>6. Before(n) = Before(n - 1) \cup {z} /\ f[n] = Append(s, z)
      BY <2>2, <3>1, Zenon DEF s, z
    <3> QED
      BY <3>3, <3>4, <3>5, <3>6
  <2>5. CASE rooms[n] \notin set
    <3>1. f[n] = f[n - 1]
      BY <1>2, <2>1, <2>5, Zenon DEF RetainStep
    <3> QED
      BY <1>4, <2>2, <2>5, <3>1
  <2> QED
    BY <2>4, <2>5
<1> HIDE DEF Right
<1>5. S = {}
  <2> SUFFICES ASSUME S # {} PROVE FALSE
    OBVIOUS
  <2>1. N \in Nat /\ S \subseteq 0..N /\ 0 \notin S
    BY <1>1, <1>3
  <2>2. PICK n \in S : n \in 1..N /\ n - 1 \in 0..N /\ n - 1 \notin S
    BY <2>1, FirstFailure, Zenon
  <2> QED
    BY <1>4, <2>2, Zenon
<1>6. N \in 0..N /\ Before(N) = SeqSet(rooms)
  BY <1>1 DEF SeqSet
<1> HIDE DEF Before
<1> QED
  BY <1>2, <1>5, <1>6 DEF Right

----------------------------------------------------------------------------
(* Sequences.                                                              *)

(* The rooms or calls of a sequence and one more.                          *)
LEMMA SetOfAppended ==
    ASSUME NEW T, NEW s \in Seq(T), NEW e \in T
    PROVE  Append(s, e) \in Seq(T) /\ SeqSet(Append(s, e)) = SeqSet(s) \cup {e}
<1>1. /\ DOMAIN Append(s, e) = DOMAIN s \cup {Len(s) + 1}
      /\ \A i \in DOMAIN s : Append(s, e)[i] = s[i]
      /\ Append(s, e)[Len(s) + 1] = e
      /\ Append(s, e) \in Seq(T)
  OBVIOUS
<1> QED
  BY <1>1, Zenon DEF SeqSet

(* A sequence is its head and what comes after.                            *)
LEMMA SetOfTail ==
    ASSUME NEW T, NEW s \in Seq(T), s # <<>>
    PROVE  /\ Head(s) = s[1] /\ Head(s) \in T /\ Tail(s) \in Seq(T) /\ Len(Tail(s)) = Len(s) - 1
           /\ SeqSet(s) = {Head(s)} \cup SeqSet(Tail(s))
           /\ \A i \in DOMAIN Tail(s) : i + 1 \in DOMAIN s /\ Tail(s)[i] = s[i + 1]
<1>1. /\ Tail(s) \in Seq(T) /\ Len(Tail(s)) = Len(s) - 1 /\ 1 \in DOMAIN s
      /\ Head(s) = s[1] /\ Head(s) \in T
      /\ \A i \in DOMAIN Tail(s) : i + 1 \in DOMAIN s /\ Tail(s)[i] = s[i + 1]
      /\ \A i \in DOMAIN s : i # 1 => i - 1 \in DOMAIN Tail(s) /\ Tail(s)[i - 1] = s[i]
  OBVIOUS
<1> DEFINE t == Tail(s)
           h == Head(s)
<1>2. /\ \A i \in DOMAIN s : s[i] = h \/ s[i] \in SeqSet(t)
      /\ \A i \in DOMAIN t : t[i] \in SeqSet(s)
      /\ h \in SeqSet(s)
  BY <1>1 DEF SeqSet
<1> HIDE DEF t, h
<1>3. SeqSet(s) = {h} \cup SeqSet(t)
  BY <1>2 DEF SeqSet
<1> QED
  BY <1>1, <1>3 DEF t, h

(* The elements of two sequences joined, and where they are.               *)
LEMMA SetOfJoined ==
    ASSUME NEW T, NEW s \in Seq(T), NEW t \in Seq(T)
    PROVE  /\ s \o t \in Seq(T) /\ Len(s \o t) = Len(s) + Len(t)
           /\ SeqSet(s \o t) = SeqSet(s) \cup SeqSet(t)
           /\ \A i \in DOMAIN (s \o t) : \/ i \in DOMAIN s /\ (s \o t)[i] = s[i]
                                         \/ i - Len(s) \in DOMAIN t /\ (s \o t)[i] = t[i - Len(s)]
<1>1. /\ s \o t \in Seq(T) /\ Len(s \o t) = Len(s) + Len(t)
      /\ \A i \in DOMAIN (s \o t) : \/ i \in DOMAIN s /\ (s \o t)[i] = s[i]
                                    \/ i - Len(s) \in DOMAIN t /\ (s \o t)[i] = t[i - Len(s)]
      /\ \A i \in DOMAIN s : i \in DOMAIN (s \o t) /\ (s \o t)[i] = s[i]
      /\ \A i \in DOMAIN t : i + Len(s) \in DOMAIN (s \o t) /\ (s \o t)[i + Len(s)] = t[i]
  OBVIOUS
<1>2. SeqSet(s \o t) \subseteq SeqSet(s) \cup SeqSet(t)
  BY <1>1, Zenon DEF SeqSet
<1>3. SeqSet(s) \cup SeqSet(t) \subseteq SeqSet(s \o t)
  <2> DEFINE u == s \o t
  <2>1. /\ \A i \in DOMAIN s : s[i] \in SeqSet(u)
        /\ \A i \in DOMAIN t : t[i] \in SeqSet(u)
    BY <1>1 DEF SeqSet
  <2> HIDE DEF u
  <2>2. SeqSet(s) \cup SeqSet(t) \subseteq SeqSet(u)
    BY <2>1 DEF SeqSet
  <2> QED
    BY <2>2 DEF u
<1> QED
  BY <1>1, <1>2, <1>3

(* One element is replaced, and nothing else.                              *)
LEMMA SetAt ==
    ASSUME NEW T, NEW s \in Seq(T), NEW i \in DOMAIN s, NEW e \in T
    PROVE  /\ [s EXCEPT ![i] = e] \in Seq(T) /\ Len([s EXCEPT ![i] = e]) = Len(s)
           /\ DOMAIN [s EXCEPT ![i] = e] = DOMAIN s
           /\ [s EXCEPT ![i] = e][i] = e
           /\ \A j \in DOMAIN s : j # i => [s EXCEPT ![i] = e][j] = s[j]
  OBVIOUS

(* A sequence of one element.                                              *)
LEMMA SetOfOne ==
    ASSUME NEW T, NEW e \in T
    PROVE  <<e>> \in Seq(T) /\ SeqSet(<<e>>) = {e} /\ Len(<<e>>) = 1 /\ DOMAIN <<e>> = {1}
<1>1. DOMAIN <<e>> = {1} /\ <<e>>[1] = e
  OBVIOUS
<1>2. SeqSet(<<e>>) = {e}
  BY <1>1 DEF SeqSet
<1>3. <<e>> \in Seq(T) /\ Len(<<e>>) = 1
  OBVIOUS
<1> QED
  BY <1>1, <1>2, <1>3

(* The empty sequence, and the only one without elements.                  *)
LEMMA SetOfNone ==
    ASSUME NEW T
    PROVE  /\ <<>> \in Seq(T) /\ SeqSet(<<>>) = {}
           /\ \A s \in Seq(T) : SeqSet(s) \subseteq T /\ (SeqSet(s) = {} => s = <<>>)
<1>1. <<>> \in Seq(T) /\ SeqSet(<<>>) = {}
  BY DEF SeqSet
<1>2. ASSUME NEW s \in Seq(T) PROVE SeqSet(s) \subseteq T
  <2>1. \A i \in DOMAIN s : s[i] \in T
    OBVIOUS
  <2> QED
    BY <2>1 DEF SeqSet
<1>3. ASSUME NEW s \in Seq(T), SeqSet(s) = {} PROVE s = <<>>
  <2>1. DOMAIN s = {}
    BY <1>3 DEF SeqSet
  <2> QED
    BY <2>1
<1> QED
  BY <1>1, <1>2, <1>3

----------------------------------------------------------------------------
(* Calls and groups.                                                       *)

(* A call is what it was made of.                                          *)
LEMMA CallTypes ==
    ASSUME NEW op \in Ops, NEW z \in Zones, NEW g \in Nat
    PROVE  /\ Call(op, z) \in Calls /\ Call(op, z).op = op /\ Call(op, z).zone = z
           /\ [Call(op, z) EXCEPT !.gen = g] \in Calls
           /\ [Call(op, z) EXCEPT !.gen = g].op = op
           /\ [Call(op, z) EXCEPT !.gen = g].zone = z
           /\ [Call(op, z) EXCEPT !.gen = g].gen = g
  BY DEF Call, Calls

(* Nothing comes after a call that begins a session.                       *)
LEMMA BeginLastAfter ==
    ASSUME NEW s \in Seq(Calls), s # <<>>, BeginLast(s)
    PROVE  BeginLast(Tail(s)) /\ (Head(s).op = "begin" => Tail(s) = <<>>)
<1>1. /\ Len(s) \in Nat /\ 1 \in DOMAIN s /\ Head(s) = s[1]
      /\ Tail(s) \in Seq(Calls) /\ Len(Tail(s)) = Len(s) - 1
      /\ \A i \in DOMAIN Tail(s) : i \in Nat /\ i + 1 \in DOMAIN s /\ Tail(s)[i] = s[i + 1]
  OBVIOUS
<1>2. BeginLast(Tail(s))
  <2> DEFINE t == Tail(s)
  <2>1. /\ Len(s) \in Nat /\ Len(t) = Len(s) - 1
        /\ \A i \in DOMAIN t : i \in Nat /\ i + 1 \in DOMAIN s /\ t[i] = s[i + 1]
    BY <1>1
  <2> HIDE DEF t
  <2>2. ASSUME NEW i \in DOMAIN t, t[i].op = "begin" PROVE i = Len(t)
    <3>1. i + 1 = Len(s)
      BY <2>1, <2>2 DEF BeginLast
    <3> QED
      BY <2>1, <3>1
  <2>3. BeginLast(t)
    BY <2>2 DEF BeginLast
  <2> QED
    BY <2>3 DEF t
<1>3. Head(s).op = "begin" => Tail(s) = <<>>
  <2>1. Head(s).op = "begin" => Len(s) = 1
    BY <1>1 DEF BeginLast
  <2> QED
    BY <1>1, <2>1
<1> QED
  BY <1>2, <1>3

(* Calls that begin no session may come before one that does.              *)
LEMMA BeginLastBefore ==
    ASSUME NEW s \in Seq(Calls), NEW t \in Seq(Calls), BeginLast(t),
           \A c \in SeqSet(s) : c.op # "begin"
    PROVE  BeginLast(s \o t)
<1> SUFFICES ASSUME NEW i \in DOMAIN (s \o t), (s \o t)[i].op = "begin"
             PROVE  i = Len(s \o t)
  BY DEF BeginLast
<1>1. /\ Len(s \o t) = Len(s) + Len(t)
      /\ \/ i \in DOMAIN s /\ (s \o t)[i] = s[i]
         \/ i - Len(s) \in DOMAIN t /\ (s \o t)[i] = t[i - Len(s)]
  BY SetOfJoined
<1>2. ~(i \in DOMAIN s /\ (s \o t)[i] = s[i])
  BY DEF SeqSet
<1>3. i - Len(s) = Len(t)
  BY <1>1, <1>2 DEF BeginLast
<1>4. Len(s) \in Nat /\ Len(t) \in Nat /\ i \in Nat
  <2>1. s \o t \in Seq(Calls)
    BY SetOfJoined
  <2> QED
    BY <2>1
<1> QED
  BY <1>1, <1>3, <1>4

(* What is left on the stack when the running call returns.                *)
LEMMA Returned ==
    ASSUME TypeInv, calls # <<>>, NEW more \in Seq(Calls), Return(more)
    PROVE  /\ calls' \in Seq(Calls)
           /\ SeqSet(calls') = SeqSet(more) \cup SeqSet(Tail(calls))
           /\ SeqSet(calls) = {Head(calls)} \cup SeqSet(Tail(calls))
           /\ Head(calls) \in Calls
           /\ Tail(calls) \in Seq(Calls)
<1>1. calls \in Seq(Calls)
  BY DEF TypeInv
<1>2. /\ Tail(calls) \in Seq(Calls) /\ Head(calls) \in Calls
      /\ SeqSet(calls) = {Head(calls)} \cup SeqSet(Tail(calls))
  BY <1>1, SetOfTail
<1>3. calls' = more \o Tail(calls)
  BY DEF Return
<1>4. /\ more \o Tail(calls) \in Seq(Calls)
      /\ SeqSet(more \o Tail(calls)) = SeqSet(more) \cup SeqSet(Tail(calls))
  BY <1>2, SetOfJoined
<1> QED
  BY <1>2, <1>3, <1>4

(* leave_native_group: who restarts is another room that should play,      *)
(* and the room is in no group any more.                                   *)
LEMMA Members ==
    ASSUME TypeInv, NEW z \in Zones
    PROVE  /\ RestartMembers(z) \in Seq(Calls)
           /\ \A c \in SeqSet(RestartMembers(z)) :
                 c.op = "restart" /\ c.zone \in Zones \ {z} /\ Wanted(c.zone)
           /\ \A d \in {GroupsWithout(z), Forgotten(z)} :
                 /\ DOMAIN d \subseteq DOMAIN groups
                 /\ \A c \in DOMAIN d : /\ d[c] \in Seq(Zones)
                                        /\ SeqSet(d[c]) = SeqSet(groups[c]) \ {z}
           /\ z \notin DOMAIN GroupsWithout(z)
<1>1. DOMAIN groups \subseteq Zones /\ \A c \in DOMAIN groups : groups[c] \in Seq(Zones)
  BY DEF TypeInv
<1>2. MembersOf(z) \in Seq(Zones) /\ \A m \in SeqSet(MembersOf(z)) : m # z /\ Wanted(m)
  <2> DEFINE S == {m \in Zones \ {z} : Wanted(m)}
  <2>1. CASE z \in DOMAIN groups
    <3>1. groups[z] \in Seq(Zones)
      BY <1>1, <2>1
    <3>2. MembersOf(z) = Retain(groups[z], S)
      BY <2>1, Zenon DEF MembersOf
    <3>3. Retain(groups[z], S) \in Seq(Zones) /\ SeqSet(Retain(groups[z], S)) \subseteq S
      BY <3>1, RetainedRooms, Zenon
    <3> QED
      BY <3>2, <3>3
  <2>2. CASE z \notin DOMAIN groups
    <3>1. MembersOf(z) = <<>>
      BY <2>2, Zenon DEF MembersOf
    <3> QED
      BY <3>1, SetOfNone
  <2> QED
    BY <2>1, <2>2
<1>3. ASSUME NEW i \in DOMAIN MembersOf(z)
      PROVE  /\ Call("restart", MembersOf(z)[i]) \in Calls
             /\ Call("restart", MembersOf(z)[i]).op = "restart"
             /\ Call("restart", MembersOf(z)[i]).zone = MembersOf(z)[i]
             /\ MembersOf(z)[i] \in Zones \ {z} /\ Wanted(MembersOf(z)[i])
  <2>1. MembersOf(z)[i] \in Zones /\ MembersOf(z)[i] \in SeqSet(MembersOf(z))
    BY <1>2 DEF SeqSet
  <2>2. "restart" \in Ops
    BY DEF Ops
  <2> QED
    BY <1>2, <2>1, <2>2, CallTypes
<1>4. /\ RestartMembers(z) \in Seq(Calls)
      /\ \A c \in SeqSet(RestartMembers(z)) :
            c.op = "restart" /\ c.zone \in Zones \ {z} /\ Wanted(c.zone)
  <2> DEFINE s == MembersOf(z)
             call(i) == Call("restart", s[i])
  <2>1. RestartMembers(z) = [i \in DOMAIN s |-> call(i)]
    BY DEF RestartMembers
  <2>2. DOMAIN s = 1..Len(s) /\ Len(s) \in Nat
    BY <1>2
  <2>3. \A i \in DOMAIN s : /\ call(i) \in Calls /\ call(i).op = "restart"
                            /\ call(i).zone \in Zones \ {z} /\ Wanted(call(i).zone)
    BY <1>3
  <2> HIDE DEF s, call
  <2> QED
    BY <2>1, <2>2, <2>3 DEF SeqSet
<1>5. ASSUME NEW c \in DOMAIN groups
      PROVE  /\ Retain(groups[c], Zones \ {z}) \in Seq(Zones)
             /\ SeqSet(Retain(groups[c], Zones \ {z})) = SeqSet(groups[c]) \ {z}
  <2>1. groups[c] \in Seq(Zones)
    BY <1>1
  <2>2. SeqSet(groups[c]) \subseteq Zones
    BY <2>1, SetOfNone
  <2>3. /\ Retain(groups[c], Zones \ {z}) \in Seq(Zones)
        /\ SeqSet(Retain(groups[c], Zones \ {z})) = SeqSet(groups[c]) \cap (Zones \ {z})
    BY <2>1, RetainedRooms, Zenon
  <2> QED
    BY <2>2, <2>3
<1> QED
  BY <1>4, <1>5 DEF GroupsWithout, Forgotten

(* What LeaveGroup leaves on the stack: the restarts of the members, and   *)
(* then what was to come next.                                             *)
LEMMA Left ==
    ASSUME TypeInv, NEW z \in Zones, NEW next \in Seq(Calls), LeaveGroup(z, next)
    PROVE  /\ calls' \in Seq(Calls)
           /\ SeqSet(calls') = SeqSet(RestartMembers(z)) \cup SeqSet(next)
           /\ \A c \in SeqSet(RestartMembers(z)) :
                 c.op = "restart" /\ c.zone \in Zones \ {z} /\ Wanted(c.zone)
           /\ BeginLast(next) => BeginLast(calls')
           /\ groups' = GroupsWithout(z)
<1>1. /\ RestartMembers(z) \in Seq(Calls)
      /\ \A c \in SeqSet(RestartMembers(z)) :
            c.op = "restart" /\ c.zone \in Zones \ {z} /\ Wanted(c.zone)
  BY Members
<1>2. calls' = RestartMembers(z) \o next /\ groups' = GroupsWithout(z)
  BY DEF LeaveGroup
<1>3. BeginLast(next) => BeginLast(calls')
  BY <1>1, <1>2, BeginLastBefore
<1> QED
  BY <1>1, <1>2, <1>3, SetOfJoined

----------------------------------------------------------------------------
(* Playing prepared streams.                                               *)

Plans == {"none", "set", "group", "held"}

(* Only the playback plan of a session changes.                            *)
LEMMA PlanTypes ==
    ASSUME NEW s \in Session, NEW p \in Plans
    PROVE  [s EXCEPT !.plan = p] \in Session
  BY DEF Session, Plans

(* plan_native_groups chooses a coordinator that should play, one that     *)
(* plays, coordinates already, or is among the prepared rooms; and members *)
(* from among those.                                                       *)
LEMMA Choices ==
    ASSUME TypeInv, NEW ready \in Seq(Zones), \A z \in SeqSet(ready) : Wanted(z),
           NEW s \in Senders, NEW c \in Coordinators(ready, s)
    PROVE  /\ c # Nothing => c \in Zones /\ Wanted(c)
           /\ c # Nothing => c \in DOMAIN groups \/ Playing(c) \/ c \in SeqSet(ready)
           /\ JoiningOf(ready, s, c) \in Seq(Zones)
           /\ SeqSet(JoiningOf(ready, s, c)) \subseteq SeqSet(ready)
<1> DEFINE streams == SenderStreams(ready, s)
<1>1. streams \in Seq(Zones) /\ SeqSet(streams) \subseteq SeqSet(ready)
  BY RetainedRooms, Zenon DEF SenderStreams
<1>2. streams # <<>> => /\ streams[1] \in SeqSet(ready) /\ streams[1] \in Zones
                        /\ Tail(streams) \in Seq(Zones)
                        /\ SeqSet(Tail(streams)) \subseteq SeqSet(ready)
  <2> HIDE DEF streams
  <2> SUFFICES ASSUME streams # <<>> PROVE <1>2!2
    OBVIOUS
  <2>1. Head(streams) = streams[1] /\ Head(streams) \in Zones
    BY <1>1, SetOfTail
  <2> QED
    BY <1>1, <2>1, SetOfTail
<1>3. PlayingSonos(s) \subseteq {z \in Zones : Wanted(z) /\ (z \in DOMAIN groups \/ Playing(z))}
  BY SonosAssumption, Zenon DEF PlayingSonos, Playing
<1>4. c = Nothing \/ c \in PlayingSonos(s) \/ (PlayingSonos(s) = {} /\ Len(streams) > 1 /\ c = streams[1])
  <2> HIDE DEF streams
  <2>1. CASE ~NativeGroups \/ streams = <<>>
    <3>1. Coordinators(ready, s) = {Nothing}
      BY <2>1, Zenon DEF Coordinators, streams
    <3> QED
      BY <3>1
  <2>2. CASE ~(~NativeGroups \/ streams = <<>>) /\ PlayingSonos(s) # {}
    <3>1. Coordinators(ready, s) = PlayingSonos(s)
      BY <2>2, Zenon DEF Coordinators, streams
    <3> QED
      BY <3>1
  <2>3. CASE ~(~NativeGroups \/ streams = <<>>) /\ PlayingSonos(s) = {} /\ Len(streams) > 1
    <3>1. Coordinators(ready, s) = {streams[1]}
      BY <2>3, Zenon DEF Coordinators, streams
    <3> QED
      BY <2>3, <3>1
  <2>4. CASE ~(~NativeGroups \/ streams = <<>>) /\ PlayingSonos(s) = {} /\ ~(Len(streams) > 1)
    <3>1. Coordinators(ready, s) = {Nothing}
      BY <2>4, Zenon DEF Coordinators, streams
    <3> QED
      BY <3>1
  <2> QED
    BY <2>1, <2>2, <2>3, <2>4
<1>5. Len(streams) > 1 => streams # <<>>
  BY <1>1
<1>6. c # Nothing => /\ c \in Zones /\ Wanted(c)
                     /\ c \in DOMAIN groups \/ Playing(c) \/ c \in SeqSet(ready)
  BY <1>2, <1>3, <1>4, <1>5
<1>7. JoiningOf(ready, s, c) \in {<<>>, streams} \cup {x \in {Tail(streams)} : streams # <<>>}
  <2> HIDE DEF streams
  <2>1. CASE c = Nothing
    BY <2>1 DEF JoiningOf
  <2>2. CASE c # Nothing /\ PlayingSonos(s) # {}
    BY <2>2 DEF JoiningOf, streams
  <2>3. CASE c # Nothing /\ PlayingSonos(s) = {}
    <3>1. streams # <<>>
      BY <1>4, <1>5, <2>3
    <3> QED
      BY <2>3, <3>1 DEF JoiningOf, streams
  <2> QED
    BY <2>1, <2>2, <2>3
<1> QED
  BY <1>1, <1>2, <1>6, <1>7, SetOfNone

(* Nothing but the plan of a room's session changes, and its worker is     *)
(* told to start.                                                          *)
LEMMA Played ==
    ASSUME TypeInv, NEW from \in Sessions, NEW ready \in Seq(Zones),
           \A z \in SeqSet(ready) : Wanted(z) /\ from[z] \in Session /\ sessions[z].gen \in Nat,
           PlayPrepared(from, ready)
    PROVE  /\ sessions' \in Sessions /\ slot' \in Channels /\ fresh' \in [Zones -> BOOLEAN]
           /\ busy' = busy
           /\ \A z \in SeqSet(ready) :
                 /\ \E p \in Plans : sessions'[z] = [from[z] EXCEPT !.plan = p]
                 /\ slot'[z] \in Command /\ slot'[z].kind \in StartKinds
                 /\ slot'[z].gen = sessions[z].gen /\ fresh'[z]
           /\ \A z \in Zones : z \notin SeqSet(ready) =>
                 sessions'[z] = from[z] /\ slot'[z] = slot[z] /\ fresh'[z] = fresh[z]
           /\ DOMAIN groups' \subseteq Zones
           /\ \A c \in DOMAIN groups' :
                 /\ groups'[c] \in Seq(Zones)
                 /\ c \in DOMAIN groups \/ Playing(c) \/ c \in SeqSet(ready)
                 /\ \A m \in SeqSet(groups'[c]) : \/ c \in DOMAIN groups /\ m \in SeqSet(groups[c])
                                                  \/ Wanted(m) /\ Wanted(c)
<1>1. SeqSet(ready) \subseteq Zones
  BY SetOfNone
<1>2. PICK choice \in [Senders -> Zones \cup {Nothing}] :
        LET joins == [s \in Senders |-> JoiningOf(ready, s, choice[s])]
            joining == UNION {SeqSet(joins[s]) : s \in Senders}
            chosen == {choice[s] : s \in Senders} \ {Nothing}
            kind(z) == IF z \in joining THEN "Join"
                       ELSE IF joining # {} THEN "PlayGroup" ELSE "Play"
            plan(z) == IF z \in joining THEN "held"
                       ELSE IF joining # {} THEN "group" ELSE "set"
        IN  /\ \A s \in Senders : choice[s] \in Coordinators(ready, s)
            /\ groups' = [c \in DOMAIN groups \cup chosen |->
                   LET old == IF c \in DOMAIN groups THEN groups[c] ELSE <<>>
                   IN  IF c \in chosen THEN old \o joins[Sender[c]] ELSE old]
            /\ sessions' = [z \in Zones |-> IF z \in SeqSet(ready)
                   THEN [from[z] EXCEPT !.plan = plan(z)] ELSE from[z]]
            /\ slot' = [z \in Zones |-> IF z \in SeqSet(ready)
                   THEN [kind |-> kind(z), gen |-> sessions[z].gen] ELSE slot[z]]
            /\ fresh' = [z \in Zones |-> z \in SeqSet(ready) \/ fresh[z]]
            /\ UNCHANGED busy
  BY Zenon DEF PlayPrepared
<1> DEFINE joins == [s \in Senders |-> JoiningOf(ready, s, choice[s])]
           joining == UNION {SeqSet(joins[s]) : s \in Senders}
           chosen == {choice[s] : s \in Senders} \ {Nothing}
           kind(z) == IF z \in joining THEN "Join"
                      ELSE IF joining # {} THEN "PlayGroup" ELSE "Play"
           plan(z) == IF z \in joining THEN "held"
                      ELSE IF joining # {} THEN "group" ELSE "set"
           old(c) == IF c \in DOMAIN groups THEN groups[c] ELSE <<>>
<1>3. /\ \A s \in Senders : choice[s] \in Coordinators(ready, s)
      /\ groups' = [c \in DOMAIN groups \cup chosen |->
             IF c \in chosen THEN old(c) \o joins[Sender[c]] ELSE old(c)]
      /\ sessions' = [z \in Zones |-> IF z \in SeqSet(ready)
             THEN [from[z] EXCEPT !.plan = plan(z)] ELSE from[z]]
      /\ slot' = [z \in Zones |-> IF z \in SeqSet(ready)
             THEN [kind |-> kind(z), gen |-> sessions[z].gen] ELSE slot[z]]
      /\ fresh' = [z \in Zones |-> z \in SeqSet(ready) \/ fresh[z]]
      /\ busy' = busy
  BY <1>2, Zenon
<1>4. \A z : kind(z) \in StartKinds /\ plan(z) \in Plans
  <2> HIDE DEF joining
  <2> QED
    BY DEF StartKinds, Plans
<1>5. \A s \in Senders : /\ joins[s] \in Seq(Zones) /\ \A m \in SeqSet(joins[s]) : Wanted(m)
                         /\ choice[s] # Nothing =>
                               /\ choice[s] \in Zones /\ Wanted(choice[s])
                               /\ \/ choice[s] \in DOMAIN groups \/ Playing(choice[s])
                                  \/ choice[s] \in SeqSet(ready)
  BY <1>3, Choices, Zenon
<1>6. \A c \in chosen : /\ c \in Zones /\ Wanted(c) /\ Sender[c] \in Senders
                        /\ c \in DOMAIN groups \/ Playing(c) \/ c \in SeqSet(ready)
  <2>1. \A c \in Zones : Sender[c] \in Senders
    BY DEF Senders
  <2> QED
    BY <1>5, <2>1, Zenon
<1> HIDE DEF joins, joining, chosen, kind, plan
<1>7. /\ DOMAIN groups \subseteq Zones
      /\ \A c : /\ old(c) \in Seq(Zones)
                /\ \A m \in SeqSet(old(c)) : c \in DOMAIN groups /\ m \in SeqSet(groups[c])
  BY SetOfNone DEF TypeInv
<1> HIDE DEF old
<1>8. ASSUME NEW c \in DOMAIN groups'
      PROVE  /\ c \in Zones /\ groups'[c] \in Seq(Zones)
             /\ c \in DOMAIN groups \/ Playing(c) \/ c \in SeqSet(ready)
             /\ \A m \in SeqSet(groups'[c]) : \/ c \in DOMAIN groups /\ m \in SeqSet(groups[c])
                                              \/ Wanted(m) /\ Wanted(c)
  <2>1. /\ c \in DOMAIN groups \cup chosen
        /\ groups'[c] = IF c \in chosen THEN old(c) \o joins[Sender[c]] ELSE old(c)
    BY <1>3, <1>8
  <2>2. CASE c \in chosen
    <3>1. /\ old(c) \in Seq(Zones) /\ joins[Sender[c]] \in Seq(Zones)
          /\ groups'[c] = old(c) \o joins[Sender[c]]
      BY <1>5, <1>6, <1>7, <2>1, <2>2
    <3>2. groups'[c] \in Seq(Zones) /\ SeqSet(groups'[c]) = SeqSet(old(c)) \cup SeqSet(joins[Sender[c]])
      BY <3>1, SetOfJoined
    <3> QED
      BY <1>5, <1>6, <1>7, <2>2, <3>2, Zenon
  <2>3. CASE c \notin chosen
    BY <1>7, <2>1, <2>3
  <2> QED
    BY <2>2, <2>3
<1>9. ASSUME NEW z \in SeqSet(ready)
      PROVE  /\ z \in Zones
             /\ sessions'[z] = [from[z] EXCEPT !.plan = plan(z)] /\ sessions'[z] \in Session
             /\ slot'[z] = [kind |-> kind(z), gen |-> sessions[z].gen] /\ slot'[z] \in Command
             /\ slot'[z].kind \in StartKinds /\ slot'[z].gen = sessions[z].gen
             /\ fresh'[z]
  <2>1. /\ z \in Zones /\ sessions'[z] = [from[z] EXCEPT !.plan = plan(z)]
        /\ slot'[z] = [kind |-> kind(z), gen |-> sessions[z].gen]
        /\ fresh'[z]
    BY <1>1, <1>3
  <2>2. sessions'[z] \in Session
    BY <1>4, <2>1, PlanTypes, Zenon
  <2>3. slot'[z] \in Command /\ slot'[z].kind \in StartKinds /\ slot'[z].gen = sessions[z].gen
    BY <1>4, <2>1 DEF Command, StartKinds, Kinds
  <2> QED
    BY <2>1, <2>2, <2>3
<1>10. \A z \in Zones : z \notin SeqSet(ready) =>
          sessions'[z] = from[z] /\ slot'[z] = slot[z] /\ fresh'[z] = fresh[z]
  <2>1. fresh \in [Zones -> BOOLEAN]
    BY DEF TypeInv
  <2> QED
    BY <1>3, <2>1
<1>11. sessions' \in Sessions /\ slot' \in Channels /\ fresh' \in [Zones -> BOOLEAN]
  <2>1. \A z \in Zones : /\ sessions'[z] \in Session \cup {Nothing}
                         /\ slot'[z] \in Command \cup {Nothing}
    BY <1>9, <1>10 DEF TypeInv, Sessions, Channels
  <2>2. /\ sessions' = [z \in Zones |-> sessions'[z]]
        /\ slot' = [z \in Zones |-> slot'[z]]
    BY <1>3
  <2>3. fresh' \in [Zones -> BOOLEAN]
    BY <1>3 DEF TypeInv
  <2> QED
    BY <2>1, <2>2, <2>3 DEF Sessions, Channels
<1> QED
  BY <1>3, <1>4, <1>8, <1>9, <1>10, <1>11

----------------------------------------------------------------------------
(* Cohorts.                                                                *)

(* The parts of a cohort.                                                  *)
LEMMA CohortTypes ==
    ASSUME NEW c \in Cohort
    PROVE  /\ c.sessions \in Seq(Zones) /\ c.prepared \in [Zones -> Nat] /\ c.phase \in Phases
           /\ SeqSet(c.sessions) \subseteq Zones
<1>1. c.sessions \in Seq(Zones) /\ c.prepared \in [Zones -> Nat] /\ c.phase \in Phases
  BY DEF Cohort
<1> QED
  BY <1>1, SetOfNone

(* Only the rooms of a cohort change.                                      *)
LEMMA WithSessions ==
    ASSUME NEW c \in Cohort, NEW s \in Seq(Zones)
    PROVE  /\ [c EXCEPT !.sessions = s] \in Cohort
           /\ [c EXCEPT !.sessions = s].sessions = s
           /\ [c EXCEPT !.sessions = s].prepared = c.prepared
           /\ [c EXCEPT !.sessions = s].phase = c.phase
  BY DEF Cohort

(* A room that is withdrawn from a cohort has no place and no prepared     *)
(* stream in it.                                                           *)
LEMMA Withdrawn ==
    ASSUME NEW c \in Cohort, NEW z \in Zones
    PROVE  /\ Withdraw(z, c) \in Cohort
           /\ SeqSet(Withdraw(z, c).sessions) = SeqSet(c.sessions) \ {z}
           /\ Distinct(c.sessions) => Distinct(Withdraw(z, c).sessions)
           /\ Withdraw(z, c).prepared = [c.prepared EXCEPT ![z] = 0]
           /\ Withdraw(z, c).phase = c.phase
<1> DEFINE s == Retain(c.sessions, Zones \ {z})
<1>1. /\ c.sessions \in Seq(Zones) /\ c.prepared \in [Zones -> Nat] /\ c.phase \in Phases
      /\ SeqSet(c.sessions) \subseteq Zones
  BY CohortTypes
<1>2. /\ s \in Seq(Zones) /\ SeqSet(s) = SeqSet(c.sessions) \cap (Zones \ {z})
      /\ Distinct(c.sessions) => Distinct(s)
  BY <1>1, RetainedRooms, Zenon
<1>3. Withdraw(z, c) = [c EXCEPT !.sessions = s, !.prepared[z] = 0]
  BY Zenon DEF Withdraw
<1> HIDE DEF s
<1>4. /\ Withdraw(z, c).sessions = s /\ Withdraw(z, c).phase = c.phase
      /\ Withdraw(z, c).prepared = [c.prepared EXCEPT ![z] = 0]
      /\ Withdraw(z, c) = [sessions |-> s, prepared |-> [c.prepared EXCEPT ![z] = 0],
                           phase |-> c.phase]
  BY <1>3 DEF Cohort
<1>5. [c.prepared EXCEPT ![z] = 0] \in [Zones -> Nat]
  BY <1>1
<1>6. Withdraw(z, c) \in Cohort
  BY <1>1, <1>2, <1>4, <1>5 DEF Cohort
<1> QED
  BY <1>1, <1>2, <1>4, <1>6

(* A cohort that is pruned keeps its wanted rooms, and what they           *)
(* prepared in their current generation.                                   *)
LEMMA PrunedCohort ==
    ASSUME TypeInv, NEW c \in Cohort
    PROVE  /\ Pruned(c) \in Cohort
           /\ SeqSet(Pruned(c).sessions) = {z \in SeqSet(c.sessions) : Wanted(z)}
           /\ Distinct(c.sessions) => Distinct(Pruned(c).sessions)
           /\ \A z \in Zones : Pruned(c).prepared[z] =
                  IF z \in SeqSet(c.sessions) /\ Wanted(z) /\ c.prepared[z] = sessions[z].gen
                  THEN c.prepared[z] ELSE 0
           /\ Pruned(c).phase = c.phase
<1> DEFINE s == Retain(c.sessions, {z \in Zones : Wanted(z)})
           p == [z \in Zones |->
                     IF (\E i \in DOMAIN s : s[i] = z) /\ c.prepared[z] = sessions[z].gen
                     THEN c.prepared[z] ELSE 0]
<1>1. /\ c.sessions \in Seq(Zones) /\ c.prepared \in [Zones -> Nat] /\ c.phase \in Phases
      /\ SeqSet(c.sessions) \subseteq Zones
  BY CohortTypes
<1>2. /\ s \in Seq(Zones) /\ SeqSet(s) = SeqSet(c.sessions) \cap {z \in Zones : Wanted(z)}
      /\ Distinct(c.sessions) => Distinct(s)
  BY <1>1, RetainedRooms, Zenon
<1>3. Pruned(c) = [c EXCEPT !.sessions = s, !.prepared = p]
  BY Zenon DEF Pruned
<1>4. /\ p \in [Zones -> Nat]
      /\ \A z \in Zones : p[z] = IF z \in SeqSet(s) /\ c.prepared[z] = sessions[z].gen
                                 THEN c.prepared[z] ELSE 0
  <2> HIDE DEF s
  <2>1. \A z : (\E i \in DOMAIN s : s[i] = z) <=> z \in SeqSet(s)
    BY DEF SeqSet
  <2> QED
    BY <1>1, <2>1
<1> HIDE DEF s, p
<1>5. /\ Pruned(c).sessions = s /\ Pruned(c).phase = c.phase /\ Pruned(c).prepared = p
      /\ Pruned(c) = [sessions |-> s, prepared |-> p, phase |-> c.phase]
  BY <1>3 DEF Cohort
<1>6. Pruned(c) \in Cohort
  BY <1>1, <1>2, <1>4, <1>5 DEF Cohort
<1>7. SeqSet(s) = {z \in SeqSet(c.sessions) : Wanted(z)}
  BY <1>1, <1>2
<1> QED
  BY <1>2, <1>4, <1>5, <1>6, <1>7

(* The rooms that may start are those of the cohort with a prepared        *)
(* stream.                                                                 *)
LEMMA Ready ==
    ASSUME NEW c \in Cohort
    PROVE  /\ ReadyIn(c) \in Seq(Zones)
           /\ SeqSet(ReadyIn(c)) = {z \in SeqSet(c.sessions) : c.prepared[z] # 0}
<1>1. c.sessions \in Seq(Zones) /\ SeqSet(c.sessions) \subseteq Zones
  BY CohortTypes
<1>2. /\ ReadyIn(c) \in Seq(Zones)
      /\ SeqSet(ReadyIn(c)) = SeqSet(c.sessions) \cap {z \in Zones : c.prepared[z] # 0}
  BY <1>1, RetainedRooms, Zenon DEF ReadyIn
<1> QED
  BY <1>1, <1>2

(* Startable says of a cohort what ShouldStart says of it when it is       *)
(* pruned.                                                                 *)
LEMMA StartsWhenStartable ==
    ASSUME TypeInv, NEW c \in Cohort
    PROVE  ShouldStart(Pruned(c)) <=> Startable(c)
<1> DEFINE d == Pruned(c)
<1>1. /\ d \in Cohort /\ SeqSet(d.sessions) = {z \in SeqSet(c.sessions) : Wanted(z)}
      /\ \A z \in Zones : d.prepared[z] =
             IF z \in SeqSet(c.sessions) /\ Wanted(z) /\ c.prepared[z] = sessions[z].gen
             THEN c.prepared[z] ELSE 0
      /\ d.phase = c.phase
  BY PrunedCohort
<1>2. SeqSet(c.sessions) \subseteq Zones
  BY CohortTypes
<1>3. ShouldStart(d) <=> d.phase = "expired" \/ \A z \in SeqSet(d.sessions) : d.prepared[z] # 0
  BY DEF ShouldStart, AllPrepared, SeqSet
<1> HIDE DEF d
<1>4. ShouldStart(d) <=> Startable(c)
  BY <1>1, <1>2, <1>3 DEF Startable
<1> QED
  BY <1>4 DEF d

(* Every cohort loses the room, and the youngest one gets it at its end    *)
(* while its window is open; else it gets a cohort of its own.             *)
LEMMA Admitted ==
    ASSUME NEW z \in Zones, cohorts \in Seq(Cohort), cohorts' = Admit(z)
    PROVE  /\ cohorts' \in Seq(Cohort)
           /\ \A i \in DOMAIN cohorts' :
                 /\ z \in SeqSet(cohorts'[i].sessions) <=> i = Len(cohorts')
                 /\ cohorts'[i].prepared[z] = 0
                 /\ \/ /\ i \in DOMAIN cohorts
                       /\ SeqSet(cohorts'[i].sessions) \ {z} = SeqSet(cohorts[i].sessions) \ {z}
                       /\ \A y \in Zones \ {z} : cohorts'[i].prepared[y] = cohorts[i].prepared[y]
                       /\ Distinct(cohorts[i].sessions) => Distinct(cohorts'[i].sessions)
                    \/ /\ i = Len(cohorts')
                       /\ cohorts'[i] = NewCohort(z)
                       /\ SeqSet(cohorts'[i].sessions) = {z} /\ Distinct(cohorts'[i].sessions)
           /\ \A i \in DOMAIN cohorts :
                 /\ i \in DOMAIN cohorts'
                 /\ \A y \in Zones \ {z} : cohorts'[i].prepared[y] = cohorts[i].prepared[y]
<1> DEFINE without == [i \in DOMAIN cohorts |-> Withdraw(z, cohorts[i])]
           last == Len(cohorts)
<1>1. last \in Nat /\ DOMAIN cohorts = 1..last /\ \A i \in 1..last : cohorts[i] \in Cohort
  OBVIOUS
<1>2. /\ without \in Seq(Cohort) /\ Len(without) = last
      /\ \A i \in 1..last : without[i] = Withdraw(z, cohorts[i]) /\ without[i] \in Cohort
  <2>1. \A i \in 1..last : Withdraw(z, cohorts[i]) \in Cohort
    BY <1>1, Withdrawn
  <2> QED
    BY <1>1, <2>1
<1>3. \A i \in 1..last :
        /\ SeqSet(without[i].sessions) = SeqSet(cohorts[i].sessions) \ {z}
        /\ Distinct(cohorts[i].sessions) => Distinct(without[i].sessions)
        /\ without[i].prepared[z] = 0
        /\ \A y \in Zones \ {z} : without[i].prepared[y] = cohorts[i].prepared[y]
  <2> SUFFICES ASSUME NEW i \in 1..last PROVE <1>3!(i)
    OBVIOUS
  <2>1. cohorts[i].prepared \in [Zones -> Nat] /\ cohorts[i] \in Cohort
    BY <1>1, CohortTypes
  <2>2. /\ SeqSet(Withdraw(z, cohorts[i]).sessions) = SeqSet(cohorts[i].sessions) \ {z}
        /\ Distinct(cohorts[i].sessions) => Distinct(Withdraw(z, cohorts[i]).sessions)
        /\ Withdraw(z, cohorts[i]).prepared = [cohorts[i].prepared EXCEPT ![z] = 0]
    BY <2>1, Withdrawn
  <2>3. without[i] = Withdraw(z, cohorts[i])
    BY <1>2
  <2> QED
    BY <2>1, <2>2, <2>3
<1>4. cohorts' = IF last > 0 /\ cohorts[last].phase = "open"
                 THEN [without EXCEPT ![last].sessions = Append(@, z)]
                 ELSE Append(without, NewCohort(z))
  BY Zenon DEF Admit
<1> HIDE DEF without
<1>5. CASE last > 0 /\ cohorts[last].phase = "open"
  <2> DEFINE w == without[last]
             more == [w EXCEPT !.sessions = Append(@, z)]
  <2>1. w \in Cohort /\ last \in 1..last
    BY <1>1, <1>2, <1>5
  <2>2. w.sessions \in Seq(Zones) /\ w.prepared \in [Zones -> Nat] /\ w.phase \in Phases
    BY <2>1, CohortTypes
  <2>3. /\ Append(w.sessions, z) \in Seq(Zones)
        /\ SeqSet(Append(w.sessions, z)) = SeqSet(w.sessions) \cup {z}
    BY <2>2, SetOfAppended
  <2>4. z \notin SeqSet(w.sessions) /\ Distinct(w.sessions) => Distinct(Append(w.sessions, z))
    <3> DEFINE s == w.sessions
    <3>1. s \in Seq(Zones)
      BY <2>2
    <3> HIDE DEF s
    <3>2. /\ DOMAIN Append(s, z) = DOMAIN s \cup {Len(s) + 1}
          /\ \A i \in DOMAIN s : Append(s, z)[i] = s[i]
          /\ Append(s, z)[Len(s) + 1] = z
      BY <3>1
    <3>3. z \notin SeqSet(s) /\ Distinct(s) => Distinct(Append(s, z))
      BY <3>2, Zenon DEF SeqSet, Distinct
    <3> QED
      BY <3>3 DEF s
  <2>5. /\ more \in Cohort
        /\ more.sessions = Append(w.sessions, z) /\ more.prepared = w.prepared
    <3>1. more = [w EXCEPT !.sessions = Append(w.sessions, z)]
      OBVIOUS
    <3> HIDE DEF w, more
    <3> QED
      BY <2>1, <2>3, <3>1, WithSessions
  <2>6. cohorts' = [without EXCEPT ![last] = more]
    BY <1>4, <1>5
  <2> HIDE DEF more
  <2>7. /\ cohorts' \in Seq(Cohort) /\ Len(cohorts') = last /\ DOMAIN cohorts' = 1..last
        /\ cohorts'[last] = more /\ \A i \in 1..last : i # last => cohorts'[i] = without[i]
    <3>1. /\ without \in Seq(Cohort) /\ last \in DOMAIN without /\ more \in Cohort
          /\ DOMAIN without = 1..last
      BY <1>1, <1>2, <2>1, <2>5
    <3> HIDE DEF last, w
    <3> QED
      BY <1>2, <2>6, <3>1, SetAt
  <2>8. /\ SeqSet(more.sessions) = SeqSet(without[last].sessions) \cup {z}
        /\ more.prepared = without[last].prepared
        /\ z \notin SeqSet(without[last].sessions)
        /\ Distinct(without[last].sessions) => Distinct(more.sessions)
    BY <1>3, <2>1, <2>3, <2>4, <2>5
  <2> HIDE DEF w
  <2>9. ASSUME NEW i \in 1..last
        PROVE  /\ z \in SeqSet(cohorts'[i].sessions) <=> i = last
               /\ cohorts'[i].prepared[z] = 0
               /\ SeqSet(cohorts'[i].sessions) \ {z} = SeqSet(cohorts[i].sessions) \ {z}
               /\ \A y \in Zones \ {z} : cohorts'[i].prepared[y] = cohorts[i].prepared[y]
               /\ Distinct(cohorts[i].sessions) => Distinct(cohorts'[i].sessions)
    <3>1. CASE i = last
      BY <1>3, <2>1, <2>7, <2>8, <3>1
    <3>2. CASE i # last
      BY <1>3, <2>7, <3>2
    <3> QED
      BY <3>1, <3>2
  <2> QED
    BY <1>1, <2>7, <2>9
<1>6. CASE ~(last > 0 /\ cohorts[last].phase = "open")
  <2> DEFINE new == NewCohort(z)
  <2>1. /\ new \in Cohort /\ SeqSet(new.sessions) = {z} /\ Distinct(new.sessions)
        /\ new.prepared[z] = 0
    <3>1. /\ new.sessions = <<z>> /\ new.prepared = [m \in Zones |-> 0]
          /\ new = [sessions |-> <<z>>, prepared |-> [m \in Zones |-> 0], phase |-> "open"]
      BY DEF NewCohort
    <3>2. <<z>> \in Seq(Zones) /\ SeqSet(<<z>>) = {z} /\ DOMAIN <<z>> = {1}
      BY SetOfOne
    <3>3. Distinct(<<z>>)
      BY <3>2 DEF Distinct
    <3>4. [m \in Zones |-> 0] \in [Zones -> Nat] /\ "open" \in Phases
      BY DEF Phases
    <3> HIDE DEF new
    <3> QED
      BY <3>1, <3>2, <3>3, <3>4 DEF Cohort
  <2>2. cohorts' = Append(without, new)
    BY <1>4, <1>6
  <2>3. new = NewCohort(z)
    OBVIOUS
  <2> HIDE DEF new
  <2>4. /\ cohorts' \in Seq(Cohort) /\ Len(cohorts') = last + 1 /\ DOMAIN cohorts' = 1..last \cup {last + 1}
        /\ cohorts'[last + 1] = new /\ \A i \in 1..last : i # last + 1 /\ cohorts'[i] = without[i]
    BY <1>1, <1>2, <2>1, <2>2
  <2>5. ASSUME NEW i \in 1..last
        PROVE  /\ ~(z \in SeqSet(cohorts'[i].sessions)) /\ i # last + 1
               /\ cohorts'[i].prepared[z] = 0
               /\ SeqSet(cohorts'[i].sessions) \ {z} = SeqSet(cohorts[i].sessions) \ {z}
               /\ \A y \in Zones \ {z} : cohorts'[i].prepared[y] = cohorts[i].prepared[y]
               /\ Distinct(cohorts[i].sessions) => Distinct(cohorts'[i].sessions)
    BY <1>3, <2>4
  <2> QED
    BY <1>1, <2>1, <2>3, <2>4, <2>5
<1> QED
  BY <1>5, <1>6

----------------------------------------------------------------------------
(* Types.                                                                  *)

(* A generation that is drawn is greater than every one drawn before it    *)
(* for the room.                                                           *)
LEMMA Fresh ==
    ASSUME TypeInv, NEW z \in Zones
    PROVE  /\ generation[z] \in Nat /\ NextGeneration(z) \in Nat
           /\ NextGeneration(z) > generation[z]
           /\ Live(z) => /\ sessions[z] \in Session /\ sessions[z].gen \in Nat
                         /\ sessions[z].encoder \in Nat /\ sessions[z].desired \in BOOLEAN
           /\ \A s \in Session : [sessions EXCEPT ![z] = s] \in Sessions
           /\ [sessions EXCEPT ![z] = Nothing] \in Sessions
  BY DEF TypeInv, NextGeneration, Live, Sessions, Session

(* A command replaces what was queued for its room, and nothing of the     *)
(* other rooms.                                                            *)
LEMMA PutTypes ==
    ASSUME TypeInv, NEW z \in Zones, NEW kind \in Kinds, NEW g \in Nat, Put(z, kind, g)
    PROVE  /\ slot' \in Channels /\ fresh' \in [Zones -> BOOLEAN] /\ busy' = busy
           /\ slot'[z] = [kind |-> kind, gen |-> g] /\ slot'[z] # Nothing
           /\ slot'[z].kind = kind /\ slot'[z].gen = g /\ fresh'[z]
           /\ \A y \in Zones : y # z => slot'[y] = slot[y] /\ fresh'[y] = fresh[y]
<1>1. [kind |-> kind, gen |-> g] \in Command
  BY DEF Command
<1>2. [kind |-> kind, gen |-> g] # Nothing
  BY <1>1, NothingAssumption
<1> QED
  BY <1>1, <1>2 DEF Put, TypeInv, Channels

(* Every change the handlers make to a session makes a session.            *)
LEMMA SessionTypes ==
    ASSUME NEW s \in Session, NEW g \in Nat
    PROVE  /\ [s EXCEPT !.retry = 0] \in Session
           /\ WithRetry(s, g) \in Session
           /\ [s EXCEPT !.reset = TRUE, !.observed = "Unknown", !.prepared = FALSE,
                        !.plan = "none", !.encoder = 0, !.gen = g] \in Session
           /\ [s EXCEPT !.encoder = g] \in Session
           /\ [s EXCEPT !.gen = g] \in Session
           /\ [s EXCEPT !.desired = TRUE, !.attempts = 0, !.cleanup = "none"] \in Session
           /\ Paused(s) \in Session
           /\ [s EXCEPT !.reset = TRUE, !.cleanup = "armed"] \in Session
           /\ [s EXCEPT !.prepared = FALSE, !.reset = TRUE, !.encoder = 0, !.gen = g] \in Session
           /\ TakeHeld(s) \in Session
           /\ [s EXCEPT !.prepared = TRUE] \in Session
           /\ [s EXCEPT !.cleanup = "due"] \in Session
           /\ [s EXCEPT !.observed = "Playing", !.reset = FALSE, !.attempts = 0, !.retry = 0] \in Session
           /\ [s EXCEPT !.observed = "Unknown", !.reset = TRUE, !.attempts = MaxAttempts, !.retry = 0] \in Session
           /\ [s EXCEPT !.observed = "Unknown", !.reset = ~s.prepared] \in Session
           /\ [s EXCEPT !.observed = "Stopped"] \in Session
           /\ [s EXCEPT !.observed = "Unknown"] \in Session
           /\ NewSession \in Session
<1>1. MaxAttempts \in Nat /\ 0 \in 0..MaxAttempts /\ MaxAttempts \in 0..MaxAttempts
  BY BoundsAssumption
<1>2. BudgetLeft(s) => s.attempts + 1 \in 0..MaxAttempts
  BY <1>1 DEF BudgetLeft, Session
<1>3. WithRetry(s, g) \in Session
  BY <1>2 DEF WithRetry, Session
<1>4. NewSession \in Session
  BY <1>1 DEF NewSession, Session
<1>5. TakeHeld(s) \in Session
  BY DEF TakeHeld, Session
<1>6. Paused(s) \in Session
  BY DEF Paused, Session
<1>7. [s EXCEPT !.retry = 0] \in Session
  BY <1>1 DEF Session
<1>8. [s EXCEPT !.reset = TRUE, !.observed = "Unknown", !.prepared = FALSE,
                  !.plan = "none", !.encoder = 0, !.gen = g] \in Session
  BY <1>1 DEF Session
<1>9. [s EXCEPT !.encoder = g] \in Session
  BY <1>1 DEF Session
<1>10. [s EXCEPT !.gen = g] \in Session
  BY <1>1 DEF Session
<1>11. [s EXCEPT !.desired = TRUE, !.attempts = 0, !.cleanup = "none"] \in Session
  BY <1>1 DEF Session
<1>12. [s EXCEPT !.reset = TRUE, !.cleanup = "armed"] \in Session
  BY <1>1 DEF Session
<1>13. [s EXCEPT !.prepared = FALSE, !.reset = TRUE, !.encoder = 0, !.gen = g] \in Session
  BY <1>1 DEF Session
<1>14. [s EXCEPT !.prepared = TRUE] \in Session
  BY <1>1 DEF Session
<1>15. [s EXCEPT !.cleanup = "due"] \in Session
  BY <1>1 DEF Session
<1>16. [s EXCEPT !.observed = "Playing", !.reset = FALSE, !.attempts = 0, !.retry = 0] \in Session
  BY <1>1 DEF Session
<1>17. [s EXCEPT !.observed = "Unknown", !.reset = TRUE, !.attempts = MaxAttempts, !.retry = 0] \in Session
  BY <1>1 DEF Session
<1>18. [s EXCEPT !.observed = "Unknown", !.reset = ~s.prepared] \in Session
  BY <1>1 DEF Session
<1>19. [s EXCEPT !.observed = "Stopped"] \in Session
  BY <1>1 DEF Session
<1>20. [s EXCEPT !.observed = "Unknown"] \in Session
  BY <1>1 DEF Session
<1> QED
  BY <1>3, <1>4, <1>5, <1>6, <1>7, <1>8, <1>9, <1>10, <1>11, <1>12, <1>13, <1>14, <1>15, <1>16, <1>17, <1>18, <1>19, <1>20, Zenon

(* schedule_downstream_retry arms the timer or gives up, and leaves the    *)
(* rest of the session alone.                                              *)
LEMMA Retried ==
    ASSUME NEW s \in Session, NEW g \in Nat
    PROVE  /\ WithRetry(s, g).gen = s.gen /\ WithRetry(s, g).encoder = s.encoder
           /\ WithRetry(s, g).desired = s.desired /\ WithRetry(s, g).prepared = s.prepared
           /\ WithRetry(s, g).observed = s.observed
           /\ \/ WithRetry(s, g).retry = g
              \/ WithRetry(s, g).attempts = MaxAttempts /\ WithRetry(s, g).reset
<1>1. s.attempts \in 0..MaxAttempts /\ MaxAttempts \in Nat
  BY BoundsAssumption DEF Session
<1>2. CASE BudgetLeft(s)
  BY <1>2 DEF WithRetry, Session
<1>3. CASE ~BudgetLeft(s)
  <2>1. s.attempts = MaxAttempts
    BY <1>1, <1>3 DEF BudgetLeft
  <2> QED
    BY <1>3, <2>1 DEF WithRetry, Session
<1> QED
  BY <1>2, <1>3

----------------------------------------------------------------------------
(* What a step leaves alone.                                               *)

(* The room takes no part in the step.  Only WakeInv counts on releases.   *)
Same(y) ==
    /\ sessions'[y] = sessions[y] /\ generation'[y] = generation[y] /\ registry'[y] = registry[y]
    /\ slot'[y] = slot[y] /\ fresh'[y] = fresh[y] /\ busy'[y] = busy[y]
    /\ answers'[y] = answers[y] /\ preps'[y] = preps[y] /\ retries'[y] = retries[y]
    /\ \A c \in SeqSet(calls) : c.zone = y /\ c.op # "release" => c \in SeqSet(calls')
    /\ Counted(y)' \subseteq Counted(y) \cup {0}
    /\ Wanted(y) /\ sessions[y].gen # 0 /\ sessions[y].gen \in Counted(y)
          => sessions[y].gen \in Counted(y)'

(* What cohorts count as prepared are generations.                         *)
LEMMA CountedTypes ==
    ASSUME TypeInv, NEW z \in Zones
    PROVE  Counted(z) \subseteq Nat
<1> SUFFICES ASSUME NEW i \in DOMAIN cohorts PROVE cohorts[i].prepared[z] \in Nat
  BY DEF Counted
<1>1. cohorts[i] \in Cohort
  BY DEF TypeInv
<1> QED
  BY <1>1, CohortTypes

(* Between two events no call is pending.                                  *)
LEMMA IdleWaits ==
    ASSUME Idle
    PROVE  SeqSet(calls) = {} /\ (\A ops, z : ~Waiting(ops, z)) /\ ~Releasing /\ BeginLast(calls)
  BY DEF Idle, SeqSet, Waiting, Releasing, BeginLast

(* A call that waits goes on waiting as long as the room's calls stay on   *)
(* the stack.                                                              *)
LEMMA WaitsOn ==
    ASSUME NEW y, NEW ops, "release" \notin ops, Waiting(ops, y),
           \A c \in SeqSet(calls) : c.zone = y /\ c.op # "release" => c \in SeqSet(calls')
    PROVE  Waiting(ops, y)'
  BY DEF Waiting

(* What holds of a room holds on while nothing of the room changes.        *)
LEMMA SameRoom ==
    ASSUME TypeInv, NEW y \in Zones, RoomInv(y), Same(y)
    PROVE  RoomInv(y)'
<1>1. /\ sessions'[y] = sessions[y] /\ generation'[y] = generation[y] /\ registry'[y] = registry[y]
      /\ slot'[y] = slot[y] /\ fresh'[y] = fresh[y] /\ busy'[y] = busy[y]
      /\ answers'[y] = answers[y] /\ preps'[y] = preps[y] /\ retries'[y] = retries[y]
      /\ Counted(y)' \subseteq Counted(y) \cup {0}
      /\ Wanted(y) /\ sessions[y].gen # 0 /\ sessions[y].gen \in Counted(y)
            => sessions[y].gen \in Counted(y)'
      /\ \A ops : "release" \notin ops /\ Waiting(ops, y) => Waiting(ops, y)'
  BY WaitsOn DEF Same
<1>2. Live(y)' = Live(y) /\ Wanted(y)' = Wanted(y) /\ Playing(y)' = Playing(y) /\ GaveUp(y)' = GaveUp(y)
  BY <1>1 DEF Live, Wanted, Playing, GaveUp
<1>3. Quiet(y)'
  BY <1>1, <1>2 DEF RoomInv, Quiet
<1>4. Registered(y)'
  BY <1>1, <1>2 DEF RoomInv, Registered
<1>5. Drawn(y)'
  <2>1. generation[y] \in Nat
    BY DEF TypeInv
  <2>2. \A g \in Counted(y)' : g <= generation[y]
    BY <1>1, <2>1 DEF RoomInv, Drawn
  <2> QED
    BY <1>1, <1>2, <2>2 DEF RoomInv, Drawn
<1>6. Streaming(y)'
  BY <1>1, <1>2 DEF RoomInv, Streaming
<1>7. InOrder(y)'
  BY <1>1, <1>2 DEF RoomInv, InOrder, Told, HasStarted
<1>8. Moving(y)'
  <2> SUFFICES ASSUME Wanted(y) PROVE Moving(y)'
    BY <1>2 DEF Moving
  <2>1. CASE Waiting({"restart", "replace", "create"}, y)
    BY <1>1, <2>1 DEF Moving
  <2>2. CASE Playing(y) \/ GaveUp(y)
    BY <1>2, <2>2 DEF Moving
  <2>3. CASE UnderWay(y) /\ ~Waiting({"restart", "replace", "create"}, y)
    <3>1. sessions[y].gen # 0
      <4>1. Live(y) /\ (Waiting({"restart", "replace"}, y) => Waiting({"restart", "replace", "create"}, y))
        BY DEF Wanted, Waiting
      <4> QED
        BY <2>3, <4>1 DEF RoomInv, Streaming
    <3>2. UnderWay(y)'
      <4>1. UnderWay(y) <=>
              LET g == sessions[y].gen
              IN  \/ sessions[y].retry = g \/ g \in retries[y] \/ g \in preps[y]
                  \/ \E i \in DOMAIN answers[y] :
                        answers[y][i].gen = g /\ answers[y][i].outcome \notin {"Stopped", "StopUnknown"}
                  \/ fresh[y] /\ slot[y].gen = g /\ slot[y].kind # "Stop"
                  \/ busy[y] # Nothing /\ busy[y].gen = g /\ busy[y].kind # "Stop"
                  \/ g \in Counted(y)
        BY DEF UnderWay, Counted
      <4>2. UnderWay(y)' <=>
              LET g == sessions'[y].gen
              IN  \/ sessions'[y].retry = g \/ g \in retries'[y] \/ g \in preps'[y]
                  \/ \E i \in DOMAIN answers'[y] :
                        answers'[y][i].gen = g /\ answers'[y][i].outcome \notin {"Stopped", "StopUnknown"}
                  \/ fresh'[y] /\ slot'[y].gen = g /\ slot'[y].kind # "Stop"
                  \/ busy'[y] # Nothing /\ busy'[y].gen = g /\ busy'[y].kind # "Stop"
                  \/ g \in Counted(y)'
        BY DEF UnderWay, Counted
      <4> QED
        BY <1>1, <2>3, <3>1, <4>1, <4>2
    <3> QED
      BY <3>2 DEF Moving
  <2> QED
    BY <2>1, <2>2, <2>3 DEF RoomInv, Moving
<1> QED
  BY <1>3, <1>4, <1>5, <1>6, <1>7, <1>8 DEF RoomInv

(* Of one room only.                                                       *)
Others(z) == \A y \in Zones \ {z} : Same(y)

(* A room of which nothing changes should play if and only if it should    *)
(* before.                                                                 *)
LEMMA SameIsWanted ==
    ASSUME NEW y, Same(y)
    PROVE  Live(y)' = Live(y) /\ Wanted(y)' = Wanted(y) /\ sessions'[y] = sessions[y]
  BY DEF Same, Live, Wanted

(* The calls that are left, and those that were made.                      *)
LEMMA FoundedStill ==
    ASSUME NEW c, Same(c.zone), Founded(c)
    PROVE  Founded(c)'
<1>1. /\ sessions'[c.zone] = sessions[c.zone] /\ slot'[c.zone] = slot[c.zone]
      /\ generation'[c.zone] = generation[c.zone]
      /\ Live(c.zone)' = Live(c.zone) /\ Wanted(c.zone)' = Wanted(c.zone)
  BY SameIsWanted DEF Same
<1> QED
  BY <1>1 DEF Founded

(* No group gains a room, and one that should no longer play is in none.   *)
MembersStay(z) ==
    /\ DOMAIN groups' \subseteq DOMAIN groups
    /\ \A c \in DOMAIN groups' : SeqSet(groups'[c]) \subseteq SeqSet(groups[c])
    /\ Wanted(z) =>
          \/ Wanted(z)'
          \/ z \notin DOMAIN groups' /\ \A c \in DOMAIN groups' : z \notin SeqSet(groups'[c])

(* The session keeps what the cohorts know of it, or they know it no more. *)
PreparedStays(z) ==
    \/ ~Live(z)'
    \/ sessions'[z].gen > generation[z] /\ sessions'[z].gen \in Nat
    \/ Waiting({"pause"}, z)'
    \/ /\ Live(z) /\ sessions'[z].gen = sessions[z].gen
       /\ sessions[z].prepared => sessions'[z].prepared
       /\ Waiting({"pause"}, z) => Waiting({"pause"}, z)'

(* No cohort becomes ready to start, or a release is due.                  *)
WakeStays(z) ==
    \/ Releasing'
    \/ /\ wake' = wake /\ (Releasing => Releasing')
       /\ Wanted(z) =>
             /\ Wanted(z)'
             /\ \/ sessions'[z].gen = sessions[z].gen
                \/ sessions'[z].gen > generation[z] /\ sessions'[z].gen \in Nat

(* The groups stay sound: nobody is in a new one, and the room that        *)
(* changes left or is still wanted.                                        *)
LEMMA MembersKept ==
    ASSUME TypeInv, GroupsSound, NEW z \in Zones, Others(z), MembersStay(z)
    PROVE  GroupsSound'
<1> SUFFICES ASSUME NEW c \in DOMAIN groups', NEW m \in SeqSet(groups'[c])
             PROVE  Wanted(m)' /\ Wanted(c)'
  BY DEF GroupsSound
<1>1. c \in DOMAIN groups /\ m \in SeqSet(groups[c]) /\ Wanted(m) /\ Wanted(c)
  BY DEF GroupsSound, MembersStay
<1>2. m \in Zones /\ c \in Zones
  BY <1>1, SetOfNone DEF TypeInv
<1>3. \A y \in {m, c} \ {z} : Wanted(y)'
  BY <1>1, <1>2, SameIsWanted DEF Others
<1> QED
  BY <1>1, <1>3 DEF MembersStay

(* What the cohorts count stays right: the room that changes still holds   *)
(* the stream it prepared, or drew a new generation.                       *)
LEMMA PreparedKept ==
    ASSUME TypeInv, PreparedInv, \A y \in Zones : Drawn(y), cohorts' = cohorts,
           NEW z \in Zones, Others(z),
           PreparedStays(z)
    PROVE  PreparedInv'
<1> SUFFICES ASSUME NEW i \in DOMAIN cohorts, NEW y \in Zones, cohorts[i].prepared[y] # 0,
                    Live(y)', cohorts[i].prepared[y] = sessions'[y].gen
             PROVE  sessions'[y].prepared \/ Waiting({"pause"}, y)'
  BY DEF PreparedInv
<1>1. cohorts[i].prepared[y] \in Nat /\ generation[y] \in Nat /\ cohorts[i].prepared[y] <= generation[y]
  <2>1. cohorts[i] \in Cohort /\ generation[y] \in Nat
    BY DEF TypeInv
  <2>2. cohorts[i].prepared[y] \in Counted(y)
    BY DEF Counted
  <2> QED
    BY <2>1, <2>2, CohortTypes DEF Drawn
<1>2. CASE y # z
  <2>1. /\ sessions'[y] = sessions[y] /\ Live(y)' = Live(y)
        /\ Waiting({"pause"}, y) => Waiting({"pause"}, y)'
    BY <1>2, SameIsWanted, WaitsOn DEF Others, Same
  <2> QED
    BY <2>1 DEF PreparedInv
<1>3. CASE y = z
  BY <1>1, <1>3 DEF PreparedInv, PreparedStays
<1> QED
  BY <1>2, <1>3

(* No cohort comes to be forgotten: the room that changes does not make    *)
(* the oldest one startable, or a release is due.                          *)
LEMMA WakeKept ==
    ASSUME TypeInv, WakeInv, \A y \in Zones : Drawn(y), cohorts' = cohorts,
           NEW z \in Zones, Others(z),
           WakeStays(z)
    PROVE  WakeInv'
<1> SUFFICES ASSUME ~Releasing', cohorts # <<>>, Startable(Head(cohorts))'
             PROVE  wake'
  BY DEF WakeInv
<1> DEFINE c == Head(cohorts)
<1>1. c \in Cohort /\ c = cohorts[1] /\ 1 \in DOMAIN cohorts /\ c' = c
  BY DEF TypeInv
<1>2. \A y \in SeqSet(c.sessions) : y \in Zones /\ c.prepared[y] \in Nat /\ c.prepared[y] <= generation[y]
                                    /\ generation[y] \in Nat
  <2> SUFFICES ASSUME NEW y \in SeqSet(c.sessions) PROVE <1>2!(y)
    OBVIOUS
  <2>1. y \in Zones /\ c.prepared[y] \in Nat
    BY <1>1, CohortTypes
  <2>2. c.prepared[y] \in Counted(y)
    BY <1>1 DEF Counted
  <2> QED
    BY <2>1, <2>2 DEF Drawn, TypeInv
<1>3. Startable(c)'
  BY <1>1
<1> HIDE DEF c
<1>4. Startable(c)
  <2>1. CASE c.phase = "expired"
    BY <2>1 DEF Startable
  <2>2. CASE c.phase # "expired"
    <3> SUFFICES ASSUME NEW y \in SeqSet(c.sessions), Wanted(y)
                 PROVE  c.prepared[y] # 0 /\ c.prepared[y] = sessions[y].gen
      BY DEF Startable
    <3>1. Wanted(y)' => c.prepared[y] # 0 /\ c.prepared[y] = sessions'[y].gen
      BY <1>1, <1>3, <2>2 DEF Startable
    <3>2. CASE y # z
      BY <1>2, <3>1, <3>2, SameIsWanted DEF Others
    <3>3. CASE y = z
      BY <1>2, <3>1, <3>3 DEF WakeStays
    <3> QED
      BY <3>2, <3>3
  <2> QED
    BY <2>1, <2>2
<1> QED
  BY <1>4 DEF WakeInv, WakeStays, c

(* A step of one room that leaves the cohorts alone.                       *)
LEMMA Kept ==
    ASSUME IInv, TypeInv', NEW z \in Zones, Others(z), RoomInv(z)', CallsInv',
           cohorts' = cohorts, PreparedStays(z), WakeStays(z), MembersStay(z) \/ GroupsSound'
    PROVE  IInv'
<1>1. TypeInv /\ GroupsSound /\ PreparedInv /\ WakeInv /\ PlacesInv /\ \A y \in Zones : RoomInv(y)
  BY DEF IInv
<1>2. \A y \in Zones : Drawn(y)
  BY <1>1 DEF RoomInv
<1>3. \A y \in Zones : RoomInv(y)'
  <2>1. \A y \in Zones \ {z} : RoomInv(y)'
    BY <1>1, SameRoom DEF Others
  <2> QED
    BY <2>1
<1>4. GroupsSound'
  BY <1>1, MembersKept
<1>5. PreparedInv'
  BY <1>1, <1>2, PreparedKept
<1>6. WakeInv'
  BY <1>1, <1>2, WakeKept
<1>7. PlacesInv'
  BY <1>1 DEF PlacesInv
<1> QED
  BY <1>3, <1>4, <1>5, <1>6, <1>7 DEF IInv

(* Calls of an event or a message: none was pending.                       *)
LEMMA NewCalls ==
    ASSUME calls' \in Seq(Calls), BeginLast(calls'),
           \A c \in SeqSet(calls') : c.op # "create" /\ Founded(c)'
    PROVE  CallsInv'
<1>1. calls' # <<>> => SeqSet(Tail(calls')) \subseteq SeqSet(calls')
  BY SetOfTail
<1>2. BeginLast(calls)' /\ SeqSet(calls)' = SeqSet(calls')
  BY DEF BeginLast, SeqSet
<1> QED
  BY <1>1, <1>2 DEF CallsInv

(* Calls of a call: the others stay.                                       *)
LEMMA MoreCalls ==
    ASSUME TypeInv, CallsInv, calls # <<>>, NEW more \in Seq(Calls), Return(more),
           Others(Head(calls).zone),
           \A c \in SeqSet(more) : c.op # "begin" /\ Founded(c)',
           Len(more) = 1 \/ \A c \in SeqSet(more) : c.op # "create",
           \A c \in SeqSet(Tail(calls)) : c.zone = Head(calls).zone => Founded(c)'
    PROVE  CallsInv'
<1>1. /\ calls' \in Seq(Calls) /\ SeqSet(calls') = SeqSet(more) \cup SeqSet(Tail(calls))
      /\ SeqSet(calls) = {Head(calls)} \cup SeqSet(Tail(calls))
      /\ Tail(calls) \in Seq(Calls)
  BY Returned
<1>2. \A c \in SeqSet(Tail(calls)) : c \in Calls /\ c.zone \in Zones /\ Founded(c)
  <2>1. SeqSet(Tail(calls)) \subseteq Calls
    BY <1>1, SetOfNone
  <2>2. \A c \in SeqSet(Tail(calls)) : Founded(c)
    BY <1>1 DEF CallsInv
  <2> QED
    BY <2>1, <2>2 DEF Calls
<1>3. \A c \in SeqSet(calls') : Founded(c)'
  BY <1>1, <1>2, FoundedStill DEF Others
<1>4. BeginLast(calls')
  <2>1. calls \in Seq(Calls) /\ BeginLast(calls)
    BY DEF TypeInv, CallsInv
  <2>2. BeginLast(Tail(calls))
    BY <2>1, BeginLastAfter
  <2> QED
    BY <1>1, <2>2, BeginLastBefore DEF Return
<1>5. \A c \in SeqSet(Tail(calls)) : c.op # "create"
  BY DEF CallsInv
<1>6. calls' # <<>> => \A c \in SeqSet(Tail(calls')) : c.op # "create"
  <2>1. CASE \A c \in SeqSet(more) : c.op # "create"
    BY <1>1, <1>5, <2>1, SetOfTail
  <2>2. CASE Len(more) = 1
    <3> DEFINE t == Tail(calls)
    <3>1. t \in Seq(Calls)
      BY <1>1
    <3>2. calls' = more \o t
      BY DEF Return
    <3> HIDE DEF t
    <3>3. Tail(calls') = t
      <4>1. /\ calls' \in Seq(Calls) /\ Len(calls') = Len(more) + Len(t) /\ Len(t) \in Nat
            /\ DOMAIN more = 1..Len(more) /\ DOMAIN calls' = 1..Len(calls')
            /\ \A i \in DOMAIN calls' :
                  i \in DOMAIN more \/ (i - Len(more) \in DOMAIN t /\ calls'[i] = t[i - Len(more)])
        <5>1. calls' \in Seq(Calls) /\ Len(t) \in Nat /\ DOMAIN more = 1..Len(more)
          BY <1>1, <3>1
        <5>2. /\ Len(more \o t) = Len(more) + Len(t)
              /\ \A i \in DOMAIN (more \o t) :
                    \/ i \in DOMAIN more
                    \/ i - Len(more) \in DOMAIN t /\ (more \o t)[i] = t[i - Len(more)]
          BY <3>1, SetOfJoined
        <5>3. DOMAIN calls' = 1..Len(calls')
          BY <5>1
        <5> QED
          BY <3>2, <5>1, <5>2, <5>3, Zenon
      <4>2. Len(calls') = Len(t) + 1
        BY <2>2, <4>1
      <4>3. Tail(calls') \in Seq(Calls) /\ Len(Tail(calls')) = Len(t)
        BY <4>1, <4>2
      <4>4. ASSUME NEW i \in 1..Len(t) PROVE Tail(calls')[i] = t[i]
        <5>1. Tail(calls')[i] = calls'[i + 1]
          BY <4>1, <4>2
        <5>2. calls'[i + 1] = t[i]
          <6>1. i + 1 \in DOMAIN calls' /\ i + 1 \notin DOMAIN more /\ i + 1 - Len(more) = i
            BY <2>2, <4>1, <4>2
          <6> QED
            BY <4>1, <6>1
        <5> QED
          BY <5>1, <5>2
      <4> QED
        BY <3>1, <4>3, <4>4
    <3> QED
      BY <1>5, <3>3 DEF t
  <2> QED
    BY <2>1, <2>2
<1>7. BeginLast(calls)' /\ SeqSet(calls)' = SeqSet(calls')
  BY <1>4 DEF BeginLast, SeqSet
<1> QED
  BY <1>3, <1>6, <1>7 DEF CallsInv

(* The calls of the other rooms stay.                                      *)
LEMMA CallsStay ==
    ASSUME TypeInv, calls # <<>>, NEW more \in Seq(Calls), Return(more)
    PROVE  /\ \A c \in SeqSet(calls) : c.zone # Head(calls).zone => c \in SeqSet(calls')
           /\ \A c \in SeqSet(calls) : c.op # Head(calls).op => c \in SeqSet(calls')
           /\ \A c \in SeqSet(more) : c \in SeqSet(calls')
           /\ Head(calls).zone \in Zones /\ Head(calls).gen \in Nat /\ Head(calls) \in SeqSet(calls)
  BY Returned DEF Calls

----------------------------------------------------------------------------
(* Workers.                                                                *)

(* Nothing changes but what is queued for the room and what its worker     *)
(* runs.                                                                   *)
LEMMA ChannelsKept ==
    ASSUME IInv, TypeInv', NEW z \in Zones,
           UNCHANGED <<sessions, generation, registry, cohorts, groups, calls, slot, wake>>,
           \A y \in Zones \ {z} : /\ fresh'[y] = fresh[y] /\ busy'[y] = busy[y]
                                  /\ retries'[y] = retries[y]
                                  /\ answers'[y] = answers[y] /\ preps'[y] = preps[y],
           Drawn(z)', InOrder(z)', Moving(z)'
    PROVE  IInv'
<1>1. RoomInv(z) /\ CallsInv
  BY DEF IInv
<1>2. Others(z)
  BY DEF Others, Same, Counted
<1>3. /\ \A ops : Waiting(ops, z)' <=> Waiting(ops, z)
      /\ Releasing' <=> Releasing
      /\ \A y : Live(y)' = Live(y) /\ Wanted(y)' = Wanted(y) /\ Playing(y)' = Playing(y)
  BY DEF Waiting, Releasing, Live, Wanted, Playing
<1>4. Quiet(z)' /\ Registered(z)' /\ Streaming(z)'
  BY <1>1, <1>3 DEF RoomInv, Quiet, Registered, Streaming
<1>5. CallsInv'
  <2>1. \A c : Founded(c)' <=> Founded(c)
    BY DEF Founded, Live, Wanted
  <2> QED
    BY <1>1, <2>1 DEF CallsInv
<1>6. PreparedStays(z) /\ WakeStays(z) /\ MembersStay(z)
  BY <1>3 DEF PreparedStays, WakeStays, MembersStay
<1> QED
  BY <1>2, <1>4, <1>5, <1>6, Kept DEF RoomInv

(* The worker takes the command that is queued for it.                     *)
LEMMA WorkerTakeStep ==
    ASSUME IInv, NEW z \in Zones, WorkerTake(z)
    PROVE  IInv'
<1>1. /\ UNCHANGED <<sessions, generation, registry, cohorts, groups, calls, slot, answers, preps,
                     retries, cleanups, wake>>
      /\ fresh[z] /\ busy[z] = Nothing
      /\ busy' = [busy EXCEPT ![z] = slot[z]] /\ fresh' = [fresh EXCEPT ![z] = FALSE]
  BY DEF WorkerTake, inbox
<1>2. TypeInv /\ RoomInv(z)
  BY DEF IInv
<1>3. TypeInv'
  BY <1>1, <1>2 DEF TypeInv, Channels
<1>4. busy'[z] = slot[z] /\ slot[z] # Nothing /\ slot[z] \in Command
  BY <1>1, <1>2 DEF TypeInv, Channels, RoomInv, Drawn
<1>5. \A y \in Zones \ {z} : fresh'[y] = fresh[y] /\ busy'[y] = busy[y]
  BY <1>1, <1>2 DEF TypeInv, Channels
<1>6. Drawn(z)'
  BY <1>1, <1>2, <1>4 DEF RoomInv, Drawn, Live, Counted, TypeInv
<1>7. InOrder(z)'
  BY <1>1, <1>2, <1>4 DEF RoomInv, InOrder, Told, HasStarted, Live, Playing, Command
<1>8. Moving(z)'
  BY <1>1, <1>2, <1>4 DEF RoomInv, Moving, UnderWay, GaveUp, Playing, Wanted, Live, Waiting
<1> QED
  BY <1>1, <1>3, <1>5, <1>6, <1>7, <1>8, ChannelsKept

(* The worker drops its command for a newer one and answers nothing.       *)
LEMMA WorkerAbandonStep ==
    ASSUME IInv, NEW z \in Zones, WorkerAbandon(z)
    PROVE  IInv'
<1>1. /\ UNCHANGED <<sessions, generation, registry, cohorts, groups, calls, slot, fresh, answers, preps,
                     retries, cleanups, wake>>
      /\ fresh[z] /\ busy[z] # Nothing /\ busy' = [busy EXCEPT ![z] = Nothing]
  BY DEF WorkerAbandon, inbox
<1>2. TypeInv /\ RoomInv(z)
  BY DEF IInv
<1>3. TypeInv'
  BY <1>1, <1>2 DEF TypeInv, Channels
<1>4. busy'[z] = Nothing
  BY <1>1, <1>2 DEF TypeInv, Channels
<1>5. \A y \in Zones \ {z} : busy'[y] = busy[y]
  BY <1>1, <1>2 DEF TypeInv, Channels
<1>6. Drawn(z)'
  BY <1>1, <1>2, <1>4 DEF RoomInv, Drawn, Live, Counted
<1>7. InOrder(z)'
  BY <1>1, <1>2, <1>4 DEF RoomInv, InOrder, Told, HasStarted, Live, Playing
<1>8. Moving(z)'
  (* What it gave up makes room for a newer command of the same stream.    *)
  <2>1. Wanted(z) /\ busy[z].gen = sessions[z].gen /\ busy[z].kind # "Stop"
        => slot[z].gen = sessions[z].gen /\ slot[z].kind # "Stop"
    BY <1>1, <1>2 DEF RoomInv, InOrder, Told, Wanted
  <2> QED
    BY <1>1, <1>2, <1>4, <2>1 DEF RoomInv, Moving, UnderWay, GaveUp, Playing, Wanted, Live, Waiting
<1> QED
  BY <1>1, <1>3, <1>5, <1>6, <1>7, <1>8, ChannelsKept

(* The worker answers or tells of the prepared stream, in the generation   *)
(* of its command.                                                         *)
LEMMA WorkerAnswerStep ==
    ASSUME IInv, NEW z \in Zones, WorkerAnswer(z)
    PROVE  IInv'
<1> DEFINE b == busy[z]
<1>1. PICK outcome \in Answers(b.kind) :
        /\ UNCHANGED <<sessions, generation, registry, cohorts, groups, calls, slot, fresh, retries,
                       cleanups, wake>>
        /\ b # Nothing /\ busy' = [busy EXCEPT ![z] = Nothing]
        /\ \/ /\ outcome = "Prepared" /\ UNCHANGED answers
              /\ preps' = [preps EXCEPT ![z] = @ \cup {b.gen}]
           \/ /\ outcome # "Prepared" /\ UNCHANGED preps
              /\ answers' = [answers EXCEPT ![z] = Append(@, [gen |-> b.gen, outcome |-> outcome])]
  BY Zenon DEF WorkerAnswer
<1>2. TypeInv /\ RoomInv(z)
  BY DEF IInv
<1>3. b \in Command /\ b.gen \in Nat /\ b.gen \in 1..generation[z] /\ generation[z] \in Nat
  BY <1>1, <1>2 DEF TypeInv, Channels, Command, RoomInv, Drawn
<1>4. /\ outcome \in Outcomes
      /\ outcome \in {"Started", "Joined"} => b.kind \in StartKinds
      /\ b.kind # "Stop" => outcome \notin {"Stopped", "StopUnknown"}
  <2>1. b.kind \in Kinds
    BY <1>3 DEF Command
  <2> HIDE DEF b
  <2> QED
    BY <1>1, <2>1 DEF Answers, Kinds, StartKinds, Outcomes
<1> DEFINE more == Append(answers[z], [gen |-> b.gen, outcome |-> outcome])
<1>5. busy'[z] = Nothing /\ \A y \in Zones \ {z} : busy'[y] = busy[y]
  BY <1>1, <1>2 DEF TypeInv, Channels
<1>6. answers[z] \in Seq(AnswerMessage) /\ preps[z] \subseteq Nat
  BY <1>2 DEF TypeInv
<1>7. ASSUME outcome # "Prepared"
      PROVE  /\ more \in Seq(AnswerMessage)
             /\ DOMAIN more = DOMAIN answers[z] \cup {Len(answers[z]) + 1}
             /\ \A i \in DOMAIN answers[z] : more[i] = answers[z][i]
             /\ more[Len(answers[z]) + 1] = [gen |-> b.gen, outcome |-> outcome]
  <2>1. [gen |-> b.gen, outcome |-> outcome] \in AnswerMessage
    BY <1>3, <1>4, <1>7 DEF AnswerMessage
  <2> HIDE DEF b
  <2> QED
    BY <1>6, <2>1
<1>8. /\ outcome = "Prepared" => answers' = answers /\ preps' = [preps EXCEPT ![z] = @ \cup {b.gen}]
      /\ outcome # "Prepared" => preps' = preps /\ answers' = [answers EXCEPT ![z] = more]
  BY <1>1
<1> HIDE DEF more
<1>9. /\ TypeInv'
      /\ \A y \in Zones \ {z} : answers'[y] = answers[y] /\ preps'[y] = preps[y]
      /\ outcome = "Prepared" => answers'[z] = answers[z] /\ preps'[z] = preps[z] \cup {b.gen}
      /\ outcome # "Prepared" => answers'[z] = more /\ preps'[z] = preps[z]
  <2>1. CASE outcome = "Prepared"
    <3>1. preps[z] \cup {b.gen} \in SUBSET Nat /\ preps \in [Zones -> SUBSET Nat]
      BY <1>2, <1>3, <1>6 DEF TypeInv
    <3>2. preps' = [preps EXCEPT ![z] = preps[z] \cup {b.gen}]
      BY <1>8, <2>1
    <3>3. /\ preps' \in [Zones -> SUBSET Nat] /\ preps'[z] = preps[z] \cup {b.gen}
          /\ \A y \in Zones \ {z} : preps'[y] = preps[y]
      BY <3>1, <3>2
    <3> HIDE DEF b
    <3>4. TypeInv'
      BY <1>1, <1>2, <1>8, <2>1, <3>3 DEF TypeInv, Channels
    <3> QED
      BY <1>8, <2>1, <3>3, <3>4
  <2>2. CASE outcome # "Prepared"
    BY <1>1, <1>2, <1>7, <1>8, <2>2 DEF TypeInv, Channels
  <2> QED
    BY <2>1, <2>2
<1>10. \A i \in DOMAIN answers'[z] : \/ i \in DOMAIN answers[z] /\ answers'[z][i] = answers[z][i]
                                     \/ answers'[z][i] = [gen |-> b.gen, outcome |-> outcome]
  BY <1>7, <1>9
<1>11. Drawn(z)'
  BY <1>1, <1>2, <1>3, <1>5, <1>10 DEF RoomInv, Drawn, Live, Counted
<1>12. InOrder(z)'
  BY <1>1, <1>2, <1>4, <1>5, <1>10 DEF RoomInv, InOrder, Told, HasStarted, Live, Playing
<1>13. Moving(z)'
  <2>1. \A i \in DOMAIN answers[z] : i \in DOMAIN answers'[z] /\ answers'[z][i] = answers[z][i]
    BY <1>7, <1>9
  <2>2. preps[z] \subseteq preps'[z]
    BY <1>9
  <2>3. b.kind # "Stop" =>
           \/ b.gen \in preps'[z]
           \/ \E i \in DOMAIN answers'[z] :
                answers'[z][i].gen = b.gen /\ answers'[z][i].outcome \notin {"Stopped", "StopUnknown"}
    BY <1>4, <1>7, <1>9
  <2> QED
    BY <1>1, <1>2, <2>1, <2>2, <2>3 DEF RoomInv, Moving, UnderWay, GaveUp, Playing, Wanted, Live, Waiting
<1> QED
  BY <1>1, <1>5, <1>9, <1>11, <1>12, <1>13, ChannelsKept

----------------------------------------------------------------------------
(* Timers and clocks.                                                      *)

(* The session of one room changes.                                        *)
LEMMA OneSession ==
    ASSUME TypeInv, NEW z \in Zones, NEW e \in Session \cup {Nothing},
           sessions' = [sessions EXCEPT ![z] = e]
    PROVE  sessions' \in Sessions /\ sessions'[z] = e /\ \A y \in Zones \ {z} : sessions'[y] = sessions[y]
  BY DEF TypeInv, Sessions

(* A live room keeps its generation and its channels.                      *)
LEMMA Restated ==
    ASSUME TypeInv, NEW z \in Zones, RoomInv(z), Live(z), Live(z)', sessions'[z].gen = sessions[z].gen,
           generation'[z] = generation[z], slot'[z] = slot[z], fresh'[z] = fresh[z], busy'[z] = busy[z],
           \A i \in DOMAIN answers'[z] : \E j \in DOMAIN answers[z] : answers'[z][i] = answers[z][j],
           Counted(z)' \subseteq Counted(z) \cup {sessions[z].gen}
    PROVE  /\ Drawn(z)'
           /\ \A kinds : Told(z, kinds)' = Told(z, kinds)
           /\ (Playing(z)' /\ sessions'[z].encoder # 0 => Told(z, StartKinds)) => InOrder(z)'
<1>1. Drawn(z) /\ InOrder(z)
  BY DEF RoomInv
<1>2. \A kinds : Told(z, kinds)' = Told(z, kinds)
  BY DEF Told
<1>3. HasStarted(z)' => HasStarted(z)
  BY DEF HasStarted
<1>4. Drawn(z)'
  BY <1>1 DEF Drawn
<1>5. (Playing(z)' /\ sessions'[z].encoder # 0 => Told(z, StartKinds)) => InOrder(z)'
  BY <1>1, <1>2, <1>3 DEF InOrder
<1> QED
  BY <1>2, <1>4, <1>5

(* Of a session, only what a timer is for changes.                         *)
LEMMA TimerKept ==
    ASSUME IInv, TypeInv', Idle, NEW z \in Zones, Live(z), NEW e \in Session,
           sessions' = [sessions EXCEPT ![z] = e],
           e.gen = sessions[z].gen, e.desired = sessions[z].desired, e.observed = sessions[z].observed,
           e.encoder = sessions[z].encoder, e.prepared = sessions[z].prepared,
           UNCHANGED <<generation, registry, cohorts, groups, calls, slot, fresh, busy, answers, preps,
                       wake>>,
           \A y \in Zones \ {z} : retries'[y] = retries[y],
           Moving(z)'
    PROVE  IInv'
<1>1. TypeInv /\ RoomInv(z) /\ CallsInv
  BY DEF IInv
<1>2. sessions'[z] = e /\ \A y \in Zones \ {z} : sessions'[y] = sessions[y]
  BY <1>1, OneSession
<1>3. Live(z)' /\ Wanted(z)' = Wanted(z) /\ Playing(z)' = Playing(z)
  BY <1>2, NothingAssumption DEF Live, Wanted, Playing
<1>4. Others(z)
  BY <1>2 DEF Others, Same, Counted
<1>5. ~Releasing /\ \A ops : ~Waiting(ops, z)
  BY IdleWaits
<1>6. Quiet(z)'
  BY <1>1, <1>3, <1>5 DEF RoomInv, Quiet
<1>7. Registered(z)' /\ Streaming(z)'
  BY <1>1, <1>2, <1>3, <1>5 DEF RoomInv, Registered, Streaming
<1>8. Drawn(z)' /\ InOrder(z)'
  <2>1. Counted(z)' = Counted(z)
    BY DEF Counted
  <2>2. Playing(z)' /\ sessions'[z].encoder # 0 => Told(z, StartKinds)
    BY <1>1, <1>2, <1>3 DEF RoomInv, InOrder
  <2> QED
    BY <1>1, <1>2, <1>3, <2>1, <2>2, Restated
<1>9. CallsInv'
  BY NewCalls, SetOfNone DEF Idle, SeqSet, BeginLast
<1>10. PreparedStays(z) /\ WakeStays(z) /\ MembersStay(z)
  BY <1>2, <1>3, <1>5 DEF PreparedStays, WakeStays, MembersStay
<1> QED
  BY <1>4, <1>6, <1>7, <1>8, <1>9, <1>10, Kept DEF RoomInv

(* The sleep of schedule_downstream_retry ends: a message is sent.         *)
LEMMA RetryFiresStep ==
    ASSUME IInv, NEW z \in Zones, RetryFires(z)
    PROVE  IInv'
<1> DEFINE s == sessions[z]
           e == [s EXCEPT !.retry = 0]
<1>1. /\ UNCHANGED <<generation, registry, cohorts, groups, calls, slot, fresh, busy, answers, preps,
                     cleanups, wake>>
      /\ Idle /\ Live(z) /\ sessions' = [sessions EXCEPT ![z] = e]
      /\ retries' = [retries EXCEPT ![z] = @ \cup {s.retry}]
  BY DEF RetryFires, workers
<1>2. TypeInv /\ RoomInv(z)
  BY DEF IInv
<1>3. /\ s \in Session /\ s.retry \in Nat /\ e \in Session /\ e.gen = s.gen /\ e.desired = s.desired
      /\ e.observed = s.observed /\ e.encoder = s.encoder /\ e.prepared = s.prepared
      /\ e.attempts = s.attempts /\ e.reset = s.reset
  <2>1. s \in Session
    BY <1>1, <1>2, Fresh
  <2> HIDE DEF s
  <2> QED
    BY <2>1 DEF Session
<1> HIDE DEF s, e
<1>4. /\ retries' \in [Zones -> SUBSET Nat] /\ retries'[z] = retries[z] \cup {s.retry}
      /\ \A y \in Zones \ {z} : retries'[y] = retries[y]
  <2>1. retries \in [Zones -> SUBSET Nat] /\ retries[z] \cup {s.retry} \in SUBSET Nat
    BY <1>2, <1>3 DEF TypeInv
  <2> QED
    BY <1>1, <2>1
<1>5. sessions' \in Sessions /\ sessions'[z] = e
  BY <1>1, <1>2, <1>3, OneSession
<1>6. TypeInv'
  BY <1>1, <1>2, <1>4, <1>5 DEF TypeInv
<1>7. Moving(z)'
  <2>1. s.retry = s.gen => s.gen \in retries'[z]
    BY <1>4
  <2> QED
    BY <1>1, <1>2, <1>3, <1>4, <1>5, <2>1
    DEF RoomInv, Moving, UnderWay, GaveUp, Playing, Wanted, Live, Waiting, s
<1> QED
  BY <1>1, <1>3, <1>4, <1>6, <1>7, TimerKept DEF s

(* The grace of a paused session ends: a message is sent.                  *)
LEMMA CleanupFiresStep ==
    ASSUME IInv, NEW z \in Zones, CleanupFires(z)
    PROVE  IInv'
<1> DEFINE s == sessions[z]
           e == [s EXCEPT !.cleanup = "due"]
<1>1. /\ UNCHANGED <<generation, registry, cohorts, groups, calls, slot, fresh, busy, answers, preps,
                     retries, wake>>
      /\ Idle /\ Live(z) /\ sessions' = [sessions EXCEPT ![z] = e]
      /\ cleanups' = cleanups \cup {z}
  BY DEF CleanupFires, workers
<1>2. TypeInv /\ RoomInv(z)
  BY DEF IInv
<1>3. /\ s \in Session /\ e \in Session /\ e.gen = s.gen /\ e.desired = s.desired
      /\ e.observed = s.observed /\ e.encoder = s.encoder /\ e.prepared = s.prepared
      /\ e.attempts = s.attempts /\ e.reset = s.reset /\ e.retry = s.retry
  <2>1. s \in Session
    BY <1>1, <1>2, Fresh
  <2> HIDE DEF s
  <2> QED
    BY <2>1 DEF Session
<1> HIDE DEF s, e
<1>4. sessions' \in Sessions /\ sessions'[z] = e
  BY <1>1, <1>2, <1>3, OneSession
<1>5. TypeInv'
  BY <1>1, <1>2, <1>4 DEF TypeInv
<1>6. Moving(z)'
  BY <1>1, <1>2, <1>3, <1>4
  DEF RoomInv, Moving, UnderWay, GaveUp, Playing, Wanted, Live, Waiting, s
<1> QED
  BY <1>1, <1>3, <1>5, <1>6, TimerKept DEF s

(* The stream of a paused session ends: its grace timer is armed.          *)
LEMMA StreamEndedStep ==
    ASSUME IInv, NEW z \in Zones, StreamEndedWhilePaused(z)
    PROVE  IInv'
<1> DEFINE s == sessions[z]
           e == [s EXCEPT !.reset = TRUE, !.cleanup = "armed"]
<1>1. /\ UNCHANGED <<generation, registry, cohorts, groups, calls, slot, fresh, busy, answers, preps,
                     retries, cleanups, wake>>
      /\ Idle /\ Live(z) /\ ~s.desired /\ sessions' = [sessions EXCEPT ![z] = e]
  BY DEF StreamEndedWhilePaused, Event, workers, inbox
<1>2. TypeInv
  BY DEF IInv
<1>3. /\ s \in Session /\ e \in Session /\ e.gen = s.gen /\ e.desired = s.desired
      /\ e.observed = s.observed /\ e.encoder = s.encoder /\ e.prepared = s.prepared
  <2>1. s \in Session
    BY <1>1, <1>2, Fresh
  <2> HIDE DEF s
  <2> QED
    BY <2>1 DEF Session
<1> HIDE DEF s, e
<1>4. sessions' \in Sessions /\ sessions'[z] = e
  BY <1>1, <1>2, <1>3, OneSession
<1>5. TypeInv'
  BY <1>1, <1>2, <1>4 DEF TypeInv
<1>6. Moving(z)'
  BY <1>1, <1>3, <1>4 DEF Moving, Wanted, Live
<1> QED
  BY <1>1, <1>3, <1>5, <1>6, TimerKept DEF s

(* A deadline of a cohort passes, which makes it startable; a wake is      *)
(* sent.                                                                   *)
LEMMA CohortTickStep ==
    ASSUME IInv, NEW i \in DOMAIN cohorts, CohortTick(i)
    PROVE  IInv'
<1> DEFINE c == cohorts[i]
           d == [c EXCEPT !.phase = IF c.phase = "open" THEN "closed" ELSE "expired"]
<1>1. /\ UNCHANGED <<sessions, generation, registry, groups, calls, slot, fresh, busy, answers, preps,
                     retries, cleanups>>
      /\ cohorts' = [cohorts EXCEPT ![i] = d] /\ wake'
  BY Zenon DEF CohortTick, workers
<1>2. TypeInv /\ CallsInv /\ PlacesInv /\ PreparedInv /\ GroupsSound /\ \A z \in Zones : RoomInv(z)
  BY DEF IInv
<1>3. cohorts \in Seq(Cohort) /\ c \in Cohort
  BY <1>2 DEF TypeInv
<1>4. d \in Cohort /\ d.sessions = c.sessions /\ d.prepared = c.prepared
  <2> HIDE DEF c
  <2> QED
    BY <1>3 DEF Cohort, Phases
<1> HIDE DEF d
<1>5. /\ cohorts' \in Seq(Cohort) /\ DOMAIN cohorts' = DOMAIN cohorts
      /\ \A j \in DOMAIN cohorts : /\ cohorts'[j].sessions = cohorts[j].sessions
                                   /\ cohorts'[j].prepared = cohorts[j].prepared
  <2>1. /\ cohorts' \in Seq(Cohort) /\ DOMAIN cohorts' = DOMAIN cohorts /\ cohorts'[i] = d
        /\ \A j \in DOMAIN cohorts : j # i => cohorts'[j] = cohorts[j]
    BY <1>1, <1>3, <1>4, SetAt
  <2> QED
    BY <1>4, <2>1
<1>6. TypeInv'
  BY <1>1, <1>2, <1>5 DEF TypeInv, Channels
<1>7. \A z \in Zones : Same(z)
  BY <1>1, <1>5 DEF Same, Counted
<1>8. \A z \in Zones : RoomInv(z)'
  BY <1>2, <1>7, SameRoom
<1>9. CallsInv'
  BY <1>1, <1>2 DEF CallsInv, Founded, Wanted, Live
<1>10. PlacesInv'
  BY <1>2, <1>5 DEF PlacesInv
<1>11. PreparedInv'
  BY <1>1, <1>2, <1>5 DEF PreparedInv, Live, Waiting
<1>12. WakeInv' /\ GroupsSound'
  BY <1>1, <1>2 DEF WakeInv, GroupsSound, Wanted, Live
<1> QED
  BY <1>6, <1>8, <1>9, <1>10, <1>11, <1>12 DEF IInv

(* The wake is taken, and a release is due in its place.                   *)
LEMMA HandleWakeStep ==
    ASSUME IInv, HandleWake
    PROVE  IInv'
<1>1. PICK z \in Zones :
        /\ UNCHANGED <<sessions, generation, registry, cohorts, groups, slot, fresh, busy, answers, preps,
                       retries, cleanups>>
        /\ Idle /\ wake' = FALSE /\ calls' = <<Call("release", z)>>
  BY DEF HandleWake, workers
<1>2. TypeInv /\ RoomInv(z)
  BY DEF IInv
<1>3. "release" \in Ops /\ 0 \in Nat
  BY DEF Ops
<1>4. /\ Call("release", z) \in Calls /\ Call("release", z).op = "release"
      /\ calls' \in Seq(Calls) /\ SeqSet(calls') = {Call("release", z)} /\ Len(calls') = 1
      /\ DOMAIN calls' = {1}
  BY <1>1, <1>3, CallTypes, SetOfOne
<1>5. TypeInv'
  BY <1>1, <1>2, <1>4 DEF TypeInv, Channels
<1>6. \A y \in Zones : Same(y)
  BY <1>1, IdleWaits DEF Same, Counted
<1>7. CallsInv'
  BY <1>4, NewCalls DEF Founded, BeginLast
<1>8. PreparedStays(z) /\ WakeStays(z) /\ MembersStay(z)
  BY <1>1, <1>4, IdleWaits DEF PreparedStays, WakeStays, MembersStay, Live, Wanted, Releasing
<1> QED
  BY <1>1, <1>2, <1>5, <1>6, <1>7, <1>8, Kept, SameRoom DEF Others

----------------------------------------------------------------------------
(* Messages and events of a live room.                                     *)

(* A room that leaves its groups puts nobody in one.                       *)
LEMMA GroupsShrink ==
    ASSUME TypeInv, NEW z \in Zones, groups' \in {groups, Forgotten(z), GroupsWithout(z)}
    PROVE  /\ DOMAIN groups' \subseteq Zones /\ \A c \in DOMAIN groups' : groups'[c] \in Seq(Zones)
           /\ (groups' = GroupsWithout(z) \/ (Wanted(z) => Wanted(z)')) => MembersStay(z)
<1>1. DOMAIN groups \subseteq Zones /\ \A c \in DOMAIN groups : groups[c] \in Seq(Zones)
  BY DEF TypeInv
<1>2. \A d \in {GroupsWithout(z), Forgotten(z)} :
         /\ DOMAIN d \subseteq DOMAIN groups
         /\ \A c \in DOMAIN d : d[c] \in Seq(Zones) /\ SeqSet(d[c]) = SeqSet(groups[c]) \ {z}
  BY Members
<1>3. z \notin DOMAIN GroupsWithout(z)
  BY Members
<1>4. CASE groups' = groups
  BY <1>1, <1>2, <1>3, <1>4 DEF MembersStay
<1>5. CASE groups' \in {GroupsWithout(z), Forgotten(z)}
  BY <1>1, <1>2, <1>3, <1>5 DEF MembersStay
<1> QED
  BY <1>4, <1>5

(* The stack of an event that makes its room leave its group.              *)
LEMMA LeftCalls ==
    ASSUME TypeInv, NEW z \in Zones, Others(z), NEW next \in Seq(Calls), LeaveGroup(z, next),
           BeginLast(next), \A c \in SeqSet(next) : c.op # "create" /\ Founded(c)'
    PROVE  CallsInv' /\ calls' \in Seq(Calls) /\ SeqSet(next) \subseteq SeqSet(calls')
<1>1. /\ calls' \in Seq(Calls) /\ BeginLast(calls')
      /\ SeqSet(calls') = SeqSet(RestartMembers(z)) \cup SeqSet(next)
      /\ \A c \in SeqSet(RestartMembers(z)) :
            c.op = "restart" /\ c.zone \in Zones \ {z} /\ Wanted(c.zone)
  BY Left
<1>2. \A c \in SeqSet(RestartMembers(z)) : c.op # "create" /\ Founded(c)'
  <2>1. \A c \in SeqSet(RestartMembers(z)) : Wanted(c.zone)'
    BY <1>1, SameIsWanted DEF Others
  <2> QED
    BY <1>1, <2>1 DEF Founded
<1> QED
  BY <1>1, <1>2, NewCalls

(* The session changes, and neither its generation nor its commands.       *)
LEMMA Handled ==
    ASSUME IInv, TypeInv', Idle, NEW z \in Zones, Live(z), NEW e \in Session,
           sessions' = [sessions EXCEPT ![z] = e], e.gen = sessions[z].gen,
           UNCHANGED <<generation, cohorts, slot, fresh, busy, preps, wake>>,
           \A y \in Zones \ {z} : /\ registry'[y] = registry[y] /\ answers'[y] = answers[y]
                                  /\ retries'[y] = retries[y],
           \A i \in DOMAIN answers'[z] : \E j \in DOMAIN answers[z] : answers'[z][i] = answers[z][j],
           registry'[z] = e.encoder,
           e.encoder \notin {0, e.gen} =>
              e.observed # "Playing" /\ (e.desired => Waiting({"restart", "replace"}, z)'),
           e.observed = "Playing" => e.desired /\ (e.encoder # 0 => Told(z, StartKinds)),
           e.desired \/ Quiet(z)', Moving(z)', CallsInv', PreparedStays(z), WakeStays(z), MembersStay(z)
    PROVE  IInv'
<1>1. TypeInv /\ RoomInv(z) /\ CallsInv
  BY DEF IInv
<1>2. sessions'[z] = e /\ \A y \in Zones \ {z} : sessions'[y] = sessions[y]
  BY <1>1, OneSession
<1>3. Live(z)' /\ (Wanted(z)' <=> e.desired) /\ (Playing(z)' <=> e.observed = "Playing")
  BY <1>2, NothingAssumption DEF Live, Wanted, Playing
<1>4. Others(z)
  BY <1>2, IdleWaits DEF Others, Same, Counted
<1>5. sessions[z].gen # 0
  BY <1>1, IdleWaits DEF RoomInv, Streaming
<1>6. Quiet(z)'
  BY <1>3 DEF Quiet
<1>7. Registered(z)' /\ Streaming(z)'
  BY <1>2, <1>3, <1>5 DEF Registered, Streaming
<1>8. Drawn(z)' /\ InOrder(z)'
  <2>1. Counted(z)' = Counted(z)
    BY DEF Counted
  <2> QED
    BY <1>1, <1>2, <1>3, <2>1, Restated
<1> QED
  BY <1>4, <1>6, <1>7, <1>8, Kept DEF RoomInv

(* The oldest answer is taken and the others stay.                         *)
LEMMA AnswerTaken ==
    ASSUME TypeInv, NEW z \in Zones, answers[z] # <<>>, answers' = [answers EXCEPT ![z] = Tail(@)]
    PROVE  /\ Head(answers[z]) \in AnswerMessage /\ Head(answers[z]) = answers[z][1] /\ 1 \in DOMAIN answers[z]
           /\ answers' \in [Zones -> Seq(AnswerMessage)]
           /\ \A y \in Zones \ {z} : answers'[y] = answers[y]
           /\ \A i \in DOMAIN answers'[z] : \E j \in DOMAIN answers[z] : answers'[z][i] = answers[z][j]
           /\ \A j \in DOMAIN answers[z] :
                 \/ answers[z][j] = Head(answers[z])
                 \/ \E i \in DOMAIN answers'[z] : answers'[z][i] = answers[z][j]
<1> DEFINE s == answers[z]
<1>1. answers \in [Zones -> Seq(AnswerMessage)] /\ s \in Seq(AnswerMessage)
  BY DEF TypeInv
<1>2. /\ Head(s) = s[1] /\ Head(s) \in AnswerMessage /\ Tail(s) \in Seq(AnswerMessage)
      /\ SeqSet(s) = {Head(s)} \cup SeqSet(Tail(s)) /\ 1 \in DOMAIN s
  <2> HIDE DEF s
  <2>1. s # <<>>
    BY DEF s
  <2>2. 1 \in DOMAIN s
    BY <1>1, <2>1
  <2> QED
    BY <1>1, <2>1, <2>2, SetOfTail
<1>3. answers'[z] = Tail(s) /\ \A y \in Zones \ {z} : answers'[y] = answers[y]
  BY <1>1
<1>4. answers' \in [Zones -> Seq(AnswerMessage)]
  BY <1>1, <1>2
<1>5. \A x : x \in SeqSet(s) <=> x = Head(s) \/ x \in SeqSet(Tail(s))
  BY <1>2
<1>6. \A i \in DOMAIN Tail(s) : \E j \in DOMAIN s : Tail(s)[i] = s[j]
  <2> HIDE DEF s
  <2>1. s # <<>>
    BY DEF s
  <2>2. \A i \in DOMAIN Tail(s) : i + 1 \in DOMAIN s /\ Tail(s)[i] = s[i + 1]
    BY <1>1, <2>1, SetOfTail
  <2> QED
    BY <2>2
<1>7. \A j \in DOMAIN s : s[j] = Head(s) \/ \E i \in DOMAIN Tail(s) : Tail(s)[i] = s[j]
  <2> DEFINE t == Tail(s)
             h == Head(s)
  <2> HIDE DEF s, t, h
  <2>1. \A x : x \in SeqSet(s) <=> x = h \/ x \in SeqSet(t)
    BY <1>5 DEF h, t
  <2>2. \A j \in DOMAIN s : s[j] = h \/ \E i \in DOMAIN t : t[i] = s[j]
    BY <2>1 DEF SeqSet
  <2> QED
    BY <2>2 DEF h, t
<1> QED
  BY <1>2, <1>3, <1>4, <1>6, <1>7

(* handle_downstream_start_result: an answer of another generation         *)
(* changes nothing; Started is believed only of a room that was last       *)
(* told to start; a failure is retried, or the group is left when the      *)
(* budget is spent.                                                        *)
LEMMA HandleStartResultStep ==
    ASSUME IInv, NEW z \in Zones, HandleStartResult(z)
    PROVE  IInv'
<1> DEFINE r == Head(answers[z])
           s == sessions[z]
<1>1. /\ UNCHANGED <<generation, registry, cohorts, slot, fresh, busy, preps, retries, cleanups, wake>>
      /\ Idle /\ answers[z] # <<>> /\ answers' = [answers EXCEPT ![z] = Tail(@)]
  BY DEF HandleStartResult, workers
<1>2. TypeInv /\ RoomInv(z) /\ CallsInv
  BY DEF IInv
<1>3. /\ r \in AnswerMessage /\ r = answers[z][1] /\ 1 \in DOMAIN answers[z]
      /\ answers' \in [Zones -> Seq(AnswerMessage)]
      /\ \A y \in Zones \ {z} : answers'[y] = answers[y]
      /\ \A i \in DOMAIN answers'[z] : \E j \in DOMAIN answers[z] : answers'[z][i] = answers[z][j]
      /\ \A j \in DOMAIN answers[z] :
            \/ answers[z][j] = r
            \/ \E i \in DOMAIN answers'[z] : answers'[z][i] = answers[z][j]
  BY <1>1, <1>2, AnswerTaken
<1> HIDE DEF r
<1>4. ~Releasing /\ (\A ops : ~Waiting(ops, z)) /\ SeqSet(calls) = {}
  BY <1>1, IdleWaits
<1>5. CASE UNCHANGED <<sessions, groups, calls>> /\ (Wanted(z) => s.gen # r.gen \/ r.outcome \in {"Stopped", "StopUnknown"})
  <2>1. TypeInv'
    BY <1>1, <1>2, <1>3, <1>5 DEF TypeInv, Channels
  <2>2. Drawn(z)'
    BY <1>1, <1>2, <1>3, <1>5 DEF RoomInv, Drawn, Live, Counted
  <2>3. InOrder(z)'
    BY <1>1, <1>2, <1>3, <1>5 DEF RoomInv, InOrder, Told, HasStarted, Live, Playing
  <2>4. Moving(z)'
    <3>1. Wanted(z) =>
          ((\E j \in DOMAIN answers[z] : answers[z][j].gen = s.gen
                                        /\ answers[z][j].outcome \notin {"Stopped", "StopUnknown"})
            => \E i \in DOMAIN answers'[z] : answers'[z][i].gen = s.gen
                                        /\ answers'[z][i].outcome \notin {"Stopped", "StopUnknown"})
      BY <1>3, <1>5
    <3> QED
      BY <1>1, <1>2, <1>5, <3>1 DEF RoomInv, Moving, UnderWay, GaveUp, Playing, Wanted, Live, Waiting
  <2> QED
    BY <1>1, <1>3, <1>5, <2>1, <2>2, <2>3, <2>4, ChannelsKept
<1>6. ASSUME Live(z), NEW e \in Session, sessions' = [sessions EXCEPT ![z] = e],
             e.gen = s.gen, e.encoder = s.encoder, e.desired = s.desired, e.prepared = s.prepared,
             e.observed = "Playing" => s.desired /\ r.gen = s.gen /\ r.outcome \in {"Started", "Joined"},
             s.desired => e.observed = "Playing" \/ e.retry = s.gen
                          \/ (e.attempts = MaxAttempts /\ e.reset),
             \/ groups' \in {groups, Forgotten(z)} /\ calls' = calls
             \/ LeaveGroup(z, <<>>)
      PROVE  IInv'
  <2>1. sessions' \in Sessions /\ sessions'[z] = e /\ \A y \in Zones \ {z} : sessions'[y] = sessions[y]
    BY <1>2, <1>6, OneSession
  <2>2. Live(z)' /\ Wanted(z)' = Wanted(z) /\ Playing(z)' = (e.observed = "Playing")
    BY <1>6, <2>1, NothingAssumption DEF Live, Wanted, Playing
  <2>3. groups' \in {groups, Forgotten(z), GroupsWithout(z)}
    BY <1>6 DEF LeaveGroup
  <2>4. /\ DOMAIN groups' \subseteq Zones /\ \A c \in DOMAIN groups' : groups'[c] \in Seq(Zones)
        /\ MembersStay(z)
    BY <1>2, <2>2, <2>3, GroupsShrink
  <2>5. Others(z)
    BY <1>1, <1>3, <1>4, <2>1 DEF Others, Same, Counted
  <2>6. CallsInv' /\ calls' \in Seq(Calls)
    <3>1. CASE calls' = calls
      BY <1>1, <3>1, NewCalls, SetOfNone DEF Idle, SeqSet, BeginLast
    <3>2. CASE LeaveGroup(z, <<>>)
      <4>1. <<>> \in Seq(Calls) /\ SeqSet(<<>>) = {} /\ BeginLast(<<>>)
        BY SetOfNone DEF BeginLast
      <4> QED
        BY <1>2, <2>5, <3>2, <4>1, LeftCalls
    <3> QED
      BY <1>6, <3>1, <3>2
  <2>7. TypeInv'
    BY <1>1, <1>2, <1>3, <2>1, <2>4, <2>6 DEF TypeInv, Channels
  <2>8. Quiet(z)'
    BY <1>1, <1>2, <1>4, <2>2 DEF RoomInv, Quiet
  <2>9. Moving(z)'
    <3>1. Wanted(z)' => s.desired
      BY <2>2 DEF Wanted
    <3> QED
      BY <1>6, <2>1, <2>2, <3>1 DEF Moving, UnderWay, GaveUp
  <2>10. PreparedStays(z) /\ WakeStays(z)
    BY <1>1, <1>4, <1>6, <2>1, <2>2 DEF PreparedStays, WakeStays
  <2>11. e.observed = "Playing" => e.desired /\ Told(z, StartKinds)
    BY <1>2, <1>3, <1>6 DEF RoomInv, InOrder, HasStarted
  <2>12. e.encoder \notin {0, e.gen} => ~e.desired
    BY <1>2, <1>4, <1>6 DEF RoomInv, Streaming
  <2>13. registry'[z] = e.encoder
    BY <1>1, <1>2, <1>6 DEF RoomInv, Registered
  <2> QED
    BY <1>1, <1>3, <1>6, <2>4, <2>6, <2>7, <2>8, <2>9, <2>10, <2>11, <2>12, <2>13, Handled
<1>7. CASE ~Current(z, r.gen)
  <2>1. UNCHANGED <<sessions, groups, calls>>
    BY <1>7, Zenon DEF HandleStartResult, r
  <2> QED
    BY <1>5, <1>7, <2>1 DEF Current, Wanted
<1>8. CASE Current(z, r.gen) /\ ~sessions[z].desired
  <2> DEFINE e == [s EXCEPT !.observed = IF r.outcome = "Stopped" THEN "Stopped" ELSE "Unknown"]
  <2>1. sessions' = [sessions EXCEPT ![z] = e] /\ UNCHANGED <<groups, calls>>
    BY <1>8, Zenon DEF HandleStartResult, r
  <2>2. Live(z) /\ s \in Session
    BY <1>2, <1>8, Fresh DEF Current
  <2>3. /\ e \in Session /\ e.gen = s.gen /\ e.encoder = s.encoder /\ e.desired = s.desired
        /\ e.prepared = s.prepared /\ e.observed # "Playing"
    <3> HIDE DEF s
    <3> QED
      BY <2>2 DEF Session
  <2> HIDE DEF e
  <2> QED
    BY <1>6, <1>8, <2>1, <2>2, <2>3
<1>9. CASE Current(z, r.gen) /\ sessions[z].desired
  <2>1. StartResult(z, r.outcome)
    BY <1>9, Zenon DEF HandleStartResult, r
  <2>2. Live(z) /\ s \in Session /\ s.gen = r.gen /\ s.gen \in Nat /\ s.desired
    BY <1>2, <1>9, Fresh DEF Current
  <2>3. r.outcome \in Outcomes \ {"Prepared"}
    BY <1>3 DEF AnswerMessage
  <2>4. CASE r.outcome \in {"Stopped", "StopUnknown"}
    <3>1. UNCHANGED <<sessions, groups, calls>>
      BY <2>1, <2>4, Zenon DEF StartResult
    <3> QED
      BY <1>5, <2>4, <3>1
  <2>5. CASE r.outcome \in {"Started", "Joined"}
    <3> DEFINE e == [s EXCEPT !.observed = "Playing", !.reset = FALSE, !.attempts = 0, !.retry = 0]
    <3>1. /\ sessions' = [sessions EXCEPT ![z] = e] /\ UNCHANGED calls
          /\ groups' = IF r.outcome = "Started" THEN Forgotten(z) ELSE groups
      BY <2>1, <2>5 DEF StartResult
    <3>2. e \in Session
      BY <2>2, SessionTypes
    <3>3. /\ e.gen = s.gen /\ e.encoder = s.encoder /\ e.desired = s.desired
          /\ e.prepared = s.prepared /\ e.observed = "Playing"
      <4> HIDE DEF s
      <4> QED
        BY <2>2 DEF Session
    <3> HIDE DEF e
    <3>4. groups' \in {groups, Forgotten(z)} /\ calls' = calls
      BY <3>1
    <3> QED
      BY <1>6, <2>2, <2>5, <3>1, <3>2, <3>3, <3>4
  <2>6. CASE r.outcome = "PermanentFailure"
    <3> DEFINE e == [s EXCEPT !.observed = "Unknown", !.reset = TRUE, !.attempts = MaxAttempts, !.retry = 0]
    <3>1. sessions' = [sessions EXCEPT ![z] = e] /\ LeaveGroup(z, <<>>)
      BY <2>1, <2>6 DEF StartResult
    <3>2. e \in Session
      BY <2>2, SessionTypes
    <3>3. /\ e.gen = s.gen /\ e.encoder = s.encoder /\ e.desired = s.desired
          /\ e.prepared = s.prepared /\ e.observed = "Unknown" /\ e.attempts = MaxAttempts /\ e.reset
      <4> HIDE DEF s
      <4> QED
        BY <2>2 DEF Session
    <3> HIDE DEF e
    <3> QED
      BY <1>6, <2>2, <3>1, <3>2, <3>3
  <2>7. CASE r.outcome \in {"Failed", "Unknown"}
    <3> DEFINE u == [s EXCEPT !.observed = "Unknown", !.reset = ~s.prepared]
               e == WithRetry(u, s.gen)
    <3>1. /\ sessions' = [sessions EXCEPT ![z] = e]
          /\ \/ LeaveGroup(z, <<>>)
             \/ groups' \in {groups, Forgotten(z)} /\ UNCHANGED calls
      BY <2>1, <2>7 DEF StartResult
    <3>2. u \in Session
      BY <2>2, SessionTypes
    <3>3. u.gen = s.gen /\ u.encoder = s.encoder /\ u.desired = s.desired /\ u.prepared = s.prepared
          /\ u.observed = "Unknown"
      <4> HIDE DEF s
      <4> QED
        BY <2>2 DEF Session
    <3> HIDE DEF u
    <3>4. e \in Session
      BY <2>2, <3>2, SessionTypes
    <3>5. /\ e.gen = u.gen /\ e.encoder = u.encoder /\ e.desired = u.desired /\ e.prepared = u.prepared
          /\ e.observed = u.observed
          /\ e.retry = s.gen \/ (e.attempts = MaxAttempts /\ e.reset)
      BY <2>2, <3>2, Retried, Zenon
    <3> HIDE DEF e
    <3> QED
      BY <1>6, <2>2, <3>1, <3>3, <3>4, <3>5
  <2> QED
    BY <2>3, <2>4, <2>5, <2>6, <2>7 DEF Outcomes
<1> QED
  BY <1>7, <1>8, <1>9

(* A room that should play is told to, in its current generation.          *)
LEMMA ToldRoom ==
    ASSUME TypeInv, NEW z \in Zones, RoomInv(z), Wanted(z), sessions[z].gen # 0,
           NEW e \in Session, sessions'[z] = e,
           e.gen = sessions[z].gen, e.desired = sessions[z].desired, e.observed = sessions[z].observed,
           e.encoder = sessions[z].encoder,
           generation'[z] = generation[z], registry'[z] = registry[z], busy'[z] = busy[z],
           answers'[z] = answers[z],
           slot'[z] \in Command, slot'[z].kind \in StartKinds, slot'[z].gen = sessions[z].gen, fresh'[z],
           \A c \in SeqSet(calls) : c.zone = z => c \in SeqSet(calls'),
           Counted(z)' \subseteq Counted(z) \cup {0}
    PROVE  RoomInv(z)'
<1>1. /\ Live(z) /\ Live(z)' /\ Wanted(z)' /\ (Playing(z)' <=> Playing(z)) /\ slot'[z] # Nothing
      /\ slot'[z].kind # "Stop"
  BY NothingAssumption DEF Live, Wanted, Playing, StartKinds
<1>2. Told(z, StartKinds)' /\ Told(z, Kinds \ {"Stop"})'
  BY <1>1 DEF Told, StartKinds, Kinds
<1>3. Waiting({"restart", "replace"}, z) => Waiting({"restart", "replace"}, z)'
  BY WaitsOn
<1>4. Quiet(z)' /\ Registered(z)' /\ Streaming(z)'
  BY <1>1, <1>3 DEF RoomInv, Quiet, Registered, Streaming
<1>5. Drawn(z)'
  <2>1. generation[z] \in Nat /\ sessions[z].gen \in Nat
    BY <1>1, Fresh
  <2>2. sessions[z].gen \in 1..generation[z]
    BY <1>1, <2>1 DEF RoomInv, Drawn
  <2>3. \A g \in Counted(z)' : g <= generation[z]
    BY <2>1 DEF RoomInv, Drawn
  <2> QED
    BY <1>1, <2>2, <2>3 DEF RoomInv, Drawn
<1>6. InOrder(z)'
  BY <1>2 DEF InOrder
<1>7. Moving(z)'
  BY <1>1 DEF Moving, UnderWay
<1> QED
  BY <1>4, <1>5, <1>6, <1>7 DEF RoomInv

(* A retry message is taken.                                               *)
LEMMA RetryRead ==
    ASSUME TypeInv, NEW z \in Zones, NEW g \in retries[z], retries' = [retries EXCEPT ![z] = @ \ {g}]
    PROVE  /\ retries' \in [Zones -> SUBSET Nat] /\ g \in Nat /\ retries'[z] = retries[z] \ {g}
           /\ \A y \in Zones \ {z} : retries'[y] = retries[y]
  BY DEF TypeInv

(* An event that makes one call.                                           *)
LEMMA OneCall ==
    ASSUME NEW op \in Ops, NEW z \in Zones, calls' = <<Call(op, z)>>
    PROVE  /\ calls' \in Seq(Calls) /\ BeginLast(calls')
           /\ SeqSet(calls') = {Call(op, z)} /\ Call(op, z).op = op /\ Call(op, z).zone = z
           /\ \A ops : op \in ops => Waiting(ops, z)'
           /\ op \in {"release", "pause", "stopped"} => Releasing'
<1>1. /\ Call(op, z) \in Calls /\ Call(op, z).op = op /\ Call(op, z).zone = z
  BY CallTypes
<1>2. /\ calls' \in Seq(Calls) /\ SeqSet(calls') = {Call(op, z)} /\ Len(calls') = 1 /\ DOMAIN calls' = {1}
  BY <1>1, SetOfOne
<1>3. BeginLast(calls')
  BY <1>2 DEF BeginLast
<1>4. SeqSet(calls)' = SeqSet(calls')
  BY DEF SeqSet
<1> QED
  BY <1>1, <1>2, <1>3, <1>4 DEF Waiting, Releasing

(* A retry that is due plays the stream the room has prepared, or          *)
(* restarts the room; one of another generation changes nothing.           *)
LEMMA HandleRetryStep ==
    ASSUME IInv, NEW z \in Zones, HandleRetry(z)
    PROVE  IInv'
<1> DEFINE s == sessions[z]
<1>1. PICK g \in retries[z] :
        /\ UNCHANGED <<generation, registry, cohorts, groups, answers, preps, cleanups, wake>>
        /\ Idle /\ retries' = [retries EXCEPT ![z] = @ \ {g}]
        /\ \/ ~Due(z, g) /\ UNCHANGED <<sessions, calls, workers>>
           \/ /\ Due(z, g) /\ s.prepared
              /\ sessions' = [sessions EXCEPT ![z] = TakeHeld(@)] /\ Put(z, "Play", g) /\ UNCHANGED calls
           \/ /\ Due(z, g) /\ ~s.prepared
              /\ sessions' = [sessions EXCEPT ![z].retry = 0] /\ calls' = <<Call("restart", z)>>
              /\ UNCHANGED workers
  BY Zenon DEF HandleRetry
<1>2. TypeInv /\ RoomInv(z) /\ CallsInv
  BY DEF IInv
<1>3. /\ retries' \in [Zones -> SUBSET Nat] /\ g \in Nat /\ retries'[z] = retries[z] \ {g}
      /\ \A y \in Zones \ {z} : retries'[y] = retries[y]
  BY <1>1, <1>2, RetryRead
<1>4. ~Releasing /\ (\A ops : ~Waiting(ops, z)) /\ SeqSet(calls) = {}
  BY <1>1, IdleWaits
<1>5. CASE ~Due(z, g) /\ UNCHANGED <<sessions, calls, workers>>
  <2>1. TypeInv'
    BY <1>1, <1>2, <1>3, <1>5 DEF TypeInv, Channels, workers
  <2>2. Wanted(z) => s.gen # g
    BY <1>5 DEF Due, Current, Wanted
  <2>3. Drawn(z)'
    BY <1>1, <1>2, <1>5 DEF RoomInv, Drawn, Live, Counted, workers
  <2>4. InOrder(z)'
    BY <1>1, <1>2, <1>5 DEF RoomInv, InOrder, Told, HasStarted, Live, Playing, workers
  <2>5. Moving(z)'
    BY <1>1, <1>2, <1>3, <1>5, <2>2
    DEF RoomInv, Moving, UnderWay, GaveUp, Playing, Wanted, Live, Waiting, workers
  <2> QED
    BY <1>1, <1>3, <1>5, <2>1, <2>3, <2>4, <2>5, ChannelsKept DEF workers
<1>6. ASSUME Due(z, g)
      PROVE  /\ Live(z) /\ Wanted(z) /\ s \in Session /\ s.desired /\ s.gen = g /\ s.gen # 0
             /\ s.encoder \in {0, s.gen}
             /\ s.observed = "Playing" => s.encoder = 0 \/ Told(z, StartKinds)
             /\ registry[z] = s.encoder
  <2>1. Live(z) /\ Wanted(z) /\ s.desired /\ s.gen = g
    BY <1>6 DEF Due, Current, Wanted
  <2>2. s \in Session
    BY <1>2, <2>1, Fresh
  <2> QED
    BY <1>2, <1>4, <2>1, <2>2 DEF RoomInv, Streaming, InOrder, Registered, Playing
<1>7. CASE /\ Due(z, g)
           /\ sessions' = [sessions EXCEPT ![z] = TakeHeld(@)] /\ Put(z, "Play", g) /\ UNCHANGED calls
  <2> DEFINE e == TakeHeld(s)
  <2>1. sessions' = [sessions EXCEPT ![z] = e]
    BY <1>7
  <2>2. e \in Session
    BY <1>6, <1>7, SessionTypes
  <2>3. e.gen = s.gen /\ e.encoder = s.encoder /\ e.desired = s.desired /\ e.observed = s.observed
        /\ e.prepared = s.prepared
    <3>1. s \in Session
      BY <1>6, <1>7
    <3> HIDE DEF s
    <3> QED
      BY <3>1 DEF Session, TakeHeld
  <2> HIDE DEF e
  <2>4. sessions' \in Sessions /\ sessions'[z] = e /\ \A y \in Zones \ {z} : sessions'[y] = sessions[y]
    BY <1>2, <2>1, <2>2, OneSession
  <2>5. /\ slot' \in Channels /\ fresh' \in [Zones -> BOOLEAN] /\ busy' = busy
        /\ slot'[z] = [kind |-> "Play", gen |-> g] /\ fresh'[z]
        /\ \A y \in Zones : y # z => slot'[y] = slot[y] /\ fresh'[y] = fresh[y]
    <3>1. "Play" \in Kinds
      BY DEF Kinds
    <3> QED
      BY <1>2, <1>3, <1>7, <3>1, PutTypes
  <2>6. TypeInv'
    BY <1>1, <1>2, <1>3, <1>7, <2>4, <2>5 DEF TypeInv, Channels
  <2>7. slot'[z] \in Command /\ slot'[z].kind \in StartKinds /\ slot'[z].gen = g
    BY <1>3, <2>5 DEF Command, Kinds, StartKinds
  <2>8. Others(z)
    BY <1>1, <1>3, <1>7, <2>4, <2>5 DEF Others, Same, Counted
  <2>9. RoomInv(z)'
    <3>1. Counted(z)' = Counted(z)
      BY <1>1 DEF Counted
    <3> QED
      BY <1>1, <1>2, <1>4, <1>6, <1>7, <2>2, <2>3, <2>4, <2>5, <2>7, <3>1, ToldRoom
  <2>10. CallsInv'
    BY <1>1, <1>4, <1>7, NewCalls, SetOfNone DEF Idle, SeqSet, BeginLast
  <2>11. PreparedStays(z) /\ WakeStays(z) /\ MembersStay(z)
    <3>1. Wanted(z)' /\ Live(z) /\ sessions'[z].gen = s.gen /\ sessions'[z].prepared = s.prepared
      BY <1>6, <1>7, <2>2, <2>3, <2>4, NothingAssumption DEF Wanted, Live
    <3> QED
      BY <1>1, <1>4, <3>1 DEF PreparedStays, WakeStays, MembersStay
  <2> QED
    BY <1>1, <2>6, <2>8, <2>9, <2>10, <2>11, Kept
<1>8. CASE /\ Due(z, g)
           /\ sessions' = [sessions EXCEPT ![z].retry = 0] /\ calls' = <<Call("restart", z)>>
           /\ UNCHANGED workers
  <2> DEFINE e == [s EXCEPT !.retry = 0]
  <2>1. sessions' = [sessions EXCEPT ![z] = e]
    BY <1>8
  <2>2. e \in Session
    BY <1>6, <1>8, SessionTypes
  <2>3. e.gen = s.gen /\ e.encoder = s.encoder /\ e.desired = s.desired /\ e.observed = s.observed
        /\ e.prepared = s.prepared
    <3>1. s \in Session
      BY <1>6, <1>8
    <3> HIDE DEF s
    <3> QED
      BY <3>1 DEF Session
  <2> HIDE DEF e
  <2>4. sessions' \in Sessions /\ sessions'[z] = e
    BY <1>2, <2>1, <2>2, OneSession
  <2>5. Wanted(z)' /\ sessions'[z].gen = s.gen /\ sessions'[z].prepared = s.prepared
    BY <1>6, <1>8, <2>2, <2>3, <2>4, NothingAssumption DEF Wanted, Live
  <2>6. /\ calls' \in Seq(Calls) /\ BeginLast(calls')
        /\ \A c \in SeqSet(calls') : c.op = "restart" /\ c.zone = z
        /\ \A ops : "restart" \in ops => Waiting(ops, z)'
    <3>1. "restart" \in Ops
      BY DEF Ops
    <3> QED
      BY <1>8, <3>1, OneCall
  <2>7. TypeInv'
    BY <1>1, <1>2, <1>3, <1>8, <2>4, <2>6 DEF TypeInv, Channels, workers
  <2>8. CallsInv'
    BY <2>5, <2>6, NewCalls DEF Founded
  <2>9. Moving(z)'
    BY <2>6 DEF Moving
  <2>10. PreparedStays(z) /\ WakeStays(z) /\ MembersStay(z)
    BY <1>1, <1>4, <1>6, <1>8, <2>5 DEF PreparedStays, WakeStays, MembersStay
  <2> QED
    BY <1>1, <1>3, <1>6, <1>8, <2>1, <2>2, <2>3, <2>7, <2>8, <2>9, <2>10, Handled DEF workers
<1> QED
  BY <1>1, <1>5, <1>7, <1>8

----------------------------------------------------------------------------
(* AirPlay events.                                                         *)

(* What the invariant says of a live room between two events.              *)
LEMMA LiveRoom ==
    ASSUME IInv, Idle, NEW z \in Zones, Live(z)
    PROVE  /\ sessions[z] \in Session /\ sessions[z].gen \in Nat /\ sessions[z].gen # 0
           /\ sessions[z].gen <= generation[z] /\ generation[z] \in Nat
           /\ sessions[z].encoder \notin {0, sessions[z].gen} => ~Playing(z) /\ ~sessions[z].desired
           /\ Playing(z) => sessions[z].desired /\ (sessions[z].encoder # 0 => Told(z, StartKinds))
           /\ registry[z] = sessions[z].encoder
           /\ sessions[z].desired => Playing(z) \/ UnderWay(z) \/ GaveUp(z)
           /\ ~sessions[z].desired /\ slot[z] # Nothing => slot[z].kind = "Stop"
<1>1. RoomInv(z) /\ TypeInv
  BY DEF IInv
<1>2. \A ops : ~Waiting(ops, z)
  BY IdleWaits
<1>3. /\ sessions[z] \in Session /\ sessions[z].gen \in Nat /\ generation[z] \in Nat
  BY <1>1, Fresh
<1> QED
  BY <1>1, <1>2, <1>3 DEF RoomInv, Streaming, InOrder, Registered, Moving, Quiet, Drawn, Wanted

(* The sender plays: a room that was paused, or whose stream is of no      *)
(* use, restarts.                                                          *)
LEMMA SetPlayingStep ==
    ASSUME IInv, NEW z \in Zones, SetPlaying(z)
    PROVE  IInv'
<1> DEFINE s == sessions[z]
           e == [s EXCEPT !.desired = TRUE, !.attempts = 0, !.cleanup = "none"]
<1>1. /\ UNCHANGED <<generation, registry, cohorts, groups, slot, fresh, busy, answers, preps, retries,
                     cleanups, wake>>
      /\ Idle /\ Live(z) /\ sessions' = [sessions EXCEPT ![z] = e]
      /\ calls' = IF ~s.desired \/ s.reset THEN <<Call("restart", z)>> ELSE <<>>
  BY DEF SetPlaying, Event, workers, inbox
<1>2. TypeInv /\ RoomInv(z)
  BY DEF IInv
<1>3. /\ s \in Session /\ s.gen # 0
      /\ s.encoder \notin {0, s.gen} => s.observed # "Playing" /\ ~s.desired
      /\ s.observed = "Playing" => s.encoder = 0 \/ Told(z, StartKinds)
      /\ registry[z] = s.encoder
      /\ s.desired => Playing(z) \/ UnderWay(z) \/ GaveUp(z)
  BY <1>1, LiveRoom DEF Playing
<1>4. e \in Session
  BY <1>3, SessionTypes
<1>5. /\ e.gen = s.gen /\ e.encoder = s.encoder /\ e.desired /\ e.observed = s.observed
      /\ e.prepared = s.prepared /\ e.retry = s.retry
  <2> HIDE DEF s
  <2> QED
    BY <1>3 DEF Session
<1> HIDE DEF e
<1>6. sessions' \in Sessions /\ sessions'[z] = e
  BY <1>1, <1>2, <1>4, OneSession
<1>7. Wanted(z)' /\ sessions'[z].gen = s.gen /\ sessions'[z].prepared = s.prepared
  BY <1>4, <1>5, <1>6, NothingAssumption DEF Wanted, Live
<1>8. /\ calls' \in Seq(Calls) /\ BeginLast(calls')
      /\ \A c \in SeqSet(calls') : c.op = "restart" /\ c.zone = z
      /\ ~s.desired \/ s.reset => \A ops : "restart" \in ops => Waiting(ops, z)'
  <2>1. CASE ~s.desired \/ s.reset
    <3>1. "restart" \in Ops /\ calls' = <<Call("restart", z)>>
      BY <1>1, <2>1 DEF Ops
    <3> QED
      BY <3>1, OneCall
  <2>2. CASE ~(~s.desired \/ s.reset)
    <3>1. calls' = <<>>
      BY <1>1, <2>2
    <3> QED
      BY <2>2, <3>1, SetOfNone DEF BeginLast
  <2> QED
    BY <2>1, <2>2
<1>9. TypeInv'
  BY <1>1, <1>2, <1>6, <1>8 DEF TypeInv, Channels
<1>10. CallsInv'
  BY <1>7, <1>8, NewCalls DEF Founded
<1>11. Moving(z)'
  <2>1. CASE ~s.desired \/ s.reset
    BY <1>8, <2>1 DEF Moving
  <2>2. CASE s.desired /\ ~s.reset
    <3>1. Playing(z) \/ UnderWay(z)
      BY <1>3, <2>2 DEF GaveUp
    <3> QED
      BY <1>1, <1>5, <1>6, <3>1 DEF Moving, UnderWay, Playing
  <2> QED
    BY <2>1, <2>2
<1>12. PreparedStays(z) /\ WakeStays(z) /\ MembersStay(z)
  <2>1. ~Releasing /\ \A ops : ~Waiting(ops, z)
    BY <1>1, IdleWaits
  <2> QED
    BY <1>1, <1>7, <2>1 DEF PreparedStays, WakeStays, MembersStay
<1> QED
  BY <1>1, <1>3, <1>4, <1>5, <1>8, <1>9, <1>10, <1>11, <1>12, Handled

(* A paused room leaves its group, and its worker is told to stop.         *)
LEMMA PausedRoom ==
    ASSUME IInv, Idle, NEW z \in Zones, Live(z), NEW e \in Session,
           sessions' = [sessions EXCEPT ![z] = e], e.gen = sessions[z].gen, ~e.desired,
           e.observed = "Unknown", registry' = [registry EXCEPT ![z] = e.encoder],
           LeaveGroup(z, <<Call("pause", z)>>),
           UNCHANGED <<generation, cohorts, slot, fresh, busy, answers, preps, retries, cleanups, wake>>
    PROVE  IInv'
<1>1. TypeInv /\ RoomInv(z)
  BY DEF IInv
<1>2. /\ sessions' \in Sessions /\ sessions'[z] = e
      /\ \A y \in Zones \ {z} : sessions'[y] = sessions[y]
  BY <1>1, OneSession
<1>3. Live(z)' /\ ~Wanted(z)'
  BY <1>2, NothingAssumption DEF Live, Wanted
<1>4. /\ registry' \in [Zones -> Nat] /\ registry'[z] = e.encoder
      /\ \A y \in Zones \ {z} : registry'[y] = registry[y]
  <2>1. e.encoder \in Nat
    BY DEF Session
  <2> QED
    BY <1>1, <2>1 DEF TypeInv
<1>5. Others(z)
  BY <1>2, <1>4, IdleWaits DEF Others, Same, Counted
<1> DEFINE c == Call("pause", z)
<1>6. c \in Calls /\ c.op = "pause" /\ c.zone = z
  <2>1. "pause" \in Ops
    BY DEF Ops
  <2> QED
    BY <2>1, CallTypes
<1>7. <<c>> \in Seq(Calls) /\ SeqSet(<<c>>) = {c} /\ BeginLast(<<c>>)
  <2>1. <<c>> \in Seq(Calls) /\ SeqSet(<<c>>) = {c} /\ Len(<<c>>) = 1 /\ DOMAIN <<c>> = {1}
    BY <1>6, SetOfOne
  <2> QED
    BY <2>1 DEF BeginLast
<1>8. CallsInv' /\ calls' \in Seq(Calls) /\ c \in SeqSet(calls')
  <2>1. Founded(c)'
    BY <1>3, <1>6 DEF Founded
  <2> HIDE DEF c
  <2> QED
    BY <1>1, <1>5, <1>6, <1>7, <2>1, LeftCalls DEF c
<1>9. Releasing' /\ \A ops : "pause" \in ops => Waiting(ops, z)'
  BY <1>6, <1>8 DEF Releasing, Waiting, SeqSet
<1>10. groups' = GroupsWithout(z)
  BY DEF LeaveGroup
<1>11. /\ DOMAIN groups' \subseteq Zones /\ \A d \in DOMAIN groups' : groups'[d] \in Seq(Zones)
       /\ MembersStay(z)
  BY <1>1, <1>10, GroupsShrink
<1>12. TypeInv'
  BY <1>1, <1>2, <1>4, <1>8, <1>11 DEF TypeInv, Channels
<1>13. Quiet(z)' /\ Moving(z)'
  BY <1>3, <1>9 DEF Quiet, Moving
<1>14. PreparedStays(z) /\ WakeStays(z)
  BY <1>9 DEF PreparedStays, WakeStays
<1> QED
  BY <1>4, <1>8, <1>11, <1>12, <1>13, <1>14, Handled

(* The sender pauses.                                                      *)
LEMMA SetPausedStep ==
    ASSUME IInv, NEW z \in Zones, SetPaused(z)
    PROVE  IInv'
<1> DEFINE s == sessions[z]
           e == Paused(s)
<1>1. /\ UNCHANGED <<generation, registry, cohorts, slot, fresh, busy, answers, preps, retries,
                     cleanups, wake>>
      /\ Idle /\ Live(z) /\ sessions' = [sessions EXCEPT ![z] = e]
      /\ LeaveGroup(z, <<Call("pause", z)>>)
  BY DEF SetPaused, Event, workers, inbox
<1>2. s \in Session /\ registry[z] = s.encoder /\ registry \in [Zones -> Nat]
  BY <1>1, LiveRoom DEF IInv, TypeInv
<1>3. e \in Session
  BY <1>2, SessionTypes
<1>4. e.gen = s.gen /\ ~e.desired /\ e.observed = "Unknown" /\ e.encoder = s.encoder
  <2> HIDE DEF s
  <2> QED
    BY <1>2 DEF Session, Paused
<1> HIDE DEF e
<1>5. registry' = [registry EXCEPT ![z] = e.encoder]
  BY <1>1, <1>2, <1>4
<1> QED
  BY <1>1, <1>3, <1>4, <1>5, PausedRoom

(* A flush: the stream restarts when the room should play, and goes        *)
(* otherwise.                                                              *)
LEMMA FlushedStep ==
    ASSUME IInv, NEW z \in Zones, Flushed(z)
    PROVE  IInv'
<1> DEFINE s == sessions[z]
           e == Paused([s EXCEPT !.encoder = 0])
<1>1. /\ UNCHANGED <<generation, cohorts, slot, fresh, busy, answers, preps, retries, cleanups, wake>>
      /\ Idle /\ Live(z)
      /\ \/ /\ s.desired /\ calls' = <<Call("restart", z)>> /\ UNCHANGED <<sessions, registry, groups>>
         \/ /\ ~s.desired /\ sessions' = [sessions EXCEPT ![z] = e]
            /\ registry' = [registry EXCEPT ![z] = 0] /\ LeaveGroup(z, <<Call("pause", z)>>)
  BY Zenon DEF Flushed, Event, workers, inbox
<1>2. TypeInv
  BY DEF IInv
<1>3. /\ s \in Session /\ s.gen # 0
      /\ s.encoder \notin {0, s.gen} => s.observed # "Playing" /\ ~s.desired
      /\ s.observed = "Playing" => s.encoder = 0 \/ Told(z, StartKinds)
      /\ registry[z] = s.encoder
  BY <1>1, LiveRoom DEF Playing
<1>4. CASE s.desired /\ calls' = <<Call("restart", z)>> /\ UNCHANGED <<sessions, registry, groups>>
  <2>1. sessions' = [sessions EXCEPT ![z] = s]
    BY <1>2, <1>4 DEF TypeInv, Sessions
  <2>2. Wanted(z) /\ Wanted(z)'
    BY <1>1, <1>4 DEF Wanted, Live
  <2>3. /\ calls' \in Seq(Calls) /\ BeginLast(calls')
        /\ \A c \in SeqSet(calls') : c.op = "restart" /\ c.zone = z
        /\ \A ops : "restart" \in ops => Waiting(ops, z)'
    <3>1. "restart" \in Ops
      BY DEF Ops
    <3> QED
      BY <1>4, <3>1, OneCall
  <2>4. TypeInv'
    BY <1>1, <1>2, <1>4, <2>3 DEF TypeInv, Channels
  <2>5. CallsInv'
    BY <2>2, <2>3, NewCalls DEF Founded
  <2>6. Moving(z)'
    BY <2>3 DEF Moving
  <2>7. PreparedStays(z) /\ WakeStays(z) /\ MembersStay(z)
    <3>1. ~Releasing /\ \A ops : ~Waiting(ops, z)
      BY <1>1, IdleWaits
    <3> QED
      BY <1>1, <1>4, <2>2, <3>1 DEF PreparedStays, WakeStays, MembersStay
  <2> QED
    BY <1>1, <1>3, <1>4, <2>1, <2>4, <2>5, <2>6, <2>7, Handled
<1>5. CASE /\ ~s.desired /\ sessions' = [sessions EXCEPT ![z] = e]
           /\ registry' = [registry EXCEPT ![z] = 0] /\ LeaveGroup(z, <<Call("pause", z)>>)
  <2> DEFINE u == [s EXCEPT !.encoder = 0]
  <2>1. u \in Session /\ u.gen = s.gen /\ u.encoder = 0
    <3> HIDE DEF s
    <3> QED
      BY <1>3 DEF Session
  <2>2. e = Paused(u)
    OBVIOUS
  <2> HIDE DEF e, u
  <2>3. e \in Session
    BY <2>1, <2>2, SessionTypes
  <2>4. e.gen = s.gen /\ ~e.desired /\ e.observed = "Unknown" /\ e.encoder = 0
    <3> HIDE DEF s
    <3> QED
      BY <2>1, <2>2 DEF Session, Paused
  <2> QED
    BY <1>1, <1>5, <2>3, <2>4, PausedRoom
<1> QED
  BY <1>1, <1>4, <1>5

(* What follows the end of a session is a new session or nothing.          *)
LEMMA BeginCall ==
    ASSUME NEW z \in Zones
    PROVE  \A next \in {<<>>, <<Call("begin", z)>>} :
              /\ next \in Seq(Calls) /\ BeginLast(next)
              /\ \A c \in SeqSet(next) : c.op = "begin" /\ c.zone = z
<1> DEFINE c == Call("begin", z)
<1>1. c \in Calls /\ c.op = "begin" /\ c.zone = z
  <2>1. "begin" \in Ops
    BY DEF Ops
  <2> QED
    BY <2>1, CallTypes
<1>2. <<c>> \in Seq(Calls) /\ SeqSet(<<c>>) = {c} /\ Len(<<c>>) = 1 /\ DOMAIN <<c>> = {1}
  BY <1>1, SetOfOne
<1>3. BeginLast(<<c>>)
  BY <1>2 DEF BeginLast
<1>4. <<>> \in Seq(Calls) /\ BeginLast(<<>>) /\ SeqSet(<<>>) = {}
  BY SetOfNone DEF BeginLast
<1> HIDE DEF c
<1>5. \A next \in {<<>>, <<c>>} :
         next \in Seq(Calls) /\ BeginLast(next) /\ \A d \in SeqSet(next) : d.op = "begin" /\ d.zone = z
  BY <1>1, <1>2, <1>3, <1>4
<1> QED
  BY <1>5 DEF c

(* A session that ends leaves a Stop of its generation to be sent.         *)
LEMMA StoppedSession ==
    ASSUME IInv, Idle, NEW z \in Zones, Live(z), NEW next \in {<<>>, <<Call("begin", z)>>},
           StopSession(z, next), cleanups' \subseteq Zones,
           UNCHANGED <<generation, cohorts, slot, fresh, busy, answers, preps, retries, wake>>
    PROVE  IInv'
<1>1. TypeInv /\ RoomInv(z)
  BY DEF IInv
<1>2. sessions[z].gen \in Nat /\ sessions[z].gen \in 1..generation[z]
  BY LiveRoom
<1>3. PICK c \in Calls :
        /\ c = [Call("stopped", z) EXCEPT !.gen = sessions[z].gen]
        /\ c.op = "stopped" /\ c.zone = z /\ c.gen = sessions[z].gen
  <2> DEFINE d == [Call("stopped", z) EXCEPT !.gen = sessions[z].gen]
  <2>1. "stopped" \in Ops
    BY DEF Ops
  <2>2. d \in Calls /\ d.op = "stopped" /\ d.zone = z /\ d.gen = sessions[z].gen
    BY <1>2, <2>1, CallTypes
  <2>3. d = [Call("stopped", z) EXCEPT !.gen = sessions[z].gen]
    OBVIOUS
  <2> HIDE DEF d
  <2> QED
    BY <2>2, <2>3
<1> DEFINE more == <<c>> \o next
<1>4. /\ sessions' = [sessions EXCEPT ![z] = Nothing] /\ registry' = [registry EXCEPT ![z] = 0]
      /\ LeaveGroup(z, more)
  BY <1>3 DEF StopSession
<1>5. /\ next \in Seq(Calls) /\ BeginLast(next) /\ \A d \in SeqSet(next) : d.op = "begin" /\ d.zone = z
  BY BeginCall
<1>6. <<c>> \in Seq(Calls) /\ SeqSet(<<c>>) = {c}
  BY <1>3, SetOfOne
<1>7. /\ more \in Seq(Calls) /\ SeqSet(more) = {c} \cup SeqSet(next)
  <2>1. PICK one : one = <<c>>
    OBVIOUS
  <2>2. one \in Seq(Calls) /\ SeqSet(one) = {c} /\ more = one \o next
    BY <1>6, <2>1, Zenon
  <2>3. one \o next \in Seq(Calls) /\ SeqSet(one \o next) = SeqSet(one) \cup SeqSet(next)
    <3>1. \A s, t : s \in Seq(Calls) /\ t \in Seq(Calls) =>
                      /\ s \o t \in Seq(Calls)
                      /\ SeqSet(s \o t) = SeqSet(s) \cup SeqSet(t)
      BY SetOfJoined
    <3> QED
      BY <1>5, <2>2, <3>1, Zenon
  <2> QED
    BY <2>2, <2>3, Zenon
<1>8. BeginLast(more)
  <2>1. \A d \in SeqSet(<<c>>) : d.op # "begin"
    BY <1>3, <1>6
  <2> QED
    BY <1>5, <1>6, <2>1, BeginLastBefore
<1> HIDE DEF more
<1>9. /\ sessions' \in Sessions /\ sessions'[z] = Nothing
      /\ \A y \in Zones \ {z} : sessions'[y] = sessions[y]
  BY <1>4, <1>1, OneSession
<1>10. ~Live(z)' /\ ~Wanted(z)'
  BY <1>9 DEF Live, Wanted
<1>11. /\ registry' \in [Zones -> Nat] /\ registry'[z] = 0
       /\ \A y \in Zones \ {z} : registry'[y] = registry[y]
  BY <1>4, <1>1 DEF TypeInv
<1>12. Others(z)
  BY <1>9, <1>11, IdleWaits DEF Others, Same, Counted
<1>13. CallsInv' /\ calls' \in Seq(Calls) /\ c \in SeqSet(calls')
  <2>1. Founded(c)'
    BY <1>2, <1>3, <1>10 DEF Founded
  <2>2. \A d \in SeqSet(next) : Founded(d)'
    BY <1>5, <1>10 DEF Founded
  <2> QED
    BY <1>4, <1>1, <1>3, <1>5, <1>7, <1>8, <1>12, <2>1, <2>2, LeftCalls
<1>14. Releasing' /\ Waiting({"pause", "stopped"}, z)'
  BY <1>3, <1>13 DEF Releasing, Waiting, SeqSet
<1>15. groups' = GroupsWithout(z)
  BY <1>4 DEF LeaveGroup
<1>16. /\ DOMAIN groups' \subseteq Zones /\ \A d \in DOMAIN groups' : groups'[d] \in Seq(Zones)
       /\ MembersStay(z)
  BY <1>1, <1>15, GroupsShrink
<1>17. TypeInv'
  BY <1>1, <1>9, <1>11, <1>13, <1>16 DEF TypeInv, Channels
<1>18. RoomInv(z)'
  <2>1. Quiet(z)' /\ Registered(z)' /\ Streaming(z)' /\ InOrder(z)' /\ Moving(z)'
    BY <1>10, <1>11, <1>14 DEF Quiet, Registered, Streaming, InOrder, Moving
  <2>2. Drawn(z)'
    BY <1>1, <1>10 DEF RoomInv, Drawn, Counted
  <2> QED
    BY <2>1, <2>2 DEF RoomInv
<1>19. PreparedStays(z) /\ WakeStays(z)
  BY <1>10, <1>14 DEF PreparedStays, WakeStays
<1> QED
  BY <1>12, <1>13, <1>16, <1>17, <1>18, <1>19, Kept

(* A session starts, after the one before it in the room ended.            *)
LEMMA SessionStartedStep ==
    ASSUME IInv, NEW z \in Zones, SessionStarted(z)
    PROVE  IInv'
<1> DEFINE next == <<Call("begin", z)>>
<1>1. /\ UNCHANGED <<generation, cohorts, slot, fresh, busy, answers, preps, retries, cleanups, wake>>
      /\ Idle
      /\ \/ Live(z) /\ StopSession(z, next)
         \/ ~Live(z) /\ calls' = next /\ UNCHANGED <<sessions, registry, groups>>
  BY Zenon DEF SessionStarted, Event, workers, inbox
<1>2. TypeInv /\ RoomInv(z)
  BY DEF IInv
<1>3. CASE Live(z) /\ StopSession(z, next)
  <2>1. cleanups' \subseteq Zones
    BY <1>1, <1>2 DEF TypeInv
  <2> HIDE DEF next
  <2>2. next \in {<<>>, next}
    OBVIOUS
  <2> QED
    BY <1>1, <1>3, <2>1, <2>2, StoppedSession DEF next
<1>4. CASE ~Live(z) /\ calls' = next /\ UNCHANGED <<sessions, registry, groups>>
  <2>1. calls' \in Seq(Calls) /\ BeginLast(calls') /\ \A c \in SeqSet(calls') : c.op = "begin" /\ c.zone = z
    BY <1>4, BeginCall
  <2>2. \A y \in Zones : Same(y)
    BY <1>1, <1>4, IdleWaits DEF Same, Counted
  <2>3. TypeInv'
    BY <1>1, <1>2, <1>4, <2>1 DEF TypeInv, Channels
  <2>4. ~Live(z)' /\ (Wanted(z) <=> Wanted(z)')
    BY <1>4 DEF Live, Wanted
  <2>5. CallsInv'
    BY <2>1, <2>4, NewCalls DEF Founded
  <2>6. PreparedStays(z) /\ WakeStays(z) /\ MembersStay(z)
    BY <1>1, <1>4, <2>4, IdleWaits DEF PreparedStays, WakeStays, MembersStay
  <2> QED
    BY <1>1, <1>2, <2>2, <2>3, <2>5, <2>6, Kept, SameRoom DEF Others
<1> QED
  BY <1>1, <1>3, <1>4

(* A session stops.                                                        *)
LEMMA SessionStoppedStep ==
    ASSUME IInv, NEW z \in Zones, SessionStopped(z)
    PROVE  IInv'
<1>1. /\ UNCHANGED <<generation, cohorts, slot, fresh, busy, answers, preps, retries, cleanups, wake>>
      /\ Idle /\ Live(z) /\ StopSession(z, <<>>)
  BY DEF SessionStopped, Event, workers, inbox
<1>2. cleanups' \subseteq Zones
  BY <1>1 DEF IInv, TypeInv
<1> QED
  BY <1>1, <1>2, StoppedSession

(* The grace message of a session that is still paused ends it; any        *)
(* other is ignored.                                                       *)
LEMMA HandleCleanupStep ==
    ASSUME IInv, NEW z \in Zones, HandleCleanup(z)
    PROVE  IInv'
<1>1. /\ UNCHANGED <<generation, cohorts, slot, fresh, busy, answers, preps, retries, wake>>
      /\ Idle /\ cleanups' = cleanups \ {z}
      /\ \/ Live(z) /\ StopSession(z, <<>>)
         \/ UNCHANGED <<sessions, registry, groups, calls>>
  BY Zenon DEF HandleCleanup, workers
<1>2. TypeInv /\ RoomInv(z)
  BY DEF IInv
<1>3. cleanups' \subseteq Zones
  BY <1>1, <1>2 DEF TypeInv
<1>4. CASE Live(z) /\ StopSession(z, <<>>)
  BY <1>1, <1>3, <1>4, StoppedSession
<1>5. CASE UNCHANGED <<sessions, registry, groups, calls>>
  <2>1. TypeInv'
    BY <1>1, <1>2, <1>3, <1>5 DEF TypeInv, Channels
  <2>2. Drawn(z)' /\ InOrder(z)' /\ Moving(z)'
    BY <1>1, <1>2, <1>5 DEF RoomInv, Drawn, InOrder, Moving, Live, Counted, Told, HasStarted, Playing,
                            UnderWay, GaveUp, Wanted, Waiting
  <2> QED
    BY <1>1, <1>5, <2>1, <2>2, ChannelsKept
<1> QED
  BY <1>1, <1>4, <1>5

(* The encoder's input closed: the stream goes, the belief is kept, and    *)
(* when the room should play a retry is armed or the budget is spent.      *)
LEMMA EncoderClosedStep ==
    ASSUME IInv, NEW z \in Zones, EncoderClosed(z)
    PROVE  IInv'
<1> DEFINE s == sessions[z]
           g == NextGeneration(z)
           lost == [s EXCEPT !.prepared = FALSE, !.reset = TRUE, !.encoder = 0, !.gen = g]
           e == IF lost.desired THEN WithRetry(lost, g) ELSE lost
<1>1. /\ UNCHANGED <<cohorts, groups, calls, answers, preps, retries, cleanups, wake>>
      /\ Idle /\ Live(z) /\ generation' = [generation EXCEPT ![z] = g]
      /\ sessions' = [sessions EXCEPT ![z] = e] /\ Put(z, "Stop", g)
      /\ registry' = [registry EXCEPT ![z] = 0]
  BY DEF EncoderClosed, Event, inbox
<1>2. TypeInv /\ RoomInv(z) /\ GroupsSound
  BY DEF IInv
<1>3. s \in Session /\ g \in Nat /\ generation[z] \in Nat /\ g > generation[z]
  BY <1>1, <1>2, Fresh, LiveRoom
<1>4. (s.observed = "Playing" => s.desired) /\ ~Releasing /\ \A ops : ~Waiting(ops, z)
  BY <1>1, LiveRoom, IdleWaits DEF Playing
<1> HIDE DEF g
<1>5. lost \in Session
  BY <1>3, SessionTypes
<1>6. lost.desired = s.desired /\ lost.observed = s.observed /\ lost.encoder = 0 /\ lost.gen = g
  <2> HIDE DEF s
  <2> QED
    BY <1>3 DEF Session
<1> HIDE DEF lost
<1>7. /\ e \in Session /\ e.desired = s.desired /\ e.observed = s.observed /\ e.encoder = 0 /\ e.gen = g
      /\ s.desired => e.retry = g \/ (e.attempts = MaxAttempts /\ e.reset)
  <2> DEFINE w == WithRetry(lost, g)
  <2>1. w \in Session
    BY <1>3, <1>5, SessionTypes
  <2>2. /\ w.gen = lost.gen /\ w.encoder = lost.encoder /\ w.desired = lost.desired
        /\ w.observed = lost.observed
        /\ w.retry = g \/ (w.attempts = MaxAttempts /\ w.reset)
    BY <1>3, <1>5, Retried, Zenon
  <2>3. e = IF lost.desired THEN w ELSE lost
    OBVIOUS
  <2> HIDE DEF w, e
  <2> QED
    BY <1>5, <1>6, <2>1, <2>2, <2>3
<1> HIDE DEF e
<1>8. /\ sessions' \in Sessions /\ sessions'[z] = e
      /\ \A y \in Zones \ {z} : sessions'[y] = sessions[y]
  BY <1>1, <1>2, <1>7, OneSession
<1>9. Live(z)' /\ Wanted(z)' = Wanted(z) /\ (Playing(z)' <=> s.observed = "Playing")
  BY <1>1, <1>7, <1>8, NothingAssumption DEF Live, Wanted, Playing
<1>10. /\ slot' \in Channels /\ fresh' \in [Zones -> BOOLEAN] /\ busy' = busy
       /\ slot'[z] # Nothing /\ slot'[z].kind = "Stop" /\ slot'[z].gen = g
       /\ \A y \in Zones : y # z => slot'[y] = slot[y] /\ fresh'[y] = fresh[y]
  <2>1. "Stop" \in Kinds
    BY DEF Kinds
  <2> QED
    BY <1>1, <1>2, <1>3, <2>1, PutTypes
<1>11. /\ registry' \in [Zones -> Nat] /\ registry'[z] = 0 /\ generation' \in [Zones -> Nat]
       /\ generation'[z] = g
       /\ \A y \in Zones \ {z} : registry'[y] = registry[y] /\ generation'[y] = generation[y]
  BY <1>1, <1>2, <1>3 DEF TypeInv
<1>12. TypeInv'
  BY <1>1, <1>2, <1>8, <1>10, <1>11 DEF TypeInv, Channels
<1>13. Others(z)
  BY <1>1, <1>8, <1>10, <1>11 DEF Others, Same, Counted
<1>14. Quiet(z)' /\ Registered(z)'
  BY <1>7, <1>8, <1>9, <1>10, <1>11 DEF Quiet, Registered
<1>15. Drawn(z)'
  <2>1. \A n \in Nat : n <= generation[z] => n <= g
    BY <1>3
  <2>2. Counted(z)' = Counted(z) /\ Counted(z) \subseteq Nat
    BY <1>1, <1>2, CountedTypes DEF Counted
  <2>3. \A n : n \in 1..generation[z] => n \in 1..g
    BY <1>3
  <2> QED
    BY <1>1, <1>2, <1>3, <1>7, <1>8, <1>10, <1>11, <2>1, <2>2, <2>3 DEF RoomInv, Drawn
<1>16. Streaming(z)'
  BY <1>3, <1>4, <1>7, <1>8, <1>9 DEF Streaming
<1>17. InOrder(z)'
  <2>1. \A n : n \in 1..generation[z] => n # g
    BY <1>3
  <2>2. (busy'[z] # Nothing => busy'[z].gen # g) /\ ~HasStarted(z)'
    BY <1>1, <1>2, <1>7, <1>8, <1>10, <2>1 DEF RoomInv, Drawn, HasStarted
  <2> QED
    BY <1>7, <1>8, <2>2 DEF InOrder
<1>18. Moving(z)'
  BY <1>7, <1>8, <1>9 DEF Moving, UnderWay, GaveUp, Wanted
<1>19. CallsInv'
  BY <1>1, NewCalls, SetOfNone DEF Idle, SeqSet, BeginLast
<1>20. PreparedStays(z) /\ WakeStays(z) /\ MembersStay(z)
  BY <1>1, <1>3, <1>4, <1>7, <1>8, <1>9 DEF PreparedStays, WakeStays, MembersStay
<1> QED
  BY <1>1, <1>12, <1>13, <1>14, <1>15, <1>16, <1>17, <1>18, <1>19, <1>20, Kept DEF RoomInv

----------------------------------------------------------------------------
(* A prepared stream.                                                      *)

(* A message of a prepared stream is taken.                                *)
LEMMA PreparedRead ==
    ASSUME TypeInv, NEW z \in Zones, NEW g \in preps[z], preps' = [preps EXCEPT ![z] = @ \ {g}]
    PROVE  /\ preps' \in [Zones -> SUBSET Nat] /\ g \in Nat /\ preps'[z] = preps[z] \ {g}
           /\ \A y \in Zones \ {z} : preps'[y] = preps[y]
  BY DEF TypeInv

(* A cohort counts the stream of one of its rooms.                         *)
WithCounted(c, z, g) == [c EXCEPT !.prepared[z] = g]

(* Of a cohort, only what one room prepared changes.                       *)
LEMMA CountedNow ==
    ASSUME NEW c \in Cohort, NEW z \in Zones, NEW g \in Nat
    PROVE  /\ WithCounted(c, z, g) \in Cohort
           /\ WithCounted(c, z, g).sessions = c.sessions
           /\ WithCounted(c, z, g).prepared[z] = g
           /\ \A y \in Zones \ {z} : WithCounted(c, z, g).prepared[y] = c.prepared[y]
<1>1. c.prepared \in [Zones -> Nat]
  BY CohortTypes
<1>2. /\ WithCounted(c, z, g) \in Cohort
      /\ WithCounted(c, z, g).sessions = c.sessions
      /\ WithCounted(c, z, g).prepared = [c.prepared EXCEPT ![z] = g]
  BY DEF Cohort, WithCounted
<1> QED
  BY <1>1, <1>2

(* The cases of handle_prepared_downstream.                                *)
LEMMA PreparedCases ==
    ASSUME NEW z \in Zones, HandlePrepared(z)
    PROVE  \E g \in preps[z] :
        /\ UNCHANGED <<generation, registry, answers, retries, cleanups, wake>>
        /\ Idle /\ preps' = [preps EXCEPT ![z] = @ \ {g}]
        /\ \/ ~Due(z, g) /\ UNCHANGED <<sessions, groups, cohorts, calls, workers>>
           \/ /\ Due(z, g) /\ sessions' = [sessions EXCEPT ![z] = [@ EXCEPT !.prepared = TRUE]]
              /\ \E i \in DOMAIN cohorts : /\ InCohort(z, cohorts[i])
                                           /\ cohorts' = [cohorts EXCEPT ![i].prepared[z] = g]
              /\ calls' = <<Call("release", z)>> /\ UNCHANGED <<groups, workers>>
           \/ /\ Due(z, g) /\ PlayPrepared([sessions EXCEPT ![z] = [@ EXCEPT !.prepared = TRUE]], <<z>>)
              /\ UNCHANGED <<cohorts, calls>>
<1> DEFINE ready == [sessions EXCEPT ![z] = [@ EXCEPT !.prepared = TRUE]]
<1>1. PICK g \in preps[z] :
      /\ preps' = [preps EXCEPT ![z] = @ \ {g}]
      /\ IF ~Due(z, g)
         THEN UNCHANGED <<sessions, groups, cohorts, calls, workers>>
         ELSE LET holding == {i \in DOMAIN cohorts : InCohort(z, cohorts[i])}
                  r == [sessions EXCEPT ![z].prepared = TRUE]
              IN  IF holding # {}
                  THEN /\ sessions' = r
                       /\ \E i \in holding :
                             /\ \A j \in holding : i <= j
                             /\ cohorts' = [cohorts EXCEPT ![i].prepared[z] = g]
                       /\ calls' = <<Call("release", z)>>
                       /\ UNCHANGED <<groups, workers>>
                  ELSE /\ PlayPrepared(r, <<z>>)
                       /\ UNCHANGED <<cohorts, calls>>
  BY Zenon DEF HandlePrepared
<1>2. [sessions EXCEPT ![z].prepared = TRUE] = ready
  OBVIOUS
<1>3. Idle /\ UNCHANGED <<generation, registry, answers, retries, cleanups, wake>>
  BY DEF HandlePrepared
<1> HIDE DEF ready
<1>4. CASE ~Due(z, g)
  BY <1>1, <1>3, <1>4, Zenon
<1>5. CASE Due(z, g) /\ {i \in DOMAIN cohorts : InCohort(z, cohorts[i])} # {}
  BY <1>1, <1>2, <1>3, <1>5, Zenon DEF ready
<1>6. CASE Due(z, g) /\ {i \in DOMAIN cohorts : InCohort(z, cohorts[i])} = {}
  BY <1>1, <1>2, <1>3, <1>6, Zenon DEF ready
<1> QED
  BY <1>4, <1>5, <1>6

(* handle_prepared_downstream: a stream of the current generation waits    *)
(* in the cohort of its room, or is played at once; one of another         *)
(* generation changes nothing.                                             *)
LEMMA HandlePreparedStep ==
    ASSUME IInv, NEW z \in Zones, HandlePrepared(z)
    PROVE  IInv'
<1> DEFINE s == sessions[z]
           u == [s EXCEPT !.prepared = TRUE]
           ready == [sessions EXCEPT ![z] = u]
<1>1. PICK g \in preps[z] :
        /\ UNCHANGED <<generation, registry, answers, retries, cleanups, wake>>
        /\ Idle /\ preps' = [preps EXCEPT ![z] = @ \ {g}]
        /\ \/ ~Due(z, g) /\ UNCHANGED <<sessions, groups, cohorts, calls, workers>>
           \/ /\ Due(z, g) /\ sessions' = ready
              /\ \E i \in DOMAIN cohorts : /\ InCohort(z, cohorts[i])
                                           /\ cohorts' = [cohorts EXCEPT ![i].prepared[z] = g]
              /\ calls' = <<Call("release", z)>> /\ UNCHANGED <<groups, workers>>
           \/ Due(z, g) /\ PlayPrepared(ready, <<z>>) /\ UNCHANGED <<cohorts, calls>>
  BY PreparedCases
<1>2. TypeInv /\ RoomInv(z) /\ CallsInv /\ PlacesInv /\ PreparedInv /\ GroupsSound
      /\ \A y \in Zones : RoomInv(y)
  BY DEF IInv
<1>3. /\ preps' \in [Zones -> SUBSET Nat] /\ g \in Nat /\ preps'[z] = preps[z] \ {g}
      /\ \A y \in Zones \ {z} : preps'[y] = preps[y]
  BY <1>1, <1>2, PreparedRead
<1>4. ~Releasing /\ (\A ops, y : ~Waiting(ops, y)) /\ SeqSet(calls) = {}
  BY <1>1, IdleWaits
<1>5. CASE ~Due(z, g) /\ UNCHANGED <<sessions, groups, cohorts, calls, workers>>
  <2>1. TypeInv'
    BY <1>1, <1>2, <1>3, <1>5 DEF TypeInv, Channels, workers
  <2>2. Wanted(z) => s.gen # g
    BY <1>5 DEF Due, Current, Wanted
  <2>3. Drawn(z)'
    BY <1>1, <1>2, <1>5 DEF RoomInv, Drawn, Live, Counted, workers
  <2>4. InOrder(z)'
    BY <1>1, <1>2, <1>5 DEF RoomInv, InOrder, Told, HasStarted, Live, Playing, workers
  <2>5. Moving(z)'
    BY <1>1, <1>2, <1>3, <1>5, <2>2
    DEF RoomInv, Moving, UnderWay, GaveUp, Playing, Wanted, Live, Waiting, workers
  <2> QED
    BY <1>1, <1>3, <1>5, <2>1, <2>3, <2>4, <2>5, ChannelsKept DEF workers
<1>6. ASSUME Due(z, g)
      PROVE  /\ Live(z) /\ Wanted(z) /\ s \in Session /\ s.desired /\ s.gen = g /\ s.gen # 0
             /\ s.encoder \in {0, s.gen}
             /\ s.observed = "Playing" => s.encoder = 0 \/ Told(z, StartKinds)
             /\ registry[z] = s.encoder
             /\ u \in Session /\ u.gen = s.gen /\ u.encoder = s.encoder /\ u.desired = s.desired
             /\ u.observed = s.observed /\ u.prepared
  <2>1. Live(z) /\ Wanted(z) /\ s.desired /\ s.gen = g
    BY <1>6 DEF Due, Current, Wanted
  <2>2. s \in Session
    BY <1>2, <2>1, Fresh
  <2>3. u \in Session
    BY <2>2, SessionTypes
  <2>4. u.gen = s.gen /\ u.encoder = s.encoder /\ u.desired = s.desired /\ u.observed = s.observed
        /\ u.prepared
    <3> HIDE DEF s
    <3> QED
      BY <2>2 DEF Session
  <2> HIDE DEF u
  <2> QED
    BY <1>2, <1>4, <2>1, <2>2, <2>3, <2>4 DEF RoomInv, Streaming, InOrder, Registered, Playing
<1>7. ASSUME Due(z, g), sessions' = ready, calls' = <<Call("release", z)>>, UNCHANGED <<groups, workers>>,
             NEW i \in DOMAIN cohorts, InCohort(z, cohorts[i]),
             cohorts' = [cohorts EXCEPT ![i].prepared[z] = g]
      PROVE  IInv'
  <2>1. u \in Session /\ u.gen = g /\ u.gen = s.gen
    BY <1>6, <1>7
  <2> HIDE DEF u
  <2>2. /\ sessions' \in Sessions /\ sessions'[z] = u
        /\ \A y \in Zones \ {z} : sessions'[y] = sessions[y]
    BY <1>2, <1>7, <2>1, OneSession
  <2>3. /\ Live(z) /\ Live(z)' /\ Wanted(z)' /\ Wanted(z)
        /\ (Playing(z)' <=> s.observed = "Playing")
        /\ \A y \in Zones \ {z} : (Live(y)' <=> Live(y)) /\ (Wanted(y)' <=> Wanted(y))
    BY <1>6, <1>7, <2>2, NothingAssumption DEF Wanted, Live, Playing
  <2>4. /\ cohorts' \in Seq(Cohort) /\ DOMAIN cohorts' = DOMAIN cohorts
        /\ \A j \in DOMAIN cohorts : /\ cohorts'[j].sessions = cohorts[j].sessions
                                     /\ \A y \in Zones : y # z \/ j # i =>
                                           cohorts'[j].prepared[y] = cohorts[j].prepared[y]
        /\ cohorts'[i].prepared[z] = g
    <3>1. cohorts \in Seq(Cohort) /\ cohorts[i] \in Cohort
      BY <1>2, <1>7 DEF TypeInv
    <3>2. PICK d : d = WithCounted(cohorts[i], z, g)
      OBVIOUS
    <3>3. cohorts' = [cohorts EXCEPT ![i] = d]
      BY <1>7, <3>2 DEF WithCounted
    <3>4. /\ d \in Cohort /\ d.sessions = cohorts[i].sessions /\ d.prepared[z] = g
          /\ \A y \in Zones \ {z} : d.prepared[y] = cohorts[i].prepared[y]
      <4>1. g \in Nat /\ z \in Zones
        BY <1>3
      <4>2. cohorts[i] \in Cohort
        BY <3>1
      <4> QED
        BY <3>2, <4>1, <4>2, CountedNow, Zenon
    <3>5. i \in DOMAIN cohorts
      BY <1>7
    <3>6. /\ cohorts' \in Seq(Cohort) /\ DOMAIN cohorts' = DOMAIN cohorts /\ cohorts'[i] = d
          /\ \A j \in DOMAIN cohorts : j # i => cohorts'[j] = cohorts[j]
      BY <3>1, <3>3, <3>4, <3>5, SetAt
    <3> QED
      BY <3>4, <3>5, <3>6
  <2>5. /\ \A y \in Zones \ {z} : Counted(y)' = Counted(y)
        /\ Counted(z)' \subseteq Counted(z) \cup {g} /\ g \in Counted(z)'
    BY <2>4 DEF Counted
  <2>6. /\ calls' \in Seq(Calls) /\ BeginLast(calls')
        /\ \A c \in SeqSet(calls') : c.op = "release"
        /\ Releasing'
    <3>1. "release" \in Ops
      BY DEF Ops
    <3> QED
      BY <1>7, <3>1, OneCall
  <2>7. TypeInv'
    BY <1>1, <1>2, <1>3, <1>7, <2>2, <2>4, <2>6 DEF TypeInv, Channels, workers
  <2>8. \A y \in Zones \ {z} : Same(y)
    BY <1>1, <1>3, <1>4, <1>7, <2>2, <2>5 DEF Same, workers
  <2>9. RoomInv(z)'
    <3>1. Quiet(z)'
      BY <2>3 DEF Quiet
    <3>2. Registered(z)' /\ Streaming(z)'
      BY <1>1, <1>6, <1>7, <2>2, <2>3 DEF Registered, Streaming
    <3>3. Drawn(z)' /\ InOrder(z)'
      BY <1>1, <1>2, <1>6, <1>7, <2>1, <2>2, <2>3, <2>5, Restated DEF workers
    <3>4. Moving(z)'
      BY <2>1, <2>2, <2>4 DEF Moving, UnderWay
    <3> QED
      BY <3>1, <3>2, <3>3, <3>4 DEF RoomInv
  <2>10. \A y \in Zones : RoomInv(y)'
    BY <1>2, <2>8, <2>9, SameRoom
  <2>11. CallsInv'
    BY <2>6, NewCalls DEF Founded
  <2>12. PlacesInv'
    BY <1>2, <2>4 DEF PlacesInv
  <2>13. PreparedInv'
    <3> SUFFICES ASSUME NEW j \in DOMAIN cohorts', NEW y \in Zones, cohorts'[j].prepared[y] # 0
                 PROVE  /\ y \in SeqSet(cohorts'[j].sessions)
                        /\ Live(y)' /\ cohorts'[j].prepared[y] = sessions'[y].gen
                              => sessions'[y].prepared
      BY DEF PreparedInv
    <3>1. CASE y # z
      BY <1>2, <1>4, <2>2, <2>3, <2>4, <3>1 DEF PreparedInv
    <3>2. CASE y = z /\ j # i
      BY <1>2, <1>6, <1>7, <2>2, <2>4, <3>2 DEF PreparedInv
    <3>3. CASE y = z /\ j = i
      <4>1. z \in SeqSet(cohorts[i].sessions)
        BY <1>7 DEF InCohort, SeqSet
      <4> QED
        BY <1>6, <1>7, <2>2, <2>4, <3>3, <4>1
    <3> QED
      BY <3>1, <3>2, <3>3
  <2>14. WakeInv'
    BY <2>6 DEF WakeInv
  <2>15. GroupsSound'
    <3>1. \A y : y \in Zones => (Wanted(y) => Wanted(y)')
      BY <2>3
    <3>2. \A c \in DOMAIN groups : c \in Zones /\ SeqSet(groups[c]) \subseteq Zones
      BY <1>2, SetOfNone DEF TypeInv
    <3> QED
      BY <1>2, <1>7, <3>1, <3>2 DEF GroupsSound
  <2> QED
    BY <2>7, <2>10, <2>11, <2>12, <2>13, <2>14, <2>15 DEF IInv
<1>8. CASE Due(z, g) /\ PlayPrepared(ready, <<z>>) /\ UNCHANGED <<cohorts, calls>>
  <2>1. /\ u \in Session /\ u.gen = g /\ u.gen = s.gen /\ u.encoder = s.encoder
        /\ u.desired = s.desired /\ u.observed = s.observed /\ u.prepared
        /\ Live(z) /\ Wanted(z) /\ s.gen \in Nat /\ s.gen # 0 /\ s.desired
    BY <1>3, <1>6, <1>8
  <2>2. <<z>> \in Seq(Zones) /\ SeqSet(<<z>>) = {z}
    BY SetOfOne
  <2>3. /\ ready \in Sessions /\ ready[z] = u /\ \A y \in Zones \ {z} : ready[y] = sessions[y]
    <3> HIDE DEF u
    <3> QED
      BY <1>2, <2>1 DEF TypeInv, Sessions
  <2> HIDE DEF u, ready
  <2> DEFINE rooms == <<z>>
  <2>4. rooms \in Seq(Zones) /\ SeqSet(rooms) = {z} /\ PlayPrepared(ready, rooms)
    BY <1>8, <2>2
  <2> HIDE DEF rooms
  <2>5. /\ sessions' \in Sessions /\ slot' \in Channels /\ fresh' \in [Zones -> BOOLEAN]
        /\ busy' = busy
        /\ \A y \in SeqSet(rooms) :
              /\ \E p \in Plans : sessions'[y] = [ready[y] EXCEPT !.plan = p]
              /\ slot'[y] \in Command /\ slot'[y].kind \in StartKinds
              /\ slot'[y].gen = sessions[y].gen /\ fresh'[y]
        /\ \A y \in Zones : y \notin SeqSet(rooms) =>
              sessions'[y] = ready[y] /\ slot'[y] = slot[y] /\ fresh'[y] = fresh[y]
        /\ DOMAIN groups' \subseteq Zones
        /\ \A c \in DOMAIN groups' :
              /\ groups'[c] \in Seq(Zones)
              /\ \A m \in SeqSet(groups'[c]) : \/ c \in DOMAIN groups /\ m \in SeqSet(groups[c])
                                               \/ Wanted(m) /\ Wanted(c)
    <3>1. \A y \in SeqSet(rooms) : Wanted(y) /\ ready[y] \in Session /\ sessions[y].gen \in Nat
      BY <2>1, <2>3, <2>4
    <3> QED
      BY <1>2, <2>3, <2>4, <3>1, Played
  <2>6. PICK p \in Plans : sessions'[z] = [u EXCEPT !.plan = p]
    BY <2>3, <2>4, <2>5
  <2> DEFINE e == [u EXCEPT !.plan = p]
  <2>7. /\ e \in Session /\ e.gen = u.gen /\ e.encoder = u.encoder /\ e.desired = u.desired
        /\ e.observed = u.observed /\ e.prepared = u.prepared
    BY <2>1 DEF Session, Plans
  <2>8. sessions'[z] = e /\ \A y \in Zones \ {z} : sessions'[y] = sessions[y]
    BY <2>3, <2>4, <2>5, <2>6
  <2> HIDE DEF e
  <2>9. /\ Live(z)' /\ Wanted(z)'
        /\ \A y \in Zones \ {z} : (Live(y)' <=> Live(y)) /\ (Wanted(y)' <=> Wanted(y))
    BY <2>1, <2>7, <2>8, NothingAssumption DEF Wanted, Live
  <2>10. TypeInv'
    BY <1>1, <1>2, <1>3, <1>8, <2>5 DEF TypeInv, Channels
  <2>11. Others(z)
    BY <1>1, <1>3, <1>8, <2>4, <2>5, <2>8 DEF Others, Same, Counted
  <2>12. RoomInv(z)'
    <3>1. Counted(z)' = Counted(z)
      BY <1>8 DEF Counted
    <3>2. /\ slot'[z] \in Command /\ slot'[z].kind \in StartKinds
          /\ slot'[z].gen = s.gen /\ fresh'[z]
      BY <2>4, <2>5
    <3>3. /\ e \in Session /\ sessions'[z] = e /\ e.gen = s.gen /\ e.desired = s.desired
          /\ e.observed = s.observed /\ e.encoder = s.encoder
      BY <2>1, <2>7, <2>8
    <3>4. /\ generation'[z] = generation[z] /\ registry'[z] = registry[z] /\ busy'[z] = busy[z]
          /\ answers'[z] = answers[z] /\ SeqSet(calls) = {} /\ Counted(z)' \subseteq Counted(z) \cup {0}
      BY <1>1, <1>4, <2>5, <3>1
    <3> QED
      BY <1>2, <2>1, <3>2, <3>3, <3>4, ToldRoom
  <2>13. CallsInv'
    BY <1>1, <1>8, NewCalls, SetOfNone DEF Idle, SeqSet, BeginLast
  <2>14. PreparedStays(z) /\ WakeStays(z)
    BY <1>1, <1>4, <1>8, <2>1, <2>7, <2>8, <2>9 DEF PreparedStays, WakeStays, Releasing
  <2>15. GroupsSound'
    <3>1. \A y \in Zones : Wanted(y) => Wanted(y)'
      BY <2>9
    <3>2. \A c \in DOMAIN groups' : /\ c \in Zones /\ SeqSet(groups'[c]) \subseteq Zones
                                    /\ \A m \in SeqSet(groups'[c]) : Wanted(m) /\ Wanted(c)
      BY <1>2, <2>5, SetOfNone DEF GroupsSound
    <3> QED
      BY <3>1, <3>2 DEF GroupsSound, SeqSet
  <2> QED
    BY <1>8, <2>10, <2>11, <2>12, <2>13, <2>14, <2>15, Kept
<1> QED
  BY <1>1, <1>5, <1>7, <1>8

----------------------------------------------------------------------------
(* The calls of the runtime.                                               *)

(* The call that runs is on top of the stack and founded, and so are       *)
(* those below it.                                                         *)
LEMMA RunningCall ==
    ASSUME IInv, NEW op, Running(op)
    PROVE  \E z \in Zones :
              /\ z = Head(calls).zone /\ Head(calls).op = op /\ calls # <<>>
              /\ Head(calls) \in Calls /\ Head(calls).gen \in Nat /\ Founded(Head(calls))
              /\ SeqSet(calls) = {Head(calls)} \cup SeqSet(Tail(calls)) /\ Tail(calls) \in Seq(Calls)
              /\ \A c \in SeqSet(Tail(calls)) : c \in Calls /\ Founded(c) /\ c.op # "create"
<1>1. /\ TypeInv /\ CallsInv /\ calls # <<>> /\ Head(calls).op = op /\ calls \in Seq(Calls)
  BY DEF IInv, Running, TypeInv
<1>2. /\ Head(calls) \in Calls /\ SeqSet(calls) = {Head(calls)} \cup SeqSet(Tail(calls))
      /\ Tail(calls) \in Seq(Calls)
  BY <1>1, SetOfTail
<1>3. SeqSet(Tail(calls)) \subseteq Calls
  BY <1>2, SetOfNone
<1>4. Founded(Head(calls)) /\ \A c \in SeqSet(Tail(calls)) : c \in Calls /\ Founded(c) /\ c.op # "create"
  BY <1>1, <1>2, <1>3 DEF CallsInv
<1>5. Head(calls).zone \in Zones /\ Head(calls).gen \in Nat
  BY <1>2 DEF Calls
<1> QED
  BY <1>1, <1>2, <1>4, <1>5

(* The calls still to run for a room that goes on playing.                 *)
LEMMA StillWanted ==
    ASSUME NEW z, Wanted(z), Wanted(z)', NEW c, c.zone = z, Founded(c), c.op # "create"
    PROVE  Founded(c)'
  BY DEF Founded, Wanted

(* The start of restart_downstream_for_play: the room leaves its groups,   *)
(* and its members restart before its own stream is replaced.              *)
LEMMA RestartStep ==
    ASSUME IInv, Restart
    PROVE  IInv'
<1>1. PICK z \in Zones :
              /\ z = Head(calls).zone /\ Head(calls).op = "restart" /\ calls # <<>>
              /\ Head(calls) \in Calls /\ Founded(Head(calls))
              /\ SeqSet(calls) = {Head(calls)} \cup SeqSet(Tail(calls))
              /\ \A c \in SeqSet(Tail(calls)) : c \in Calls /\ Founded(c) /\ c.op # "create"
  BY RunningCall DEF Restart
<1>2. TypeInv /\ CallsInv /\ RoomInv(z)
  BY DEF IInv
<1>3. Wanted(z) /\ Live(z)
  BY <1>1 DEF Founded, Wanted
<1>4. sessions[z] \in Session
  BY <1>2, <1>3, Fresh
<1>5. PICK e \in Session : e = [sessions[z] EXCEPT !.retry = 0]
  BY <1>4, SessionTypes
<1>6. /\ e.gen = sessions[z].gen /\ e.desired = sessions[z].desired /\ e.observed = sessions[z].observed
      /\ e.encoder = sessions[z].encoder /\ e.prepared = sessions[z].prepared
  BY <1>4, <1>5 DEF Session
<1>7. PICK more : more = RestartMembers(z) \o <<Call("replace", z)>>
  OBVIOUS
<1>8. /\ more \in Seq(Calls) /\ SeqSet(more) = SeqSet(RestartMembers(z)) \cup {Call("replace", z)}
      /\ Call("replace", z).op = "replace" /\ Call("replace", z).zone = z
      /\ \A c \in SeqSet(RestartMembers(z)) :
            c.op = "restart" /\ c.zone \in Zones \ {z} /\ Wanted(c.zone)
  <2>1. "replace" \in Ops /\ 0 \in Nat
    BY DEF Ops
  <2>2. Call("replace", z) \in Calls /\ Call("replace", z).op = "replace" /\ Call("replace", z).zone = z
    BY <2>1, CallTypes
  <2>3. <<Call("replace", z)>> \in Seq(Calls) /\ SeqSet(<<Call("replace", z)>>) = {Call("replace", z)}
    BY <2>2, SetOfOne
  <2>4. /\ RestartMembers(z) \in Seq(Calls)
        /\ \A c \in SeqSet(RestartMembers(z)) :
            c.op = "restart" /\ c.zone \in Zones \ {z} /\ Wanted(c.zone)
    BY <1>2, Members
  <2>5. \A a, b \in Seq(Calls) : a \o b \in Seq(Calls) /\ SeqSet(a \o b) = SeqSet(a) \cup SeqSet(b)
    BY SetOfJoined
  <2> QED
    BY <1>7, <2>2, <2>3, <2>4, <2>5, Zenon
<1>9. /\ sessions' = [sessions EXCEPT ![z] = e] /\ groups' = GroupsWithout(z) /\ Return(more)
      /\ UNCHANGED <<generation, registry, cohorts, slot, fresh, busy, answers, preps, retries, cleanups, wake>>
  BY <1>1, <1>3, <1>5, <1>7 DEF Restart, workers, inbox
<1>10. sessions' \in Sessions /\ sessions'[z] = e /\ \A y \in Zones \ {z} : sessions'[y] = sessions[y]
  BY <1>2, <1>9, OneSession
<1>11. /\ Live(z)' /\ Wanted(z)' /\ (Playing(z)' <=> Playing(z))
  BY <1>3, <1>6, <1>10, NothingAssumption DEF Live, Wanted, Playing
<1>12. /\ \A c \in SeqSet(calls) : c.zone # z => c \in SeqSet(calls')
       /\ \A c \in SeqSet(calls) : c.op # "restart" => c \in SeqSet(calls')
       /\ Call("replace", z) \in SeqSet(calls')
       /\ calls' \in Seq(Calls)
  BY <1>1, <1>2, <1>8, <1>9, CallsStay, Returned
<1>13. Waiting({"restart", "replace"}, z)' /\ Waiting({"restart", "replace", "create"}, z)'
  BY <1>8, <1>12 DEF Waiting
<1>14. MembersStay(z) /\ DOMAIN groups' \subseteq Zones /\ \A c \in DOMAIN groups' : groups'[c] \in Seq(Zones)
  BY <1>2, <1>9, GroupsShrink
<1>15. TypeInv'
  BY <1>2, <1>9, <1>10, <1>12, <1>14 DEF TypeInv, Channels
<1>16. Others(z)
  BY <1>9, <1>10, <1>12 DEF Others, Same, Counted
<1>17. RoomInv(z)'
  <2>1. Quiet(z)' /\ Registered(z)' /\ Streaming(z)' /\ Moving(z)'
    BY <1>2, <1>3, <1>6, <1>9, <1>10, <1>11, <1>13
    DEF RoomInv, Quiet, Registered, Streaming, Moving, Wanted
  <2>2. Counted(z)' = Counted(z)
    BY <1>9 DEF Counted
  <2>3. Drawn(z)' /\ InOrder(z)'
    <3>1. Playing(z)' /\ sessions'[z].encoder # 0 => Told(z, StartKinds)
      BY <1>2, <1>3, <1>6, <1>10, <1>11 DEF RoomInv, InOrder
    <3> QED
      BY <1>2, <1>3, <1>6, <1>9, <1>10, <1>11, <2>2, <3>1, Restated
  <2> QED
    BY <2>1, <2>3 DEF RoomInv
<1>18. CallsInv'
  <2>1. \A c \in SeqSet(more) : c.op \in {"restart", "replace"} /\ Wanted(c.zone)'
    <3>1. \A c \in SeqSet(RestartMembers(z)) : Wanted(c.zone)'
      BY <1>8, <1>16, SameIsWanted DEF Others
    <3> QED
      BY <1>8, <1>11, <3>1
  <2>2. \A c \in SeqSet(more) : c.op # "begin" /\ c.op # "create" /\ Founded(c)'
    BY <2>1 DEF Founded
  <2>3. \A c \in SeqSet(Tail(calls)) : c.zone = Head(calls).zone => Founded(c)'
    BY <1>1, <1>3, <1>11, StillWanted
  <2>4. Others(Head(calls).zone)
    BY <1>1, <1>16, Zenon
  <2> QED
    BY <1>1, <1>2, <1>8, <1>9, <2>2, <2>3, <2>4, MoreCalls
<1>19. PreparedStays(z) /\ WakeStays(z)
  BY <1>3, <1>6, <1>9, <1>10, <1>11, <1>12 DEF PreparedStays, WakeStays, Releasing, Waiting
<1> QED
  BY <1>9, <1>14, <1>15, <1>16, <1>17, <1>18, <1>19, Kept

(* One call, and the sequence of it.                                       *)
LEMMA OneMore ==
    ASSUME NEW op \in Ops, NEW z \in Zones
    PROVE  /\ <<Call(op, z)>> \in Seq(Calls) /\ SeqSet(<<Call(op, z)>>) = {Call(op, z)}
           /\ Len(<<Call(op, z)>>) = 1
           /\ Call(op, z) \in Calls /\ Call(op, z).op = op /\ Call(op, z).zone = z
  BY CallTypes, SetOfOne

(* Its middle: a new generation is drawn, the old encoder and stream go,   *)
(* and the worker is told to stop.                                         *)
LEMMA ReplaceStep ==
    ASSUME IInv, Replace
    PROVE  IInv'
<1>1. PICK z \in Zones :
              /\ z = Head(calls).zone /\ Head(calls).op = "replace" /\ calls # <<>>
              /\ Head(calls) \in Calls /\ Founded(Head(calls))
              /\ SeqSet(calls) = {Head(calls)} \cup SeqSet(Tail(calls))
              /\ \A c \in SeqSet(Tail(calls)) : c \in Calls /\ Founded(c) /\ c.op # "create"
  BY RunningCall DEF Replace
<1>2. TypeInv /\ CallsInv /\ RoomInv(z)
  BY DEF IInv
<1>3. Wanted(z) /\ Live(z)
  BY <1>1 DEF Founded, Wanted
<1>4. PICK g \in Nat : g = NextGeneration(z) /\ g > generation[z] /\ generation[z] \in Nat
  BY <1>2, Fresh
<1>5. sessions[z] \in Session
  BY <1>2, <1>3, Fresh
<1>6. PICK e \in Session : e = [sessions[z] EXCEPT !.reset = TRUE, !.observed = "Unknown", !.prepared = FALSE,
                                                   !.plan = "none", !.encoder = 0, !.gen = g]
  BY <1>5, SessionTypes
<1>7. e.gen = g /\ e.desired = sessions[z].desired /\ e.observed = "Unknown" /\ e.encoder = 0
  BY <1>5, <1>6 DEF Session
<1>8. PICK more : more = <<Call("create", z)>>
  OBVIOUS
<1>9. /\ more \in Seq(Calls) /\ SeqSet(more) = {Call("create", z)} /\ Len(more) = 1
      /\ Call("create", z).op = "create" /\ Call("create", z).zone = z
  BY <1>8, OneMore DEF Ops
<1>10. /\ sessions' = [sessions EXCEPT ![z] = e] /\ generation' = [generation EXCEPT ![z] = g]
       /\ registry' = [registry EXCEPT ![z] = 0] /\ Put(z, "Stop", g) /\ Return(more)
       /\ UNCHANGED <<cohorts, groups, answers, preps, retries, cleanups, wake>>
  <2>1. LET y == Head(calls).zone
        IN  IF ~Live(y)
            THEN Return(<<>>) /\ UNCHANGED <<sessions, generation, registry, workers>>
            ELSE /\ generation' = [generation EXCEPT ![y] = NextGeneration(y)]
                 /\ sessions' = [sessions EXCEPT ![y] =
                       [@ EXCEPT !.reset = TRUE, !.observed = "Unknown", !.prepared = FALSE,
                                 !.plan = "none", !.encoder = 0, !.gen = NextGeneration(y)]]
                 /\ registry' = [registry EXCEPT ![y] = 0]
                 /\ Put(y, "Stop", NextGeneration(y))
                 /\ Return(<<Call("create", y)>>)
    BY Zenon DEF Replace
  <2>2. UNCHANGED <<cohorts, groups, answers, preps, retries, cleanups, wake>>
    BY DEF Replace, inbox
  <2>3. [sessions EXCEPT ![z] =
                       [@ EXCEPT !.reset = TRUE, !.observed = "Unknown", !.prepared = FALSE,
                                 !.plan = "none", !.encoder = 0, !.gen = NextGeneration(z)]]
        = [sessions EXCEPT ![z] = e]
    BY <1>4, <1>6
  <2> QED
    BY <1>1, <1>3, <1>4, <1>8, <2>1, <2>2, <2>3, Zenon
<1>11. sessions' \in Sessions /\ sessions'[z] = e /\ \A y \in Zones \ {z} : sessions'[y] = sessions[y]
  BY <1>2, <1>10, OneSession
<1>12. Live(z)' /\ Wanted(z)' /\ ~Playing(z)'
  BY <1>3, <1>7, <1>11, NothingAssumption DEF Live, Wanted, Playing
<1>13. /\ slot' \in Channels /\ fresh' \in [Zones -> BOOLEAN] /\ busy' = busy
       /\ slot'[z] # Nothing /\ slot'[z].kind = "Stop" /\ slot'[z].gen = g
       /\ \A y \in Zones : y # z => slot'[y] = slot[y] /\ fresh'[y] = fresh[y]
  <2>1. "Stop" \in Kinds
    BY DEF Kinds
  <2> QED
    BY <1>2, <1>10, <2>1, PutTypes
<1>14. /\ registry' \in [Zones -> Nat] /\ registry'[z] = 0 /\ generation' \in [Zones -> Nat]
       /\ generation'[z] = g
       /\ \A y \in Zones \ {z} : registry'[y] = registry[y] /\ generation'[y] = generation[y]
  BY <1>2, <1>10 DEF TypeInv
<1>15. /\ \A c \in SeqSet(calls) : c.zone # z => c \in SeqSet(calls')
       /\ \A c \in SeqSet(calls) : c.op # "replace" => c \in SeqSet(calls')
       /\ Call("create", z) \in SeqSet(calls')
       /\ calls' \in Seq(Calls)
  BY <1>1, <1>2, <1>9, <1>10, CallsStay, Returned
<1>16. Waiting({"restart", "replace", "create"}, z)'
  BY <1>9, <1>15 DEF Waiting
<1>17. TypeInv'
  BY <1>2, <1>10, <1>11, <1>13, <1>14, <1>15 DEF TypeInv, Channels
<1>18. Others(z)
  BY <1>10, <1>11, <1>13, <1>14, <1>15 DEF Others, Same, Counted
<1>19. RoomInv(z)'
  <2>1. Quiet(z)' /\ Registered(z)' /\ Moving(z)'
    BY <1>7, <1>11, <1>12, <1>14, <1>16 DEF Quiet, Registered, Moving
  <2>2. Streaming(z)'
    BY <1>4, <1>7, <1>11, <1>12 DEF Streaming
  <2>3. Drawn(z)'
    <3>1. \A n \in Nat : n <= generation[z] => n <= g
      BY <1>4
    <3>2. Counted(z)' = Counted(z) /\ Counted(z) \subseteq Nat
      BY <1>2, <1>10, CountedTypes DEF Counted
    <3>3. \A n : n \in 1..generation[z] => n \in 1..g
      BY <1>4
    <3>4. g <= g /\ g \in 1..g
      BY <1>4
    <3> QED
      BY <1>2, <1>7, <1>10, <1>11, <1>13, <1>14, <3>1, <3>2, <3>3, <3>4 DEF RoomInv, Drawn
  <2>4. InOrder(z)'
    <3>1. \A n : n \in 1..generation[z] => n # g
      BY <1>4
    <3>2. (busy'[z] # Nothing => busy'[z].gen # g) /\ ~HasStarted(z)'
      BY <1>2, <1>7, <1>10, <1>11, <1>13, <3>1 DEF RoomInv, Drawn, HasStarted
    <3> QED
      BY <1>7, <1>11, <3>2 DEF InOrder
  <2> QED
    BY <2>1, <2>2, <2>3, <2>4 DEF RoomInv
<1>20. CallsInv'
  <2>1. \A c \in SeqSet(more) : c.op # "begin" /\ Founded(c)'
    <3>1. sessions'[z].observed = "Unknown" /\ sessions'[z].gen # 0
      BY <1>4, <1>7, <1>11
    <3> QED
      BY <1>9, <1>12, <1>13, <3>1 DEF Founded
  <2>2. \A c \in SeqSet(Tail(calls)) : c.zone = Head(calls).zone => Founded(c)'
    BY <1>1, <1>3, <1>12, StillWanted
  <2>3. Others(Head(calls).zone)
    BY <1>1, <1>18, Zenon
  <2> QED
    BY <1>1, <1>2, <1>9, <1>10, <2>1, <2>2, <2>3, MoreCalls
<1>21. PreparedStays(z) /\ WakeStays(z) /\ MembersStay(z)
  <2>1. sessions'[z].gen > generation[z] /\ sessions'[z].gen \in Nat
    BY <1>4, <1>7, <1>11
  <2> QED
    BY <1>10, <1>12, <1>15, <2>1 DEF PreparedStays, WakeStays, MembersStay, Releasing
<1> QED
  BY <1>10, <1>17, <1>18, <1>19, <1>20, <1>21, Kept

(* The end of set_playback_state(false): Stop in a new generation, and     *)
(* the cohorts that the room may have held up are released.                *)
LEMMA PauseStep ==
    ASSUME IInv, Pause
    PROVE  IInv'
<1>1. PICK z \in Zones :
              /\ z = Head(calls).zone /\ Head(calls).op = "pause" /\ calls # <<>>
              /\ Head(calls) \in Calls /\ Founded(Head(calls))
              /\ SeqSet(calls) = {Head(calls)} \cup SeqSet(Tail(calls))
              /\ \A c \in SeqSet(Tail(calls)) : c \in Calls /\ Founded(c) /\ c.op # "create"
  BY RunningCall DEF Pause
<1>2. TypeInv /\ CallsInv /\ RoomInv(z)
  BY DEF IInv
<1>3. ~Wanted(z)
  BY <1>1 DEF Founded
<1>4. PICK g \in Nat : g = NextGeneration(z) /\ g > generation[z] /\ generation[z] \in Nat
  BY <1>2, Fresh
<1>5. PICK e : e = IF Live(z) THEN [sessions[z] EXCEPT !.gen = g] ELSE Nothing
  OBVIOUS
<1>6. /\ e \in Session \cup {Nothing} /\ (e # Nothing <=> Live(z))
      /\ Live(z) => /\ e.gen = g /\ e.desired = sessions[z].desired /\ e.observed = sessions[z].observed
                    /\ e.encoder = sessions[z].encoder
  <2>1. CASE Live(z)
    <3>1. sessions[z] \in Session
      BY <1>2, <2>1, Fresh
    <3>2. e \in Session /\ e = [sessions[z] EXCEPT !.gen = g]
      BY <1>5, <2>1, <3>1, SessionTypes
    <3>3. /\ e.gen = g /\ e.desired = sessions[z].desired /\ e.observed = sessions[z].observed
          /\ e.encoder = sessions[z].encoder
      BY <3>1, <3>2 DEF Session
    <3> QED
      BY <2>1, <3>2, <3>3, NothingAssumption
  <2>2. CASE ~Live(z)
    BY <1>5, <2>2
  <2> QED
    BY <2>1, <2>2
<1>7. PICK more : more = <<Call("release", z)>>
  OBVIOUS
<1>8. /\ more \in Seq(Calls) /\ SeqSet(more) = {Call("release", z)} /\ Len(more) = 1
      /\ Call("release", z).op = "release" /\ Call("release", z).zone = z
  BY <1>7, OneMore DEF Ops
<1>9. /\ sessions' = [sessions EXCEPT ![z] = e] /\ generation' = [generation EXCEPT ![z] = g]
      /\ Put(z, "Stop", g) /\ Return(more)
      /\ UNCHANGED <<registry, cohorts, groups, answers, preps, retries, cleanups, wake>>
  <2>1. /\ PauseStream(z) /\ Return(<<Call("release", z)>>)
        /\ UNCHANGED <<registry, cohorts, groups, answers, preps, retries, cleanups, wake>>
    BY <1>1, Zenon DEF Pause, inbox
  <2>2. sessions' = [sessions EXCEPT ![z] = e]
    <3>1. CASE Live(z)
      BY <1>4, <1>5, <2>1, <3>1 DEF PauseStream
    <3>2. CASE ~Live(z)
      <4>1. sessions' = sessions /\ e = Nothing /\ sessions[z] = Nothing
        BY <1>5, <2>1, <3>2 DEF PauseStream, Live
      <4> QED
        BY <1>2, <4>1 DEF TypeInv, Sessions
    <3> QED
      BY <3>1, <3>2
  <2> QED
    BY <1>4, <1>7, <2>1, <2>2 DEF PauseStream
<1>10. sessions' \in Sessions /\ sessions'[z] = e /\ \A y \in Zones \ {z} : sessions'[y] = sessions[y]
  BY <1>2, <1>6, <1>9, OneSession
<1>11. (Live(z)' <=> Live(z)) /\ ~Wanted(z)' /\ (Live(z) => (Playing(z)' <=> Playing(z)))
  BY <1>3, <1>6, <1>10 DEF Live, Wanted, Playing
<1>12. /\ slot' \in Channels /\ fresh' \in [Zones -> BOOLEAN] /\ busy' = busy
       /\ slot'[z] # Nothing /\ slot'[z].kind = "Stop" /\ slot'[z].gen = g
       /\ \A y \in Zones : y # z => slot'[y] = slot[y] /\ fresh'[y] = fresh[y]
  <2>1. "Stop" \in Kinds
    BY DEF Kinds
  <2> QED
    BY <1>2, <1>9, <2>1, PutTypes
<1>13. /\ generation' \in [Zones -> Nat] /\ generation'[z] = g
       /\ \A y \in Zones \ {z} : generation'[y] = generation[y]
  BY <1>2, <1>9 DEF TypeInv
<1>14. /\ \A c \in SeqSet(calls) : c.zone # z => c \in SeqSet(calls')
       /\ \A c \in SeqSet(calls) : c.op # "pause" => c \in SeqSet(calls')
       /\ Call("release", z) \in SeqSet(calls')
       /\ calls' \in Seq(Calls)
  BY <1>1, <1>2, <1>8, <1>9, CallsStay, Returned
<1>15. TypeInv'
  BY <1>2, <1>9, <1>10, <1>12, <1>13, <1>14 DEF TypeInv, Channels
<1>16. Others(z)
  BY <1>9, <1>10, <1>12, <1>13, <1>14 DEF Others, Same, Counted
<1>17. RoomInv(z)'
  <2>1. Quiet(z)' /\ Moving(z)'
    BY <1>11, <1>12 DEF Quiet, Moving
  <2>2. Registered(z)'
    BY <1>2, <1>6, <1>9, <1>10, <1>11 DEF RoomInv, Registered
  <2>3. Streaming(z)'
    <3>1. Live(z) => ~Playing(z) /\ ~sessions[z].desired
      BY <1>2, <1>3 DEF RoomInv, Streaming, Wanted
    <3> QED
      BY <1>4, <1>6, <1>10, <1>11, <3>1 DEF Streaming
  <2>4. Drawn(z)'
    <3>1. \A n \in Nat : n <= generation[z] => n <= g
      BY <1>4
    <3>2. Counted(z)' = Counted(z) /\ Counted(z) \subseteq Nat
      BY <1>2, <1>9, CountedTypes DEF Counted
    <3>3. \A n : n \in 1..generation[z] => n \in 1..g
      BY <1>4
    <3>4. g <= g /\ g \in 1..g
      BY <1>4
    <3> QED
      BY <1>2, <1>6, <1>9, <1>10, <1>11, <1>12, <1>13, <3>1, <3>2, <3>3, <3>4 DEF RoomInv, Drawn
  <2>5. InOrder(z)'
    <3>1. \A n : n \in 1..generation[z] => n # g
      BY <1>4
    <3>2. Live(z) => (busy'[z] # Nothing => busy'[z].gen # g) /\ ~HasStarted(z)' /\ ~Playing(z)
      BY <1>2, <1>3, <1>6, <1>9, <1>10, <1>12, <3>1 DEF RoomInv, Drawn, HasStarted, Streaming, Wanted
    <3> QED
      BY <1>6, <1>10, <1>11, <3>2 DEF InOrder
  <2> QED
    BY <2>1, <2>2, <2>3, <2>4, <2>5 DEF RoomInv
<1>18. CallsInv'
  <2>1. \A c \in SeqSet(more) : c.op # "begin" /\ Founded(c)'
    BY <1>8 DEF Founded
  <2>2. \A c \in SeqSet(Tail(calls)) : c.zone = Head(calls).zone => Founded(c)'
    <3> SUFFICES ASSUME NEW c \in SeqSet(Tail(calls)), c.zone = z PROVE Founded(c)'
      BY <1>1
    <3>1. \A n : n \in 1..generation[z] => n \in 1..g
      BY <1>4
    <3> QED
      BY <1>1, <1>3, <1>11, <1>13, <3>1 DEF Founded
  <2>3. Others(Head(calls).zone)
    BY <1>1, <1>16, Zenon
  <2> QED
    BY <1>1, <1>2, <1>8, <1>9, <2>1, <2>2, <2>3, MoreCalls
<1>19. PreparedStays(z)
  BY <1>4, <1>6, <1>10, <1>11 DEF PreparedStays
<1>20. WakeStays(z) /\ MembersStay(z)
  BY <1>3, <1>8, <1>9, <1>14 DEF WakeStays, MembersStay, Releasing
<1> QED
  BY <1>9, <1>15, <1>16, <1>17, <1>18, <1>19, <1>20, Kept

(* The end of stop_session: Stop in the generation of the session that     *)
(* is gone.                                                                *)
LEMMA StoppedStep ==
    ASSUME IInv, Stopped
    PROVE  IInv'
<1>1. PICK z \in Zones :
              /\ z = Head(calls).zone /\ Head(calls).op = "stopped" /\ calls # <<>>
              /\ Head(calls) \in Calls /\ Founded(Head(calls)) /\ Head(calls).gen \in Nat
              /\ SeqSet(calls) = {Head(calls)} \cup SeqSet(Tail(calls))
              /\ \A c \in SeqSet(Tail(calls)) : c \in Calls /\ Founded(c) /\ c.op # "create"
  BY RunningCall DEF Stopped
<1>2. TypeInv /\ CallsInv /\ RoomInv(z)
  BY DEF IInv
<1>3. PICK g \in Nat : g = Head(calls).gen
  BY <1>1
<1>4. ~Live(z) /\ ~Wanted(z) /\ g \in 1..generation[z]
  BY <1>1, <1>3 DEF Founded, Wanted
<1>5. PICK more : more = <<Call("release", z)>>
  OBVIOUS
<1>6. /\ more \in Seq(Calls) /\ SeqSet(more) = {Call("release", z)} /\ Len(more) = 1
      /\ Call("release", z).op = "release" /\ Call("release", z).zone = z
  BY <1>5, OneMore DEF Ops
<1>7. /\ Put(z, "Stop", g) /\ Return(more)
      /\ UNCHANGED <<sessions, generation, registry, cohorts, groups, answers, preps, retries, cleanups, wake>>
  BY <1>1, <1>3, <1>5, Zenon DEF Stopped, inbox
<1>8. /\ slot' \in Channels /\ fresh' \in [Zones -> BOOLEAN] /\ busy' = busy
      /\ slot'[z] # Nothing /\ slot'[z].kind = "Stop" /\ slot'[z].gen = g
      /\ \A y \in Zones : y # z => slot'[y] = slot[y] /\ fresh'[y] = fresh[y]
  <2>1. "Stop" \in Kinds
    BY DEF Kinds
  <2> QED
    BY <1>2, <1>7, <2>1, PutTypes
<1>9. /\ \A c \in SeqSet(calls) : c.zone # z => c \in SeqSet(calls')
      /\ Call("release", z) \in SeqSet(calls')
      /\ calls' \in Seq(Calls)
  BY <1>1, <1>2, <1>6, <1>7, CallsStay, Returned
<1>10. ~Live(z)' /\ ~Wanted(z)'
  BY <1>4, <1>7 DEF Live, Wanted
<1>11. TypeInv'
  BY <1>2, <1>7, <1>8, <1>9 DEF TypeInv, Channels
<1>12. Others(z)
  BY <1>7, <1>8, <1>9 DEF Others, Same, Counted
<1>13. RoomInv(z)'
  <2>1. Quiet(z)' /\ Moving(z)' /\ Streaming(z)' /\ InOrder(z)'
    BY <1>8, <1>10 DEF Quiet, Moving, Streaming, InOrder
  <2>2. Registered(z)'
    BY <1>2, <1>4, <1>7, <1>10 DEF RoomInv, Registered
  <2>3. Drawn(z)'
    BY <1>2, <1>4, <1>7, <1>8, <1>10 DEF RoomInv, Drawn, Counted
  <2> QED
    BY <2>1, <2>2, <2>3 DEF RoomInv
<1>14. CallsInv'
  <2>1. \A c \in SeqSet(more) : c.op # "begin" /\ Founded(c)'
    BY <1>6 DEF Founded
  <2>2. \A c \in SeqSet(Tail(calls)) : c.zone = Head(calls).zone => Founded(c)'
    <3> SUFFICES ASSUME NEW c \in SeqSet(Tail(calls)), c.zone = z PROVE Founded(c)'
      BY <1>1
    <3> QED
      BY <1>1, <1>4, <1>7, <1>10 DEF Founded
  <2>3. Others(Head(calls).zone)
    BY <1>1, <1>12, Zenon
  <2> QED
    BY <1>1, <1>2, <1>6, <1>7, <2>1, <2>2, <2>3, MoreCalls
<1>15. PreparedStays(z) /\ WakeStays(z) /\ MembersStay(z)
  BY <1>4, <1>6, <1>7, <1>9, <1>10 DEF PreparedStays, WakeStays, MembersStay, Releasing
<1> QED
  BY <1>7, <1>11, <1>12, <1>13, <1>14, <1>15, Kept

(* The room's places in all cohorts are given up.                          *)
LEMMA WithdrawnFromAll ==
    ASSUME TypeInv, NEW z \in Zones, cohorts' = [i \in DOMAIN cohorts |-> Withdraw(z, cohorts[i])]
    PROVE  /\ cohorts' \in Seq(Cohort) /\ DOMAIN cohorts' = DOMAIN cohorts
           /\ \A i \in DOMAIN cohorts :
                 /\ SeqSet(cohorts'[i].sessions) = SeqSet(cohorts[i].sessions) \ {z}
                 /\ Distinct(cohorts[i].sessions) => Distinct(cohorts'[i].sessions)
                 /\ cohorts'[i].prepared[z] = 0
                 /\ \A y \in Zones \ {z} : cohorts'[i].prepared[y] = cohorts[i].prepared[y]
                 /\ cohorts'[i].phase = cohorts[i].phase
<1>1. cohorts \in Seq(Cohort) /\ DOMAIN cohorts = 1..Len(cohorts) /\ Len(cohorts) \in Nat
  BY DEF TypeInv
<1>2. DOMAIN cohorts' = DOMAIN cohorts /\ \A i \in DOMAIN cohorts : cohorts'[i] = Withdraw(z, cohorts[i])
  OBVIOUS
<1>3. \A i \in DOMAIN cohorts : cohorts[i] \in Cohort /\ cohorts[i].prepared \in [Zones -> Nat]
  BY <1>1, CohortTypes
<1>4. \A i \in DOMAIN cohorts :
         /\ cohorts'[i] \in Cohort
         /\ SeqSet(cohorts'[i].sessions) = SeqSet(cohorts[i].sessions) \ {z}
         /\ Distinct(cohorts[i].sessions) => Distinct(cohorts'[i].sessions)
         /\ cohorts'[i].prepared = [cohorts[i].prepared EXCEPT ![z] = 0]
         /\ cohorts'[i].phase = cohorts[i].phase
  BY <1>2, <1>3, Withdrawn, Zenon
<1>5. cohorts' \in Seq(Cohort)
  <2> DEFINE W(i) == Withdraw(z, cohorts[i])
  <2>1. cohorts' = [i \in 1..Len(cohorts) |-> W(i)] /\ \A i \in 1..Len(cohorts) : W(i) \in Cohort
    BY <1>1, <1>2, <1>4
  <2> HIDE DEF W
  <2> QED
    BY <1>1, <2>1
<1> QED
  BY <1>2, <1>3, <1>4, <1>5

(* The end of start_session: the session is new, and its stream is to be   *)
(* made by a restart.                                                      *)
LEMMA BeginStep ==
    ASSUME IInv, Begin
    PROVE  IInv'
<1>1. PICK z \in Zones :
              /\ z = Head(calls).zone /\ Head(calls).op = "begin" /\ calls # <<>>
              /\ Head(calls) \in Calls /\ Founded(Head(calls))
              /\ SeqSet(calls) = {Head(calls)} \cup SeqSet(Tail(calls))
  BY RunningCall DEF Begin
<1>2. TypeInv /\ CallsInv /\ RoomInv(z) /\ PlacesInv /\ PreparedInv /\ WakeInv /\ GroupsSound
      /\ \A y \in Zones : RoomInv(y)
  BY DEF IInv
<1>3. ~Live(z) /\ ~Wanted(z)
  BY <1>1 DEF Founded, Wanted
<1>4. Tail(calls) = <<>> /\ \A c \in SeqSet(calls) : c.op = "begin" /\ c.zone = z
  <2>1. Tail(calls) = <<>>
    BY <1>1, <1>2, BeginLastAfter DEF CallsInv, TypeInv
  <2> QED
    BY <1>1, <2>1, SetOfNone
<1>5. NewSession \in Session /\ NewSession.gen = 0 /\ NewSession.encoder = 0 /\ NewSession.desired
      /\ NewSession.observed = "Unknown"
  <2>1. 0 \in 0..MaxAttempts
    BY BoundsAssumption
  <2> QED
    BY <2>1 DEF NewSession, Session
<1>6. PICK e \in Session : e = NewSession
  BY <1>5
<1>7. /\ sessions' = [sessions EXCEPT ![z] = e]
      /\ cohorts' = [i \in DOMAIN cohorts |-> Withdraw(z, cohorts[i])]
      /\ calls' = <<Call("restart", z)>>
      /\ UNCHANGED <<generation, registry, groups, slot, fresh, busy, answers, preps, retries, cleanups, wake>>
  <2>1. /\ sessions' = [sessions EXCEPT ![z] = NewSession]
        /\ cohorts' = [i \in DOMAIN cohorts |-> Withdraw(z, cohorts[i])]
        /\ Return(<<Call("restart", z)>>)
        /\ UNCHANGED <<generation, registry, groups, slot, fresh, busy, answers, preps, retries, cleanups, wake>>
    BY <1>1, Zenon DEF Begin, workers, inbox
  <2>2. <<Call("restart", z)>> \o <<>> = <<Call("restart", z)>>
    OBVIOUS
  <2> QED
    BY <1>4, <1>6, <2>1, <2>2 DEF Return
<1>8. sessions' \in Sessions /\ sessions'[z] = e /\ \A y \in Zones \ {z} : sessions'[y] = sessions[y]
  BY <1>2, <1>7, OneSession
<1>9. /\ Live(z)' /\ Wanted(z)' /\ ~Playing(z)'
      /\ \A y \in Zones \ {z} : (Live(y)' <=> Live(y)) /\ (Wanted(y)' <=> Wanted(y))
  BY <1>5, <1>6, <1>8, NothingAssumption DEF Live, Wanted, Playing
<1>10. /\ cohorts' \in Seq(Cohort) /\ DOMAIN cohorts' = DOMAIN cohorts
       /\ \A i \in DOMAIN cohorts :
             /\ SeqSet(cohorts'[i].sessions) = SeqSet(cohorts[i].sessions) \ {z}
             /\ Distinct(cohorts[i].sessions) => Distinct(cohorts'[i].sessions)
             /\ cohorts'[i].prepared[z] = 0
             /\ \A y \in Zones \ {z} : cohorts'[i].prepared[y] = cohorts[i].prepared[y]
             /\ cohorts'[i].phase = cohorts[i].phase
  BY <1>2, <1>7, WithdrawnFromAll
<1>11. /\ calls' \in Seq(Calls) /\ BeginLast(calls')
       /\ \A c \in SeqSet(calls') : c.op = "restart" /\ c.zone = z
       /\ \A ops : "restart" \in ops => Waiting(ops, z)'
  <2>1. "restart" \in Ops
    BY DEF Ops
  <2> QED
    BY <1>7, <2>1, OneCall
<1>12. /\ \A y \in Zones \ {z} : Counted(y)' = Counted(y)
       /\ Counted(z)' \subseteq {0}
  BY <1>10 DEF Counted
<1>13. TypeInv'
  BY <1>2, <1>7, <1>8, <1>10, <1>11 DEF TypeInv, Channels
<1>14. \A y \in Zones \ {z} : Same(y)
  BY <1>4, <1>7, <1>8, <1>12 DEF Same
<1>15. RoomInv(z)'
  <2>1. generation[z] \in Nat /\ \A n : n \in 1..generation[z] => n # 0
    <3>1. generation[z] \in Nat
      BY <1>2, Fresh
    <3> QED
      BY <3>1
  <2>2. Quiet(z)' /\ Moving(z)'
    BY <1>9, <1>11 DEF Quiet, Moving
  <2>3. Registered(z)'
    BY <1>2, <1>3, <1>5, <1>6, <1>7, <1>8, <1>9 DEF RoomInv, Registered
  <2>4. Drawn(z)'
    BY <1>2, <1>5, <1>6, <1>7, <1>8, <1>12, <2>1 DEF RoomInv, Drawn
  <2>5. Streaming(z)'
    BY <1>5, <1>6, <1>8, <1>9, <1>11 DEF Streaming
  <2>6. InOrder(z)'
    <3>1. ~HasStarted(z)' /\ (busy'[z] # Nothing => busy'[z].gen # sessions'[z].gen)
      BY <1>2, <1>5, <1>6, <1>7, <1>8, <2>1 DEF RoomInv, Drawn, HasStarted
    <3> QED
      BY <1>9, <3>1 DEF InOrder
  <2> QED
    BY <2>2, <2>3, <2>4, <2>5, <2>6 DEF RoomInv
<1>16. \A y \in Zones : RoomInv(y)'
  BY <1>2, <1>14, <1>15, SameRoom
<1>17. CallsInv'
  BY <1>9, <1>11, NewCalls DEF Founded
<1>18. PlacesInv'
  <2>1. \A i \in DOMAIN cohorts' : Distinct(cohorts'[i].sessions)
    BY <1>2, <1>10 DEF PlacesInv
  <2>2. ASSUME NEW i \in DOMAIN cohorts, NEW j \in DOMAIN cohorts, i # j
        PROVE  SeqSet(cohorts'[i].sessions) \cap SeqSet(cohorts'[j].sessions) = {}
    <3>1. SeqSet(cohorts[i].sessions) \cap SeqSet(cohorts[j].sessions) = {}
      BY <1>2, <2>2 DEF PlacesInv
    <3> QED
      BY <1>10, <3>1
  <2> QED
    BY <1>10, <2>1, <2>2 DEF PlacesInv
<1>19. PreparedInv'
  <2> SUFFICES ASSUME NEW i \in DOMAIN cohorts, NEW y \in Zones, cohorts'[i].prepared[y] # 0
               PROVE  /\ y \in SeqSet(cohorts'[i].sessions)
                      /\ Live(y)' /\ cohorts'[i].prepared[y] = sessions'[y].gen => sessions'[y].prepared
    BY <1>10 DEF PreparedInv
  <2>1. y # z /\ cohorts'[i].prepared[y] = cohorts[i].prepared[y]
    BY <1>10
  <2>2. ~Waiting({"pause"}, y)
    BY <1>4 DEF Waiting
  <2> QED
    BY <1>2, <1>8, <1>9, <1>10, <2>1, <2>2 DEF PreparedInv
<1>20. WakeInv'
  <2> SUFFICES ASSUME cohorts' # <<>>, Startable(Head(cohorts))' PROVE wake'
    BY DEF WakeInv
  <2>1. 1 \in DOMAIN cohorts /\ Head(cohorts) = cohorts[1] /\ Head(cohorts') = cohorts'[1] /\ cohorts # <<>>
    BY <1>2, <1>10 DEF TypeInv
  <2>2. \A y \in SeqSet(cohorts[1].sessions) : y \in Zones
    BY <1>2, <2>1, CohortTypes DEF TypeInv
  <2>3. PICK c : c = cohorts'[1]
    OBVIOUS
  <2>4. Startable(c)'
    BY <2>1, <2>3 DEF Startable
  <2>5. Startable(cohorts[1])
    BY <1>3, <1>8, <1>9, <1>10, <2>1, <2>2, <2>3, <2>4 DEF Startable
  <2>6. ~Releasing
    BY <1>4 DEF Releasing
  <2> QED
    BY <1>2, <1>7, <2>1, <2>5, <2>6 DEF WakeInv
<1>21. GroupsSound'
  <2>1. \A y \in Zones : Wanted(y) => Wanted(y)'
    BY <1>9
  <2>2. \A c \in DOMAIN groups : c \in Zones /\ SeqSet(groups[c]) \subseteq Zones
    BY <1>2, SetOfNone DEF TypeInv
  <2> QED
    BY <1>2, <1>7, <2>1, <2>2 DEF GroupsSound
<1> QED
  BY <1>13, <1>16, <1>17, <1>18, <1>19, <1>20, <1>21 DEF IInv

(* The stream or the encoder could not be created.                         *)
LEMMA CreateFailsStep ==
    ASSUME IInv, Running("create"),
           sessions' = [sessions EXCEPT ![Head(calls).zone] = WithRetry(@, sessions[Head(calls).zone].gen)],
           Return(<<>>),
           UNCHANGED <<generation, registry, cohorts, groups, slot, fresh, busy, answers, preps, retries,
                       cleanups, wake>>
    PROVE  IInv'
<1>1. PICK z \in Zones :
              /\ z = Head(calls).zone /\ Head(calls).op = "create" /\ calls # <<>>
              /\ Head(calls) \in Calls /\ Founded(Head(calls))
              /\ SeqSet(calls) = {Head(calls)} \cup SeqSet(Tail(calls))
              /\ \A c \in SeqSet(Tail(calls)) : c \in Calls /\ Founded(c) /\ c.op # "create"
  BY RunningCall
<1>2. TypeInv /\ CallsInv /\ RoomInv(z)
  BY DEF IInv
<1>3. Wanted(z) /\ Live(z) /\ sessions[z].observed = "Unknown" /\ sessions[z].gen # 0
  BY <1>1 DEF Founded, Wanted
<1>4. sessions[z] \in Session /\ sessions[z].gen \in Nat
  BY <1>2, <1>3, Fresh
<1>5. PICK e \in Session : e = WithRetry(sessions[z], sessions[z].gen)
  BY <1>4, SessionTypes
<1>6. /\ e.gen = sessions[z].gen /\ e.desired = sessions[z].desired /\ e.observed = "Unknown"
      /\ e.encoder = sessions[z].encoder /\ e.prepared = sessions[z].prepared
      /\ e.retry = e.gen \/ (e.attempts = MaxAttempts /\ e.reset)
  BY <1>3, <1>4, <1>5, Retried
<1>7. sessions' = [sessions EXCEPT ![z] = e]
  BY <1>1, <1>5
<1>8. PICK more : more = <<>>
  OBVIOUS
<1>9. more \in Seq(Calls) /\ SeqSet(more) = {} /\ Return(more)
  BY <1>8, SetOfNone
<1>10. sessions' \in Sessions /\ sessions'[z] = e /\ \A y \in Zones \ {z} : sessions'[y] = sessions[y]
  BY <1>2, <1>7, OneSession
<1>11. Live(z)' /\ Wanted(z)' /\ ~Playing(z)'
  BY <1>3, <1>6, <1>10, NothingAssumption DEF Live, Wanted, Playing
<1>12. /\ \A c \in SeqSet(calls) : c.zone # z => c \in SeqSet(calls')
       /\ \A c \in SeqSet(calls) : c.op # "create" => c \in SeqSet(calls')
       /\ calls' \in Seq(Calls)
  BY <1>1, <1>2, <1>9, CallsStay, Returned
<1>13. TypeInv'
  BY <1>2, <1>10, <1>12 DEF TypeInv, Channels
<1>14. Others(z)
  BY <1>10, <1>12 DEF Others, Same, Counted
<1>15. RoomInv(z)'
  <2>1. Quiet(z)' /\ Registered(z)' /\ Moving(z)'
    BY <1>2, <1>3, <1>6, <1>10, <1>11 DEF RoomInv, Quiet, Registered, Moving, UnderWay, GaveUp
  <2>2. Streaming(z)'
    <3>1. sessions[z].encoder \notin {0, sessions[z].gen} => Waiting({"restart", "replace"}, z)'
      BY <1>2, <1>3, <1>12 DEF RoomInv, Streaming, Wanted, Waiting
    <3> QED
      BY <1>3, <1>6, <1>10, <1>11, <3>1 DEF Streaming
  <2>3. Counted(z)' = Counted(z)
    BY DEF Counted
  <2>4. Drawn(z)' /\ InOrder(z)'
    BY <1>2, <1>3, <1>6, <1>10, <1>11, <2>3, Restated
  <2> QED
    BY <2>1, <2>2, <2>4 DEF RoomInv
<1>16. CallsInv'
  <2>1. \A c \in SeqSet(Tail(calls)) : c.zone = Head(calls).zone => Founded(c)'
    BY <1>1, <1>3, <1>11, StillWanted
  <2>2. Others(Head(calls).zone)
    BY <1>1, <1>14, Zenon
  <2> QED
    BY <1>1, <1>2, <1>9, <2>1, <2>2, MoreCalls
<1>17. PreparedStays(z) /\ WakeStays(z) /\ MembersStay(z)
  BY <1>3, <1>6, <1>10, <1>11, <1>12 DEF PreparedStays, WakeStays, MembersStay, Releasing, Waiting
<1> QED
  BY <1>13, <1>14, <1>15, <1>16, <1>17, Kept

(* The new stream takes its place in a cohort.                             *)
Created(z, g) ==
    /\ z = Head(calls).zone /\ g = sessions[z].gen
    /\ sessions' = [sessions EXCEPT ![z].encoder = g]
    /\ registry' = [registry EXCEPT ![z] = g]
    /\ cohorts' = Admit(z)
    /\ Put(z, "Prepare", g)
    /\ Return(<<Call("release", z)>>)
    /\ UNCHANGED <<generation, groups, answers, preps, retries, cleanups, wake>>

(* The stream and the encoder are of the session's generation, the room    *)
(* is admitted to a cohort, and its worker is told to prepare.             *)
LEMMA CreatedStep ==
    ASSUME IInv, Running("create"), NEW z \in Zones, NEW g \in Nat, Created(z, g)
    PROVE  IInv'
<1>1. /\ z = Head(calls).zone /\ Head(calls).op = "create" /\ calls # <<>>
      /\ Head(calls) \in Calls /\ Founded(Head(calls))
      /\ SeqSet(calls) = {Head(calls)} \cup SeqSet(Tail(calls))
      /\ \A c \in SeqSet(Tail(calls)) : c \in Calls /\ Founded(c) /\ c.op # "create"
  BY RunningCall DEF Created
<1>2. TypeInv /\ CallsInv /\ RoomInv(z) /\ PlacesInv /\ PreparedInv /\ GroupsSound
      /\ \A y \in Zones : RoomInv(y)
  BY DEF IInv
<1>3. /\ Wanted(z) /\ Live(z) /\ sessions[z].observed = "Unknown" /\ sessions[z].gen # 0
      /\ slot[z] # Nothing /\ slot[z].kind = "Stop"
  BY <1>1 DEF Founded, Wanted
<1>4. g = sessions[z].gen /\ g # 0 /\ g <= generation[z] /\ generation[z] \in Nat
  BY <1>2, <1>3, Fresh DEF RoomInv, Drawn, Created
<1>5. sessions[z] \in Session
  BY <1>2, <1>3, Fresh
<1>6. PICK e \in Session : e = [sessions[z] EXCEPT !.encoder = g]
  BY <1>5, SessionTypes
<1>7. /\ e.gen = g /\ e.desired = sessions[z].desired /\ e.observed = "Unknown"
      /\ e.encoder = g
  BY <1>3, <1>4, <1>5, <1>6 DEF Session
<1>8. /\ sessions' = [sessions EXCEPT ![z] = e] /\ registry' = [registry EXCEPT ![z] = g]
      /\ cohorts' = Admit(z) /\ Put(z, "Prepare", g) /\ Return(<<Call("release", z)>>)
      /\ UNCHANGED <<generation, groups, answers, preps, retries, cleanups, wake>>
  BY <1>6 DEF Created
<1>9. PICK more : more = <<Call("release", z)>>
  OBVIOUS
<1>10. /\ more \in Seq(Calls) /\ SeqSet(more) = {Call("release", z)} /\ Len(more) = 1
       /\ Call("release", z).op = "release" /\ Call("release", z).zone = z /\ Return(more)
  BY <1>8, <1>9, OneMore DEF Ops
<1>11. sessions' \in Sessions /\ sessions'[z] = e /\ \A y \in Zones \ {z} : sessions'[y] = sessions[y]
  BY <1>2, <1>8, OneSession
<1>12. /\ Live(z)' /\ Wanted(z)' /\ ~Playing(z)'
       /\ \A y \in Zones \ {z} : (Live(y)' <=> Live(y)) /\ (Wanted(y)' <=> Wanted(y))
  BY <1>3, <1>7, <1>11, NothingAssumption DEF Live, Wanted, Playing
<1>13. /\ slot' \in Channels /\ fresh' \in [Zones -> BOOLEAN] /\ busy' = busy
       /\ slot'[z] # Nothing /\ slot'[z].kind = "Prepare" /\ slot'[z].gen = g /\ fresh'[z]
       /\ \A y \in Zones : y # z => slot'[y] = slot[y] /\ fresh'[y] = fresh[y]
  <2>1. TypeInv /\ "Prepare" \in Kinds /\ Put(z, "Prepare", g)
    BY <1>2, <1>8 DEF Kinds
  <2>2. /\ slot' \in Channels /\ fresh' \in [Zones -> BOOLEAN] /\ busy' = busy
        /\ slot'[z] # Nothing /\ slot'[z].kind = "Prepare" /\ slot'[z].gen = g
        /\ \A y \in Zones : y # z => slot'[y] = slot[y] /\ fresh'[y] = fresh[y]
    BY <2>1, PutTypes
  <2>3. fresh'[z]
    BY <1>2, <1>8 DEF Put, TypeInv
  <2> QED
    BY <2>2, <2>3
<1>14. /\ registry' \in [Zones -> Nat] /\ registry'[z] = g
       /\ \A y \in Zones \ {z} : registry'[y] = registry[y]
  BY <1>2, <1>8 DEF TypeInv
<1>15. /\ cohorts' \in Seq(Cohort)
       /\ \A i \in DOMAIN cohorts' :
             /\ z \in SeqSet(cohorts'[i].sessions) <=> i = Len(cohorts')
             /\ cohorts'[i].prepared[z] = 0
             /\ \/ /\ i \in DOMAIN cohorts
                   /\ SeqSet(cohorts'[i].sessions) \ {z} = SeqSet(cohorts[i].sessions) \ {z}
                   /\ \A y \in Zones \ {z} : cohorts'[i].prepared[y] = cohorts[i].prepared[y]
                   /\ Distinct(cohorts[i].sessions) => Distinct(cohorts'[i].sessions)
                \/ /\ SeqSet(cohorts'[i].sessions) = {z} /\ Distinct(cohorts'[i].sessions)
                   /\ \A y \in Zones : cohorts'[i].prepared[y] = 0
       /\ \A i \in DOMAIN cohorts :
             /\ i \in DOMAIN cohorts'
             /\ \A y \in Zones \ {z} : cohorts'[i].prepared[y] = cohorts[i].prepared[y]
  <2>1. cohorts \in Seq(Cohort)
    BY <1>2 DEF TypeInv
  <2>2. \A y \in Zones : NewCohort(z).prepared[y] = 0
    BY DEF NewCohort
  <2>3. /\ cohorts' \in Seq(Cohort)
        /\ \A i \in DOMAIN cohorts' :
              /\ z \in SeqSet(cohorts'[i].sessions) <=> i = Len(cohorts')
              /\ cohorts'[i].prepared[z] = 0
              /\ \/ /\ i \in DOMAIN cohorts
                    /\ SeqSet(cohorts'[i].sessions) \ {z} = SeqSet(cohorts[i].sessions) \ {z}
                    /\ \A y \in Zones \ {z} : cohorts'[i].prepared[y] = cohorts[i].prepared[y]
                    /\ Distinct(cohorts[i].sessions) => Distinct(cohorts'[i].sessions)
                 \/ /\ i = Len(cohorts')
                    /\ cohorts'[i] = NewCohort(z)
                    /\ SeqSet(cohorts'[i].sessions) = {z} /\ Distinct(cohorts'[i].sessions)
        /\ \A i \in DOMAIN cohorts :
              /\ i \in DOMAIN cohorts'
              /\ \A y \in Zones \ {z} : cohorts'[i].prepared[y] = cohorts[i].prepared[y]
    BY <1>8, <2>1, Admitted, Zenon
  <2> QED
    BY <2>2, <2>3
<1>16. /\ \A c \in SeqSet(calls) : c.zone # z => c \in SeqSet(calls')
       /\ \A c \in SeqSet(calls) : c.op # "create" => c \in SeqSet(calls')
       /\ Call("release", z) \in SeqSet(calls')
       /\ calls' \in Seq(Calls)
  BY <1>1, <1>2, <1>10, CallsStay, Returned
<1>17. /\ Counted(z)' \subseteq {0}
       /\ \A y \in Zones \ {z} : Counted(y)' \subseteq Counted(y) \cup {0} /\ Counted(y) \subseteq Counted(y)'
  <2>1. \A n \in Counted(z)' : n = 0
    BY <1>15 DEF Counted
  <2>2. ASSUME NEW y \in Zones \ {z}, NEW i \in DOMAIN cohorts'
        PROVE  cohorts'[i].prepared[y] = 0 \/ (i \in DOMAIN cohorts /\ cohorts'[i].prepared[y] = cohorts[i].prepared[y])
    BY <1>15
  <2>3. \A y \in Zones \ {z} : Counted(y)' \subseteq Counted(y) \cup {0}
    BY <2>2 DEF Counted
  <2>4. \A y \in Zones \ {z} : Counted(y) \subseteq Counted(y)'
    BY <1>15 DEF Counted
  <2> QED
    BY <2>1, <2>3, <2>4
<1>18. TypeInv'
  BY <1>2, <1>8, <1>11, <1>13, <1>14, <1>15, <1>16 DEF TypeInv, Channels
<1>19. Others(z)
  BY <1>8, <1>11, <1>13, <1>14, <1>16, <1>17 DEF Others, Same
<1>20. RoomInv(z)'
  <2>1. Quiet(z)' /\ Registered(z)' /\ Streaming(z)'
    BY <1>4, <1>7, <1>11, <1>12, <1>14 DEF Quiet, Registered, Streaming
  <2>2. Moving(z)'
    BY <1>7, <1>11, <1>13 DEF Moving, UnderWay
  <2>3. Drawn(z)'
    <3>1. g \in 1..generation[z] /\ \A n \in {0} : n <= generation[z]
      BY <1>4
    <3> QED
      BY <1>2, <1>4, <1>7, <1>8, <1>11, <1>13, <1>17, <3>1 DEF RoomInv, Drawn
  <2>4. InOrder(z)'
    <3>1. ~Told(z, StartKinds)
      BY <1>3 DEF Told, StartKinds
    <3>2. /\ busy[z] # Nothing /\ busy[z].gen = g => busy[z].kind \notin StartKinds
          /\ ~HasStarted(z)'
      BY <1>2, <1>3, <1>4, <1>7, <1>8, <1>11, <3>1 DEF RoomInv, InOrder, HasStarted
    <3>3. Told(z, Kinds \ {"Stop"})'
      BY <1>7, <1>11, <1>13 DEF Told, Kinds
    <3> QED
      BY <1>7, <1>11, <1>12, <1>13, <3>2, <3>3 DEF InOrder
  <2> QED
    BY <2>1, <2>2, <2>3, <2>4 DEF RoomInv
<1>21. \A y \in Zones : RoomInv(y)'
  BY <1>2, <1>19, <1>20, SameRoom DEF Others
<1>22. CallsInv'
  <2>1. \A c \in SeqSet(more) : c.op # "begin" /\ Founded(c)'
    BY <1>10 DEF Founded
  <2>2. \A c \in SeqSet(Tail(calls)) : c.zone = Head(calls).zone => Founded(c)'
    BY <1>1, <1>3, <1>12, StillWanted
  <2>3. Others(Head(calls).zone)
    BY <1>1, <1>19, Zenon
  <2> QED
    BY <1>1, <1>2, <1>10, <2>1, <2>2, <2>3, MoreCalls
<1>23. PlacesInv'
  <2>1. \A i \in DOMAIN cohorts' : Distinct(cohorts'[i].sessions)
    BY <1>2, <1>15 DEF PlacesInv
  <2>2. ASSUME NEW i \in DOMAIN cohorts', NEW j \in DOMAIN cohorts', i # j,
               NEW y \in SeqSet(cohorts'[i].sessions), y \in SeqSet(cohorts'[j].sessions)
        PROVE  FALSE
    <3>1. y # z
      BY <1>15, <2>2
    <3>2. /\ i \in DOMAIN cohorts /\ y \in SeqSet(cohorts[i].sessions)
          /\ j \in DOMAIN cohorts /\ y \in SeqSet(cohorts[j].sessions)
      BY <1>15, <2>2, <3>1
    <3> QED
      BY <1>2, <2>2, <3>2 DEF PlacesInv
  <2> QED
    BY <2>1, <2>2 DEF PlacesInv
<1>24. PreparedInv'
  <2> SUFFICES ASSUME NEW i \in DOMAIN cohorts', NEW y \in Zones, cohorts'[i].prepared[y] # 0
               PROVE  /\ y \in SeqSet(cohorts'[i].sessions)
                      /\ Live(y)' /\ cohorts'[i].prepared[y] = sessions'[y].gen
                            => sessions'[y].prepared \/ Waiting({"pause"}, y)'
    BY DEF PreparedInv
  <2>1. /\ y # z /\ i \in DOMAIN cohorts /\ cohorts'[i].prepared[y] = cohorts[i].prepared[y]
        /\ SeqSet(cohorts'[i].sessions) \ {z} = SeqSet(cohorts[i].sessions) \ {z}
    BY <1>15
  <2>2. Waiting({"pause"}, y) => Waiting({"pause"}, y)'
    BY <1>16 DEF Waiting
  <2> QED
    BY <1>2, <1>11, <1>12, <2>1, <2>2 DEF PreparedInv
<1>25. WakeInv'
  BY <1>10, <1>16 DEF WakeInv, Releasing
<1>26. GroupsSound'
  <2>1. \A y \in Zones : Wanted(y) => Wanted(y)'
    BY <1>12
  <2>2. \A c \in DOMAIN groups : c \in Zones /\ SeqSet(groups[c]) \subseteq Zones
    BY <1>2, SetOfNone DEF TypeInv
  <2> QED
    BY <1>2, <1>8, <2>1, <2>2 DEF GroupsSound
<1> QED
  BY <1>18, <1>21, <1>22, <1>23, <1>24, <1>25, <1>26 DEF IInv

(* Its end, whether the stream can be created or not.                      *)
LEMMA CreateStep ==
    ASSUME IInv, Create
    PROVE  IInv'
<1>1. PICK z \in Zones : z = Head(calls).zone
  BY RunningCall DEF Create
<1>2. /\ Running("create")
      /\ UNCHANGED <<generation, groups, answers, preps, retries, cleanups, wake>>
      /\ LET y == Head(calls).zone
             g == sessions[y].gen
         IN  \/ /\ sessions' = [sessions EXCEPT ![y] = WithRetry(@, g)]
                /\ Return(<<>>)
                /\ UNCHANGED <<registry, cohorts, workers>>
             \/ /\ sessions' = [sessions EXCEPT ![y].encoder = g]
                /\ registry' = [registry EXCEPT ![y] = g]
                /\ cohorts' = Admit(y)
                /\ Put(y, "Prepare", g)
                /\ Return(<<Call("release", y)>>)
  BY Zenon DEF Create, inbox
<1>3. CASE /\ sessions' = [sessions EXCEPT ![Head(calls).zone] = WithRetry(@, sessions[Head(calls).zone].gen)]
           /\ Return(<<>>)
           /\ UNCHANGED <<registry, cohorts, workers>>
  BY <1>2, <1>3, CreateFailsStep DEF workers
<1>4. CASE /\ sessions' = [sessions EXCEPT ![z].encoder = sessions[z].gen]
           /\ registry' = [registry EXCEPT ![z] = sessions[z].gen]
           /\ cohorts' = Admit(z)
           /\ Put(z, "Prepare", sessions[z].gen)
           /\ Return(<<Call("release", z)>>)
  <2>1. TypeInv /\ Live(z)
    BY <1>1, <1>2, RunningCall DEF IInv, Founded, Wanted
  <2>2. PICK g \in Nat : g = sessions[z].gen
    BY <2>1, Fresh
  <2>3. /\ sessions' = [sessions EXCEPT ![z].encoder = g]
        /\ registry' = [registry EXCEPT ![z] = g]
        /\ cohorts' = Admit(z)
        /\ Put(z, "Prepare", g)
        /\ Return(<<Call("release", z)>>)
    BY <1>4, <2>2, Zenon
  <2>4. Created(z, g)
    BY <1>1, <1>2, <2>2, <2>3 DEF Created
  <2> QED
    BY <1>2, <2>4, CreatedStep
<1> QED
  BY <1>1, <1>2, <1>3, <1>4, Zenon

(* The oldest cohort leaves.                                               *)
LEMMA CohortLeaves ==
    ASSUME TypeInv, cohorts # <<>>, cohorts' = Tail(cohorts)
    PROVE  /\ cohorts' \in Seq(Cohort)
           /\ 1 \in DOMAIN cohorts /\ cohorts[1] = Head(cohorts) /\ cohorts[1] \in Cohort
           /\ \A i \in DOMAIN cohorts' :
                 i + 1 \in DOMAIN cohorts /\ i + 1 # 1 /\ cohorts'[i] = cohorts[i + 1]
           /\ \A i \in DOMAIN cohorts : i = 1 \/ \E j \in DOMAIN cohorts' : cohorts'[j] = cohorts[i]
<1>1. cohorts \in Seq(Cohort)
  BY DEF TypeInv
<1>2. /\ cohorts' \in Seq(Cohort) /\ Len(cohorts) \in Nat /\ Len(cohorts) # 0
      /\ Len(cohorts') = Len(cohorts) - 1 /\ DOMAIN cohorts = 1..Len(cohorts)
      /\ DOMAIN cohorts' = 1..Len(cohorts') /\ Head(cohorts) = cohorts[1]
      /\ \A i \in DOMAIN cohorts' : i + 1 \in DOMAIN cohorts /\ cohorts'[i] = cohorts[i + 1]
  BY <1>1, SetOfTail
<1>3. 1 \in DOMAIN cohorts /\ cohorts[1] \in Cohort
  BY <1>1, <1>2
<1>4. \A i \in DOMAIN cohorts' : i + 1 # 1
  BY <1>2
<1>5. ASSUME NEW i \in DOMAIN cohorts, i # 1
      PROVE  \E j \in DOMAIN cohorts' : cohorts'[j] = cohorts[i]
  <2>1. i - 1 \in DOMAIN cohorts' /\ (i - 1) + 1 = i
    BY <1>2, <1>5
  <2> QED
    BY <1>2, <2>1
<1> QED
  BY <1>2, <1>3, <1>4, <1>5

(* When the oldest cohort leaves, only its rooms lose what they            *)
(* prepared.                                                               *)
LEMMA PlacesLeave ==
    ASSUME TypeInv, PlacesInv, PreparedInv, cohorts # <<>>, cohorts' = Tail(cohorts)
    PROVE  /\ PlacesInv'
           /\ \A i \in DOMAIN cohorts', y \in Zones :
                 cohorts'[i].prepared[y] # 0 =>
                    /\ y \in SeqSet(cohorts'[i].sessions)
                    /\ Live(y) /\ cohorts'[i].prepared[y] = sessions[y].gen
                          => sessions[y].prepared \/ Waiting({"pause"}, y)
           /\ \A y \in Zones :
                 /\ Counted(y)' \subseteq Counted(y)
                 /\ sessions[y].gen # 0 /\ sessions[y].gen \in Counted(y) =>
                       \/ sessions[y].gen \in Counted(y)'
                       \/ /\ y \in SeqSet(Head(cohorts).sessions)
                          /\ Head(cohorts).prepared[y] = sessions[y].gen
<1>1. /\ 1 \in DOMAIN cohorts /\ cohorts[1] = Head(cohorts)
      /\ \A i \in DOMAIN cohorts' :
            i + 1 \in DOMAIN cohorts /\ i + 1 # 1 /\ cohorts'[i] = cohorts[i + 1]
      /\ \A i \in DOMAIN cohorts : i = 1 \/ \E j \in DOMAIN cohorts' : cohorts'[j] = cohorts[i]
  BY CohortLeaves
<1>2. PlacesInv'
  <2>1. \A i \in DOMAIN cohorts' : Distinct(cohorts'[i].sessions)
    BY <1>1 DEF PlacesInv
  <2>2. ASSUME NEW i \in DOMAIN cohorts', NEW j \in DOMAIN cohorts', i # j
        PROVE  SeqSet(cohorts'[i].sessions) \cap SeqSet(cohorts'[j].sessions) = {}
    <3>1. i + 1 # j + 1
      <4>1. cohorts' \in Seq(Cohort)
        BY CohortLeaves
      <4>2. i \in Nat /\ j \in Nat
        BY <4>1
      <4> QED
        BY <2>2, <4>2
    <3> QED
      BY <1>1, <3>1 DEF PlacesInv
  <2> QED
    BY <2>1, <2>2 DEF PlacesInv
<1>3. ASSUME NEW i \in DOMAIN cohorts', NEW y \in Zones, cohorts'[i].prepared[y] # 0
      PROVE  /\ y \in SeqSet(cohorts'[i].sessions)
             /\ Live(y) /\ cohorts'[i].prepared[y] = sessions[y].gen
                   => sessions[y].prepared \/ Waiting({"pause"}, y)
  BY <1>1, <1>3 DEF PreparedInv
<1>4. ASSUME NEW y \in Zones
      PROVE  /\ Counted(y)' \subseteq Counted(y)
             /\ sessions[y].gen # 0 /\ sessions[y].gen \in Counted(y) =>
                   \/ sessions[y].gen \in Counted(y)'
                   \/ /\ y \in SeqSet(Head(cohorts).sessions)
                      /\ Head(cohorts).prepared[y] = sessions[y].gen
  <2>1. Counted(y)' \subseteq Counted(y)
    BY <1>1 DEF Counted
  <2>2. ASSUME sessions[y].gen # 0, sessions[y].gen \in Counted(y), sessions[y].gen \notin Counted(y)'
        PROVE  /\ y \in SeqSet(Head(cohorts).sessions)
               /\ Head(cohorts).prepared[y] = sessions[y].gen
    <3>1. PICK i \in DOMAIN cohorts : cohorts[i].prepared[y] = sessions[y].gen
      BY <2>2 DEF Counted
    <3>2. i = 1
      BY <1>1, <2>2, <3>1 DEF Counted
    <3> QED
      BY <1>1, <2>2, <3>1, <3>2 DEF PreparedInv
  <2> QED
    BY <2>1, <2>2
<1> QED
  BY <1>2, <1>3, <1>4

(* Nothing moves but the cohorts and the calls of the runtime.             *)
LEMMA CohortsLeft ==
    ASSUME IInv, cohorts' \in Seq(Cohort), calls' \in Seq(Calls), CallsInv',
           UNCHANGED <<sessions, generation, registry, groups, slot, fresh, busy, answers, preps, retries,
                       cleanups, wake>>,
           \A y \in Zones : Same(y), PlacesInv', PreparedInv', WakeInv'
    PROVE  IInv'
<1>1. TypeInv /\ GroupsSound /\ \A y \in Zones : RoomInv(y)
  BY DEF IInv
<1>2. TypeInv'
  BY <1>1 DEF TypeInv, Channels
<1>3. \A y \in Zones : RoomInv(y)'
  BY <1>1, SameRoom
<1>4. GroupsSound'
  BY <1>1 DEF GroupsSound, Wanted, Live
<1> QED
  BY <1>2, <1>3, <1>4 DEF IInv

(* There is no cohort to release.                                          *)
LEMMA NothingToRelease ==
    ASSUME IInv, Running("release"), cohorts = <<>>, Return(<<>>),
           UNCHANGED <<sessions, generation, registry, cohorts, groups, slot, fresh, busy, answers, preps,
                       retries, cleanups, wake>>
    PROVE  IInv' /\ \A y \in Zones : Same(y)
<1>1. PICK z \in Zones :
              /\ z = Head(calls).zone /\ Head(calls).op = "release" /\ calls # <<>>
              /\ SeqSet(calls) = {Head(calls)} \cup SeqSet(Tail(calls))
              /\ \A c \in SeqSet(Tail(calls)) : c \in Calls /\ Founded(c) /\ c.op # "create"
  BY RunningCall
<1>2. TypeInv /\ CallsInv /\ PlacesInv /\ PreparedInv
  BY DEF IInv
<1>3. PICK more : more = <<>>
  OBVIOUS
<1>4. more \in Seq(Calls) /\ SeqSet(more) = {} /\ Return(more)
  BY <1>3, SetOfNone
<1>5. /\ \A c \in SeqSet(calls) : c.op # "release" => c \in SeqSet(calls')
      /\ calls' \in Seq(Calls)
  BY <1>1, <1>2, <1>4, CallsStay, Returned
<1>6. \A y \in Zones : Same(y)
  BY <1>5 DEF Same, Counted
<1>7. \A c : Founded(c) => Founded(c)'
  BY DEF Founded, Wanted, Live
<1>8. CallsInv'
  <2>1. Others(Head(calls).zone)
    BY <1>6 DEF Others
  <2> QED
    BY <1>1, <1>2, <1>4, <1>7, <2>1, MoreCalls
<1>9. PlacesInv' /\ PreparedInv' /\ WakeInv' /\ cohorts' \in Seq(Cohort)
  <2>1. DOMAIN cohorts = {} /\ cohorts' = <<>>
    OBVIOUS
  <2> QED
    BY <1>2, <2>1 DEF PlacesInv, PreparedInv, WakeInv, TypeInv
<1>10. IInv'
  BY <1>5, <1>6, <1>8, <1>9, CohortsLeft
<1> QED
  BY <1>6, <1>10

(* The oldest cohort is empty: none of its rooms should play.              *)
LEMMA EmptyCohortStep ==
    ASSUME IInv, Running("release"), cohorts # <<>>, Pruned(Head(cohorts)).sessions = <<>>,
           cohorts' = Tail(cohorts),
           UNCHANGED <<sessions, generation, registry, groups, calls, slot, fresh, busy, answers, preps,
                       retries, cleanups, wake>>
    PROVE  IInv' /\ \A y \in Zones : Same(y)
<1>1. /\ Head(calls).op = "release"
      /\ SeqSet(calls) = {Head(calls)} \cup SeqSet(Tail(calls))
  BY RunningCall
<1>2. TypeInv /\ CallsInv /\ PlacesInv /\ PreparedInv
  BY DEF IInv
<1>3. PICK c \in Cohort : c = Head(cohorts) /\ cohorts' \in Seq(Cohort)
  BY <1>2, CohortLeaves
<1>4. \A y \in SeqSet(c.sessions) : ~Wanted(y)
  <2>1. SeqSet(Pruned(c).sessions) = {y \in SeqSet(c.sessions) : Wanted(y)}
    BY <1>2, <1>3, PrunedCohort
  <2>2. SeqSet(Pruned(c).sessions) = {}
    BY <1>3, SetOfNone
  <2> QED
    BY <2>1, <2>2
<1>5. /\ PlacesInv'
      /\ \A i \in DOMAIN cohorts', y \in Zones :
            cohorts'[i].prepared[y] # 0 =>
               /\ y \in SeqSet(cohorts'[i].sessions)
               /\ Live(y) /\ cohorts'[i].prepared[y] = sessions[y].gen
                     => sessions[y].prepared \/ Waiting({"pause"}, y)
      /\ \A y \in Zones :
            /\ Counted(y)' \subseteq Counted(y)
            /\ sessions[y].gen # 0 /\ sessions[y].gen \in Counted(y) =>
                  sessions[y].gen \in Counted(y)' \/ y \in SeqSet(c.sessions)
  BY <1>2, <1>3, PlacesLeave
<1>6. \A y \in Zones : Same(y)
  BY <1>4, <1>5 DEF Same
<1>7. CallsInv' /\ calls' \in Seq(Calls)
  BY <1>2 DEF CallsInv, Founded, Wanted, Live, TypeInv
<1>8. PreparedInv'
  BY <1>5 DEF PreparedInv, Live, Waiting
<1>9. WakeInv'
  <2>1. Releasing
    BY <1>1 DEF Releasing
  <2> QED
    BY <2>1 DEF WakeInv, Releasing
<1>10. IInv'
  BY <1>3, <1>5, <1>6, <1>7, <1>8, <1>9, CohortsLeft
<1> QED
  BY <1>6, <1>10

(* The oldest cohort waits on.                                             *)
LEMMA WaitingCohortStep ==
    ASSUME IInv, Running("release"), cohorts # <<>>, ~ShouldStart(Pruned(Head(cohorts))),
           cohorts' = <<Pruned(Head(cohorts))>> \o Tail(cohorts), Return(<<>>),
           UNCHANGED <<sessions, generation, registry, groups, slot, fresh, busy, answers, preps,
                       retries, cleanups, wake>>
    PROVE  IInv' /\ \A y \in Zones : Same(y)
<1>1. PICK z \in Zones :
              /\ z = Head(calls).zone /\ Head(calls).op = "release" /\ calls # <<>>
              /\ SeqSet(calls) = {Head(calls)} \cup SeqSet(Tail(calls))
              /\ \A c \in SeqSet(Tail(calls)) : c \in Calls /\ Founded(c) /\ c.op # "create"
  BY RunningCall
<1>2. TypeInv /\ CallsInv /\ PlacesInv /\ PreparedInv
  BY DEF IInv
<1>3. PICK more : more = <<>>
  OBVIOUS
<1>4. more \in Seq(Calls) /\ SeqSet(more) = {} /\ Return(more)
  BY <1>3, SetOfNone
<1>5. /\ \A c \in SeqSet(calls) : c.op # "release" => c \in SeqSet(calls')
      /\ calls' \in Seq(Calls)
  BY <1>1, <1>2, <1>4, CallsStay, Returned
<1>6. PICK c \in Cohort : c = Head(cohorts) /\ c = cohorts[1]
  BY <1>2 DEF TypeInv
<1>7. PICK d \in Cohort : d = Pruned(c)
  BY <1>2, <1>6, PrunedCohort
<1>8. /\ SeqSet(d.sessions) = {y \in SeqSet(c.sessions) : Wanted(y)}
      /\ Distinct(c.sessions) => Distinct(d.sessions)
      /\ \A y \in Zones : d.prepared[y] =
            IF y \in SeqSet(c.sessions) /\ Wanted(y) /\ c.prepared[y] = sessions[y].gen
            THEN c.prepared[y] ELSE 0
      /\ d.phase = c.phase
  BY <1>2, <1>7, PrunedCohort
<1>9. /\ cohorts' \in Seq(Cohort) /\ DOMAIN cohorts' = DOMAIN cohorts /\ 1 \in DOMAIN cohorts
      /\ cohorts'[1] = d /\ \A i \in DOMAIN cohorts : i # 1 => cohorts'[i] = cohorts[i]
  <2>1. cohorts' = <<d>> \o Tail(cohorts) /\ cohorts \in Seq(Cohort) /\ cohorts # <<>>
    BY <1>2, <1>6, <1>7 DEF TypeInv
  <2> QED
    BY <2>1
<1>10. \A y \in Zones : Same(y)
  <2> SUFFICES ASSUME NEW y \in Zones PROVE Same(y)
    OBVIOUS
  <2>1. Counted(y)' \subseteq Counted(y) \cup {0}
    <3> SUFFICES ASSUME NEW i \in DOMAIN cohorts PROVE cohorts'[i].prepared[y] \in Counted(y) \cup {0}
      BY <1>9 DEF Counted
    <3>1. CASE i = 1
      BY <1>6, <1>8, <1>9, <3>1 DEF Counted
    <3>2. CASE i # 1
      BY <1>9, <3>2 DEF Counted
    <3> QED
      BY <3>1, <3>2
  <2>2. ASSUME Wanted(y), sessions[y].gen # 0, sessions[y].gen \in Counted(y)
        PROVE  sessions[y].gen \in Counted(y)'
    <3>1. PICK i \in DOMAIN cohorts : cohorts[i].prepared[y] = sessions[y].gen
      BY <2>2 DEF Counted
    <3>2. y \in SeqSet(cohorts[i].sessions)
      BY <1>2, <2>2, <3>1 DEF PreparedInv
    <3>3. cohorts'[i].prepared[y] = sessions[y].gen
      BY <1>6, <1>8, <1>9, <2>2, <3>1, <3>2
    <3> QED
      BY <1>9, <3>3 DEF Counted
  <2> QED
    BY <1>5, <2>1, <2>2 DEF Same
<1>11. \A e : Founded(e) => Founded(e)'
  BY DEF Founded, Wanted, Live
<1>12. CallsInv'
  <2>1. Others(Head(calls).zone)
    BY <1>10 DEF Others
  <2> QED
    BY <1>1, <1>2, <1>4, <1>11, <2>1, MoreCalls
<1>13. PlacesInv'
  <2>1. \A i \in DOMAIN cohorts : SeqSet(cohorts'[i].sessions) \subseteq SeqSet(cohorts[i].sessions)
    BY <1>6, <1>8, <1>9
  <2>2. \A i \in DOMAIN cohorts' : Distinct(cohorts'[i].sessions)
    BY <1>2, <1>6, <1>8, <1>9 DEF PlacesInv
  <2>3. ASSUME NEW i \in DOMAIN cohorts, NEW j \in DOMAIN cohorts, i # j
        PROVE  SeqSet(cohorts'[i].sessions) \cap SeqSet(cohorts'[j].sessions) = {}
    <3>1. SeqSet(cohorts[i].sessions) \cap SeqSet(cohorts[j].sessions) = {}
      BY <1>2, <2>3 DEF PlacesInv
    <3> QED
      BY <2>1, <3>1
  <2> QED
    BY <1>9, <2>2, <2>3 DEF PlacesInv
<1>14. PreparedInv'
  <2> SUFFICES ASSUME NEW i \in DOMAIN cohorts, NEW y \in Zones, cohorts'[i].prepared[y] # 0
               PROVE  /\ y \in SeqSet(cohorts'[i].sessions)
                      /\ Live(y)' /\ cohorts'[i].prepared[y] = sessions'[y].gen
                            => sessions'[y].prepared \/ Waiting({"pause"}, y)'
    BY <1>9 DEF PreparedInv
  <2>1. Live(y)' = Live(y) /\ (Waiting({"pause"}, y) => Waiting({"pause"}, y)')
    BY <1>5 DEF Live, Waiting
  <2>2. CASE i = 1
    <3>1. /\ y \in SeqSet(c.sessions) /\ Wanted(y) /\ cohorts'[i].prepared[y] = cohorts[i].prepared[y]
      BY <1>6, <1>8, <1>9, <2>2
    <3> QED
      BY <1>2, <1>8, <1>9, <2>1, <2>2, <3>1 DEF PreparedInv
  <2>3. CASE i # 1
    BY <1>2, <1>9, <2>1, <2>3 DEF PreparedInv
  <2> QED
    BY <2>2, <2>3
<1>15. WakeInv'
  <2> SUFFICES ASSUME Startable(Head(cohorts))' PROVE FALSE
    BY DEF WakeInv
  <2>1. ~Startable(c)
    BY <1>2, <1>6, StartsWhenStartable
  <2>2. Head(cohorts') = d
    BY <1>9
  <2>3. d.phase = "expired" \/ \A y \in SeqSet(d.sessions) :
            Wanted(y) => d.prepared[y] # 0 /\ d.prepared[y] = sessions[y].gen
    BY <2>2 DEF Startable, Wanted, Live
  <2>4. SeqSet(c.sessions) \subseteq Zones
    BY <1>6, CohortTypes
  <2>5. Startable(c)
    BY <1>8, <2>3, <2>4 DEF Startable
  <2> QED
    BY <2>1, <2>5
<1>16. IInv'
  BY <1>5, <1>9, <1>10, <1>12, <1>13, <1>14, <1>15, CohortsLeft
<1> QED
  BY <1>10, <1>16

(* The prepared rooms of the oldest cohort are told to play; the others    *)
(* take no part.                                                           *)
CohortPlays(rooms) ==
    /\ \A y \in Zones \ rooms : Same(y)
    /\ \A y \in rooms :
          /\ Wanted(y) /\ sessions[y].gen # 0
          /\ y \in SeqSet(Head(cohorts).sessions) /\ Head(cohorts).prepared[y] = sessions[y].gen
          /\ slot'[y].kind \in StartKinds /\ slot'[y].gen = sessions[y].gen /\ fresh'[y]
          /\ Live(y)' /\ sessions'[y].gen = sessions[y].gen /\ sessions'[y].retry = sessions[y].retry
          /\ sessions'[y].observed = sessions[y].observed
    /\ \A e \in DOMAIN groups' : e \in DOMAIN groups \/ Playing(e) \/ e \in rooms

(* The oldest cohort starts: its prepared rooms are told to play.          *)
LEMMA StartedCohortStep ==
    ASSUME IInv, Running("release"), cohorts # <<>>,
           cohorts' = Tail(cohorts), PlayPrepared(sessions, ReadyIn(Pruned(Head(cohorts)))),
           UNCHANGED <<generation, registry, calls, answers, preps, retries, cleanups, wake>>
    PROVE  IInv' /\ \E rooms \in SUBSET Zones : CohortPlays(rooms)
<1>1. /\ Head(calls).op = "release"
      /\ SeqSet(calls) = {Head(calls)} \cup SeqSet(Tail(calls))
      /\ \A e \in SeqSet(Tail(calls)) : e.op # "create"
  BY RunningCall
<1>2. TypeInv /\ CallsInv /\ PlacesInv /\ PreparedInv /\ GroupsSound /\ \A y \in Zones : RoomInv(y)
  BY DEF IInv
<1>3. PICK c \in Cohort : c = Head(cohorts) /\ cohorts' \in Seq(Cohort)
  BY <1>2, CohortLeaves
<1>4. PICK d \in Cohort : d = Pruned(c)
  BY <1>2, PrunedCohort
<1>5. /\ SeqSet(d.sessions) = {y \in SeqSet(c.sessions) : Wanted(y)}
      /\ \A y \in Zones : d.prepared[y] =
            IF y \in SeqSet(c.sessions) /\ Wanted(y) /\ c.prepared[y] = sessions[y].gen
            THEN c.prepared[y] ELSE 0
  BY <1>2, <1>4, PrunedCohort
<1>6. PICK ready \in Seq(Zones) : ready = ReadyIn(d) /\ SeqSet(ready) = {y \in SeqSet(d.sessions) : d.prepared[y] # 0}
  BY Ready
<1>7. PICK R : R = SeqSet(ready)
  OBVIOUS
<1>8. R \subseteq Zones /\ \A y \in R : /\ Wanted(y) /\ Live(y) /\ sessions[y] \in Session
                                        /\ sessions[y].gen \in Nat /\ sessions[y].gen # 0
  <2>1. R \subseteq Zones
    BY <1>7, SetOfNone
  <2>2. ASSUME NEW y \in R PROVE Wanted(y) /\ Live(y) /\ sessions[y].gen # 0
    BY <1>5, <1>6, <1>7, <2>1 DEF Wanted
  <2> QED
    BY <1>2, <2>1, <2>2, Fresh
<1>9. \A y \in Zones :
         (y \in SeqSet(c.sessions) /\ c.prepared[y] = sessions[y].gen /\ Wanted(y) /\ sessions[y].gen # 0)
            => y \in R
  <2> SUFFICES ASSUME NEW y \in Zones, y \in SeqSet(c.sessions), c.prepared[y] = sessions[y].gen,
                      Wanted(y), sessions[y].gen # 0
               PROVE  y \in R
    OBVIOUS
  <2>1. y \in SeqSet(d.sessions) /\ d.prepared[y] = c.prepared[y] /\ d.prepared[y] # 0
    BY <1>5
  <2> QED
    BY <1>6, <1>7, <2>1
<1>10. /\ sessions' \in Sessions /\ slot' \in Channels /\ fresh' \in [Zones -> BOOLEAN]
       /\ busy' = busy
       /\ \A y \in R :
             /\ \E p \in Plans : sessions'[y] = [sessions[y] EXCEPT !.plan = p]
             /\ slot'[y] \in Command /\ slot'[y].kind \in StartKinds
             /\ slot'[y].gen = sessions[y].gen /\ fresh'[y]
       /\ \A y \in Zones : y \notin R =>
             sessions'[y] = sessions[y] /\ slot'[y] = slot[y] /\ fresh'[y] = fresh[y]
       /\ DOMAIN groups' \subseteq Zones
       /\ \A e \in DOMAIN groups' :
             /\ groups'[e] \in Seq(Zones)
             /\ e \in DOMAIN groups \/ Playing(e) \/ e \in R
             /\ \A m \in SeqSet(groups'[e]) : \/ e \in DOMAIN groups /\ m \in SeqSet(groups[e])
                                              \/ Wanted(m) /\ Wanted(e)
  <2>1. PlayPrepared(sessions, ready)
    BY <1>3, <1>4, <1>6, Zenon
  <2>2. sessions \in Sessions
    BY <1>2 DEF TypeInv
  <2>3. \A y \in SeqSet(ready) : Wanted(y) /\ sessions[y] \in Session /\ sessions[y].gen \in Nat
    BY <1>7, <1>8
  <2> QED
    BY <1>2, <1>7, <2>1, <2>2, <2>3, Played
<1>11. ASSUME NEW y \in R
       PROVE  /\ sessions'[y] \in Session /\ sessions'[y].gen = sessions[y].gen
              /\ sessions'[y].encoder = sessions[y].encoder /\ sessions'[y].desired = sessions[y].desired
              /\ sessions'[y].observed = sessions[y].observed
              /\ sessions'[y].prepared = sessions[y].prepared
              /\ sessions'[y].retry = sessions[y].retry
  <2>1. PICK p \in Plans : sessions'[y] = [sessions[y] EXCEPT !.plan = p]
    BY <1>10
  <2>2. PICK s \in Session : s = sessions[y]
    BY <1>8
  <2>3. PICK e : e = [s EXCEPT !.plan = p]
    OBVIOUS
  <2>4. /\ e \in Session /\ e.gen = s.gen /\ e.encoder = s.encoder /\ e.desired = s.desired
        /\ e.observed = s.observed /\ e.prepared = s.prepared /\ e.retry = s.retry
    BY <2>3 DEF Session, Plans
  <2> QED
    BY <2>1, <2>2, <2>3, <2>4
<1>12. \A y \in Zones : /\ (Live(y)' <=> Live(y)) /\ (Wanted(y)' <=> Wanted(y))
                        /\ Live(y) => /\ sessions'[y].gen = sessions[y].gen
                                      /\ sessions'[y].prepared = sessions[y].prepared
                                      /\ sessions'[y].observed = sessions[y].observed
  <2> SUFFICES ASSUME NEW y \in Zones PROVE <1>12!(y)
    OBVIOUS
  <2>1. CASE y \in R
    BY <1>8, <1>11, <2>1, NothingAssumption DEF Live, Wanted
  <2>2. CASE y \notin R
    BY <1>10, <2>2 DEF Live, Wanted
  <2> QED
    BY <2>1, <2>2
<1>13. /\ PlacesInv'
       /\ \A i \in DOMAIN cohorts', y \in Zones :
             cohorts'[i].prepared[y] # 0 =>
                /\ y \in SeqSet(cohorts'[i].sessions)
                /\ Live(y) /\ cohorts'[i].prepared[y] = sessions[y].gen
                      => sessions[y].prepared \/ Waiting({"pause"}, y)
       /\ \A y \in Zones :
             /\ Counted(y)' \subseteq Counted(y)
             /\ sessions[y].gen # 0 /\ sessions[y].gen \in Counted(y) =>
                   \/ sessions[y].gen \in Counted(y)'
                   \/ y \in SeqSet(c.sessions) /\ c.prepared[y] = sessions[y].gen
  BY <1>2, <1>3, PlacesLeave
<1>14. TypeInv'
  BY <1>2, <1>3, <1>10 DEF TypeInv, Channels
<1>15. ASSUME NEW y \in Zones PROVE RoomInv(y)'
  <2>1. CASE y \in R
    <3>1. PICK e \in Session : e = sessions'[y]
      BY <1>11, <2>1
    <3>2. /\ e.gen = sessions[y].gen /\ e.desired = sessions[y].desired
          /\ e.observed = sessions[y].observed /\ e.encoder = sessions[y].encoder
      BY <1>11, <2>1, <3>1
    <3>3. /\ slot'[y] \in Command /\ slot'[y].kind \in StartKinds
          /\ slot'[y].gen = sessions[y].gen /\ fresh'[y] /\ busy'[y] = busy[y]
      BY <1>10, <2>1
    <3>4. RoomInv(y) /\ Wanted(y) /\ sessions[y].gen # 0 /\ Counted(y)' \subseteq Counted(y) \cup {0}
      BY <1>2, <1>8, <1>13, <2>1
    <3>5. \A f \in SeqSet(calls) : f.zone = y => f \in SeqSet(calls')
      OBVIOUS
    <3> QED
      BY <1>2, <3>1, <3>2, <3>3, <3>4, <3>5, ToldRoom
  <2>2. CASE y \notin R
    <3>1. Same(y)
      BY <1>9, <1>10, <1>13, <2>2 DEF Same
    <3> QED
      BY <1>2, <3>1, SameRoom
  <2> QED
    BY <2>1, <2>2
<1>16. CallsInv'
  <2>1. ASSUME NEW e \in SeqSet(calls) PROVE e.op # "create" /\ Founded(e)'
    <3>1. e.op # "create" /\ Founded(e) /\ e.zone \in Zones
      <4>1. SeqSet(calls) \subseteq Calls
        BY <1>2, SetOfNone DEF TypeInv
      <4> QED
        BY <1>1, <1>2, <4>1 DEF CallsInv, Calls
    <3> QED
      BY <1>12, <3>1 DEF Founded
  <2>2. BeginLast(calls') /\ calls' \in Seq(Calls)
    BY <1>2 DEF CallsInv, TypeInv
  <2> QED
    BY <2>1, <2>2, NewCalls
<1>17. PreparedInv'
  <2> SUFFICES ASSUME NEW i \in DOMAIN cohorts', NEW y \in Zones, cohorts'[i].prepared[y] # 0
               PROVE  /\ y \in SeqSet(cohorts'[i].sessions)
                      /\ Live(y)' /\ cohorts'[i].prepared[y] = sessions'[y].gen
                            => sessions'[y].prepared \/ Waiting({"pause"}, y)'
    BY DEF PreparedInv
  <2>1. Waiting({"pause"}, y)' = Waiting({"pause"}, y)
    BY DEF Waiting
  <2> QED
    BY <1>12, <1>13, <2>1
<1>18. WakeInv'
  <2>1. Releasing
    BY <1>1 DEF Releasing
  <2> QED
    BY <2>1 DEF WakeInv, Releasing
<1>19. GroupsSound'
  <2>1. \A y \in Zones : Wanted(y) => Wanted(y)'
    BY <1>12
  <2>2. \A e \in DOMAIN groups' : /\ e \in Zones /\ SeqSet(groups'[e]) \subseteq Zones
                                  /\ \A m \in SeqSet(groups'[e]) : Wanted(m) /\ Wanted(e)
    BY <1>2, <1>10, SetOfNone DEF GroupsSound
  <2> QED
    BY <2>1, <2>2 DEF GroupsSound, SeqSet
<1>20. IInv'
  BY <1>13, <1>14, <1>15, <1>16, <1>17, <1>18, <1>19 DEF IInv
<1>21. CohortPlays(R)
  <2>1. ASSUME NEW y \in Zones, y \notin R PROVE Same(y)
    BY <1>9, <1>10, <1>13, <2>1 DEF Same
  <2>2. ASSUME NEW y \in R
        PROVE  y \in SeqSet(c.sessions) /\ c.prepared[y] = sessions[y].gen /\ Live(y)'
    <3>1. y \in Zones /\ y \in SeqSet(d.sessions) /\ d.prepared[y] # 0
      BY <1>6, <1>7, <1>8
    <3>2. y \in SeqSet(c.sessions) /\ c.prepared[y] = sessions[y].gen
      BY <1>5, <3>1
    <3> QED
      BY <1>8, <1>12, <3>1, <3>2
  <2> QED
    BY <1>3, <1>8, <1>10, <1>11, <2>1, <2>2 DEF CohortPlays
<1> QED
  BY <1>8, <1>20, <1>21

(* maybe_start_sync_cohort: the oldest cohort is dropped, waits on, or     *)
(* starts.                                                                 *)
LEMMA ReleaseStep ==
    ASSUME IInv, Release
    PROVE  IInv'
<1>1. /\ Running("release")
      /\ UNCHANGED <<generation, registry, answers, preps, retries, cleanups, wake>>
      /\ IF cohorts = <<>>
         THEN Return(<<>>) /\ UNCHANGED <<sessions, cohorts, groups, workers>>
         ELSE LET head == Pruned(Head(cohorts))
              IN  CASE head.sessions = <<>> ->
                         /\ cohorts' = Tail(cohorts)
                         /\ UNCHANGED <<sessions, groups, workers, calls>>
                    [] head.sessions # <<>> /\ ~ShouldStart(head) ->
                         /\ cohorts' = <<head>> \o Tail(cohorts)
                         /\ Return(<<>>)
                         /\ UNCHANGED <<sessions, groups, workers>>
                    [] OTHER ->
                         /\ cohorts' = Tail(cohorts)
                         /\ PlayPrepared(sessions, ReadyIn(head))
                         /\ UNCHANGED calls
  BY Zenon DEF Release, inbox
<1>2. CASE cohorts = <<>>
  <2>1. Return(<<>>) /\ UNCHANGED <<sessions, cohorts, groups, workers>>
    BY <1>1, <1>2, Zenon
  <2> QED
    BY <1>1, <1>2, <2>1, NothingToRelease DEF workers
<1>3. CASE cohorts # <<>> /\ Pruned(Head(cohorts)).sessions = <<>>
  <2>1. cohorts' = Tail(cohorts) /\ UNCHANGED <<sessions, groups, workers, calls>>
    BY <1>1, <1>3, Zenon
  <2> QED
    BY <1>1, <1>3, <2>1, EmptyCohortStep DEF workers
<1>4. CASE cohorts # <<>> /\ Pruned(Head(cohorts)).sessions # <<>> /\ ~ShouldStart(Pruned(Head(cohorts)))
  <2>1. /\ cohorts' = <<Pruned(Head(cohorts))>> \o Tail(cohorts) /\ Return(<<>>)
        /\ UNCHANGED <<sessions, groups, workers>>
    BY <1>1, <1>4, Zenon
  <2> QED
    BY <1>1, <1>4, <2>1, WaitingCohortStep DEF workers
<1>5. CASE cohorts # <<>> /\ Pruned(Head(cohorts)).sessions # <<>> /\ ShouldStart(Pruned(Head(cohorts)))
  <2>1. /\ cohorts' = Tail(cohorts) /\ PlayPrepared(sessions, ReadyIn(Pruned(Head(cohorts))))
        /\ UNCHANGED calls
    BY <1>1, <1>5, Zenon
  <2> QED
    BY <1>1, <1>5, <2>1, StartedCohortStep
<1> QED
  BY <1>2, <1>3, <1>4, <1>5

----------------------------------------------------------------------------
(* The invariant.                                                          *)

(* The invariant holds when no session exists.                             *)
LEMMA Initially == ASSUME Init PROVE IInv
<1>1. TypeInv
  <2>1. /\ sessions \in Sessions /\ generation \in [Zones -> Nat] /\ registry \in [Zones -> Nat]
        /\ slot \in Channels /\ busy \in Channels /\ fresh \in [Zones -> BOOLEAN]
        /\ preps \in [Zones -> SUBSET Nat] /\ retries \in [Zones -> SUBSET Nat] /\ cleanups \subseteq Zones
    BY DEF Init, Sessions, Channels
  <2>2. /\ cohorts \in Seq(Cohort) /\ calls \in Seq(Calls) /\ answers \in [Zones -> Seq(AnswerMessage)]
    <3>1. <<>> \in Seq(Cohort) /\ <<>> \in Seq(Calls) /\ <<>> \in Seq(AnswerMessage)
      OBVIOUS
    <3> QED
      BY <3>1 DEF Init
  <2>3. DOMAIN groups = {}
    BY DEF Init
  <2> QED
    BY <2>1, <2>2, <2>3 DEF TypeInv
<1>2. /\ \A z \in Zones : /\ ~Live(z) /\ ~Wanted(z) /\ slot[z] = Nothing /\ ~fresh[z] /\ busy[z] = Nothing
                          /\ answers[z] = <<>> /\ registry[z] = 0 /\ generation[z] = 0
      /\ cohorts = <<>> /\ calls = <<>> /\ DOMAIN groups = {} /\ DOMAIN cohorts = {} /\ DOMAIN calls = {}
  BY DEF Init, Live, Wanted
<1>3. ASSUME NEW z \in Zones PROVE RoomInv(z)
  <2>1. Quiet(z) /\ Registered(z) /\ Streaming(z) /\ InOrder(z) /\ Moving(z)
    BY <1>2 DEF Quiet, Registered, Streaming, InOrder, Moving
  <2>2. Counted(z) = {} /\ DOMAIN answers[z] = {}
    BY <1>2 DEF Counted
  <2>3. Drawn(z)
    BY <1>2, <2>2 DEF Drawn
  <2> QED
    BY <2>1, <2>3 DEF RoomInv
<1>4. CallsInv
  BY <1>2 DEF CallsInv, BeginLast, SeqSet
<1>5. PlacesInv /\ PreparedInv /\ WakeInv /\ GroupsSound
  BY <1>2 DEF PlacesInv, PreparedInv, WakeInv, GroupsSound
<1> QED
  BY <1>1, <1>3, <1>4, <1>5 DEF IInv

(* A step that changes nothing keeps the invariant.                        *)
LEMMA Stuttering == ASSUME IInv, UNCHANGED vars PROVE IInv'
<1>1. /\ UNCHANGED <<sessions, generation, registry, groups, cohorts, calls, slot, fresh, busy, answers, preps,
                     retries, cleanups, wake>>
  BY DEF vars
<1>2. TypeInv /\ CallsInv /\ PlacesInv /\ PreparedInv /\ WakeInv
  BY DEF IInv
<1>3. \A y \in Zones : Same(y)
  BY <1>1 DEF Same, Counted
<1>4. CallsInv' /\ calls' \in Seq(Calls) /\ cohorts' \in Seq(Cohort)
  BY <1>1, <1>2 DEF CallsInv, Founded, Wanted, Live, TypeInv
<1>5. PlacesInv' /\ WakeInv'
  BY <1>1, <1>2 DEF PlacesInv, WakeInv, Releasing, Startable, Wanted, Live
<1>6. PreparedInv'
  BY <1>1, <1>2 DEF PreparedInv, Waiting, Live
<1> QED
  BY <1>1, <1>3, <1>4, <1>5, <1>6, CohortsLeft

(* Every step of the runtime, the workers, the timers and the sender       *)
(* keeps the invariant.                                                    *)
LEMMA EveryStep == ASSUME IInv, Next PROVE IInv'
<1>1. CASE RuntimeStep
  BY <1>1, RestartStep, ReplaceStep, CreateStep, ReleaseStep, PauseStep, StoppedStep, BeginStep DEF RuntimeStep
<1>2. CASE HandleWake
  BY <1>2, HandleWakeStep
<1>3. CASE \E i \in DOMAIN cohorts : CohortTick(i)
  BY <1>3, CohortTickStep
<1>4. ASSUME NEW z \in Zones, Handle(z) PROVE IInv'
  BY <1>4, HandleStartResultStep, HandleRetryStep, HandlePreparedStep, HandleCleanupStep DEF Handle
<1>5. ASSUME NEW z \in Zones, Worker(z) PROVE IInv'
  BY <1>5, WorkerTakeStep, WorkerAnswerStep, WorkerAbandonStep DEF Worker
<1>6. ASSUME NEW z \in Zones, RetryFires(z) \/ CleanupFires(z) PROVE IInv'
  BY <1>6, RetryFiresStep, CleanupFiresStep
<1>7. ASSUME NEW z \in Zones, AirPlayEvent(z) PROVE IInv'
  BY <1>7, SessionStartedStep, SessionStoppedStep, SetPlayingStep, SetPausedStep, FlushedStep,
     StreamEndedStep, EncoderClosedStep DEF AirPlayEvent
<1> QED
  BY <1>1, <1>2, <1>3, <1>4, <1>5, <1>6, <1>7 DEF Next, Progress

(* IInv holds always: before and after every handler of                    *)
(* BridgeRuntime::run, and between the calls a handler makes.              *)
THEOREM Invariant == Spec => []IInv
<1>1. Init => IInv
  BY Initially
<1>2. IInv /\ [Next]_vars => IInv'
  BY EveryStep, Stuttering
<1> QED
  BY <1>1, <1>2, PTL DEF Spec

(* Every variable is of its type. In particular the bookkeeping of         *)
(* cohorts and groups only ever names rooms, and every plan and phase is   *)
(* one the code knows.                                                     *)
THEOREM TypeCorrect == Spec => []TypeInv
<1>1. IInv => TypeInv
  BY DEF IInv
<1> QED
  BY <1>1, Invariant, PTL

(* A room whose session is paused or gone was last told to stop: no        *)
(* retry, release, prepared stream or answer that comes late has main.rs   *)
(* put another command behind the Stop.                                    *)
THEOREM QuietRooms == Spec => []QuietUnlessWanted
<1>1. IInv => QuietUnlessWanted
  BY IdleWaits DEF IInv, RoomInv, Quiet, QuietUnlessWanted
<1> QED
  BY <1>1, Invariant, PTL

(* A session that main.rs believes to play was last told to start, in      *)
(* its current generation, and the encoder that feeds it is of that        *)
(* generation; but for the encoder whose input closed, which is gone.      *)
THEOREM PlayingRooms == Spec => []PlayingIsBacked
<1>1. IInv => PlayingIsBacked
  <2> SUFFICES ASSUME IInv, Idle, NEW z \in Zones, Live(z), sessions[z].observed = "Playing",
                      sessions[z].encoder # 0
               PROVE  /\ slot[z].kind \in StartKinds
                      /\ slot[z].gen = sessions[z].gen
                      /\ sessions[z].encoder = sessions[z].gen
    BY DEF PlayingIsBacked
  <2>1. Playing(z)
    BY DEF Playing
  <2> QED
    BY <2>1, LiveRoom DEF Told
<1> QED
  BY <1>1, Invariant, PTL

(* The stream a player can fetch for a room is the one of its session's    *)
(* encoder, through every restart, failed creation and end of a session.   *)
THEOREM RegisteredStreams == Spec => []RegistryMatchesEncoder
<1>1. IInv => RegistryMatchesEncoder
  BY DEF IInv, RoomInv, Registered, RegistryMatchesEncoder
<1> QED
  BY <1>1, Invariant, PTL

(* A session that should play and does not has an answer, a prepared       *)
(* stream, a timer, a command or a cohort under way for it, or has spent   *)
(* its retries: no handler drops the last of these and returns.            *)
THEOREM NothingStalls == Spec => []NoStall
<1>1. IInv => NoStall
  BY IdleWaits DEF IInv, RoomInv, Moving, NoStall
<1> QED
  BY <1>1, Invariant, PTL

(* A room waits in one place of one cohort, and what a cohort counts as    *)
(* prepared for it is the stream its session holds.                        *)
THEOREM SoundCohorts == Spec => []CohortsSound
<1>1. IInv => CohortsSound
  <2> SUFFICES ASSUME IInv, Idle PROVE CohortsSound
    BY DEF CohortsSound
  <2>1. PlacesInv /\ PreparedInv
    BY DEF IInv
  <2>2. ASSUME NEW i \in DOMAIN cohorts, NEW j \in DOMAIN cohorts,
               NEW k \in DOMAIN cohorts[i].sessions, NEW l \in DOMAIN cohorts[j].sessions,
               cohorts[i].sessions[k] = cohorts[j].sessions[l]
        PROVE  i = j /\ k = l
    <3>1. i = j
      <4>1. /\ cohorts[i].sessions[k] \in SeqSet(cohorts[i].sessions)
            /\ cohorts[j].sessions[l] \in SeqSet(cohorts[j].sessions)
        BY DEF SeqSet
      <4> QED
        BY <2>1, <2>2, <4>1 DEF PlacesInv
    <3> QED
      BY <2>1, <2>2, <3>1 DEF PlacesInv, Distinct
  <2>3. ASSUME NEW i \in DOMAIN cohorts, NEW z \in Zones, cohorts[i].prepared[z] # 0
        PROVE  /\ InCohort(z, cohorts[i])
               /\ Wanted(z) /\ cohorts[i].prepared[z] = sessions[z].gen => sessions[z].prepared
    BY <2>1, <2>3, IdleWaits DEF PreparedInv, InCohort, SeqSet, Wanted
  <2> QED
    BY <2>2, <2>3 DEF CohortsSound
<1> QED
  BY <1>1, Invariant, PTL

(* The oldest cohort does not wait once it may start: whatever made it     *)
(* startable released it or left a wake.                                   *)
THEOREM CohortsAreReleased == Spec => []NoCohortForgotten
<1>1. IInv => NoCohortForgotten
  <2> SUFFICES ASSUME IInv, Idle, cohorts # <<>>, ShouldStart(Pruned(Head(cohorts))) PROVE wake
    BY DEF NoCohortForgotten
  <2>1. TypeInv /\ WakeInv
    BY DEF IInv
  <2>2. Head(cohorts) \in Cohort
    BY <2>1 DEF TypeInv
  <2>3. Startable(Head(cohorts))
    BY <2>1, <2>2, StartsWhenStartable
  <2> QED
    BY <2>1, <2>3, IdleWaits DEF WakeInv
<1> QED
  BY <1>1, Invariant, PTL

(* Members and coordinator of a native group are rooms that should play:   *)
(* who pauses, ends or restarts has left its groups, between any two       *)
(* calls of a handler.                                                     *)
THEOREM GroupsPlay == Spec => []GroupsSound
<1>1. IInv => GroupsSound
  BY DEF IInv
<1> QED
  BY <1>1, Invariant, PTL

----------------------------------------------------------------------------
(* One attempt at a time.                                                  *)
(*                                                                         *)
(* A second invariant on top of IInv follows the current stream of a       *)
(* session: it is in the worker's channel, with the worker, among the      *)
(* results, prepared, or counted by a cohort, in one of these places only. *)

Sent(z) == fresh[z] /\ slot[z].gen = sessions[z].gen /\ slot[z].kind # "Stop"
Obeyed(z) == busy[z] # Nothing /\ busy[z].gen = sessions[z].gen /\ busy[z].kind # "Stop"
Results(z) ==
    {i \in DOMAIN answers[z] : /\ answers[z][i].gen = sessions[z].gen
                               /\ answers[z][i].outcome \notin {"Stopped", "StopUnknown"}}
Arrived(z) == sessions[z].gen \in preps[z]
Gathered(z) == sessions[z].gen \in Counted(z)
Retrying(z) == sessions[z].retry = sessions[z].gen \/ sessions[z].gen \in retries[z]

Attempt(z) == Sent(z) \/ Obeyed(z) \/ Results(z) # {} \/ Arrived(z) \/ Gathered(z)

(* Timers, retries and prepared streams are of generations that were drawn. *)
Known(z) ==
    /\ Live(z) => sessions[z].retry \in 0..generation[z]
    /\ preps[z] \subseteq 0..generation[z] /\ retries[z] \subseteq 0..generation[z]

(* While an attempt runs no retry is due.  A session that plays has no     *)
(* attempt, and a retry only since it lost its encoder.                    *)
OneAttempt(z) ==
    /\ Obeyed(z) => ~Sent(z)
    /\ Results(z) # {} => ~Sent(z) /\ ~Obeyed(z)
    /\ \A i, j \in Results(z) : i = j
    /\ Arrived(z) => ~Sent(z) /\ ~Obeyed(z) /\ Results(z) = {}
    /\ Gathered(z) => ~Sent(z) /\ ~Obeyed(z) /\ Results(z) = {} /\ ~Arrived(z)
    /\ Retrying(z) => ~Attempt(z)
    /\ Playing(z) => ~Attempt(z) /\ (Retrying(z) => ~sessions[z].prepared)
    /\ Waiting({"create"}, z) => ~Attempt(z) /\ ~Retrying(z) /\ sessions[z].encoder = 0

(* A coordinator with an encoder did not give up: it plays, or something   *)
(* is under way for it.                                                    *)
Attended(z) ==
    Wanted(z) /\ z \in DOMAIN groups /\ sessions[z].encoder # 0 =>
        \/ Playing(z) \/ Attempt(z) \/ Retrying(z)
        \/ Waiting({"restart", "replace", "create"}, z)

Track(z) == Known(z) /\ (Live(z) /\ sessions[z].gen # 0 => OneAttempt(z) /\ Attended(z))

(* What is under way is an attempt or a retry.                             *)
LEMMA WhatIsUnderWay ==
    ASSUME NEW z, Attempt(z) \/ Retrying(z)
    PROVE  UnderWay(z)
<1>1. Gathered(z) => \E i \in DOMAIN cohorts : cohorts[i].prepared[z] = sessions[z].gen
  BY DEF Gathered, Counted
<1>2. Results(z) # {} => \E i \in DOMAIN answers[z] :
              answers[z][i].gen = sessions[z].gen /\ answers[z][i].outcome \notin {"Stopped", "StopUnknown"}
  BY Zenon DEF Results
<1> QED
  BY <1>1, <1>2 DEF Attempt, Retrying, UnderWay, Sent, Obeyed, Arrived

(* No stream is to be created.                                             *)
Uncreating == \A c \in SeqSet(calls) : c.op # "create"

(* The room takes no part in the step, and comes to coordinate a group     *)
(* only if it plays.                                                       *)
Unstirred(y) ==
    /\ Same(y)
    /\ Waiting({"create"}, y)' => Waiting({"create"}, y)
    /\ y \in DOMAIN groups' => y \in DOMAIN groups \/ Playing(y)

(* What is followed of a room stays while nothing of the room changes.     *)
LEMMA UnstirredRoom ==
    ASSUME NEW y \in Zones, Track(y), Unstirred(y)
    PROVE  Track(y)'
<1>1. Live(y)' = Live(y) /\ Wanted(y)' = Wanted(y) /\ sessions'[y] = sessions[y]
  BY SameIsWanted DEF Unstirred
<1>2. Known(y)'
  BY <1>1 DEF Track, Known, Unstirred, Same
<1> SUFFICES ASSUME Live(y), sessions[y].gen # 0 PROVE OneAttempt(y)' /\ Attended(y)'
  BY <1>1, <1>2 DEF Track
<1>3. /\ Sent(y)' = Sent(y) /\ Obeyed(y)' = Obeyed(y) /\ Results(y)' = Results(y)
      /\ Arrived(y)' = Arrived(y) /\ Retrying(y)' = Retrying(y) /\ Playing(y)' = Playing(y)
  BY <1>1 DEF Unstirred, Same, Sent, Obeyed, Results, Arrived, Retrying, Playing
<1>4. (Gathered(y)' => Gathered(y)) /\ (Wanted(y) /\ Gathered(y) => Gathered(y)')
  BY <1>1 DEF Unstirred, Same, Gathered
<1>5. OneAttempt(y) /\ Attended(y)
  BY DEF Track
<1>6. OneAttempt(y)'
  BY <1>1, <1>3, <1>4, <1>5 DEF OneAttempt, Attempt, Unstirred
<1>7. Attended(y)'
  <2>1. Waiting({"restart", "replace", "create"}, y) => Waiting({"restart", "replace", "create"}, y)'
    BY WaitsOn DEF Unstirred, Same
  <2> QED
    BY <1>1, <1>3, <1>4, <1>5, <2>1 DEF Attended, Attempt, Unstirred
<1> QED
  BY <1>6, <1>7

(* A generation that was just drawn is nowhere yet, but for the retry      *)
(* that is armed for it.                                                   *)
LEMMA NewGeneration ==
    ASSUME TypeInv, NEW z \in Zones, Drawn(z), Known(z), NEW g \in Nat, g > generation[z],
           Live(z)', sessions'[z].gen = g, generation'[z] = g, slot'[z].kind = "Stop", busy'[z] = busy[z],
           answers'[z] = answers[z], preps'[z] = preps[z], retries'[z] = retries[z],
           Counted(z)' \subseteq Counted(z)
    PROVE  /\ ~Attempt(z)' /\ (Retrying(z)' => sessions'[z].retry = g)
           /\ sessions'[z].retry \in 0..generation[z] \cup {g} => Known(z)'
           /\ g \notin 0..generation[z]
<1>1. generation[z] \in Nat
  BY DEF TypeInv
<1>2. g \notin 0..generation[z] /\ g \notin 1..generation[z] /\ ~(g <= generation[z])
      /\ 0..generation[z] \subseteq 0..g /\ g \in 0..g
  BY <1>1
<1>3. ~Sent(z)' /\ ~Obeyed(z)'
  BY <1>2 DEF Sent, Obeyed, Drawn
<1>4. Results(z)' = {}
  BY <1>2 DEF Results, Drawn
<1>5. ~Arrived(z)' /\ ~Gathered(z)' /\ (Retrying(z)' => sessions'[z].retry = g)
  BY <1>2 DEF Arrived, Gathered, Retrying, Known, Drawn
<1>6. sessions'[z].retry \in 0..generation[z] \cup {g} => Known(z)'
  BY <1>2 DEF Known
<1> QED
  BY <1>2, <1>3, <1>4, <1>5, <1>6 DEF Attempt

(* Nothing is pending that creates a stream.                               *)
LEMMA NoneCreates ==
    ASSUME NEW y
    PROVE  /\ Uncreating' => ~Waiting({"create"}, y)'
           /\ calls' = calls => Waiting({"create"}, y)' = Waiting({"create"}, y)
  BY DEF Uncreating, Waiting

(* Calls of an event or a message, or of a call that creates nothing.      *)
LEMMA Creatingless ==
    ASSUME IInv
    PROVE  /\ Idle /\ calls' = calls => Uncreating'
           /\ \A op \in Ops \ {"create"} : \A z \in Zones : calls' = <<Call(op, z)>> => Uncreating'
           /\ \A z \in Zones, next \in Seq(Calls) :
                 LeaveGroup(z, next) /\ (\A c \in SeqSet(next) : c.op # "create") => Uncreating'
           /\ \A op \in Ops \ {"create"}, more \in Seq(Calls) :
                 Running(op) /\ Return(more) /\ (\A c \in SeqSet(more) : c.op # "create") => Uncreating'
<1>1. TypeInv
  BY DEF IInv
<1>2. Idle /\ calls' = calls => Uncreating'
  BY IdleWaits DEF Uncreating
<1>3. ASSUME NEW op \in Ops \ {"create"}, NEW z \in Zones, calls' = <<Call(op, z)>>
      PROVE  Uncreating'
  BY <1>3, OneCall DEF Uncreating
<1>4. ASSUME NEW z \in Zones, NEW next \in Seq(Calls), LeaveGroup(z, next),
             \A c \in SeqSet(next) : c.op # "create"
      PROVE  Uncreating'
  BY <1>1, <1>4, Left DEF Uncreating
<1>5. ASSUME NEW op \in Ops \ {"create"}, NEW more \in Seq(Calls), Running(op), Return(more),
             \A c \in SeqSet(more) : c.op # "create"
      PROVE  Uncreating'
  <2>1. calls # <<>> /\ \A c \in SeqSet(Tail(calls)) : c.op # "create"
    BY <1>5, RunningCall
  <2> QED
    BY <1>1, <1>5, <2>1, Returned DEF Uncreating
<1> QED
  BY <1>2, <1>3, <1>4, <1>5

(* The timer is armed for the given stream, or disarmed.                   *)
LEMMA Rearmed ==
    ASSUME NEW s \in Session, NEW g \in Nat
    PROVE  WithRetry(s, g).retry \in {0, g}
  BY DEF WithRetry, Session

----------------------------------------------------------------------------
(* Workers, timers and clocks.                                             *)

(* The worker takes its command along: it is still one attempt.            *)
LEMMA WorkerTakeTracks ==
    ASSUME IInv, \A y \in Zones : Track(y), NEW z \in Zones, WorkerTake(z)
    PROVE  \A y \in Zones : Track(y)'
<1>1. /\ UNCHANGED <<sessions, generation, registry, cohorts, groups, calls, slot, answers, preps,
                     retries, cleanups, wake>>
      /\ fresh[z] /\ busy[z] = Nothing
      /\ busy' = [busy EXCEPT ![z] = slot[z]] /\ fresh' = [fresh EXCEPT ![z] = FALSE]
  BY DEF WorkerTake, inbox
<1>2. TypeInv /\ RoomInv(z) /\ Track(z)
  BY DEF IInv
<1>3. busy'[z] = slot[z] /\ ~fresh'[z] /\ slot[z] # Nothing
  BY <1>1, <1>2 DEF TypeInv, Channels, RoomInv, Drawn
<1>4. \A y \in Zones \ {z} : Unstirred(y)
  <2>1. \A y \in Zones \ {z} : fresh'[y] = fresh[y] /\ busy'[y] = busy[y]
    BY <1>1, <1>2 DEF TypeInv, Channels
  <2> QED
    BY <1>1, <2>1, NoneCreates DEF Unstirred, Same, Counted
<1>5. Track(z)'
  <2>1. /\ ~Sent(z)' /\ Obeyed(z)' = Sent(z) /\ Results(z)' = Results(z) /\ Arrived(z)' = Arrived(z)
        /\ Gathered(z)' = Gathered(z) /\ Retrying(z)' = Retrying(z) /\ Playing(z)' = Playing(z)
        /\ ~Obeyed(z)
    BY <1>1, <1>3 DEF Sent, Obeyed, Results, Arrived, Gathered, Counted, Retrying, Playing
  <2>2. \A ops : Waiting(ops, z)' = Waiting(ops, z)
    BY <1>1 DEF Waiting
  <2>3. Live(z)' = Live(z) /\ Wanted(z)' = Wanted(z) /\ Known(z)'
    BY <1>1, <1>2 DEF Live, Wanted, Track, Known
  <2> QED
    BY <1>1, <1>2, <2>1, <2>2, <2>3 DEF Track, OneAttempt, Attended, Attempt
<1> QED
  BY <1>4, <1>5, UnstirredRoom

(* A command that is given up was of an earlier stream.                    *)
LEMMA WorkerAbandonTracks ==
    ASSUME IInv, \A y \in Zones : Track(y), NEW z \in Zones, WorkerAbandon(z)
    PROVE  \A y \in Zones : Track(y)'
<1>1. /\ UNCHANGED <<sessions, generation, registry, cohorts, groups, calls, slot, fresh, answers, preps,
                     retries, cleanups, wake>>
      /\ fresh[z] /\ busy[z] # Nothing /\ busy' = [busy EXCEPT ![z] = Nothing]
  BY DEF WorkerAbandon, inbox
<1>2. TypeInv /\ RoomInv(z) /\ Track(z)
  BY DEF IInv
<1>3. busy'[z] = Nothing
  BY <1>1, <1>2 DEF TypeInv, Channels
<1>4. \A y \in Zones \ {z} : Unstirred(y)
  <2>1. \A y \in Zones \ {z} : busy'[y] = busy[y]
    BY <1>1, <1>2 DEF TypeInv, Channels
  <2> QED
    BY <1>1, <2>1, NoneCreates DEF Unstirred, Same, Counted
<1>5. Track(z)'
  <2>1. /\ Sent(z)' = Sent(z) /\ ~Obeyed(z)' /\ Results(z)' = Results(z) /\ Arrived(z)' = Arrived(z)
        /\ Gathered(z)' = Gathered(z) /\ Retrying(z)' = Retrying(z) /\ Playing(z)' = Playing(z)
    BY <1>1, <1>3 DEF Sent, Obeyed, Results, Arrived, Gathered, Counted, Retrying, Playing
  <2>2. Live(z) /\ Obeyed(z) => Sent(z)
    BY <1>1, <1>2 DEF RoomInv, InOrder, Told, Obeyed, Sent
  <2>3. \A ops : Waiting(ops, z)' = Waiting(ops, z)
    BY <1>1 DEF Waiting
  <2>4. Live(z)' = Live(z) /\ Wanted(z)' = Wanted(z) /\ Known(z)'
    BY <1>1, <1>2 DEF Live, Wanted, Track, Known
  <2> QED
    BY <1>1, <1>2, <2>1, <2>2, <2>3, <2>4 DEF Track, OneAttempt, Attended, Attempt
<1> QED
  BY <1>4, <1>5, UnstirredRoom

(* The answer takes the place of the command.                              *)
LEMMA WorkerAnswerTracks ==
    ASSUME IInv, \A y \in Zones : Track(y), NEW z \in Zones, WorkerAnswer(z)
    PROVE  \A y \in Zones : Track(y)'
<1> DEFINE b == busy[z]
           n == Len(answers[z]) + 1
<1>1. PICK outcome \in Answers(b.kind) :
        /\ UNCHANGED <<sessions, generation, registry, cohorts, groups, calls, slot, fresh, retries,
                       cleanups, wake>>
        /\ b # Nothing /\ busy' = [busy EXCEPT ![z] = Nothing]
        /\ \/ /\ outcome = "Prepared" /\ UNCHANGED answers
              /\ preps' = [preps EXCEPT ![z] = @ \cup {b.gen}]
           \/ /\ outcome # "Prepared" /\ UNCHANGED preps
              /\ answers' = [answers EXCEPT ![z] = Append(@, [gen |-> b.gen, outcome |-> outcome])]
  BY Zenon DEF WorkerAnswer
<1>2. TypeInv /\ RoomInv(z) /\ Track(z)
  BY DEF IInv
<1>3. b \in Command /\ b.gen \in 0..generation[z]
  BY <1>1, <1>2 DEF TypeInv, Channels, RoomInv, Drawn
<1>4. (b.kind = "Stop") <=> (outcome \in {"Stopped", "StopUnknown"})
  <2>1. b.kind \in Kinds
    BY <1>3 DEF Command
  <2> HIDE DEF b
  <2> QED
    BY <1>1, <2>1 DEF Answers, Kinds
<1>5. busy'[z] = Nothing /\ \A y \in Zones \ {z} : busy'[y] = busy[y]
  BY <1>1, <1>2 DEF TypeInv, Channels
<1>6. answers[z] \in Seq(AnswerMessage) /\ preps[z] \in SUBSET Nat /\ n \in Nat /\ n \notin DOMAIN answers[z]
  BY <1>2 DEF TypeInv
<1>7. /\ \A y \in Zones \ {z} : answers'[y] = answers[y] /\ preps'[y] = preps[y]
      /\ outcome = "Prepared" => answers'[z] = answers[z] /\ preps'[z] = preps[z] \cup {b.gen}
      /\ outcome # "Prepared" =>
            /\ preps'[z] = preps[z]
            /\ DOMAIN answers'[z] = DOMAIN answers[z] \cup {n}
            /\ \A i \in DOMAIN answers[z] : answers'[z][i] = answers[z][i]
            /\ answers'[z][n] = [gen |-> b.gen, outcome |-> outcome]
  <2>1. preps \in [Zones -> SUBSET Nat] /\ answers \in [Zones -> Seq(AnswerMessage)]
    BY <1>2 DEF TypeInv
  <2> HIDE DEF b
  <2>2. CASE outcome = "Prepared"
    BY <1>1, <2>1, <2>2
  <2>3. CASE outcome # "Prepared"
    <3>1. answers'[z] = Append(answers[z], [gen |-> b.gen, outcome |-> outcome])
      BY <1>1, <2>1, <2>3
    <3> QED
      BY <1>1, <1>6, <2>1, <2>3, <3>1
  <2> QED
    BY <2>2, <2>3
<1> HIDE DEF n
<1>8. \A y \in Zones \ {z} : Unstirred(y)
  BY <1>1, <1>5, <1>7, NoneCreates DEF Unstirred, Same, Counted
<1>9. Track(z)'
  <2>1. /\ Sent(z)' = Sent(z) /\ ~Obeyed(z)' /\ Gathered(z)' = Gathered(z)
        /\ Retrying(z)' = Retrying(z) /\ Playing(z)' = Playing(z)
    BY <1>1, <1>5 DEF Sent, Obeyed, Gathered, Counted, Retrying, Playing
  <2>2. /\ ~Obeyed(z) \/ outcome # "Prepared" => Arrived(z)' = Arrived(z)
        /\ Obeyed(z) /\ outcome = "Prepared" => Arrived(z)'
    BY <1>1, <1>4, <1>7 DEF Arrived, Obeyed
  <2>3. /\ ~Obeyed(z) \/ outcome = "Prepared" => Results(z)' = Results(z)
        /\ Obeyed(z) /\ outcome # "Prepared" => Results(z)' = Results(z) \cup {n}
    BY <1>1, <1>4, <1>6, <1>7 DEF Results, Obeyed
  <2>4. \A ops : Waiting(ops, z)' = Waiting(ops, z)
    BY <1>1 DEF Waiting
  <2>5. Live(z)' = Live(z) /\ Wanted(z)' = Wanted(z)
    BY <1>1 DEF Live, Wanted
  <2>6. Known(z)'
    BY <1>1, <1>2, <1>3, <1>7, <2>5 DEF Track, Known
  <2> SUFFICES ASSUME Live(z), sessions[z].gen # 0 PROVE OneAttempt(z)' /\ Attended(z)'
    BY <1>1, <2>5, <2>6 DEF Track
  <2>7. OneAttempt(z) /\ Attended(z)
    BY <1>2 DEF Track
  <2>8. CASE ~Obeyed(z)
    BY <1>1, <2>1, <2>2, <2>3, <2>4, <2>5, <2>7, <2>8 DEF OneAttempt, Attended, Attempt
  <2>9. CASE Obeyed(z)
    <3>1. ~Sent(z) /\ Results(z) = {} /\ ~Arrived(z) /\ ~Gathered(z) /\ ~Retrying(z) /\ ~Playing(z)
          /\ ~Waiting({"create"}, z)
      BY <2>7, <2>9 DEF OneAttempt, Attempt
    <3> QED
      BY <1>1, <2>1, <2>2, <2>3, <2>4, <2>9, <3>1 DEF OneAttempt, Attended, Attempt
  <2> QED
    BY <2>8, <2>9
<1> QED
  BY <1>8, <1>9, UnstirredRoom

(* The timer of a retry becomes its message.                               *)
LEMMA RetryFiresTracks ==
    ASSUME IInv, \A y \in Zones : Track(y), NEW z \in Zones, RetryFires(z)
    PROVE  \A y \in Zones : Track(y)'
<1>1. /\ Idle /\ Live(z) /\ sessions[z].retry # 0
      /\ retries' = [retries EXCEPT ![z] = @ \cup {sessions[z].retry}]
      /\ sessions' = [sessions EXCEPT ![z].retry = 0]
      /\ UNCHANGED <<generation, registry, cohorts, groups, calls, slot, fresh, busy, answers, preps,
                     cleanups, wake>>
  BY DEF RetryFires, workers
<1>2. TypeInv /\ Track(z)
  BY DEF IInv
<1>3. sessions[z] \in Session /\ generation[z] \in Nat
  BY <1>1, <1>2, Fresh
<1>4. PICK e \in Session : e = [sessions[z] EXCEPT !.retry = 0]
  BY <1>3, SessionTypes
<1>5. /\ e.gen = sessions[z].gen /\ e.desired = sessions[z].desired /\ e.observed = sessions[z].observed
      /\ e.encoder = sessions[z].encoder /\ e.prepared = sessions[z].prepared /\ e.retry = 0
  BY <1>3, <1>4 DEF Session
<1>6. sessions'[z] = e /\ \A y \in Zones \ {z} : sessions'[y] = sessions[y]
  BY <1>1, <1>2, <1>4, OneSession
<1>7. retries'[z] = retries[z] \cup {sessions[z].retry} /\ \A y \in Zones \ {z} : retries'[y] = retries[y]
  BY <1>1, <1>2 DEF TypeInv
<1>8. \A y \in Zones \ {z} : Unstirred(y)
  BY <1>1, <1>6, <1>7, NoneCreates DEF Unstirred, Same, Counted
<1>9. Track(z)'
  <2>1. Live(z)' /\ Wanted(z)' = Wanted(z)
    BY <1>1, <1>5, <1>6, NothingAssumption DEF Live, Wanted
  <2>2. /\ Sent(z)' = Sent(z) /\ Obeyed(z)' = Obeyed(z) /\ Results(z)' = Results(z)
        /\ Arrived(z)' = Arrived(z) /\ Gathered(z)' = Gathered(z) /\ Playing(z)' = Playing(z)
        /\ sessions[z].gen # 0 => Retrying(z)' = Retrying(z)
    BY <1>1, <1>5, <1>6, <1>7 DEF Sent, Obeyed, Results, Arrived, Gathered, Counted, Retrying, Playing
  <2>3. \A ops : Waiting(ops, z)' = Waiting(ops, z)
    BY <1>1 DEF Waiting
  <2>4. Known(z)'
    BY <1>1, <1>2, <1>3, <1>5, <1>6, <1>7 DEF Track, Known
  <2> QED
    BY <1>1, <1>2, <1>5, <1>6, <2>1, <2>2, <2>3, <2>4 DEF Track, OneAttempt, Attended, Attempt
<1> QED
  BY <1>8, <1>9, UnstirredRoom

(* Between two events, a room that the event does not name takes no part.  *)
LEMMA OtherRooms ==
    ASSUME Idle, NEW z \in Zones, Uncreating', cohorts' = cohorts, DOMAIN groups' \subseteq DOMAIN groups,
           \A y \in Zones \ {z} :
              /\ sessions'[y] = sessions[y] /\ generation'[y] = generation[y] /\ registry'[y] = registry[y]
              /\ slot'[y] = slot[y] /\ fresh'[y] = fresh[y] /\ busy'[y] = busy[y]
              /\ answers'[y] = answers[y] /\ preps'[y] = preps[y] /\ retries'[y] = retries[y]
    PROVE  \A y \in Zones \ {z} : Unstirred(y)
  BY IdleWaits, NoneCreates DEF Unstirred, Same, Counted

(* The commands and answers of a room stay, and so do their generations.   *)
ChannelsStay(z) ==
    /\ generation'[z] = generation[z] /\ cohorts' = cohorts
    /\ slot'[z] = slot[z] /\ fresh'[z] = fresh[z] /\ busy'[z] = busy[z]
    /\ answers'[z] = answers[z] /\ preps'[z] = preps[z]

(* The session changes and keeps its stream: no attempt begins, and the    *)
(* retry stays or is disarmed.                                             *)
LEMMA SessionTracks ==
    ASSUME TypeInv, NEW z \in Zones, Live(z), Track(z), ChannelsStay(z), Uncreating',
           NEW e \in Session, sessions'[z] = e, e.gen = sessions[z].gen,
           e.retry \in {0, sessions[z].retry}, retries'[z] \subseteq retries[z],
           e.observed = "Playing" => Playing(z), e.prepared => sessions[z].prepared,
           \/ ~e.desired \/ e.encoder = 0 \/ z \notin DOMAIN groups' \/ Waiting({"restart"}, z)'
           \/ /\ Idle /\ Wanted(z) /\ e.encoder = sessions[z].encoder /\ e.observed = sessions[z].observed
              /\ DOMAIN groups' \subseteq DOMAIN groups
              /\ sessions[z].gen # 0 /\ Retrying(z) => Retrying(z)'
    PROVE  Track(z)'
<1>1. Live(z)' /\ (Wanted(z)' <=> e.desired)
  BY NothingAssumption DEF Live, Wanted
<1>2. Known(z)'
  <2>1. sessions[z].retry \in Nat /\ generation[z] \in Nat /\ 0 \in 0..generation[z]
    BY DEF TypeInv, Live, Sessions, Session
  <2> QED
    BY <1>1, <2>1 DEF Track, Known, ChannelsStay
<1>3. /\ Sent(z)' = Sent(z) /\ Obeyed(z)' = Obeyed(z) /\ Results(z)' = Results(z)
      /\ Arrived(z)' = Arrived(z) /\ Gathered(z)' = Gathered(z)
  BY DEF ChannelsStay, Sent, Obeyed, Results, Arrived, Gathered, Counted
<1>4. Playing(z)' => Playing(z)
  BY DEF Playing
<1>5. ~Waiting({"create"}, z)'
  BY NoneCreates
<1> SUFFICES ASSUME sessions[z].gen # 0 PROVE OneAttempt(z)' /\ Attended(z)'
  BY <1>1, <1>2 DEF Track
<1>6. Retrying(z)' => Retrying(z)
  BY DEF Retrying
<1>7. OneAttempt(z) /\ Attended(z)
  BY DEF Track
<1>8. OneAttempt(z)'
  BY <1>3, <1>4, <1>5, <1>6, <1>7 DEF OneAttempt, Attempt
<1>9. Attended(z)'
  <2>1. CASE \/ ~e.desired \/ e.encoder = 0 \/ z \notin DOMAIN groups' \/ Waiting({"restart"}, z)'
    BY <1>1, <2>1 DEF Attended, Waiting
  <2>2. CASE /\ Idle /\ Wanted(z) /\ e.encoder = sessions[z].encoder /\ e.observed = sessions[z].observed
             /\ DOMAIN groups' \subseteq DOMAIN groups
             /\ Retrying(z) => Retrying(z)'
    <3>1. ~Waiting({"restart", "replace", "create"}, z)
      BY <2>2, IdleWaits
    <3> QED
      BY <1>3, <1>7, <2>2, <3>1 DEF Attended, Attempt, Playing
  <2> QED
    BY <2>1, <2>2
<1> QED
  BY <1>8, <1>9

(* The grace of a paused session ends: nothing of its stream changes.      *)
LEMMA CleanupFiresTracks ==
    ASSUME IInv, \A y \in Zones : Track(y), NEW z \in Zones, CleanupFires(z)
    PROVE  \A y \in Zones : Track(y)'
<1> DEFINE s == sessions[z]
           e == [s EXCEPT !.cleanup = "due"]
<1>1. /\ UNCHANGED <<generation, registry, cohorts, groups, calls, slot, fresh, busy, answers, preps,
                     retries, wake>>
      /\ Idle /\ Live(z) /\ sessions' = [sessions EXCEPT ![z] = e]
  BY DEF CleanupFires, workers
<1>2. TypeInv /\ Track(z)
  BY DEF IInv
<1>3. s \in Session
  BY <1>1, <1>2, Fresh
<1>4. /\ e \in Session /\ e.gen = s.gen /\ e.desired = s.desired /\ e.retry = s.retry
      /\ e.observed = s.observed /\ e.encoder = s.encoder /\ e.prepared = s.prepared
  <2> HIDE DEF s
  <2> QED
    BY <1>3 DEF Session
<1> HIDE DEF e
<1>5. sessions'[z] = e /\ \A y \in Zones \ {z} : sessions'[y] = sessions[y]
  BY <1>1, <1>2, <1>4, OneSession
<1>6. Uncreating'
  BY <1>1, Creatingless
<1>7. \A y \in Zones \ {z} : Unstirred(y)
  BY <1>1, <1>5, <1>6, OtherRooms
<1>8. Track(z)'
  <2>1. Retrying(z)' = Retrying(z) /\ ChannelsStay(z)
    BY <1>1, <1>4, <1>5 DEF Retrying, ChannelsStay
  <2> QED
    BY <1>1, <1>2, <1>4, <1>5, <1>6, <2>1, SessionTracks DEF Wanted, Playing
<1> QED
  BY <1>7, <1>8, UnstirredRoom

(* The stream of a paused session ends.                                    *)
LEMMA StreamEndedTracks ==
    ASSUME IInv, \A y \in Zones : Track(y), NEW z \in Zones, StreamEndedWhilePaused(z)
    PROVE  \A y \in Zones : Track(y)'
<1> DEFINE s == sessions[z]
           e == [s EXCEPT !.reset = TRUE, !.cleanup = "armed"]
<1>1. /\ UNCHANGED <<generation, registry, cohorts, groups, calls, slot, fresh, busy, answers, preps,
                     retries, cleanups, wake>>
      /\ Idle /\ Live(z) /\ ~s.desired /\ sessions' = [sessions EXCEPT ![z] = e]
  BY DEF StreamEndedWhilePaused, Event, workers, inbox
<1>2. TypeInv /\ Track(z)
  BY DEF IInv
<1>3. s \in Session
  BY <1>1, <1>2, Fresh
<1>4. /\ e \in Session /\ e.gen = s.gen /\ ~e.desired /\ e.retry = s.retry
      /\ e.observed = s.observed /\ e.prepared = s.prepared
  <2> HIDE DEF s
  <2> QED
    BY <1>1, <1>3 DEF Session
<1> HIDE DEF e
<1>5. sessions'[z] = e /\ \A y \in Zones \ {z} : sessions'[y] = sessions[y]
  BY <1>1, <1>2, <1>4, OneSession
<1>6. Uncreating'
  BY <1>1, Creatingless
<1>7. \A y \in Zones \ {z} : Unstirred(y)
  BY <1>1, <1>5, <1>6, OtherRooms
<1>8. Track(z)'
  BY <1>1, <1>2, <1>4, <1>5, <1>6, SessionTracks DEF ChannelsStay, Playing
<1> QED
  BY <1>7, <1>8, UnstirredRoom

(* A deadline of a cohort passes: what the cohort counts stays.            *)
LEMMA CohortTickTracks ==
    ASSUME IInv, \A y \in Zones : Track(y), NEW i \in DOMAIN cohorts, CohortTick(i)
    PROVE  \A y \in Zones : Track(y)'
<1> DEFINE c == cohorts[i]
           d == [c EXCEPT !.phase = IF c.phase = "open" THEN "closed" ELSE "expired"]
<1>1. /\ UNCHANGED <<sessions, generation, registry, groups, calls, slot, fresh, busy, answers, preps,
                     retries, cleanups>>
      /\ cohorts' = [cohorts EXCEPT ![i] = d]
  BY Zenon DEF CohortTick, workers
<1>2. cohorts \in Seq(Cohort) /\ c \in Cohort
  BY DEF IInv, TypeInv
<1>3. d \in Cohort /\ d.prepared = c.prepared
  <2> HIDE DEF c
  <2> QED
    BY <1>2 DEF Cohort, Phases
<1> HIDE DEF d
<1>4. DOMAIN cohorts' = DOMAIN cohorts /\ \A j \in DOMAIN cohorts : cohorts'[j].prepared = cohorts[j].prepared
  <2>1. /\ DOMAIN cohorts' = DOMAIN cohorts /\ cohorts'[i] = d
        /\ \A j \in DOMAIN cohorts : j # i => cohorts'[j] = cohorts[j]
    BY <1>1, <1>2, <1>3, SetAt
  <2> QED
    BY <1>3, <2>1
<1>5. \A y \in Zones : Unstirred(y)
  BY <1>1, <1>4, NoneCreates DEF Unstirred, Same, Counted
<1> QED
  BY <1>5, UnstirredRoom

(* The wake is taken.                                                      *)
LEMMA HandleWakeTracks ==
    ASSUME IInv, \A y \in Zones : Track(y), HandleWake
    PROVE  \A y \in Zones : Track(y)'
<1>1. PICK z \in Zones :
        /\ UNCHANGED <<sessions, generation, registry, cohorts, groups, slot, fresh, busy, answers, preps,
                       retries, cleanups>>
        /\ Idle /\ calls' = <<Call("release", z)>>
  BY DEF HandleWake, workers
<1>2. Uncreating'
  BY <1>1, Creatingless DEF Ops
<1>3. \A y \in Zones : Unstirred(y)
  BY <1>1, <1>2, IdleWaits, NoneCreates DEF Unstirred, Same, Counted
<1> QED
  BY <1>3, UnstirredRoom

----------------------------------------------------------------------------
(* AirPlay events.                                                         *)

(* The sender plays: what was under way stays so, or the room restarts.    *)
LEMMA SetPlayingTracks ==
    ASSUME IInv, \A y \in Zones : Track(y), NEW z \in Zones, SetPlaying(z)
    PROVE  \A y \in Zones : Track(y)'
<1> DEFINE s == sessions[z]
           e == [s EXCEPT !.desired = TRUE, !.attempts = 0, !.cleanup = "none"]
<1>1. /\ UNCHANGED <<generation, registry, cohorts, groups, slot, fresh, busy, answers, preps, retries,
                     cleanups, wake>>
      /\ Idle /\ Live(z) /\ sessions' = [sessions EXCEPT ![z] = e]
      /\ calls' = IF ~s.desired \/ s.reset THEN <<Call("restart", z)>> ELSE <<>>
  BY DEF SetPlaying, Event, workers, inbox
<1>2. TypeInv /\ Track(z)
  BY DEF IInv
<1>3. s \in Session
  BY <1>1, <1>2, Fresh
<1>4. e \in Session
  BY <1>3, SessionTypes
<1>5. /\ e.gen = s.gen /\ e.encoder = s.encoder /\ e.desired /\ e.observed = s.observed
      /\ e.prepared = s.prepared /\ e.retry = s.retry
  <2> HIDE DEF s
  <2> QED
    BY <1>3 DEF Session
<1> HIDE DEF e
<1>6. sessions'[z] = e /\ \A y \in Zones \ {z} : sessions'[y] = sessions[y]
  BY <1>1, <1>2, <1>4, OneSession
<1>7. Uncreating' /\ (s.desired \/ Waiting({"restart"}, z)')
  <2>1. CASE ~s.desired \/ s.reset
    BY <1>1, <2>1, Creatingless, OneCall DEF Ops
  <2>2. CASE ~(~s.desired \/ s.reset)
    BY <1>1, <2>2, Creatingless DEF Idle
  <2> QED
    BY <2>1, <2>2
<1>8. \A y \in Zones \ {z} : Unstirred(y)
  BY <1>1, <1>6, <1>7, OtherRooms
<1>9. Track(z)'
  <2>1. Retrying(z)' = Retrying(z) /\ ChannelsStay(z)
    BY <1>1, <1>5, <1>6 DEF Retrying, ChannelsStay
  <2> QED
    BY <1>1, <1>2, <1>4, <1>5, <1>6, <1>7, <2>1, SessionTracks DEF Wanted, Playing
<1> QED
  BY <1>8, <1>9, UnstirredRoom

(* A room that should not play any more.                                   *)
LEMMA PausedTracks ==
    ASSUME IInv, \A y \in Zones : Track(y), Idle, NEW z \in Zones, Live(z), NEW e \in Session,
           sessions' = [sessions EXCEPT ![z] = e], e.gen = sessions[z].gen, ~e.desired,
           e.observed = "Unknown", ~e.prepared, e.retry = 0,
           \A y \in Zones \ {z} : registry'[y] = registry[y],
           LeaveGroup(z, <<Call("pause", z)>>),
           UNCHANGED <<generation, cohorts, slot, fresh, busy, answers, preps, retries, cleanups, wake>>
    PROVE  \A y \in Zones : Track(y)'
<1>1. TypeInv /\ Track(z)
  BY DEF IInv
<1>2. sessions'[z] = e /\ \A y \in Zones \ {z} : sessions'[y] = sessions[y]
  BY <1>1, OneSession
<1>3. Uncreating'
  <2>1. PICK more : more = <<Call("pause", z)>>
    OBVIOUS
  <2>2. more \in Seq(Calls) /\ SeqSet(more) = {Call("pause", z)} /\ Call("pause", z).op = "pause"
    BY <2>1, OneMore DEF Ops
  <2>3. \A c \in SeqSet(more) : c.op # "create"
    BY <2>2
  <2>4. LeaveGroup(z, more)
    BY <2>1, Zenon
  <2> QED
    BY <2>2, <2>3, <2>4, Creatingless, Zenon
<1>4. DOMAIN groups' \subseteq DOMAIN groups
  BY <1>1, Members DEF LeaveGroup
<1>5. \A y \in Zones \ {z} : Unstirred(y)
  BY <1>2, <1>3, <1>4, OtherRooms
<1>6. Track(z)'
  BY <1>1, <1>2, <1>3, SessionTracks DEF ChannelsStay
<1> QED
  BY <1>5, <1>6, UnstirredRoom

(* The sender pauses.                                                      *)
LEMMA SetPausedTracks ==
    ASSUME IInv, \A y \in Zones : Track(y), NEW z \in Zones, SetPaused(z)
    PROVE  \A y \in Zones : Track(y)'
<1> DEFINE s == sessions[z]
           e == Paused(s)
<1>1. /\ UNCHANGED <<generation, registry, cohorts, slot, fresh, busy, answers, preps, retries,
                     cleanups, wake>>
      /\ Idle /\ Live(z) /\ sessions' = [sessions EXCEPT ![z] = e]
      /\ LeaveGroup(z, <<Call("pause", z)>>)
  BY DEF SetPaused, Event, workers, inbox
<1>2. s \in Session
  BY <1>1, LiveRoom
<1>3. e \in Session
  BY <1>2, SessionTypes
<1>4. e.gen = s.gen /\ ~e.desired /\ e.observed = "Unknown" /\ ~e.prepared /\ e.retry = 0
  <2> HIDE DEF s
  <2> QED
    BY <1>2 DEF Session, Paused
<1> HIDE DEF e
<1> QED
  BY <1>1, <1>3, <1>4, PausedTracks

(* A flush restarts a room that should play, and pauses one that should    *)
(* not.                                                                    *)
LEMMA FlushedTracks ==
    ASSUME IInv, \A y \in Zones : Track(y), NEW z \in Zones, Flushed(z)
    PROVE  \A y \in Zones : Track(y)'
<1> DEFINE s == sessions[z]
           e == Paused([s EXCEPT !.encoder = 0])
<1>1. /\ UNCHANGED <<generation, cohorts, slot, fresh, busy, answers, preps, retries, cleanups, wake>>
      /\ Idle /\ Live(z)
      /\ \/ /\ s.desired /\ calls' = <<Call("restart", z)>> /\ UNCHANGED <<sessions, registry, groups>>
         \/ /\ ~s.desired /\ sessions' = [sessions EXCEPT ![z] = e]
            /\ registry' = [registry EXCEPT ![z] = 0] /\ LeaveGroup(z, <<Call("pause", z)>>)
  BY Zenon DEF Flushed, Event, workers, inbox
<1>2. TypeInv /\ s \in Session /\ Track(z)
  BY <1>1, LiveRoom DEF IInv
<1>3. CASE calls' = <<Call("restart", z)>> /\ UNCHANGED <<sessions, registry, groups>>
  <2>1. Uncreating' /\ Waiting({"restart"}, z)'
    BY <1>3, Creatingless, OneCall DEF Ops
  <2>2. \A y \in Zones \ {z} : Unstirred(y)
    BY <1>1, <1>3, <2>1, OtherRooms
  <2>3. Track(z)'
    <3>1. sessions'[z] = s
      BY <1>3
    <3> HIDE DEF s
    <3>2. s = sessions[z] /\ ChannelsStay(z) /\ retries'[z] = retries[z]
      BY <1>1 DEF s, ChannelsStay
    <3> QED
      BY <1>1, <1>2, <2>1, <3>1, <3>2, SessionTracks DEF Playing
  <2> QED
    BY <2>2, <2>3, UnstirredRoom
<1>4. CASE /\ ~s.desired /\ sessions' = [sessions EXCEPT ![z] = e]
           /\ registry' = [registry EXCEPT ![z] = 0] /\ LeaveGroup(z, <<Call("pause", z)>>)
  <2> DEFINE u == [s EXCEPT !.encoder = 0]
  <2>1. u \in Session /\ u.gen = s.gen
    <3> HIDE DEF s
    <3> QED
      BY <1>2 DEF Session
  <2>2. e = Paused(u)
    OBVIOUS
  <2> HIDE DEF e, u
  <2>3. e \in Session
    BY <2>1, <2>2, SessionTypes
  <2>4. e.gen = s.gen /\ ~e.desired /\ e.observed = "Unknown" /\ ~e.prepared /\ e.retry = 0
    <3> HIDE DEF s
    <3> QED
      BY <2>1, <2>2 DEF Session, Paused
  <2>5. \A y \in Zones \ {z} : registry'[y] = registry[y]
    BY <1>2, <1>4 DEF TypeInv
  <2> QED
    BY <1>1, <1>4, <2>3, <2>4, <2>5, PausedTracks
<1> QED
  BY <1>1, <1>3, <1>4

(* The session of a room ends.                                             *)
LEMMA StoppedSessionTracks ==
    ASSUME IInv, \A y \in Zones : Track(y), Idle, NEW z \in Zones, NEW next \in {<<>>, <<Call("begin", z)>>},
           StopSession(z, next), Live(z),
           UNCHANGED <<generation, cohorts, slot, fresh, busy, answers, preps, retries, wake>>
    PROVE  \A y \in Zones : Track(y)'
<1> DEFINE stopped == [Call("stopped", z) EXCEPT !.gen = sessions[z].gen]
           more == <<stopped>> \o next
<1>1. TypeInv /\ Track(z) /\ sessions[z].gen \in Nat
  BY LiveRoom DEF IInv
<1>2. /\ sessions' = [sessions EXCEPT ![z] = Nothing] /\ registry' = [registry EXCEPT ![z] = 0]
      /\ LeaveGroup(z, more)
  BY DEF StopSession
<1>3. /\ sessions'[z] = Nothing /\ \A y \in Zones \ {z} : sessions'[y] = sessions[y]
      /\ \A y \in Zones \ {z} : registry'[y] = registry[y]
  BY <1>1, <1>2 DEF TypeInv, Sessions
<1>4. more \in Seq(Calls) /\ \A c \in SeqSet(more) : c.op # "create"
  <2>1. stopped \in Calls /\ stopped.op = "stopped"
    BY <1>1, CallTypes DEF Ops
  <2>2. next \in Seq(Calls) /\ \A c \in SeqSet(next) : c.op = "begin"
    BY BeginCall
  <2> HIDE DEF stopped
  <2>3. <<stopped>> \in Seq(Calls) /\ SeqSet(<<stopped>>) = {stopped}
    BY <2>1, SetOfOne
  <2>4. more \in Seq(Calls) /\ SeqSet(more) = SeqSet(<<stopped>>) \cup SeqSet(next)
    <3>1. PICK one : one = <<stopped>>
      OBVIOUS
    <3>2. \A s, t : s \in Seq(Calls) /\ t \in Seq(Calls) =>
                      /\ s \o t \in Seq(Calls)
                      /\ SeqSet(s \o t) = SeqSet(s) \cup SeqSet(t)
      BY SetOfJoined
    <3>3. one \in Seq(Calls) /\ more = one \o next /\ SeqSet(one) = SeqSet(<<stopped>>)
      BY <2>3, <3>1, Zenon
    <3>4. one \o next \in Seq(Calls) /\ SeqSet(one \o next) = SeqSet(one) \cup SeqSet(next)
      BY <2>2, <3>2, <3>3, Zenon
    <3> QED
      BY <3>3, <3>4, Zenon
  <2> HIDE DEF more
  <2> QED
    BY <2>1, <2>2, <2>3, <2>4
<1> HIDE DEF more
<1>5. Uncreating'
  BY <1>2, <1>4, Creatingless
<1>6. DOMAIN groups' \subseteq DOMAIN groups
  BY <1>1, <1>2, Members DEF LeaveGroup
<1>7. \A y \in Zones \ {z} : Unstirred(y)
  BY <1>3, <1>5, <1>6, OtherRooms
<1>8. Track(z)'
  BY <1>1, <1>3 DEF Track, Known, Live
<1> QED
  BY <1>7, <1>8, UnstirredRoom

(* A session starts.                                                       *)
LEMMA SessionStartedTracks ==
    ASSUME IInv, \A y \in Zones : Track(y), NEW z \in Zones, SessionStarted(z)
    PROVE  \A y \in Zones : Track(y)'
<1>1. /\ Idle
      /\ IF Live(z) THEN StopSession(z, <<Call("begin", z)>>)
         ELSE calls' = <<Call("begin", z)>> /\ UNCHANGED <<sessions, registry, groups>>
      /\ UNCHANGED <<generation, cohorts, slot, fresh, busy, answers, preps, retries, cleanups, wake>>
  BY Zenon DEF SessionStarted, Event, workers, inbox
<1>2. CASE Live(z)
  BY <1>1, <1>2, StoppedSessionTracks
<1>3. CASE ~Live(z)
  <2>1. calls' = <<Call("begin", z)>> /\ UNCHANGED <<sessions, registry, groups>>
    BY <1>1, <1>3
  <2>2. Uncreating'
    BY <2>1, Creatingless DEF Ops
  <2>3. \A y \in Zones \ {z} : Unstirred(y)
    BY <1>1, <2>1, <2>2, OtherRooms
  <2>4. Track(z)'
    BY <1>1, <1>3, <2>1 DEF Track, Known, Live
  <2> QED
    BY <2>3, <2>4, UnstirredRoom
<1> QED
  BY <1>2, <1>3

(* A session stops.                                                        *)
LEMMA SessionStoppedTracks ==
    ASSUME IInv, \A y \in Zones : Track(y), NEW z \in Zones, SessionStopped(z)
    PROVE  \A y \in Zones : Track(y)'
<1>1. /\ UNCHANGED <<generation, cohorts, slot, fresh, busy, answers, preps, retries, cleanups, wake>>
      /\ Idle /\ Live(z) /\ StopSession(z, <<>>)
  BY DEF SessionStopped, Event, workers, inbox
<1> QED
  BY <1>1, StoppedSessionTracks

(* The grace message ends a session, or changes nothing.                   *)
LEMMA HandleCleanupTracks ==
    ASSUME IInv, \A y \in Zones : Track(y), NEW z \in Zones, HandleCleanup(z)
    PROVE  \A y \in Zones : Track(y)'
<1>1. /\ UNCHANGED <<generation, cohorts, slot, fresh, busy, answers, preps, retries, wake>>
      /\ Idle
      /\ \/ Live(z) /\ StopSession(z, <<>>)
         \/ UNCHANGED <<sessions, registry, groups, calls>>
  BY Zenon DEF HandleCleanup, workers
<1>2. CASE Live(z) /\ StopSession(z, <<>>)
  BY <1>1, <1>2, StoppedSessionTracks
<1>3. CASE UNCHANGED <<sessions, registry, groups, calls>>
  <2>1. \A y \in Zones : Unstirred(y)
    BY <1>1, <1>3, NoneCreates DEF Unstirred, Same, Counted
  <2> QED
    BY <2>1, UnstirredRoom
<1> QED
  BY <1>1, <1>2, <1>3

(* An encoder closes: the new stream has a retry, or no encoder.           *)
LEMMA EncoderClosedTracks ==
    ASSUME IInv, \A y \in Zones : Track(y), NEW z \in Zones, EncoderClosed(z)
    PROVE  \A y \in Zones : Track(y)'
<1> DEFINE s == sessions[z]
           g == NextGeneration(z)
           lost == [s EXCEPT !.prepared = FALSE, !.reset = TRUE, !.encoder = 0, !.gen = g]
           e == IF lost.desired THEN WithRetry(lost, g) ELSE lost
<1>1. /\ UNCHANGED <<cohorts, groups, calls, answers, preps, retries, cleanups, wake>>
      /\ Idle /\ Live(z) /\ generation' = [generation EXCEPT ![z] = g]
      /\ sessions' = [sessions EXCEPT ![z] = e] /\ Put(z, "Stop", g)
      /\ registry' = [registry EXCEPT ![z] = 0]
  BY DEF EncoderClosed, Event, inbox
<1>2. TypeInv /\ RoomInv(z) /\ Track(z)
  BY DEF IInv
<1>3. s \in Session /\ g \in Nat /\ generation[z] \in Nat /\ g > generation[z]
  BY <1>1, <1>2, Fresh
<1> HIDE DEF g
<1>4. lost \in Session
  BY <1>3, SessionTypes
<1>5. lost.encoder = 0 /\ lost.gen = g /\ lost.retry = s.retry /\ ~lost.prepared
  <2> HIDE DEF s
  <2> QED
    BY <1>3 DEF Session
<1> HIDE DEF lost
<1>6. e \in Session /\ e.encoder = 0 /\ e.gen = g /\ e.retry \in {0, g, s.retry} /\ ~e.prepared
  <2> DEFINE w == WithRetry(lost, g)
  <2>1. w \in Session
    BY <1>3, <1>4, SessionTypes
  <2>2. w.gen = lost.gen /\ w.encoder = lost.encoder /\ w.prepared = lost.prepared /\ w.retry \in {0, g}
    BY <1>3, <1>4, Retried, Rearmed, Zenon
  <2>3. e = IF lost.desired THEN w ELSE lost
    OBVIOUS
  <2> HIDE DEF w, e
  <2> QED
    BY <1>4, <1>5, <2>1, <2>2, <2>3
<1> HIDE DEF e
<1>7. sessions'[z] = e /\ \A y \in Zones \ {z} : sessions'[y] = sessions[y]
  BY <1>1, <1>2, <1>6, OneSession
<1>8. /\ busy' = busy /\ slot'[z].kind = "Stop"
      /\ \A y \in Zones : y # z => slot'[y] = slot[y] /\ fresh'[y] = fresh[y]
  <2>1. "Stop" \in Kinds
    BY DEF Kinds
  <2> QED
    BY <1>1, <1>2, <1>3, <2>1, PutTypes
<1>9. /\ generation'[z] = g
      /\ \A y \in Zones \ {z} : registry'[y] = registry[y] /\ generation'[y] = generation[y]
  BY <1>1, <1>2, <1>3 DEF TypeInv
<1>10. Uncreating'
  BY <1>1, Creatingless
<1>11. \A y \in Zones \ {z} : Unstirred(y)
  BY <1>1, <1>7, <1>8, <1>9, <1>10, OtherRooms
<1>12. Track(z)'
  <2>1. Live(z)' /\ Counted(z)' = Counted(z)
    BY <1>1, <1>6, <1>7, NothingAssumption DEF Live, Counted
  <2>2. s.retry \in 0..generation[z] /\ 0 \in 0..generation[z]
    BY <1>1, <1>2, <1>3 DEF Track, Known
  <2>3. ~Attempt(z)' /\ Known(z)'
    BY <1>1, <1>2, <1>3, <1>6, <1>7, <1>8, <1>9, <2>1, <2>2, NewGeneration DEF RoomInv, Track
  <2>4. ~Waiting({"create"}, z)' /\ ~sessions'[z].prepared
    BY <1>6, <1>7, <1>10, NoneCreates
  <2> QED
    BY <1>6, <1>7, <2>1, <2>3, <2>4 DEF Track, OneAttempt, Attended, Attempt
<1> QED
  BY <1>11, <1>12, UnstirredRoom

----------------------------------------------------------------------------
(* Answers and retries.                                                    *)

(* The others move up when the oldest answer is taken.                     *)
LEMMA ResultTaken ==
    ASSUME TypeInv, NEW z \in Zones, answers[z] # <<>>, answers' = [answers EXCEPT ![z] = Tail(@)],
           sessions'[z].gen = sessions[z].gen
    PROVE  /\ \A i \in Results(z)' : i \in Nat \ {0} /\ i + 1 \in Results(z)
           /\ \A i \in Results(z) : i # 1 => Results(z)' # {}
           /\ 1 \in Results(z) <=> /\ Head(answers[z]).gen = sessions[z].gen
                                   /\ Head(answers[z]).outcome \notin {"Stopped", "StopUnknown"}
<1> DEFINE s == answers[z]
           t == Tail(s)
<1>1. s \in Seq(AnswerMessage) /\ answers'[z] = t
  BY DEF TypeInv
<1>2. /\ \A i \in DOMAIN t : i \in Nat \ {0} /\ i + 1 \in DOMAIN s /\ t[i] = s[i + 1]
      /\ \A i \in DOMAIN s : i \in Nat /\ (i # 1 => i - 1 \in DOMAIN t /\ t[i - 1] = s[i])
      /\ 1 \in DOMAIN s /\ s[1] = Head(s)
  <2>1. s # <<>>
    OBVIOUS
  <2> HIDE DEF s
  <2>2. t \in Seq(AnswerMessage) /\ Len(s) # 0 /\ Len(t) = Len(s) - 1
        /\ \A i \in 1..Len(t) : t[i] = s[i + 1]
    BY <1>1, <2>1
  <2> HIDE DEF t
  <2> QED
    BY <1>1, <2>1, <2>2
<1> HIDE DEF t
<1>3. \A i : i \in Results(z)' <=> /\ i \in DOMAIN t /\ t[i].gen = sessions[z].gen
                                   /\ t[i].outcome \notin {"Stopped", "StopUnknown"}
  BY <1>1 DEF Results
<1>4. \A i : i \in Results(z) <=> /\ i \in DOMAIN s /\ s[i].gen = sessions[z].gen
                                  /\ s[i].outcome \notin {"Stopped", "StopUnknown"}
  BY DEF Results
<1> HIDE DEF s
<1>5. \A i \in Results(z)' : i \in Nat \ {0} /\ i + 1 \in Results(z)
  BY <1>2, <1>3, <1>4
<1>6. \A i \in Results(z) : i # 1 => i - 1 \in Results(z)'
  BY <1>2, <1>3, <1>4
<1>7. 1 \in Results(z) <=> /\ Head(s).gen = sessions[z].gen
                           /\ Head(s).outcome \notin {"Stopped", "StopUnknown"}
  BY <1>2, <1>4
<1> QED
  BY <1>5, <1>6, <1>7 DEF s

(* An answer of the current stream ends its attempt: the room plays, or    *)
(* retries, or coordinates no group.  Another answer changes nothing that  *)
(* is followed.                                                            *)
LEMMA ResultTracks ==
    ASSUME IInv, Idle, NEW z \in Zones, Live(z), Track(z), Uncreating', NEW e \in Session, sessions'[z] = e,
           answers[z] # <<>>, answers' = [answers EXCEPT ![z] = Tail(@)],
           UNCHANGED <<generation, cohorts, slot, fresh, busy, preps, retries>>,
           DOMAIN groups' \subseteq DOMAIN groups,
           e.gen = sessions[z].gen, e.encoder = sessions[z].encoder, e.desired = sessions[z].desired,
           e.prepared = sessions[z].prepared,
           \/ 1 \notin Results(z) /\ e.retry = sessions[z].retry /\ e.observed = sessions[z].observed
           \/ ~e.desired /\ e.retry = sessions[z].retry /\ e.observed # "Playing"
           \/ /\ 1 \in Results(z)
              /\ \/ e.observed = "Playing" /\ e.retry = 0
                 \/ e.observed # "Playing" /\ e.retry = e.gen
                 \/ e.observed # "Playing" /\ e.retry \in {0, e.gen} /\ z \notin DOMAIN groups'
    PROVE  Track(z)'
<1>1. /\ sessions[z].gen \in Nat /\ sessions[z].gen # 0 /\ generation[z] \in Nat
      /\ sessions[z].gen \in 0..generation[z] /\ TypeInv
  BY LiveRoom DEF IInv
<1>2. Live(z)' /\ Wanted(z)' = Wanted(z) /\ (Wanted(z) <=> e.desired) /\ (Playing(z)' <=> e.observed = "Playing")
  BY NothingAssumption DEF Live, Wanted, Playing
<1>3. Known(z)'
  BY <1>1, <1>2 DEF Track, Known
<1>4. /\ Sent(z)' = Sent(z) /\ Obeyed(z)' = Obeyed(z) /\ Arrived(z)' = Arrived(z) /\ Gathered(z)' = Gathered(z)
      /\ (e.retry = sessions[z].retry => Retrying(z)' = Retrying(z))
      /\ (Retrying(z)' => Retrying(z) \/ e.retry = e.gen) /\ (e.retry = e.gen => Retrying(z)')
  BY DEF Sent, Obeyed, Arrived, Gathered, Counted, Retrying
<1>5. ~Waiting({"create"}, z)' /\ ~Waiting({"restart", "replace", "create"}, z)
  BY NoneCreates, IdleWaits
<1>6. OneAttempt(z) /\ Attended(z)
  BY <1>1 DEF Track
<1>7. /\ \A i \in Results(z)' : i \in Nat \ {0} /\ i + 1 \in Results(z)
      /\ \A i \in Results(z) : i # 1 => Results(z)' # {}
  BY <1>1, ResultTaken
<1>8. /\ Results(z)' # {} => Results(z) # {}
      /\ \A i, j \in Results(z)' : i = j
  <2> SUFFICES ASSUME NEW i \in Results(z)', NEW j \in Results(z)' PROVE i = j /\ Results(z) # {}
    OBVIOUS
  <2>1. i \in Nat /\ j \in Nat /\ i + 1 \in Results(z) /\ j + 1 \in Results(z)
    BY <1>7
  <2>2. i + 1 = j + 1
    BY <1>6, <2>1 DEF OneAttempt
  <2> QED
    BY <2>1, <2>2
<1>9. 1 \notin Results(z) => (Results(z)' # {} <=> Results(z) # {})
  BY <1>7, <1>8
<1>10. CASE 1 \notin Results(z) /\ e.retry = sessions[z].retry /\ e.observed = sessions[z].observed
  <2>1. Playing(z)' = Playing(z)
    BY <1>2, <1>10 DEF Playing
  <2>2. Attended(z)'
    BY <1>2, <1>4, <1>5, <1>6, <1>9, <1>10, <2>1 DEF Attended, Attempt
  <2>3. OneAttempt(z)'
    BY <1>4, <1>5, <1>6, <1>8, <1>9, <1>10, <2>1 DEF OneAttempt, Attempt
  <2> QED
    BY <1>3, <2>2, <2>3 DEF Track
<1>11. CASE ~e.desired /\ e.retry = sessions[z].retry /\ e.observed # "Playing"
  <2>1. Attended(z)'
    BY <1>2, <1>11 DEF Attended
  <2>2. OneAttempt(z)'
    BY <1>2, <1>4, <1>5, <1>6, <1>8, <1>11 DEF OneAttempt, Attempt
  <2> QED
    BY <1>3, <2>1, <2>2 DEF Track
<1>12. CASE /\ 1 \in Results(z)
            /\ \/ e.observed = "Playing" /\ e.retry = 0
               \/ e.observed # "Playing" /\ e.retry = e.gen
               \/ e.observed # "Playing" /\ e.retry \in {0, e.gen} /\ z \notin DOMAIN groups'
  <2>1. Results(z)' = {}
    <3>1. \A i \in Results(z)' : i \in Nat \ {0} /\ i + 1 = 1
      BY <1>6, <1>7, <1>12 DEF OneAttempt
    <3>2. \A i \in Results(z)' : FALSE
      BY <3>1
    <3> QED
      BY <3>2
  <2>2. ~Sent(z) /\ ~Obeyed(z) /\ ~Arrived(z) /\ ~Gathered(z) /\ ~Retrying(z)
    BY <1>6, <1>12 DEF OneAttempt, Attempt
  <2>3. ~Attempt(z)' /\ (e.retry = 0 => ~Retrying(z)')
    BY <1>1, <1>4, <2>1, <2>2 DEF Attempt
  <2>4. OneAttempt(z)'
    BY <1>2, <1>5, <1>12, <2>1, <2>3 DEF OneAttempt, Attempt
  <2>5. Attended(z)'
    BY <1>2, <1>4, <1>12 DEF Attended
  <2> QED
    BY <1>3, <2>4, <2>5 DEF Track
<1> QED
  BY <1>10, <1>11, <1>12


(* handle_downstream_start_result.                                         *)
LEMMA HandleStartResultTracks ==
    ASSUME IInv, \A y \in Zones : Track(y), NEW z \in Zones, HandleStartResult(z)
    PROVE  \A y \in Zones : Track(y)'
<1> DEFINE r == Head(answers[z])
           s == sessions[z]
<1>1. /\ UNCHANGED <<generation, registry, cohorts, slot, fresh, busy, preps, retries, cleanups, wake>>
      /\ Idle /\ answers[z] # <<>> /\ answers' = [answers EXCEPT ![z] = Tail(@)]
  BY DEF HandleStartResult, workers
<1>2. TypeInv /\ Track(z)
  BY DEF IInv
<1>3. r \in AnswerMessage /\ \A y \in Zones \ {z} : answers'[y] = answers[y]
  BY <1>1, <1>2, AnswerTaken
<1>4. s'.gen = s.gen => (1 \in Results(z) <=> r.gen = s.gen /\ r.outcome \notin {"Stopped", "StopUnknown"})
  BY <1>1, <1>2, ResultTaken
<1> HIDE DEF r
<1>5. ASSUME Live(z), NEW e \in Session, sessions' = [sessions EXCEPT ![z] = e],
             (groups' \in {groups, Forgotten(z)} /\ calls' = calls) \/ LeaveGroup(z, <<>>),
             e.gen = s.gen, e.encoder = s.encoder, e.desired = s.desired, e.prepared = s.prepared,
             \/ /\ r.gen = s.gen => r.outcome \in {"Stopped", "StopUnknown"}
                /\ e.retry = s.retry /\ e.observed = s.observed
             \/ ~e.desired /\ e.retry = s.retry /\ e.observed # "Playing"
             \/ /\ r.gen = s.gen /\ r.outcome \notin {"Stopped", "StopUnknown"}
                /\ \/ e.observed = "Playing" /\ e.retry = 0
                   \/ e.observed # "Playing" /\ e.retry = e.gen
                   \/ e.observed # "Playing" /\ e.retry \in {0, e.gen} /\ LeaveGroup(z, <<>>)
      PROVE  \A y \in Zones : Track(y)'
    <2>1. sessions'[z] = e /\ \A y \in Zones \ {z} : sessions'[y] = sessions[y]
      BY <1>2, <1>5, OneSession
    <2>2. Uncreating'
      <3>1. CASE calls' = calls
        BY <1>1, <3>1, Creatingless
      <3>2. CASE LeaveGroup(z, <<>>)
        <4>1. <<>> \in Seq(Calls) /\ SeqSet(<<>>) = {}
          BY SetOfNone
        <4> QED
          BY <3>2, <4>1, Creatingless
      <3> QED
        BY <1>5, <3>1, <3>2
    <2>3. DOMAIN groups' \subseteq DOMAIN groups /\ (LeaveGroup(z, <<>>) => z \notin DOMAIN groups')
      <3>1. groups' \in {groups, Forgotten(z), GroupsWithout(z)}
        BY <1>5 DEF LeaveGroup
      <3>2. LeaveGroup(z, <<>>) => groups' = GroupsWithout(z)
        BY DEF LeaveGroup
      <3> QED
        BY <1>2, <3>1, <3>2, Members DEF Forgotten, GroupsWithout
    <2>4. \A y \in Zones \ {z} : Unstirred(y)
      BY <1>1, <1>3, <2>1, <2>2, <2>3, OtherRooms
    <2>5. Track(z)'
      BY <1>1, <1>2, <1>4, <1>5, <2>1, <2>2, <2>3, ResultTracks
    <2> QED
      BY <2>4, <2>5, UnstirredRoom
<1>6. CASE ~Current(z, r.gen)
  <2>1. UNCHANGED <<sessions, groups, calls>>
    BY <1>6, Zenon DEF HandleStartResult, r
  <2>2. CASE Live(z)
    <3>1. s \in Session /\ sessions' = [sessions EXCEPT ![z] = s]
      BY <1>1, <1>2, <2>1, <2>2, LiveRoom DEF TypeInv, Sessions
    <3> QED
      BY <1>5, <1>6, <2>1, <2>2, <3>1 DEF Current
  <2>3. CASE ~Live(z)
    <3>1. \A y \in Zones \ {z} : Unstirred(y)
      BY <1>1, <1>3, <2>1, NoneCreates DEF Unstirred, Same, Counted
    <3>2. Track(z)'
      BY <1>1, <1>2, <2>1, <2>3 DEF Track, Known, Live
    <3> QED
      BY <3>1, <3>2, UnstirredRoom
  <2> QED
    BY <2>2, <2>3
<1>7. CASE Current(z, r.gen) /\ ~sessions[z].desired
  <2> DEFINE e == [s EXCEPT !.observed = IF r.outcome = "Stopped" THEN "Stopped" ELSE "Unknown"]
  <2>1. sessions' = [sessions EXCEPT ![z] = e] /\ UNCHANGED <<groups, calls>>
    BY <1>7, Zenon DEF HandleStartResult, r
  <2>2. Live(z) /\ s \in Session
    BY <1>2, <1>7, Fresh DEF Current
  <2>3. /\ e \in Session /\ e.gen = s.gen /\ e.encoder = s.encoder /\ e.desired = s.desired
        /\ e.prepared = s.prepared /\ e.retry = s.retry /\ e.observed # "Playing"
    <3> HIDE DEF s
    <3> QED
      BY <2>2 DEF Session
  <2> HIDE DEF e
  <2> QED
    BY <1>5, <1>7, <2>1, <2>2, <2>3
<1>8. CASE Current(z, r.gen) /\ sessions[z].desired
  <2>1. StartResult(z, r.outcome)
    BY <1>8, Zenon DEF HandleStartResult, r
  <2>2. Live(z) /\ s \in Session /\ s.gen = r.gen /\ s.gen \in Nat
    BY <1>2, <1>8, Fresh DEF Current
  <2>3. r.outcome \in Outcomes \ {"Prepared"}
    BY <1>3 DEF AnswerMessage
  <2>4. CASE r.outcome \in {"Stopped", "StopUnknown"}
    <3>1. UNCHANGED <<sessions, groups, calls>>
      BY <2>1, <2>4, Zenon DEF StartResult
    <3>2. sessions' = [sessions EXCEPT ![z] = s]
      BY <1>2, <3>1 DEF TypeInv, Sessions
    <3> QED
      BY <1>5, <2>2, <2>4, <3>1, <3>2
  <2>5. CASE r.outcome \in {"Started", "Joined"}
    <3> DEFINE e == [s EXCEPT !.observed = "Playing", !.reset = FALSE, !.attempts = 0, !.retry = 0]
    <3>1. /\ sessions' = [sessions EXCEPT ![z] = e] /\ UNCHANGED calls
          /\ groups' = IF r.outcome = "Started" THEN Forgotten(z) ELSE groups
      BY <2>1, <2>5 DEF StartResult
    <3>2. e \in Session
      BY <2>2, SessionTypes
    <3>3. /\ e.gen = s.gen /\ e.encoder = s.encoder /\ e.desired = s.desired
          /\ e.prepared = s.prepared /\ e.observed = "Playing" /\ e.retry = 0
      <4> HIDE DEF s
      <4> QED
        BY <2>2 DEF Session
    <3> HIDE DEF e
    <3>4. groups' \in {groups, Forgotten(z)} /\ calls' = calls
      BY <3>1
    <3>5. r.outcome \notin {"Stopped", "StopUnknown"}
      BY <2>5
    <3> QED
      BY <1>5, <2>2, <3>1, <3>2, <3>3, <3>4, <3>5
  <2>6. CASE r.outcome = "PermanentFailure"
    <3> DEFINE e == [s EXCEPT !.observed = "Unknown", !.reset = TRUE, !.attempts = MaxAttempts, !.retry = 0]
    <3>1. sessions' = [sessions EXCEPT ![z] = e] /\ LeaveGroup(z, <<>>)
      BY <2>1, <2>6 DEF StartResult
    <3>2. e \in Session
      BY <2>2, SessionTypes
    <3>3. /\ e.gen = s.gen /\ e.encoder = s.encoder /\ e.desired = s.desired
          /\ e.prepared = s.prepared /\ e.observed = "Unknown" /\ e.retry = 0
      <4> HIDE DEF s
      <4> QED
        BY <2>2 DEF Session
    <3> HIDE DEF e
    <3> QED
      BY <1>5, <2>2, <2>6, <3>1, <3>2, <3>3
  <2>7. CASE r.outcome \in {"Failed", "Unknown"}
    <3> DEFINE u == [s EXCEPT !.observed = "Unknown", !.reset = ~s.prepared]
               e == WithRetry(u, s.gen)
    <3>1. /\ sessions' = [sessions EXCEPT ![z] = e]
          /\ \/ ~BudgetLeft(s) /\ LeaveGroup(z, <<>>)
             \/ BudgetLeft(s) /\ groups' \in {groups, Forgotten(z)} /\ UNCHANGED calls
      BY <2>1, <2>7 DEF StartResult
    <3>2. u \in Session
      BY <2>2, SessionTypes
    <3>3. u.gen = s.gen /\ u.encoder = s.encoder /\ u.desired = s.desired /\ u.prepared = s.prepared
          /\ u.observed = "Unknown" /\ (BudgetLeft(u) <=> BudgetLeft(s))
      <4> HIDE DEF s
      <4> QED
        BY <2>2 DEF Session, BudgetLeft
    <3> HIDE DEF u
    <3>4. e \in Session
      BY <2>2, <3>2, SessionTypes
    <3>5. /\ e.gen = u.gen /\ e.encoder = u.encoder /\ e.desired = u.desired /\ e.prepared = u.prepared
          /\ e.observed = u.observed /\ e.retry \in {0, s.gen}
      BY <2>2, <3>2, Retried, Rearmed, Zenon
    <3>6. BudgetLeft(u) => e.retry = s.gen
      BY <2>2, <3>2 DEF WithRetry, Session
    <3> HIDE DEF e
    <3>7. r.outcome \notin {"Stopped", "StopUnknown"}
      BY <2>7
    <3> QED
      BY <1>5, <2>2, <3>1, <3>3, <3>4, <3>5, <3>6, <3>7
  <2> QED
    BY <2>3, <2>4, <2>5, <2>6, <2>7 DEF Outcomes
<1> QED
  BY <1>6, <1>7, <1>8

(* A retry that is due begins the next attempt, of a room that does not    *)
(* play when its stream is prepared; or the room restarts.                 *)
LEMMA HandleRetryTracks ==
    ASSUME IInv, \A y \in Zones : Track(y), NEW z \in Zones, HandleRetry(z)
    PROVE  \A y \in Zones : Track(y)'
<1> DEFINE s == sessions[z]
<1>1. PICK g \in retries[z] :
        /\ UNCHANGED <<generation, registry, cohorts, groups, answers, preps, cleanups, wake>>
        /\ Idle /\ retries' = [retries EXCEPT ![z] = @ \ {g}]
        /\ \/ ~Due(z, g) /\ UNCHANGED <<sessions, calls, workers>>
           \/ /\ Due(z, g) /\ s.prepared
              /\ sessions' = [sessions EXCEPT ![z] = TakeHeld(@)] /\ Put(z, "Play", g) /\ UNCHANGED calls
           \/ /\ Due(z, g) /\ ~s.prepared
              /\ sessions' = [sessions EXCEPT ![z].retry = 0] /\ calls' = <<Call("restart", z)>>
              /\ UNCHANGED workers
  BY Zenon DEF HandleRetry
<1>2. TypeInv /\ Track(z)
  BY DEF IInv
<1>3. /\ g \in Nat /\ retries'[z] = retries[z] \ {g} /\ \A y \in Zones \ {z} : retries'[y] = retries[y]
  BY <1>1, <1>2, RetryRead
<1>4. CASE ~Due(z, g) /\ UNCHANGED <<sessions, calls, workers>>
  <2>1. Uncreating'
    BY <1>1, <1>4, Creatingless
  <2>2. \A y \in Zones \ {z} : Unstirred(y)
    BY <1>1, <1>3, <1>4, <2>1, OtherRooms DEF workers
  <2>3. CASE ~Live(z)
    <3>1. Track(z)'
      BY <1>1, <1>2, <1>3, <1>4, <2>3 DEF Track, Known, Live
    <3> QED
      BY <2>2, <3>1, UnstirredRoom
  <2>4. CASE Live(z)
    <3>1. s \in Session /\ ChannelsStay(z) /\ sessions'[z] = s
      BY <1>1, <1>2, <1>4, <2>4, Fresh DEF ChannelsStay, workers
    <3>2. s.desired => Retrying(z)' = Retrying(z)
      BY <1>3, <1>4, <2>4 DEF Retrying, Due, Current
    <3> HIDE DEF s
    <3>3. s = sessions[z] /\ retries'[z] \subseteq retries[z]
      BY <1>3 DEF s
    <3>4. Track(z)'
      BY <1>1, <1>2, <2>1, <2>4, <3>1, <3>2, <3>3, SessionTracks DEF Wanted, Playing
    <3> QED
      BY <2>2, <3>4, UnstirredRoom
  <2> QED
    BY <2>3, <2>4
<1>5. ASSUME Due(z, g)
      PROVE  Live(z) /\ Wanted(z) /\ s \in Session /\ s.gen = g /\ s.gen # 0 /\ s.desired
  BY <1>1, <1>5, LiveRoom DEF Due, Current, Wanted
<1>6. CASE /\ Due(z, g) /\ s.prepared
           /\ sessions' = [sessions EXCEPT ![z] = TakeHeld(@)] /\ Put(z, "Play", g) /\ UNCHANGED calls
  <2> DEFINE e == TakeHeld(s)
  <2>1. sessions' = [sessions EXCEPT ![z] = e]
    BY <1>6
  <2>2. e \in Session
    BY <1>5, <1>6, SessionTypes
  <2>3. e.gen = s.gen /\ e.encoder = s.encoder /\ e.desired = s.desired /\ e.observed = s.observed
        /\ e.prepared = s.prepared /\ e.retry = 0
    <3>1. s \in Session
      BY <1>5, <1>6
    <3> HIDE DEF s
    <3> QED
      BY <3>1 DEF Session, TakeHeld
  <2> HIDE DEF e
  <2>4. sessions'[z] = e /\ \A y \in Zones \ {z} : sessions'[y] = sessions[y]
    BY <1>2, <2>1, <2>2, OneSession
  <2>5. /\ busy' = busy /\ fresh'[z] /\ slot'[z].gen = g /\ slot'[z].kind # "Stop"
        /\ \A y \in Zones : y # z => slot'[y] = slot[y] /\ fresh'[y] = fresh[y]
    <3>1. "Play" \in Kinds
      BY DEF Kinds
    <3> QED
      BY <1>2, <1>3, <1>6, <3>1, PutTypes
  <2>6. Uncreating'
    BY <1>1, <1>6, Creatingless
  <2>7. \A y \in Zones \ {z} : Unstirred(y)
    BY <1>1, <1>3, <2>4, <2>5, <2>6, OtherRooms
  <2>8. Track(z)'
    <3>1. Live(z)' /\ (Playing(z)' <=> Playing(z))
      BY <2>2, <2>3, <2>4, NothingAssumption DEF Live, Playing
    <3>2. Known(z)'
      BY <1>1, <1>2, <1>3, <1>5, <1>6, <2>3, <2>4, <3>1, LiveRoom DEF Track, Known
    <3>3. OneAttempt(z) /\ Retrying(z)
      BY <1>2, <1>5, <1>6 DEF Track, Retrying
    <3>4. ~Obeyed(z) /\ Results(z) = {} /\ ~Arrived(z) /\ ~Gathered(z) /\ ~Playing(z)
      BY <1>6, <3>3 DEF OneAttempt, Attempt
    <3>5. /\ Sent(z)' /\ Obeyed(z)' = Obeyed(z) /\ Results(z)' = Results(z) /\ Arrived(z)' = Arrived(z)
          /\ Gathered(z)' = Gathered(z) /\ ~Retrying(z)'
      BY <1>1, <1>3, <1>5, <1>6, <2>3, <2>4, <2>5
      DEF Sent, Obeyed, Results, Arrived, Gathered, Counted, Retrying
    <3>6. ~Waiting({"create"}, z)'
      BY <2>6, NoneCreates
    <3> QED
      BY <3>1, <3>2, <3>4, <3>5, <3>6 DEF Track, OneAttempt, Attended, Attempt
  <2> QED
    BY <2>7, <2>8, UnstirredRoom
<1>7. CASE /\ Due(z, g) /\ ~s.prepared
           /\ sessions' = [sessions EXCEPT ![z].retry = 0] /\ calls' = <<Call("restart", z)>>
           /\ UNCHANGED workers
  <2> DEFINE e == [s EXCEPT !.retry = 0]
  <2>1. sessions' = [sessions EXCEPT ![z] = e]
    BY <1>7
  <2>2. e \in Session
    BY <1>5, <1>7, SessionTypes
  <2>3. e.gen = s.gen /\ e.encoder = s.encoder /\ e.desired = s.desired /\ e.observed = s.observed
        /\ e.prepared = s.prepared /\ e.retry = 0
    <3>1. s \in Session
      BY <1>5, <1>7
    <3> HIDE DEF s
    <3> QED
      BY <3>1 DEF Session
  <2> HIDE DEF e
  <2>4. sessions'[z] = e /\ \A y \in Zones \ {z} : sessions'[y] = sessions[y]
    BY <1>2, <2>1, <2>2, OneSession
  <2>5. Uncreating' /\ Waiting({"restart"}, z)'
    BY <1>7, Creatingless, OneCall DEF Ops
  <2>6. \A y \in Zones \ {z} : Unstirred(y)
    BY <1>1, <1>3, <1>7, <2>4, <2>5, OtherRooms DEF workers
  <2>7. Track(z)'
    <3>1. ChannelsStay(z) /\ retries'[z] \subseteq retries[z]
      BY <1>1, <1>3, <1>7 DEF ChannelsStay, workers
    <3> QED
      BY <1>2, <1>5, <1>7, <2>2, <2>3, <2>4, <2>5, <3>1, SessionTracks DEF Playing
  <2> QED
    BY <2>6, <2>7, UnstirredRoom
<1> QED
  BY <1>1, <1>4, <1>6, <1>7


(* A prepared stream is counted by its cohort, or its room is told to      *)
(* play: it is the same attempt.                                           *)
LEMMA HandlePreparedTracks ==
    ASSUME IInv, \A y \in Zones : Track(y), NEW z \in Zones, HandlePrepared(z)
    PROVE  \A y \in Zones : Track(y)'
<1> DEFINE s == sessions[z]
           u == [s EXCEPT !.prepared = TRUE]
           ready == [sessions EXCEPT ![z] = u]
<1>1. PICK g \in preps[z] :
        /\ UNCHANGED <<generation, registry, answers, retries, cleanups, wake>>
        /\ Idle /\ preps' = [preps EXCEPT ![z] = @ \ {g}]
        /\ \/ ~Due(z, g) /\ UNCHANGED <<sessions, groups, cohorts, calls, workers>>
           \/ /\ Due(z, g) /\ sessions' = ready
              /\ \E i \in DOMAIN cohorts : /\ InCohort(z, cohorts[i])
                                           /\ cohorts' = [cohorts EXCEPT ![i].prepared[z] = g]
              /\ calls' = <<Call("release", z)>> /\ UNCHANGED <<groups, workers>>
           \/ Due(z, g) /\ PlayPrepared(ready, <<z>>) /\ UNCHANGED <<cohorts, calls>>
  BY PreparedCases
<1>2. TypeInv /\ Track(z)
  BY DEF IInv
<1>3. /\ g \in Nat /\ preps'[z] = preps[z] \ {g} /\ \A y \in Zones \ {z} : preps'[y] = preps[y]
  BY <1>1, <1>2, PreparedRead
<1>4. (\A ops, y : ~Waiting(ops, y)) /\ SeqSet(calls) = {}
  BY <1>1, IdleWaits
<1>5. CASE ~Due(z, g) /\ UNCHANGED <<sessions, groups, cohorts, calls, workers>>
  <2>1. Uncreating'
    BY <1>1, <1>5, Creatingless
  <2>2. \A y \in Zones \ {z} : Unstirred(y)
    BY <1>1, <1>3, <1>5, <2>1, OtherRooms DEF workers
  <2>3. Track(z)'
    <3>1. /\ Live(z)' = Live(z) /\ Wanted(z)' = Wanted(z) /\ Playing(z)' = Playing(z)
          /\ Sent(z)' = Sent(z) /\ Obeyed(z)' = Obeyed(z) /\ Results(z)' = Results(z)
          /\ Gathered(z)' = Gathered(z) /\ Retrying(z)' = Retrying(z)
          /\ \A ops : Waiting(ops, z)' = Waiting(ops, z)
      BY <1>1, <1>5
      DEF workers, Live, Wanted, Playing, Sent, Obeyed, Results, Gathered, Counted, Retrying, Waiting
    <3>2. (Arrived(z)' => Arrived(z)) /\ (Wanted(z) /\ Arrived(z) => Arrived(z)')
      BY <1>3, <1>5 DEF Arrived, Due, Current, Wanted
    <3>3. Known(z)'
      BY <1>1, <1>2, <1>3, <1>5 DEF Track, Known, Live
    <3>4. CASE Live(z) /\ s.gen # 0
      <4>1. OneAttempt(z) /\ Attended(z)
        BY <1>2, <3>4 DEF Track
      <4>2. OneAttempt(z)'
        BY <1>5, <3>1, <3>2, <4>1 DEF OneAttempt, Attempt
      <4>3. Attended(z)'
        BY <1>5, <3>1, <3>2, <4>1 DEF Attended, Attempt
      <4> QED
        BY <3>3, <4>2, <4>3 DEF Track
    <3> QED
      BY <1>5, <3>1, <3>3, <3>4 DEF Track
  <2> QED
    BY <2>2, <2>3, UnstirredRoom
<1>6. ASSUME Due(z, g)
      PROVE  /\ Live(z) /\ Wanted(z) /\ s \in Session /\ s.gen = g /\ s.gen # 0
             /\ s.gen \in 0..generation[z]
             /\ u \in Session /\ u.gen = g /\ u.encoder = s.encoder /\ u.desired = s.desired
             /\ u.observed = s.observed /\ u.retry = s.retry
             /\ ~Sent(z) /\ ~Obeyed(z) /\ Results(z) = {} /\ ~Gathered(z) /\ ~Retrying(z) /\ ~Playing(z)
  <2>1. Live(z) /\ Wanted(z) /\ s.gen = g /\ s \in Session /\ s.gen # 0 /\ s.gen \in 0..generation[z]
    BY <1>1, <1>6, LiveRoom DEF Due, Current, Wanted
  <2>2. u \in Session
    BY <2>1, SessionTypes
  <2>3. /\ u.gen = s.gen /\ u.encoder = s.encoder /\ u.desired = s.desired /\ u.observed = s.observed
        /\ u.retry = s.retry
    <3> HIDE DEF s
    <3> QED
      BY <2>1 DEF Session
  <2> HIDE DEF u
  <2>4. Arrived(z) /\ OneAttempt(z)
    BY <1>2, <2>1 DEF Arrived, Track
  <2>5. ~Sent(z) /\ ~Obeyed(z) /\ Results(z) = {} /\ ~Gathered(z) /\ ~Retrying(z) /\ ~Playing(z)
    BY <2>4 DEF OneAttempt, Attempt
  <2> QED
    BY <2>1, <2>2, <2>3, <2>5
(* The tokens of the room, whichever way its stream goes.                  *)
<1>7. ASSUME Due(z, g), NEW e \in Session, sessions'[z] = e, e.gen = g, e.retry = s.retry,
             e.observed = s.observed, busy'[z] = busy[z], Uncreating',
             ~(Sent(z)' /\ Gathered(z)'), Sent(z)' \/ Gathered(z)'
      PROVE  Track(z)'
  <2>1. Live(z)' /\ Playing(z)' = Playing(z)
    BY <1>6, <1>7, NothingAssumption DEF Live, Playing
  <2>2. ~Obeyed(z)' /\ Results(z)' = {} /\ ~Arrived(z)' /\ ~Retrying(z)'
    BY <1>1, <1>3, <1>6, <1>7 DEF Obeyed, Results, Arrived, Retrying
  <2>3. ~Waiting({"create"}, z)'
    BY <1>7, NoneCreates
  <2>4. Known(z)'
    BY <1>1, <1>2, <1>3, <1>6, <1>7 DEF Track, Known
  <2>5. ~Playing(z)
    BY <1>6, <1>7
  <2>6. OneAttempt(z)'
    BY <1>7, <2>1, <2>2, <2>3, <2>5 DEF OneAttempt, Attempt
  <2>7. Attended(z)'
    BY <1>7 DEF Attended, Attempt
  <2> QED
    BY <2>4, <2>6, <2>7 DEF Track
<1>8. ASSUME Due(z, g), sessions' = ready, calls' = <<Call("release", z)>>, UNCHANGED <<groups, workers>>,
             NEW i \in DOMAIN cohorts, cohorts' = [cohorts EXCEPT ![i].prepared[z] = g]
      PROVE  \A y \in Zones : Track(y)'
  <2>1. u \in Session /\ u.gen = g /\ u.gen = s.gen /\ u.retry = s.retry /\ u.observed = s.observed
    BY <1>6, <1>8
  <2> HIDE DEF u
  <2>2. sessions'[z] = u /\ \A y \in Zones \ {z} : sessions'[y] = sessions[y]
    BY <1>2, <1>8, <2>1, OneSession
  <2>3. /\ DOMAIN cohorts' = DOMAIN cohorts
        /\ \A j \in DOMAIN cohorts : \A y \in Zones \ {z} : cohorts'[j].prepared[y] = cohorts[j].prepared[y]
        /\ cohorts'[i].prepared[z] = g
    <3>1. cohorts \in Seq(Cohort) /\ cohorts[i] \in Cohort
      BY <1>2, <1>8 DEF TypeInv
    <3>2. PICK d : d = WithCounted(cohorts[i], z, g)
      OBVIOUS
    <3>3. cohorts' = [cohorts EXCEPT ![i] = d]
      BY <1>8, <3>2 DEF WithCounted
    <3>4. /\ d \in Cohort /\ d.prepared[z] = g
          /\ \A y \in Zones \ {z} : d.prepared[y] = cohorts[i].prepared[y]
      <4>1. g \in Nat /\ z \in Zones
        BY <1>3
      <4>2. cohorts[i] \in Cohort
        BY <3>1
      <4> QED
        BY <3>2, <4>1, <4>2, CountedNow, Zenon
    <3>5. i \in DOMAIN cohorts
      BY <1>8
    <3>6. /\ DOMAIN cohorts' = DOMAIN cohorts /\ cohorts'[i] = d
          /\ \A j \in DOMAIN cohorts : j # i => cohorts'[j] = cohorts[j]
      BY <3>1, <3>3, <3>4, <3>5, SetAt
    <3> QED
      BY <3>4, <3>5, <3>6
  <2>4. (\A y \in Zones \ {z} : Counted(y)' = Counted(y)) /\ g \in Counted(z)'
    BY <2>3 DEF Counted
  <2>5. Uncreating'
    BY <1>8, Creatingless DEF Ops
  <2>6. \A y \in Zones \ {z} : Unstirred(y)
    BY <1>1, <1>3, <1>4, <1>8, <2>2, <2>4, <2>5, NoneCreates DEF Unstirred, Same, workers
  <2>7. Gathered(z)' /\ ~Sent(z)'
    BY <1>6, <1>8, <2>1, <2>2, <2>4 DEF Gathered, Sent, workers
  <2>8. Track(z)'
    BY <1>7, <1>8, <2>1, <2>2, <2>5, <2>7 DEF workers
  <2> QED
    BY <2>6, <2>8, UnstirredRoom
<1>9. CASE Due(z, g) /\ PlayPrepared(ready, <<z>>) /\ UNCHANGED <<cohorts, calls>>
  <2>1. /\ u \in Session /\ u.gen = g /\ u.gen = s.gen /\ u.retry = s.retry /\ u.observed = s.observed
        /\ Wanted(z) /\ s.gen \in Nat
    BY <1>3, <1>6, <1>9
  <2>2. <<z>> \in Seq(Zones) /\ SeqSet(<<z>>) = {z}
    BY SetOfOne
  <2>3. /\ ready \in Sessions /\ ready[z] = u /\ \A y \in Zones \ {z} : ready[y] = sessions[y]
    <3> HIDE DEF u
    <3> QED
      BY <1>2, <2>1 DEF TypeInv, Sessions
  <2> HIDE DEF u, ready
  <2> DEFINE rooms == <<z>>
  <2>4. rooms \in Seq(Zones) /\ SeqSet(rooms) = {z} /\ PlayPrepared(ready, rooms)
    BY <1>9, <2>2
  <2> HIDE DEF rooms
  <2>5. /\ busy' = busy
        /\ \A y \in SeqSet(rooms) :
              /\ \E p \in Plans : sessions'[y] = [ready[y] EXCEPT !.plan = p]
              /\ slot'[y] \in Command /\ slot'[y].kind \in StartKinds
              /\ slot'[y].gen = sessions[y].gen /\ fresh'[y]
        /\ \A y \in Zones : y \notin SeqSet(rooms) =>
              sessions'[y] = ready[y] /\ slot'[y] = slot[y] /\ fresh'[y] = fresh[y]
        /\ \A c \in DOMAIN groups' : c \in DOMAIN groups \/ Playing(c) \/ c \in SeqSet(rooms)
    <3>1. \A y \in SeqSet(rooms) : Wanted(y) /\ ready[y] \in Session /\ sessions[y].gen \in Nat
      BY <2>1, <2>3, <2>4
    <3> QED
      BY <1>2, <2>3, <2>4, <3>1, Played
  <2>6. PICK p \in Plans : sessions'[z] = [u EXCEPT !.plan = p]
    BY <2>3, <2>4, <2>5
  <2> DEFINE e == [u EXCEPT !.plan = p]
  <2>7. e \in Session /\ e.gen = u.gen /\ e.retry = u.retry /\ e.observed = u.observed
    BY <2>1 DEF Session, Plans
  <2>8. sessions'[z] = e /\ \A y \in Zones \ {z} : sessions'[y] = sessions[y]
    BY <2>3, <2>4, <2>5, <2>6
  <2> HIDE DEF e
  <2>9. Uncreating'
    BY <1>1, <1>9, Creatingless
  <2>10. \A y \in Zones \ {z} : Unstirred(y)
    BY <1>1, <1>3, <1>4, <1>9, <2>4, <2>5, <2>8, <2>9, NoneCreates DEF Unstirred, Same, Counted
  <2>11. Sent(z)' /\ ~Gathered(z)'
    <3>1. slot'[z].gen = s.gen /\ slot'[z].kind \in StartKinds /\ fresh'[z]
      BY <2>4, <2>5
    <3>2. slot'[z].kind # "Stop"
      BY <3>1 DEF StartKinds
    <3>3. ~Gathered(z)
      BY <1>6, <1>9
    <3> QED
      BY <1>9, <2>1, <2>7, <2>8, <3>1, <3>2, <3>3 DEF Sent, Gathered, Counted
  <2>12. Track(z)'
    BY <1>7, <1>9, <2>1, <2>5, <2>7, <2>8, <2>9, <2>11
  <2> QED
    BY <2>10, <2>12, UnstirredRoom
<1> QED
  BY <1>1, <1>5, <1>8, <1>9


----------------------------------------------------------------------------
(* The calls of the runtime.                                               *)

(* While a call runs, only its own room may come to have a stream created. *)
LEMMA CallOthers ==
    ASSUME IInv, calls # <<>>, NEW z \in Zones, z = Head(calls).zone,
           NEW more \in Seq(Calls), Return(more), \A c \in SeqSet(more) : c.op = "create" => c.zone = z,
           DOMAIN groups' \subseteq DOMAIN groups,
           \A y \in Zones \ {z} :
              /\ sessions'[y] = sessions[y] /\ generation'[y] = generation[y] /\ registry'[y] = registry[y]
              /\ slot'[y] = slot[y] /\ fresh'[y] = fresh[y] /\ busy'[y] = busy[y]
              /\ answers'[y] = answers[y] /\ preps'[y] = preps[y] /\ retries'[y] = retries[y]
              /\ Counted(y)' \subseteq Counted(y) \cup {0} /\ Counted(y) \subseteq Counted(y)'
    PROVE  \A y \in Zones \ {z} : Unstirred(y)
<1>1. TypeInv /\ CallsInv
  BY DEF IInv
<1>2. SeqSet(calls') = SeqSet(more) \cup SeqSet(Tail(calls)) /\ \A c \in SeqSet(Tail(calls)) : c.op # "create"
  BY <1>1, Returned DEF CallsInv
<1>3. \A c \in SeqSet(calls) : c.zone # z => c \in SeqSet(calls')
  BY <1>1, CallsStay
<1>4. \A y \in Zones \ {z} : ~Waiting({"create"}, y)'
  <2>1. SeqSet(calls)' = SeqSet(calls')
    BY DEF SeqSet
  <2>2. \A c \in SeqSet(calls') : c.op = "create" => c.zone = z
    BY <1>2
  <2> QED
    BY <2>1, <2>2 DEF Waiting
<1> QED
  BY <1>3, <1>4 DEF Unstirred, Same

(* What follows a call of a room that does not create: no stream of the    *)
(* room is to be created.                                                  *)
LEMMA CreatesNot ==
    ASSUME IInv, calls # <<>>, NEW more \in Seq(Calls), Return(more),
           \A c \in SeqSet(more) : c.op # "create"
    PROVE  Uncreating'
<1>1. TypeInv /\ CallsInv
  BY DEF IInv
<1>2. SeqSet(calls') = SeqSet(more) \cup SeqSet(Tail(calls)) /\ \A c \in SeqSet(Tail(calls)) : c.op # "create"
  BY <1>1, Returned DEF CallsInv
<1>3. SeqSet(calls)' = SeqSet(calls')
  BY DEF SeqSet
<1> QED
  BY <1>2, <1>3 DEF Uncreating

(* The room leaves its groups and coordinates none.                        *)
LEMMA RestartTracks ==
    ASSUME IInv, \A y \in Zones : Track(y), Restart
    PROVE  \A y \in Zones : Track(y)'
<1>1. PICK z \in Zones :
              /\ z = Head(calls).zone /\ Head(calls).op = "restart" /\ calls # <<>>
              /\ Founded(Head(calls))
  BY RunningCall DEF Restart
<1>2. TypeInv /\ Track(z)
  BY DEF IInv
<1>3. Wanted(z) /\ Live(z)
  BY <1>1 DEF Founded, Wanted
<1>4. sessions[z] \in Session
  BY <1>2, <1>3, Fresh
<1>5. PICK e \in Session : e = [sessions[z] EXCEPT !.retry = 0]
  BY <1>4, SessionTypes
<1>6. /\ e.gen = sessions[z].gen /\ e.observed = sessions[z].observed
      /\ e.encoder = sessions[z].encoder /\ e.prepared = sessions[z].prepared /\ e.retry = 0
  BY <1>4, <1>5 DEF Session
<1>7. PICK more : more = RestartMembers(z) \o <<Call("replace", z)>>
  OBVIOUS
<1>8. more \in Seq(Calls) /\ \A c \in SeqSet(more) : c.op # "create"
  <2>1. <<Call("replace", z)>> \in Seq(Calls) /\ SeqSet(<<Call("replace", z)>>) = {Call("replace", z)}
        /\ Call("replace", z).op = "replace"
    BY OneMore DEF Ops
  <2>2. RestartMembers(z) \in Seq(Calls) /\ \A c \in SeqSet(RestartMembers(z)) : c.op = "restart"
    BY <1>2, Members
  <2>3. \A a, b \in Seq(Calls) : a \o b \in Seq(Calls) /\ SeqSet(a \o b) = SeqSet(a) \cup SeqSet(b)
    BY SetOfJoined
  <2>4. more \in Seq(Calls) /\ SeqSet(more) = SeqSet(RestartMembers(z)) \cup {Call("replace", z)}
    BY <1>7, <2>1, <2>2, <2>3, Zenon
  <2> QED
    BY <2>1, <2>2, <2>4
<1>9. /\ sessions' = [sessions EXCEPT ![z] = e] /\ groups' = GroupsWithout(z) /\ Return(more)
      /\ UNCHANGED <<generation, registry, cohorts, slot, fresh, busy, answers, preps, retries, cleanups, wake>>
  BY <1>1, <1>3, <1>5, <1>7 DEF Restart, workers, inbox
<1>10. sessions'[z] = e /\ \A y \in Zones \ {z} : sessions'[y] = sessions[y]
  BY <1>2, <1>9, OneSession
<1>11. DOMAIN groups' \subseteq DOMAIN groups /\ z \notin DOMAIN groups'
  BY <1>9 DEF GroupsWithout
<1>12. Uncreating'
  BY <1>1, <1>8, <1>9, CreatesNot
<1>13. \A y \in Zones \ {z} : Unstirred(y)
  BY <1>1, <1>8, <1>9, <1>10, <1>11, CallOthers DEF Counted
<1>14. Track(z)'
  BY <1>2, <1>3, <1>6, <1>9, <1>10, <1>11, <1>12, SessionTracks DEF ChannelsStay, Playing
<1> QED
  BY <1>13, <1>14, UnstirredRoom

(* A new generation, with nothing under way and no encoder.                *)
LEMMA ReplaceTracks ==
    ASSUME IInv, \A y \in Zones : Track(y), Replace
    PROVE  \A y \in Zones : Track(y)'
<1>1. PICK z \in Zones :
              /\ z = Head(calls).zone /\ Head(calls).op = "replace" /\ calls # <<>>
              /\ Founded(Head(calls))
  BY RunningCall DEF Replace
<1>2. TypeInv /\ RoomInv(z) /\ Track(z)
  BY DEF IInv
<1>3. Wanted(z) /\ Live(z)
  BY <1>1 DEF Founded, Wanted
<1>4. PICK g \in Nat : g = NextGeneration(z) /\ g > generation[z] /\ generation[z] \in Nat
  BY <1>2, Fresh
<1>5. sessions[z] \in Session
  BY <1>2, <1>3, Fresh
<1>6. PICK e \in Session : e = [sessions[z] EXCEPT !.reset = TRUE, !.observed = "Unknown", !.prepared = FALSE,
                                                   !.plan = "none", !.encoder = 0, !.gen = g]
  BY <1>5, SessionTypes
<1>7. e.gen = g /\ e.observed = "Unknown" /\ e.encoder = 0 /\ e.retry = sessions[z].retry
  BY <1>5, <1>6 DEF Session
<1>8. PICK more : more = <<Call("create", z)>>
  OBVIOUS
<1>9. more \in Seq(Calls) /\ SeqSet(more) = {Call("create", z)} /\ Call("create", z).zone = z
  BY <1>8, OneMore DEF Ops
<1>10. /\ sessions' = [sessions EXCEPT ![z] = e] /\ generation' = [generation EXCEPT ![z] = g]
       /\ registry' = [registry EXCEPT ![z] = 0] /\ Put(z, "Stop", g) /\ Return(more)
       /\ UNCHANGED <<cohorts, groups, answers, preps, retries, cleanups, wake>>
  <2>1. LET y == Head(calls).zone
        IN  IF ~Live(y)
            THEN Return(<<>>) /\ UNCHANGED <<sessions, generation, registry, workers>>
            ELSE /\ generation' = [generation EXCEPT ![y] = NextGeneration(y)]
                 /\ sessions' = [sessions EXCEPT ![y] =
                       [@ EXCEPT !.reset = TRUE, !.observed = "Unknown", !.prepared = FALSE,
                                 !.plan = "none", !.encoder = 0, !.gen = NextGeneration(y)]]
                 /\ registry' = [registry EXCEPT ![y] = 0]
                 /\ Put(y, "Stop", NextGeneration(y))
                 /\ Return(<<Call("create", y)>>)
    BY Zenon DEF Replace
  <2>2. UNCHANGED <<cohorts, groups, answers, preps, retries, cleanups, wake>>
    BY DEF Replace, inbox
  <2>3. [sessions EXCEPT ![z] =
                       [@ EXCEPT !.reset = TRUE, !.observed = "Unknown", !.prepared = FALSE,
                                 !.plan = "none", !.encoder = 0, !.gen = NextGeneration(z)]]
        = [sessions EXCEPT ![z] = e]
    BY <1>4, <1>6
  <2> QED
    BY <1>1, <1>3, <1>4, <1>8, <2>1, <2>2, <2>3, Zenon
<1>11. sessions'[z] = e /\ \A y \in Zones \ {z} : sessions'[y] = sessions[y]
  BY <1>2, <1>10, OneSession
<1>12. Live(z)' /\ ~Playing(z)'
  BY <1>7, <1>11, NothingAssumption DEF Live, Playing
<1>13. /\ busy' = busy /\ slot'[z].kind = "Stop"
       /\ \A y \in Zones : y # z => slot'[y] = slot[y] /\ fresh'[y] = fresh[y]
  <2>1. "Stop" \in Kinds
    BY DEF Kinds
  <2> QED
    BY <1>2, <1>10, <2>1, PutTypes
<1>14. /\ generation'[z] = g
       /\ \A y \in Zones \ {z} : registry'[y] = registry[y] /\ generation'[y] = generation[y]
  BY <1>2, <1>10 DEF TypeInv
<1>15. \A y \in Zones : Counted(y)' = Counted(y)
  BY <1>10 DEF Counted
<1>16. \A y \in Zones \ {z} : Unstirred(y)
  BY <1>1, <1>9, <1>10, <1>11, <1>13, <1>14, <1>15, CallOthers
<1>17. Track(z)'
  <2>1. sessions[z].retry \in 0..generation[z]
    BY <1>2, <1>3 DEF Track, Known
  <2>2. ~Attempt(z)' /\ (Retrying(z)' => sessions'[z].retry = g) /\ Known(z)' /\ g \notin 0..generation[z]
    BY <1>2, <1>4, <1>7, <1>10, <1>11, <1>12, <1>13, <1>14, <1>15, <2>1, NewGeneration DEF RoomInv, Track
  <2>3. ~Retrying(z)'
    BY <1>7, <1>11, <2>1, <2>2
  <2> QED
    BY <1>7, <1>11, <1>12, <2>2, <2>3 DEF Track, OneAttempt, Attended, Attempt
<1> QED
  BY <1>16, <1>17, UnstirredRoom

(* Without an encoder, the retry is all there is.                          *)
LEMMA CreateFailsTracks ==
    ASSUME IInv, \A y \in Zones : Track(y), Running("create"),
           sessions' = [sessions EXCEPT ![Head(calls).zone] = WithRetry(@, sessions[Head(calls).zone].gen)],
           Return(<<>>),
           UNCHANGED <<generation, registry, cohorts, groups, slot, fresh, busy, answers, preps, retries,
                       cleanups, wake>>
    PROVE  \A y \in Zones : Track(y)'
<1>1. PICK z \in Zones :
              /\ z = Head(calls).zone /\ Head(calls).op = "create" /\ calls # <<>>
              /\ Founded(Head(calls)) /\ SeqSet(calls) = {Head(calls)} \cup SeqSet(Tail(calls))
  BY RunningCall
<1>2. TypeInv /\ RoomInv(z) /\ Track(z)
  BY DEF IInv
<1>3. Live(z) /\ sessions[z].observed = "Unknown" /\ sessions[z].gen # 0
  BY <1>1 DEF Founded, Wanted
<1>4. sessions[z] \in Session /\ sessions[z].gen \in Nat
  BY <1>2, <1>3, Fresh
<1>5. PICK e \in Session : e = WithRetry(sessions[z], sessions[z].gen)
  BY <1>4, SessionTypes
<1>6. /\ e.gen = sessions[z].gen /\ e.observed = "Unknown" /\ e.encoder = sessions[z].encoder
      /\ e.retry \in {0, e.gen}
  BY <1>3, <1>4, <1>5, Retried, Rearmed
<1>7. sessions' = [sessions EXCEPT ![z] = e]
  BY <1>1, <1>5
<1>8. PICK more : more = <<>>
  OBVIOUS
<1>9. more \in Seq(Calls) /\ SeqSet(more) = {} /\ Return(more)
  BY <1>8, SetOfNone
<1>10. sessions'[z] = e /\ \A y \in Zones \ {z} : sessions'[y] = sessions[y]
  BY <1>2, <1>7, OneSession
<1>11. Live(z)' /\ ~Playing(z)'
  BY <1>6, <1>10, NothingAssumption DEF Live, Playing
<1>12. Uncreating'
  BY <1>1, <1>9, CreatesNot
<1>13. \A y \in Zones : Counted(y)' = Counted(y)
  BY DEF Counted
<1>14. \A y \in Zones \ {z} : Unstirred(y)
  BY <1>1, <1>9, <1>10, <1>13, CallOthers
<1>15. Track(z)'
  <2>1. Waiting({"create"}, z) /\ OneAttempt(z)
    BY <1>1, <1>2, <1>3 DEF Waiting, Track
  <2>2. ~Attempt(z) /\ sessions[z].encoder = 0
    BY <2>1 DEF OneAttempt
  <2>3. ~Attempt(z)'
    BY <1>6, <1>10, <1>13, <2>2 DEF Attempt, Sent, Obeyed, Results, Arrived, Gathered
  <2>4. ~Waiting({"create"}, z)'
    BY <1>12, NoneCreates
  <2>5. Known(z)'
    <3>1. /\ sessions[z].gen \in Nat /\ generation[z] \in Nat
          /\ sessions[z].gen <= generation[z]
      BY <1>2, <1>3, <1>4, Fresh DEF RoomInv, Drawn
    <3>2. sessions[z].gen \in 0..generation[z] /\ 0 \in 0..generation[z]
      BY <3>1
    <3>3. e.retry \in 0..generation[z]
      BY <1>6, <3>2
    <3> QED
      BY <1>2, <1>10, <3>3 DEF Track, Known
  <2> QED
    BY <1>6, <1>10, <1>11, <2>2, <2>3, <2>4, <2>5 DEF Track, OneAttempt, Attended, Attempt
<1> QED
  BY <1>14, <1>15, UnstirredRoom

(* A room that is admitted to a cohort is counted by none; the others stay *)
(* counted.                                                                *)
LEMMA AdmittedCounts ==
    ASSUME TypeInv, NEW z \in Zones, cohorts' = Admit(z)
    PROVE  /\ Counted(z)' \subseteq {0}
           /\ \A y \in Zones \ {z} : Counted(y)' \subseteq Counted(y) \cup {0} /\ Counted(y) \subseteq Counted(y)'
<1>1. cohorts \in Seq(Cohort)
  BY DEF TypeInv
<1>2. \A y \in Zones : NewCohort(z).prepared[y] = 0
  BY DEF NewCohort
<1>3. /\ \A i \in DOMAIN cohorts' :
            /\ cohorts'[i].prepared[z] = 0
            /\ \/ /\ i \in DOMAIN cohorts
                  /\ \A y \in Zones \ {z} : cohorts'[i].prepared[y] = cohorts[i].prepared[y]
               \/ cohorts'[i] = NewCohort(z)
      /\ \A i \in DOMAIN cohorts :
            /\ i \in DOMAIN cohorts'
            /\ \A y \in Zones \ {z} : cohorts'[i].prepared[y] = cohorts[i].prepared[y]
  BY <1>1, Admitted, Zenon
<1>4. \A n \in Counted(z)' : n = 0
  BY <1>3 DEF Counted
<1>5. ASSUME NEW y \in Zones \ {z}, NEW i \in DOMAIN cohorts'
      PROVE  cohorts'[i].prepared[y] = 0 \/ (i \in DOMAIN cohorts /\ cohorts'[i].prepared[y] = cohorts[i].prepared[y])
  BY <1>2, <1>3
<1>6. \A y \in Zones \ {z} : Counted(y)' \subseteq Counted(y) \cup {0}
  BY <1>5 DEF Counted
<1>7. \A y \in Zones \ {z} : Counted(y) \subseteq Counted(y)'
  BY <1>3 DEF Counted
<1> QED
  BY <1>4, <1>6, <1>7

(* The attempt of the new stream begins with Prepare.                      *)
LEMMA CreatedTracks ==
    ASSUME IInv, \A y \in Zones : Track(y), Running("create"), NEW z \in Zones, NEW g \in Nat, Created(z, g)
    PROVE  \A y \in Zones : Track(y)'
<1>1. /\ z = Head(calls).zone /\ Head(calls).op = "create" /\ calls # <<>>
      /\ Founded(Head(calls)) /\ SeqSet(calls) = {Head(calls)} \cup SeqSet(Tail(calls))
  BY RunningCall DEF Created
<1>2. TypeInv /\ RoomInv(z) /\ Track(z)
  BY DEF IInv
<1>3. Live(z) /\ sessions[z].observed = "Unknown" /\ g = sessions[z].gen /\ g # 0
  BY <1>1 DEF Founded, Wanted, Created
<1>4. sessions[z] \in Session
  BY <1>2, <1>3, Fresh
<1>5. PICK e \in Session : e = [sessions[z] EXCEPT !.encoder = g]
  BY <1>4, SessionTypes
<1>6. e.gen = g /\ e.observed = "Unknown" /\ e.retry = sessions[z].retry
  BY <1>3, <1>4, <1>5 DEF Session
<1>7. /\ sessions' = [sessions EXCEPT ![z] = e] /\ registry' = [registry EXCEPT ![z] = g]
      /\ cohorts' = Admit(z) /\ Put(z, "Prepare", g) /\ Return(<<Call("release", z)>>)
      /\ UNCHANGED <<generation, groups, answers, preps, retries, cleanups, wake>>
  BY <1>5 DEF Created
<1>8. PICK more : more = <<Call("release", z)>>
  OBVIOUS
<1>9. /\ more \in Seq(Calls) /\ SeqSet(more) = {Call("release", z)}
      /\ Call("release", z).op = "release" /\ Return(more)
  BY <1>7, <1>8, OneMore DEF Ops
<1>10. sessions'[z] = e /\ \A y \in Zones \ {z} : sessions'[y] = sessions[y]
  BY <1>2, <1>7, OneSession
<1>11. Live(z)' /\ ~Playing(z)'
  BY <1>6, <1>10, NothingAssumption DEF Live, Playing
<1>12. /\ busy' = busy /\ slot'[z].kind = "Prepare" /\ slot'[z].gen = g /\ fresh'[z]
       /\ \A y \in Zones : y # z => slot'[y] = slot[y] /\ fresh'[y] = fresh[y]
  <2>1. TypeInv /\ "Prepare" \in Kinds /\ Put(z, "Prepare", g)
    BY <1>2, <1>7 DEF Kinds
  <2> QED
    BY <2>1, PutTypes
<1>13. \A y \in Zones \ {z} : registry'[y] = registry[y]
  BY <1>2, <1>7 DEF TypeInv
<1>14. /\ Counted(z)' \subseteq {0}
       /\ \A y \in Zones \ {z} : Counted(y)' \subseteq Counted(y) \cup {0} /\ Counted(y) \subseteq Counted(y)'
  BY <1>2, <1>7, AdmittedCounts
<1>15. Uncreating'
  BY <1>1, <1>9, CreatesNot
<1>16. \A y \in Zones \ {z} : Unstirred(y)
  BY <1>1, <1>7, <1>9, <1>10, <1>12, <1>13, <1>14, CallOthers
<1>17. Track(z)'
  <2>1. Waiting({"create"}, z) /\ OneAttempt(z)
    BY <1>1, <1>2, <1>3 DEF Waiting, Track
  <2>2. ~Obeyed(z) /\ Results(z) = {} /\ ~Arrived(z) /\ ~Retrying(z)
    BY <2>1 DEF OneAttempt, Attempt
  <2>3. /\ Sent(z)' /\ ~Obeyed(z)' /\ Results(z)' = {} /\ ~Arrived(z)' /\ ~Gathered(z)' /\ ~Retrying(z)'
    BY <1>3, <1>6, <1>7, <1>10, <1>12, <1>14, <2>2 DEF Sent, Obeyed, Results, Arrived, Gathered, Retrying
  <2>4. ~Waiting({"create"}, z)'
    BY <1>15, NoneCreates
  <2>5. Known(z)'
    BY <1>2, <1>3, <1>6, <1>7, <1>10 DEF Track, Known
  <2> QED
    BY <1>11, <2>3, <2>4, <2>5 DEF Track, OneAttempt, Attended, Attempt
<1> QED
  BY <1>16, <1>17, UnstirredRoom

(* The stream is created, or the timer is armed.                           *)
LEMMA CreateTracks ==
    ASSUME IInv, \A y \in Zones : Track(y), Create
    PROVE  \A y \in Zones : Track(y)'
<1>1. PICK z \in Zones : z = Head(calls).zone
  BY RunningCall DEF Create
<1>2. /\ Running("create")
      /\ UNCHANGED <<generation, groups, answers, preps, retries, cleanups, wake>>
      /\ LET y == Head(calls).zone
             g == sessions[y].gen
         IN  \/ /\ sessions' = [sessions EXCEPT ![y] = WithRetry(@, g)]
                /\ Return(<<>>)
                /\ UNCHANGED <<registry, cohorts, workers>>
             \/ /\ sessions' = [sessions EXCEPT ![y].encoder = g]
                /\ registry' = [registry EXCEPT ![y] = g]
                /\ cohorts' = Admit(y)
                /\ Put(y, "Prepare", g)
                /\ Return(<<Call("release", y)>>)
  BY Zenon DEF Create, inbox
<1>3. CASE /\ sessions' = [sessions EXCEPT ![Head(calls).zone] = WithRetry(@, sessions[Head(calls).zone].gen)]
           /\ Return(<<>>)
           /\ UNCHANGED <<registry, cohorts, workers>>
  BY <1>2, <1>3, CreateFailsTracks DEF workers
<1>4. CASE /\ sessions' = [sessions EXCEPT ![z].encoder = sessions[z].gen]
           /\ registry' = [registry EXCEPT ![z] = sessions[z].gen]
           /\ cohorts' = Admit(z)
           /\ Put(z, "Prepare", sessions[z].gen)
           /\ Return(<<Call("release", z)>>)
  <2>1. TypeInv /\ Live(z)
    BY <1>1, <1>2, RunningCall DEF IInv, Founded, Wanted
  <2>2. PICK g \in Nat : g = sessions[z].gen
    BY <2>1, Fresh
  <2>3. /\ sessions' = [sessions EXCEPT ![z].encoder = g]
        /\ registry' = [registry EXCEPT ![z] = g]
        /\ cohorts' = Admit(z)
        /\ Put(z, "Prepare", g)
        /\ Return(<<Call("release", z)>>)
    BY <1>4, <2>2, Zenon
  <2>4. Created(z, g)
    BY <1>1, <1>2, <2>2, <2>3 DEF Created
  <2> QED
    BY <1>2, <2>4, CreatedTracks
<1> QED
  BY <1>1, <1>2, <1>3, <1>4, Zenon

(* The room stops in a new generation.                                     *)
LEMMA PauseTracks ==
    ASSUME IInv, \A y \in Zones : Track(y), Pause
    PROVE  \A y \in Zones : Track(y)'
<1>1. PICK z \in Zones :
              /\ z = Head(calls).zone /\ Head(calls).op = "pause" /\ calls # <<>>
              /\ Founded(Head(calls))
  BY RunningCall DEF Pause
<1>2. TypeInv /\ RoomInv(z) /\ Track(z)
  BY DEF IInv
<1>3. ~Wanted(z)
  BY <1>1 DEF Founded
<1>4. PICK g \in Nat : g = NextGeneration(z) /\ g > generation[z] /\ generation[z] \in Nat
  BY <1>2, Fresh
<1>5. PICK e : e = IF Live(z) THEN [sessions[z] EXCEPT !.gen = g] ELSE Nothing
  OBVIOUS
<1>6. /\ e \in Session \cup {Nothing} /\ (e # Nothing <=> Live(z))
      /\ Live(z) => /\ e.gen = g /\ e.desired = sessions[z].desired /\ e.observed = sessions[z].observed
                    /\ e.retry = sessions[z].retry
  <2>1. CASE Live(z)
    <3>1. sessions[z] \in Session
      BY <1>2, <2>1, Fresh
    <3>2. e \in Session /\ e = [sessions[z] EXCEPT !.gen = g]
      BY <1>5, <2>1, <3>1, SessionTypes
    <3>3. /\ e.gen = g /\ e.desired = sessions[z].desired /\ e.observed = sessions[z].observed
          /\ e.retry = sessions[z].retry
      BY <3>1, <3>2 DEF Session
    <3> QED
      BY <2>1, <3>2, <3>3, NothingAssumption
  <2>2. CASE ~Live(z)
    BY <1>5, <2>2
  <2> QED
    BY <2>1, <2>2
<1>7. PICK more : more = <<Call("release", z)>>
  OBVIOUS
<1>8. /\ more \in Seq(Calls) /\ SeqSet(more) = {Call("release", z)} /\ Call("release", z).op = "release"
  BY <1>7, OneMore DEF Ops
<1>9. /\ sessions' = [sessions EXCEPT ![z] = e] /\ generation' = [generation EXCEPT ![z] = g]
      /\ Put(z, "Stop", g) /\ Return(more)
      /\ UNCHANGED <<registry, cohorts, groups, answers, preps, retries, cleanups, wake>>
  <2>1. /\ PauseStream(z) /\ Return(<<Call("release", z)>>)
        /\ UNCHANGED <<registry, cohorts, groups, answers, preps, retries, cleanups, wake>>
    BY <1>1, Zenon DEF Pause, inbox
  <2>2. sessions' = [sessions EXCEPT ![z] = e]
    <3>1. CASE Live(z)
      BY <1>4, <1>5, <2>1, <3>1 DEF PauseStream
    <3>2. CASE ~Live(z)
      <4>1. sessions' = sessions /\ e = Nothing /\ sessions[z] = Nothing
        BY <1>5, <2>1, <3>2 DEF PauseStream, Live
      <4> QED
        BY <1>2, <4>1 DEF TypeInv, Sessions
    <3> QED
      BY <3>1, <3>2
  <2> QED
    BY <1>4, <1>7, <2>1, <2>2 DEF PauseStream
<1>10. sessions'[z] = e /\ \A y \in Zones \ {z} : sessions'[y] = sessions[y]
  BY <1>2, <1>6, <1>9, OneSession
<1>11. (Live(z)' <=> Live(z)) /\ ~Wanted(z)' /\ (Live(z) => ~Playing(z)')
  <2>1. Live(z) => ~Playing(z)
    BY <1>2, <1>3 DEF RoomInv, Streaming, Wanted
  <2> QED
    BY <1>3, <1>6, <1>10, <2>1 DEF Live, Wanted, Playing
<1>12. /\ busy' = busy /\ slot'[z].kind = "Stop"
       /\ \A y \in Zones : y # z => slot'[y] = slot[y] /\ fresh'[y] = fresh[y]
  <2>1. "Stop" \in Kinds
    BY DEF Kinds
  <2> QED
    BY <1>2, <1>9, <2>1, PutTypes
<1>13. generation'[z] = g /\ \A y \in Zones \ {z} : generation'[y] = generation[y]
  BY <1>2, <1>9 DEF TypeInv
<1>14. \A y \in Zones : Counted(y)' = Counted(y)
  BY <1>9 DEF Counted
<1>15. Uncreating'
  BY <1>1, <1>8, <1>9, CreatesNot
<1>16. \A y \in Zones \ {z} : Unstirred(y)
  BY <1>1, <1>8, <1>9, <1>10, <1>12, <1>13, <1>14, CallOthers
<1>17. Track(z)'
  <2>1. CASE Live(z)
    <3>1. sessions[z].retry \in 0..generation[z]
      BY <1>2, <2>1 DEF Track, Known
    <3>2. ~Attempt(z)' /\ (Retrying(z)' => sessions'[z].retry = g) /\ Known(z)' /\ g \notin 0..generation[z]
      BY <1>2, <1>4, <1>6, <1>9, <1>10, <1>11, <1>12, <1>13, <1>14, <2>1, <3>1, NewGeneration
      DEF RoomInv, Track
    <3>3. ~Retrying(z)'
      BY <1>6, <1>10, <2>1, <3>1, <3>2
    <3>4. ~Waiting({"create"}, z)'
      BY <1>15, NoneCreates
    <3> QED
      BY <1>11, <2>1, <3>2, <3>3, <3>4 DEF Track, OneAttempt, Attended, Attempt
  <2>2. CASE ~Live(z)
    <3>1. 0..generation[z] \subseteq 0..g
      BY <1>4
    <3> QED
      BY <1>2, <1>9, <1>11, <1>13, <2>2, <3>1 DEF Track, Known
  <2> QED
    BY <2>1, <2>2
<1> QED
  BY <1>16, <1>17, UnstirredRoom

(* The room that is gone stops.                                            *)
LEMMA StoppedTracks ==
    ASSUME IInv, \A y \in Zones : Track(y), Stopped
    PROVE  \A y \in Zones : Track(y)'
<1>1. PICK z \in Zones :
              /\ z = Head(calls).zone /\ Head(calls).op = "stopped" /\ calls # <<>>
              /\ Founded(Head(calls)) /\ Head(calls).gen \in Nat
  BY RunningCall DEF Stopped
<1>2. TypeInv /\ Track(z)
  BY DEF IInv
<1>3. PICK g \in Nat : g = Head(calls).gen
  BY <1>1
<1>4. ~Live(z)
  BY <1>1 DEF Founded
<1>5. PICK more : more = <<Call("release", z)>>
  OBVIOUS
<1>6. /\ more \in Seq(Calls) /\ SeqSet(more) = {Call("release", z)} /\ Call("release", z).op = "release"
  BY <1>5, OneMore DEF Ops
<1>7. /\ Put(z, "Stop", g) /\ Return(more)
      /\ UNCHANGED <<sessions, generation, registry, cohorts, groups, answers, preps, retries, cleanups, wake>>
  BY <1>1, <1>3, <1>5, Zenon DEF Stopped, inbox
<1>8. busy' = busy /\ \A y \in Zones : y # z => slot'[y] = slot[y] /\ fresh'[y] = fresh[y]
  <2>1. "Stop" \in Kinds
    BY DEF Kinds
  <2> QED
    BY <1>2, <1>7, <2>1, PutTypes
<1>9. \A y \in Zones : Counted(y)' = Counted(y)
  BY <1>7 DEF Counted
<1>10. \A y \in Zones \ {z} : Unstirred(y)
  BY <1>1, <1>6, <1>7, <1>8, <1>9, CallOthers
<1>11. Track(z)'
  BY <1>2, <1>4, <1>7 DEF Track, Known, Live
<1> QED
  BY <1>10, <1>11, UnstirredRoom

(* A new session has no generation yet.                                    *)
LEMMA BeginTracks ==
    ASSUME IInv, \A y \in Zones : Track(y), Begin
    PROVE  \A y \in Zones : Track(y)'
<1>1. PICK z \in Zones :
              /\ z = Head(calls).zone /\ Head(calls).op = "begin" /\ calls # <<>>
              /\ Head(calls) \in Calls /\ Founded(Head(calls))
              /\ SeqSet(calls) = {Head(calls)} \cup SeqSet(Tail(calls))
  BY RunningCall DEF Begin
<1>2. TypeInv /\ CallsInv /\ Track(z)
  BY DEF IInv
<1>3. /\ Tail(calls) = <<>> /\ \A c \in SeqSet(calls) : c.zone = z
  <2>1. Tail(calls) = <<>>
    BY <1>1, <1>2, BeginLastAfter DEF CallsInv, TypeInv
  <2> QED
    BY <1>1, <2>1, SetOfNone
<1>4. NewSession \in Session /\ NewSession.gen = 0 /\ NewSession.retry = 0
  <2>1. 0 \in 0..MaxAttempts
    BY BoundsAssumption
  <2> QED
    BY <2>1 DEF NewSession, Session
<1>5. PICK e \in Session : e = NewSession
  BY <1>4
<1>6. /\ sessions' = [sessions EXCEPT ![z] = e]
      /\ cohorts' = [i \in DOMAIN cohorts |-> Withdraw(z, cohorts[i])]
      /\ calls' = <<Call("restart", z)>>
      /\ UNCHANGED <<generation, registry, groups, slot, fresh, busy, answers, preps, retries, cleanups, wake>>
  <2>1. /\ sessions' = [sessions EXCEPT ![z] = NewSession]
        /\ cohorts' = [i \in DOMAIN cohorts |-> Withdraw(z, cohorts[i])]
        /\ Return(<<Call("restart", z)>>)
        /\ UNCHANGED <<generation, registry, groups, slot, fresh, busy, answers, preps, retries, cleanups, wake>>
    BY <1>1, Zenon DEF Begin, workers, inbox
  <2>2. <<Call("restart", z)>> \o <<>> = <<Call("restart", z)>>
    OBVIOUS
  <2> QED
    BY <1>3, <1>5, <2>1, <2>2 DEF Return
<1>7. sessions'[z] = e /\ \A y \in Zones \ {z} : sessions'[y] = sessions[y]
  BY <1>2, <1>6, OneSession
<1>8. \A y \in Zones \ {z} : Counted(y)' = Counted(y)
  BY <1>2, <1>6, WithdrawnFromAll DEF Counted
<1>9. Uncreating'
  BY <1>6, Creatingless DEF Ops
<1>10. \A y \in Zones \ {z} : Unstirred(y)
  BY <1>3, <1>6, <1>7, <1>8, <1>9, NoneCreates DEF Unstirred, Same
<1>11. Track(z)'
  <2>1. generation[z] \in Nat /\ 0 \in 0..generation[z]
    <3>1. generation[z] \in Nat
      BY <1>2 DEF TypeInv
    <3> QED
      BY <3>1
  <2> QED
    BY <1>2, <1>4, <1>5, <1>6, <1>7, <2>1 DEF Track, Known
<1> QED
  BY <1>10, <1>11, UnstirredRoom

(* While nothing of the rooms changes and no stream comes to be created,   *)
(* what is followed stays.                                                 *)
LEMMA NoneStirred ==
    ASSUME \A y \in Zones : Track(y), \A y \in Zones : Same(y),
           calls' = calls \/ Uncreating', groups' = groups
    PROVE  \A y \in Zones : Track(y)'
<1>1. \A y \in Zones : Unstirred(y)
  BY NoneCreates DEF Unstirred
<1> QED
  BY <1>1, UnstirredRoom

(* The rooms that a cohort plays are not counted any more.                 *)
LEMMA StartedCohortTracks ==
    ASSUME IInv, \A y \in Zones : Track(y), Running("release"), cohorts # <<>>,
           cohorts' = Tail(cohorts), NEW rooms \in SUBSET Zones, CohortPlays(rooms),
           UNCHANGED <<generation, registry, calls, busy, answers, preps, retries>>
    PROVE  \A y \in Zones : Track(y)'
<1>1. TypeInv /\ PlacesInv /\ PreparedInv /\ \A y \in Zones : RoomInv(y)
  BY DEF IInv
<1>2. ASSUME NEW y \in rooms PROVE Track(y)'
  <2>1. /\ Wanted(y) /\ sessions[y].gen # 0 /\ y \in Zones
        /\ y \in SeqSet(Head(cohorts).sessions) /\ Head(cohorts).prepared[y] = sessions[y].gen
        /\ slot'[y].kind \in StartKinds /\ slot'[y].gen = sessions[y].gen /\ fresh'[y]
        /\ Live(y)' /\ sessions'[y].gen = sessions[y].gen /\ sessions'[y].retry = sessions[y].retry
        /\ sessions'[y].observed = sessions[y].observed
    BY <1>2 DEF CohortPlays
  <2>2. /\ 1 \in DOMAIN cohorts /\ cohorts[1] = Head(cohorts)
        /\ \A i \in DOMAIN cohorts' : i + 1 \in DOMAIN cohorts /\ i + 1 # 1 /\ cohorts'[i] = cohorts[i + 1]
    BY <1>1, CohortLeaves
  <2>3. Gathered(y)
    BY <2>1, <2>2 DEF Gathered, Counted
  <2>4. Live(y) /\ Track(y) /\ OneAttempt(y)
    BY <2>1 DEF Track, Wanted
  <2>5. ~Obeyed(y) /\ Results(y) = {} /\ ~Arrived(y) /\ ~Retrying(y) /\ ~Playing(y)
        /\ ~Waiting({"create"}, y)
    BY <2>3, <2>4 DEF OneAttempt, Attempt
  <2>6. ~Gathered(y)'
    <3> SUFFICES ASSUME NEW i \in DOMAIN cohorts', cohorts'[i].prepared[y] = sessions[y].gen
                 PROVE  FALSE
      BY <2>1 DEF Gathered, Counted
    <3>1. y \in SeqSet(cohorts'[i].sessions)
      BY <1>1, <2>1, PlacesLeave
    <3>2. i + 1 \in DOMAIN cohorts /\ i + 1 # 1 /\ y \in SeqSet(cohorts[i + 1].sessions)
      BY <2>2, <3>1
    <3>3. y \in SeqSet(cohorts[1].sessions)
      BY <2>1, <2>2
    <3> QED
      BY <1>1, <2>2, <3>2, <3>3 DEF PlacesInv
  <2>7. /\ Sent(y)' /\ ~Obeyed(y)' /\ Results(y)' = {} /\ ~Arrived(y)' /\ ~Retrying(y)' /\ ~Playing(y)'
        /\ ~Waiting({"create"}, y)'
    BY <2>1, <2>5 DEF Sent, Obeyed, Results, Arrived, Retrying, Playing, Waiting, StartKinds
  <2>8. Known(y)'
    BY <2>1, <2>4 DEF Track, Known
  <2> QED
    BY <2>1, <2>6, <2>7, <2>8 DEF Track, OneAttempt, Attended, Attempt
<1>3. \A y \in Zones \ rooms : Unstirred(y)
  BY NoneCreates DEF CohortPlays, Unstirred
<1> QED
  BY <1>2, <1>3, UnstirredRoom

(* The oldest cohort is dropped, waits on, or starts.                      *)
LEMMA ReleaseTracks ==
    ASSUME IInv, \A y \in Zones : Track(y), Release
    PROVE  \A y \in Zones : Track(y)'
<1>1. /\ Running("release")
      /\ UNCHANGED <<generation, registry, answers, preps, retries, cleanups, wake>>
      /\ IF cohorts = <<>>
         THEN Return(<<>>) /\ UNCHANGED <<sessions, cohorts, groups, workers>>
         ELSE LET head == Pruned(Head(cohorts))
              IN  CASE head.sessions = <<>> ->
                         /\ cohorts' = Tail(cohorts)
                         /\ UNCHANGED <<sessions, groups, workers, calls>>
                    [] head.sessions # <<>> /\ ~ShouldStart(head) ->
                         /\ cohorts' = <<head>> \o Tail(cohorts)
                         /\ Return(<<>>)
                         /\ UNCHANGED <<sessions, groups, workers>>
                    [] OTHER ->
                         /\ cohorts' = Tail(cohorts)
                         /\ PlayPrepared(sessions, ReadyIn(head))
                         /\ UNCHANGED calls
  BY Zenon DEF Release, inbox
<1>2. ASSUME Return(<<>>) PROVE Uncreating'
  <2>1. PICK more : more = <<>>
    OBVIOUS
  <2>2. more \in Seq(Calls) /\ SeqSet(more) = {} /\ Return(more)
    BY <1>2, <2>1, SetOfNone
  <2>3. calls # <<>>
    BY <1>1, RunningCall
  <2> QED
    BY <2>2, <2>3, CreatesNot
<1>3. CASE cohorts = <<>>
  <2>1. Return(<<>>) /\ UNCHANGED <<sessions, cohorts, groups, workers>>
    BY <1>1, <1>3, Zenon
  <2>2. \A y \in Zones : Same(y)
    BY <1>1, <1>3, <2>1, NothingToRelease DEF workers
  <2> QED
    BY <1>2, <2>1, <2>2, NoneStirred
<1>4. CASE cohorts # <<>> /\ Pruned(Head(cohorts)).sessions = <<>>
  <2>1. cohorts' = Tail(cohorts) /\ UNCHANGED <<sessions, groups, workers, calls>>
    BY <1>1, <1>4, Zenon
  <2>2. \A y \in Zones : Same(y)
    BY <1>1, <1>4, <2>1, EmptyCohortStep DEF workers
  <2> QED
    BY <2>1, <2>2, NoneStirred
<1>5. CASE cohorts # <<>> /\ Pruned(Head(cohorts)).sessions # <<>> /\ ~ShouldStart(Pruned(Head(cohorts)))
  <2>1. /\ cohorts' = <<Pruned(Head(cohorts))>> \o Tail(cohorts) /\ Return(<<>>)
        /\ UNCHANGED <<sessions, groups, workers>>
    BY <1>1, <1>5, Zenon
  <2>2. \A y \in Zones : Same(y)
    BY <1>1, <1>5, <2>1, WaitingCohortStep DEF workers
  <2> QED
    BY <1>2, <2>1, <2>2, NoneStirred
<1>6. CASE cohorts # <<>> /\ Pruned(Head(cohorts)).sessions # <<>> /\ ShouldStart(Pruned(Head(cohorts)))
  <2>1. /\ cohorts' = Tail(cohorts) /\ PlayPrepared(sessions, ReadyIn(Pruned(Head(cohorts))))
        /\ UNCHANGED calls
    BY <1>1, <1>6, Zenon
  <2>2. PICK rooms \in SUBSET Zones : CohortPlays(rooms)
    BY <1>1, <1>6, <2>1, StartedCohortStep
  <2>3. busy' = busy
    BY <2>1, Zenon DEF PlayPrepared
  <2> QED
    BY <1>1, <1>6, <2>1, <2>2, <2>3, StartedCohortTracks
<1> QED
  BY <1>3, <1>4, <1>5, <1>6

(* The second invariant: what Track says of every room.                    *)
Followed == \A z \in Zones : Track(z)

(* Nothing is known of a room that never had a session.                    *)
LEMMA InitiallyFollowed == ASSUME Init PROVE Followed
<1>1. ASSUME NEW z \in Zones PROVE Track(z)
  <2>1. ~Live(z) /\ preps[z] = {} /\ retries[z] = {}
    BY DEF Init, Live
  <2> QED
    BY <2>1 DEF Track, Known
<1> QED
  BY <1>1 DEF Followed

(* Every step keeps it, on top of the first invariant.                     *)
LEMMA EveryStepFollows == ASSUME IInv, Followed, [Next]_vars PROVE Followed'
<1> USE DEF Followed
<1>1. CASE UNCHANGED vars
  <2>1. \A y \in Zones : Same(y)
    BY <1>1 DEF vars, Same, Counted
  <2> QED
    BY <1>1, <2>1, NoneStirred DEF vars
<1>2. CASE RuntimeStep
  BY <1>2, RestartTracks, ReplaceTracks, CreateTracks, ReleaseTracks, PauseTracks, StoppedTracks, BeginTracks
  DEF RuntimeStep
<1>3. CASE HandleWake
  BY <1>3, HandleWakeTracks
<1>4. CASE \E i \in DOMAIN cohorts : CohortTick(i)
  BY <1>4, CohortTickTracks
<1>5. ASSUME NEW z \in Zones, Handle(z) PROVE Followed'
  BY <1>5, HandleStartResultTracks, HandleRetryTracks, HandlePreparedTracks, HandleCleanupTracks DEF Handle
<1>6. ASSUME NEW z \in Zones, Worker(z) PROVE Followed'
  BY <1>6, WorkerTakeTracks, WorkerAnswerTracks, WorkerAbandonTracks DEF Worker
<1>7. ASSUME NEW z \in Zones, RetryFires(z) \/ CleanupFires(z) PROVE Followed'
  BY <1>7, RetryFiresTracks, CleanupFiresTracks
<1>8. ASSUME NEW z \in Zones, AirPlayEvent(z) PROVE Followed'
  BY <1>8, SessionStartedTracks, SessionStoppedTracks, SetPlayingTracks, SetPausedTracks, FlushedTracks,
     StreamEndedTracks, EncoderClosedTracks DEF AirPlayEvent
<1> QED
  BY <1>1, <1>2, <1>3, <1>4, <1>5, <1>6, <1>7, <1>8 DEF Next, Progress

(* Both invariants hold always.  A session has one attempt at a time to    *)
(* start its stream, none while a retry of it is due, and none while it    *)
(* plays; a retry while it plays is due to an encoder that closed.         *)
THEOREM OneAttemptAtATime == Spec => [](IInv /\ Followed)
<1>1. Init => IInv /\ Followed
  BY Initially, InitiallyFollowed
<1>2. IInv /\ Followed /\ [Next]_vars => IInv' /\ Followed'
  BY EveryStep, Stuttering, EveryStepFollows
<1> QED
  BY <1>1, <1>2, PTL DEF Spec

(* No command of another kind than Play starts the stream again.           *)
NoReplay ==
    \A y \in Zones :
        slot'[y] # Nothing /\ slot'[y].kind = "Play" /\ fresh'[y] /\ ~fresh[y] => ~Playing(y)

LEMMA OtherCommand ==
    ASSUME TypeInv, NEW z \in Zones, NEW kind, kind # "Play", NEW g, Put(z, kind, g)
    PROVE  NoReplay
<1>1. /\ slot' = [slot EXCEPT ![z] = [kind |-> kind, gen |-> g]] /\ fresh' = [fresh EXCEPT ![z] = TRUE]
      /\ slot \in [Zones -> Command \cup {Nothing}] /\ fresh \in [Zones -> BOOLEAN]
  BY DEF Put, TypeInv, Channels
<1>2. slot'[z].kind = kind /\ \A y \in Zones \ {z} : fresh'[y] = fresh[y]
  BY <1>1
<1> QED
  BY <1>2 DEF NoReplay

(* A command that was not queued before is put by a handler only.          *)
LEMMA NothingQueued ==
    ASSUME TypeInv, fresh' = fresh \/ \E z \in Zones : fresh' = [fresh EXCEPT ![z] = FALSE]
    PROVE  NoReplay
  BY DEF NoReplay, TypeInv

(* A retry plays the prepared stream of a session that does not play yet.  *)
LEMMA RetryNoReplay ==
    ASSUME IInv, Followed, NEW z \in Zones, HandleRetry(z)
    PROVE  NoReplay
<1>1. PICK g \in retries[z] :
        /\ Idle
        /\ UNCHANGED workers \/ (Due(z, g) /\ sessions[z].prepared /\ Put(z, "Play", g))
  BY Zenon DEF HandleRetry
<1>2. TypeInv /\ Track(z)
  BY DEF IInv, Followed
<1>3. CASE UNCHANGED workers
  BY <1>2, <1>3, NothingQueued DEF workers
<1>4. CASE Due(z, g) /\ sessions[z].prepared /\ Put(z, "Play", g)
  <2>1. Live(z) /\ sessions[z].gen # 0 /\ sessions[z].gen = g
    BY <1>1, <1>4, LiveRoom DEF Due, Current
  <2>2. Retrying(z) /\ OneAttempt(z)
    BY <1>2, <2>1 DEF Retrying, Track
  <2>3. ~Playing(z)
    BY <1>4, <2>2 DEF OneAttempt
  <2>4. \A y \in Zones \ {z} : fresh'[y] = fresh[y]
    BY <1>2, <1>4 DEF Put, TypeInv
  <2> QED
    BY <2>3, <2>4 DEF NoReplay
<1> QED
  BY <1>1, <1>3, <1>4

(* So does a stream that was prepared.                                     *)
LEMMA PreparedNoReplay ==
    ASSUME IInv, Followed, NEW z \in Zones, HandlePrepared(z)
    PROVE  NoReplay
<1> DEFINE ready == [sessions EXCEPT ![z] = [@ EXCEPT !.prepared = TRUE]]
<1>1. PICK g \in preps[z] :
        /\ Idle
        /\ UNCHANGED workers \/ (Due(z, g) /\ PlayPrepared(ready, <<z>>))
  BY PreparedCases
<1>2. TypeInv /\ Track(z)
  BY DEF IInv, Followed
<1>3. CASE UNCHANGED workers
  BY <1>2, <1>3, NothingQueued DEF workers
<1>4. CASE Due(z, g) /\ PlayPrepared(ready, <<z>>)
  <2>1. Live(z) /\ sessions[z].gen # 0 /\ sessions[z].gen = g
    BY <1>1, <1>4, LiveRoom DEF Due, Current
  <2>2. Arrived(z) /\ OneAttempt(z)
    BY <1>2, <2>1 DEF Arrived, Track
  <2>3. ~Playing(z)
    BY <2>2 DEF OneAttempt, Attempt
  <2>4. PICK played : played = <<z>>
    OBVIOUS
  <2>5. SeqSet(played) = {z}
    BY <2>4, SetOfOne
  <2>6. fresh' = [y \in Zones |-> y \in SeqSet(played) \/ fresh[y]]
    BY <1>4, <2>4, Zenon DEF PlayPrepared
  <2> QED
    BY <2>3, <2>5, <2>6 DEF NoReplay
<1> QED
  BY <1>1, <1>3, <1>4

(* The rooms that a cohort plays waited for it, and do not play yet.       *)
LEMMA ReleaseNoReplay ==
    ASSUME IInv, Followed, Release
    PROVE  NoReplay
<1>1. Running("release") /\ TypeInv
  BY DEF Release, IInv
<1>2. \/ UNCHANGED workers
      \/ /\ cohorts # <<>> /\ Pruned(Head(cohorts)).sessions # <<>> /\ cohorts' = Tail(cohorts)
         /\ PlayPrepared(sessions, ReadyIn(Pruned(Head(cohorts))))
         /\ UNCHANGED <<generation, registry, calls, answers, preps, retries, cleanups, wake>>
  BY Zenon DEF Release, inbox
<1>3. CASE UNCHANGED workers
  BY <1>1, <1>3, NothingQueued DEF workers
<1>4. CASE /\ cohorts # <<>> /\ cohorts' = Tail(cohorts)
           /\ PlayPrepared(sessions, ReadyIn(Pruned(Head(cohorts))))
           /\ UNCHANGED <<generation, registry, calls, answers, preps, retries, cleanups, wake>>
  <2>1. PICK rooms \in SUBSET Zones : CohortPlays(rooms)
    BY <1>1, <1>4, StartedCohortStep
  <2>2. \A y \in Zones \ rooms : fresh'[y] = fresh[y]
    BY <2>1 DEF CohortPlays, Same
  <2>3. ASSUME NEW y \in rooms PROVE ~Playing(y)
    <3>1. /\ y \in Zones /\ Live(y) /\ sessions[y].gen # 0
          /\ Head(cohorts).prepared[y] = sessions[y].gen
      BY <2>1, <2>3 DEF CohortPlays, Wanted
    <3>2. 1 \in DOMAIN cohorts /\ cohorts[1] = Head(cohorts)
      BY <1>1, <1>4, CohortLeaves
    <3>3. Gathered(y) /\ OneAttempt(y)
      BY <3>1, <3>2 DEF Gathered, Counted, Followed, Track
    <3> QED
      BY <3>3 DEF OneAttempt, Attempt
  <2> QED
    BY <2>2, <2>3 DEF NoReplay
<1> QED
  BY <1>2, <1>3, <1>4

(* The commands of the other calls stop a room or prepare it.              *)
LEMMA CallsNoReplay ==
    ASSUME IInv, Restart \/ Replace \/ Create \/ Pause \/ Stopped \/ Begin
    PROVE  NoReplay
<1>1. TypeInv /\ \A op : Running(op) => Head(calls).zone \in Zones
  BY RunningCall DEF IInv
<1> DEFINE z == Head(calls).zone
<1>2. CASE Restart \/ Begin
  BY <1>1, <1>2, NothingQueued, Zenon DEF Restart, Begin, workers
<1>3. CASE Replace
  <2>1. Running("replace") /\ (UNCHANGED workers \/ Put(z, "Stop", NextGeneration(z)))
    BY <1>3, Zenon DEF Replace
  <2> QED
    BY <1>1, <2>1, NothingQueued, OtherCommand DEF workers
<1>4. CASE Create
  <2>1. Running("create") /\ (UNCHANGED workers \/ Put(z, "Prepare", sessions[z].gen))
    BY <1>4, Zenon DEF Create
  <2> QED
    BY <1>1, <2>1, NothingQueued, OtherCommand DEF workers
<1>5. CASE Pause
  <2>1. Running("pause") /\ Put(z, "Stop", NextGeneration(z))
    BY <1>5, Zenon DEF Pause, PauseStream
  <2> QED
    BY <1>1, <2>1, OtherCommand
<1>6. CASE Stopped
  <2>1. Running("stopped") /\ Put(z, "Stop", Head(calls).gen)
    BY <1>6, Zenon DEF Stopped
  <2> QED
    BY <1>1, <2>1, OtherCommand
<1> QED
  BY <1>2, <1>3, <1>4, <1>5, <1>6

(* Of the AirPlay events only a closed encoder puts a command, and it is   *)
(* Stop; the other messages, timers and workers put none.                  *)
LEMMA EventsNoReplay ==
    ASSUME IInv, NEW z \in Zones,
           \/ AirPlayEvent(z) \/ Worker(z) \/ RetryFires(z) \/ CleanupFires(z)
           \/ HandleStartResult(z) \/ HandleCleanup(z)
    PROVE  NoReplay
<1>1. TypeInv
  BY DEF IInv
<1>2. CASE EncoderClosed(z)
  <2>1. UNCHANGED workers \/ \E g : Put(z, "Stop", g)
    BY <1>2, Zenon DEF EncoderClosed
  <2> QED
    BY <1>1, <2>1, NothingQueued, OtherCommand DEF workers
<1>3. CASE SessionStarted(z) \/ SessionStopped(z) \/ SetPlaying(z) \/ SetPaused(z) \/ Flushed(z)
           \/ StreamEndedWhilePaused(z)
  <2>1. UNCHANGED workers
    BY <1>3, Zenon DEF SessionStarted, SessionStopped, SetPlaying, SetPaused, Flushed, StreamEndedWhilePaused
  <2> QED
    BY <1>1, <2>1, NothingQueued DEF workers
<1>4. CASE RetryFires(z) \/ CleanupFires(z) \/ HandleStartResult(z) \/ HandleCleanup(z)
  <2>1. UNCHANGED workers
    BY <1>4, Zenon DEF RetryFires, CleanupFires, HandleStartResult, HandleCleanup
  <2> QED
    BY <1>1, <2>1, NothingQueued DEF workers
<1>5. CASE Worker(z)
  BY <1>1, <1>5, NothingQueued DEF Worker, WorkerTake, WorkerAnswer, WorkerAbandon
<1> QED
  BY <1>2, <1>3, <1>4, <1>5 DEF AirPlayEvent

(* The stream of a room is told to play only when the room does not play   *)
(* yet: not by the retry timer, not by a prepared message, not by a cohort *)
(* that is released, in whatever order they come.                          *)
THEOREM StreamsNeverReplay == Spec => NeverReplays
<1>1. IInv /\ Followed /\ [Next]_vars =>
         [\A z \in Zones :
             slot'[z] # Nothing /\ slot'[z].kind = "Play" /\ fresh'[z] /\ ~fresh[z]
                 => ~Playing(z)]_<<slot, fresh>>
  <2> SUFFICES ASSUME IInv, Followed, Next PROVE NoReplay
    BY DEF vars, NoReplay
  <2>1. CASE RuntimeStep
    BY <2>1, ReleaseNoReplay, CallsNoReplay DEF RuntimeStep
  <2>2. CASE HandleWake \/ \E i \in DOMAIN cohorts : CohortTick(i)
    <3>1. UNCHANGED workers /\ TypeInv
      BY <2>2, Zenon DEF HandleWake, CohortTick, IInv
    <3> QED
      BY <3>1, NothingQueued DEF workers
  <2>3. ASSUME NEW z \in Zones, Handle(z) \/ Worker(z) \/ RetryFires(z) \/ CleanupFires(z) \/ AirPlayEvent(z)
        PROVE  NoReplay
    BY <2>3, RetryNoReplay, PreparedNoReplay, EventsNoReplay DEF Handle
  <2> QED
    BY <2>1, <2>2, <2>3 DEF Next, Progress
<1> QED
  BY <1>1, OneAttemptAtATime, PTL DEF Spec, NeverReplays

(* A coordinator whose members still wait for it, and that has an encoder, *)
(* did not give up for good: it plays, or an attempt or a retry is under   *)
(* way.                                                                    *)
THEOREM MembersAreAttended == Spec => []NoSilentMembersWhileEncoding
<1>1. IInv /\ Followed => NoSilentMembersWhileEncoding
  <2> SUFFICES ASSUME IInv, Followed, Idle, NEW c \in DOMAIN groups, groups[c] # <<>>,
                      sessions[c].encoder # 0
               PROVE  Playing(c) \/ UnderWay(c)
    BY DEF NoSilentMembersWhileEncoding
  <2>1. c \in Zones /\ groups[c] \in Seq(Zones) /\ GroupsSound
    BY DEF IInv, TypeInv
  <2>2. groups[c][1] \in SeqSet(groups[c])
    BY <2>1 DEF SeqSet
  <2>3. Wanted(c)
    BY <2>1, <2>2 DEF GroupsSound
  <2>4. Live(c) /\ sessions[c].gen # 0
    BY <2>1, <2>3, LiveRoom DEF Wanted
  <2>5. Playing(c) \/ Attempt(c) \/ Retrying(c)
    BY <2>1, <2>3, <2>4, IdleWaits DEF Followed, Track, Attended
  <2> QED
    BY <2>5, WhatIsUnderWay
<1> QED
  BY <1>1, OneAttemptAtATime, PTL

=============================================================================
