------------------------- MODULE ZoneWorkerProofs --------------------------
(***************************************************************************)
(* The safety properties of ZoneWorker, proved for any number of           *)
(* generations.                                                            *)
(*                                                                         *)
(* They rest on how the stage of the runtime constrains what the worker    *)
(* and the room can still be doing: Sonos plays whatever some earlier      *)
(* prepare loaded, and Join does not leave a group first, so both are      *)
(* right only because of what was commanded before.                        *)
(***************************************************************************)
EXTENDS ZoneWorker, TLAPS

(* The command last sent tells the stage.                                  *)
StageFollowsSlot ==
    /\ stage = "new" \/ gen > 0
    /\ stage \in {"new", "over"} => slot = Nothing \/ slot.kind = "Stop"
    /\ stage = "preparing" => slot = [kind |-> "Prepare", gen |-> gen]
    /\ stage = "prepared" => slot = [kind |-> "Prepare", gen |-> gen] /\ ~fresh
    /\ stage = "started" => slot # Nothing /\ slot.kind \in StartKinds /\ slot.gen = gen
    /\ slot # Nothing => slot.gen <= gen /\ (slot.kind = "Join" => device.sonos)

(* What the worker can still be running at that stage.  A generation is    *)
(* prepared at most once, so a Prepare of the current generation that runs *)
(* is the one in the slot.                                                 *)
StageFollowsTask ==
    /\ task # Nothing =>
          /\ report = Nothing
          /\ task.cmd.gen <= gen
          /\ stage = "new" /\ task.cmd.kind # "Stop" => task.cmd.gen < gen
          /\ stage = "preparing" /\ task.cmd.kind = "Prepare" /\ task.cmd.gen = gen => ~fresh
          /\ stage = "prepared" => FALSE
          /\ stage = "started" => task.cmd.kind \in StartKinds
          /\ task.cmd.kind = "Join" => device.sonos
    /\ fresh /\ slot.kind \in {"Join", "PlayGroup"} => task = Nothing

(* What a Sonos room has loaded and whether it is in a group, at each      *)
(* stage and at each step of a task.                                       *)
RoomFollows ==
    /\ device.sonos /\ stage \in {"prepared", "started"} => room.uri = gen
    /\ device.sonos /\ stage = "prepared" => ~room.grouped
    /\ fresh /\ slot.kind = "Join" => ~room.grouped
    /\ task # Nothing =>
          /\ device.sonos /\ task.cmd.kind \in StartKinds => room.uri = task.cmd.gen
          /\ task.cmd.kind = "Join" => ~room.grouped
          /\ task.at = "uri" => ~room.playing /\ ~room.grouped
          /\ device.sonos /\ task.at = "wait" =>
                ~room.playing /\ ~room.grouped /\ room.uri = task.cmd.gen

(* The inductive invariant.                                                *)
IInv ==
    /\ TypeOK
    /\ StageFollowsSlot
    /\ StageFollowsTask
    /\ RoomFollows
    /\ ReportsAreTruthful
    /\ MembershipKnownUnlessReset

----------------------------------------------------------------------------
(* Nothing is no command, no task and no answer.                           *)
LEMMA NothingElse ==
    /\ \A c \in Sent : c # Nothing
    /\ \A c \in Sent, s \in Steps : [cmd |-> c, at |-> s] # Nothing
    /\ \A g \in Gens, k \in Kinds, o \in Outcomes :
          [gen |-> g, kind |-> k, outcome |-> o] # Nothing
<1>1. Sent \subseteq Command
  BY MaxGenAssumption DEF Sent, Gens, Command
<1>3. \A c \in Sent, s \in Steps : [cmd |-> c, at |-> s] \in [cmd : Command, at : Steps]
  BY <1>1
<1>4. \A g \in Gens : g \in Nat
  BY MaxGenAssumption DEF Gens
<1> QED
  BY <1>1, <1>3, <1>4, NothingAssumption

(* A worker begins every command at a step of its kind.                    *)
LEMMA FirstStepOfKind ==
    \A k \in Kinds :
        /\ FirstStep(k) \in StepsOf(k) /\ BodyStep(k) \in StepsOf(k)
        /\ StepsOf(k) \subseteq Steps
        /\ FirstStep(k) \notin {"uri", "wait"} \/ ~device.sonos
        /\ BodyStep(k) \notin {"uri", "wait"} \/ ~device.sonos
        /\ BodyStep(k) # "uri" /\ FirstStep(k) # "uri"
  BY DEF Kinds, FirstStep, BodyStep, StepsOf, Steps, PrepareStep, LeavesFirst

(* A request changes the room only when the room accepts it.               *)
LEMMA RequestOutcome ==
    ASSUME NEW reply, NEW accepts, NEW after, Request(reply, accepts, after)
    PROVE  /\ room' = room \/ (accepts /\ room' = after)
           /\ reply = "ok" => accepts /\ room' = after
           /\ reply = "fault" /\ device \in Devices => room' = room
  BY DEF Request, ErrorReplies, Devices

(* The initial states satisfy the invariant.                               *)
LEMMA InitInvariant == Init => IInv
<1> SUFFICES ASSUME Init PROVE IInv
  OBVIOUS
<1>0. /\ device \in Devices /\ (device.sonos /\ device.force) \in BOOLEAN
      /\ room \in [grouped : BOOLEAN, uri : 0..MaxGen, playing : BOOLEAN]
  BY MaxGenAssumption DEF Init, Devices
<1>1. TypeOK
  BY <1>0, MaxGenAssumption DEF Init, TypeOK, Stages
<1>2. StageFollowsSlot /\ StageFollowsTask /\ RoomFollows
  BY <1>1 DEF Init, StageFollowsSlot, StageFollowsTask, RoomFollows, TypeOK, Devices
<1>3. ReportsAreTruthful /\ MembershipKnownUnlessReset
  BY DEF Init, ReportsAreTruthful, MembershipKnownUnlessReset, MembershipKnown
<1> QED
  BY <1>1, <1>2, <1>3 DEF IInv

(* A command the runtime sends preserves the invariant.                    *)
LEMMA SendStopInvariant == ASSUME IInv, SendStop PROVE IInv'
<1> USE NothingElse DEF IInv
<1>1. PICK g \in {gen, gen + 1} \cap 1..MaxGen :
         Send("Stop", g) /\ stage' = IF g = gen THEN "over" ELSE "new"
  BY DEF SendStop
<1>2. g \in Gens /\ slot' = [kind |-> "Stop", gen |-> g] /\ slot' \in Sent
  BY <1>1 DEF Send, Sent, Gens, Kinds
<1>3. TypeOK'
  BY <1>1, <1>2, MaxGenAssumption DEF TypeOK, Send, Gens, Stages
<1>4. StageFollowsSlot'
  BY <1>1, <1>2, MaxGenAssumption DEF StageFollowsSlot, Send, TypeOK
<1>5. StageFollowsTask'
  BY <1>1, <1>2, MaxGenAssumption DEF StageFollowsTask, Send, TypeOK, Sent, Gens
<1>6. RoomFollows'
  BY <1>1, <1>2 DEF RoomFollows, Send
<1>7. (ReportsAreTruthful /\ MembershipKnownUnlessReset)'
  BY <1>1 DEF ReportsAreTruthful, MembershipKnownUnlessReset, MembershipKnown, Truthful, Send
<1> QED
  BY <1>3, <1>4, <1>5, <1>6, <1>7

LEMMA SendPrepareInvariant == ASSUME IInv, SendPrepare PROVE IInv'
<1> USE NothingElse DEF IInv
<1>2. gen \in Gens /\ slot' = [kind |-> "Prepare", gen |-> gen] /\ slot' \in Sent
  BY MaxGenAssumption DEF SendPrepare, Send, Sent, Gens, Kinds, TypeOK
<1>3. TypeOK'
  BY <1>2 DEF TypeOK, SendPrepare, Send, Stages
<1>4. StageFollowsSlot'
  BY <1>2, MaxGenAssumption DEF StageFollowsSlot, SendPrepare, Send, Gens
<1>5. StageFollowsTask'
  BY <1>2, MaxGenAssumption DEF StageFollowsTask, SendPrepare, Send, TypeOK, Sent, Gens
<1>6. RoomFollows'
  BY <1>2 DEF RoomFollows, SendPrepare, Send
<1>7. (ReportsAreTruthful /\ MembershipKnownUnlessReset)'
  BY DEF ReportsAreTruthful, MembershipKnownUnlessReset, MembershipKnown, Truthful,
         SendPrepare, Send
<1> QED
  BY <1>3, <1>4, <1>5, <1>6, <1>7

LEMMA SendStartInvariant == ASSUME IInv, SendStart PROVE IInv'
<1> USE NothingElse DEF IInv
<1>1. PICK kind \in StartKinds :
         /\ kind = "Join" => device.sonos
         /\ stage = "started" => kind = "Play"
         /\ Send(kind, gen)
  BY DEF SendStart
<1>2. /\ stage \in {"prepared", "started"} /\ stage' = "started"
      /\ gen \in Gens /\ slot' = [kind |-> kind, gen |-> gen] /\ slot' \in Sent
  BY <1>1, MaxGenAssumption
     DEF SendStart, Send, Sent, Gens, Kinds, StartKinds, TypeOK, StageFollowsSlot
<1>3. TypeOK'
  BY <1>1, <1>2 DEF TypeOK, Send, Stages
<1>4. StageFollowsSlot'
  BY <1>1, <1>2, MaxGenAssumption DEF StageFollowsSlot, Send, StartKinds, Gens
<1>5. StageFollowsTask'
  BY <1>1, <1>2 DEF StageFollowsTask, Send, StartKinds
<1>6. RoomFollows'
  BY <1>1, <1>2 DEF RoomFollows, Send
<1>7. (ReportsAreTruthful /\ MembershipKnownUnlessReset)'
  BY <1>1 DEF ReportsAreTruthful, MembershipKnownUnlessReset, MembershipKnown, Truthful, Send
<1> QED
  BY <1>3, <1>4, <1>5, <1>6, <1>7

(* Taking a command preserves it.                                          *)
LEMMA TakeInvariant == ASSUME IInv, Take PROVE IInv'
<1> USE NothingElse DEF IInv
<1>1. /\ slot \in Sent /\ slot.kind \in Kinds
      /\ task' = [cmd |-> slot, at |-> FirstStep(slot.kind)]
      /\ report' = Nothing /\ ~fresh'
      /\ UNCHANGED <<slot, open, joined, room, device, gen, stage>>
  BY DEF Take, TypeOK, Sent, runtime
<1>2. /\ task' \in [cmd : Sent, at : Steps] /\ task' # Nothing
      /\ task'.cmd = slot /\ task'.at = FirstStep(slot.kind)
      /\ slot.gen \in Nat /\ gen \in Nat
  BY <1>1, FirstStepOfKind, MaxGenAssumption DEF Sent, Gens, TypeOK
<1>3. TypeOK'
  <2>1. task'.at \in StepsOf(task'.cmd.kind)
    BY <1>1, <1>2, FirstStepOfKind
  <2>2. (fresh => slot # Nothing)' /\ (report # Nothing => FALSE)' /\ fresh' \in BOOLEAN
    BY <1>1 DEF Take
  <2> QED
    BY <1>1, <1>2, <2>1, <2>2 DEF TypeOK
<1>4. StageFollowsSlot'
  BY <1>1 DEF StageFollowsSlot
<1>5. StageFollowsTask'
  <2>1. fresh /\ slot # Nothing /\ stage \in Stages
    BY DEF Take, TypeOK
  <2>2. stage = "new" /\ slot.kind # "Stop" => FALSE
    BY <2>1 DEF StageFollowsSlot
  <2>3. slot.gen <= gen
    BY <2>1, <1>1, <1>2 DEF StageFollowsSlot, Stages
  <2>4. stage # "prepared"
    BY <2>1 DEF StageFollowsSlot
  <2> QED
    BY <1>1, <1>2, <2>1, <2>2, <2>3, <2>4 DEF StageFollowsTask, StageFollowsSlot
<1>6. RoomFollows'
  BY <1>1, <1>2, FirstStepOfKind
     DEF RoomFollows, StageFollowsSlot, StartKinds, Take, TypeOK, Stages
<1>7. (ReportsAreTruthful /\ MembershipKnownUnlessReset)'
  BY <1>1 DEF ReportsAreTruthful, MembershipKnownUnlessReset, MembershipKnown
<1> QED
  BY <1>3, <1>4, <1>5, <1>6, <1>7

----------------------------------------------------------------------------
(* The three ways a step of the worker ends: at another step, with an      *)
(* answer, or cancelled.                                                   *)
Rooms == [grouped : BOOLEAN, uri : 0..MaxGen, playing : BOOLEAN]

(* What every request keeps: a start command never changes what is loaded. *)
RoomStep ==
    /\ room' \in Rooms
    /\ joined' \in BOOLEAN
    /\ device.sonos /\ task.cmd.kind \in StartKinds => room'.uri = room.uri
    /\ MembershipKnownUnlessReset'

LEMMA TaskFacts ==
    ASSUME IInv, task # Nothing
    PROVE  /\ task \in [cmd : Sent, at : Steps] /\ task.at \in StepsOf(task.cmd.kind)
           /\ task.cmd.kind \in Kinds /\ task.cmd.gen \in Gens /\ task.cmd.gen \in Nat
           /\ room \in Rooms /\ device \in Devices /\ joined \in BOOLEAN
           /\ stage \in Stages /\ stage # "prepared" /\ report = Nothing
           /\ stage = "started" => task.cmd.kind \in StartKinds
           /\ fresh => slot.kind \notin {"Join", "PlayGroup"}
  BY MaxGenAssumption DEF IInv, TypeOK, StageFollowsTask, Sent, Gens, Rooms, Kinds

LEMMA GoToInvariant ==
    ASSUME IInv, task # Nothing, NEW step \in StepsOf(task.cmd.kind), GoTo(step), RoomStep,
           UNCHANGED <<channel, report, device, runtime>>,
           task.cmd.kind = "Join" => ~room'.grouped,
           step = "uri" => ~room'.playing /\ ~room'.grouped,
           device.sonos /\ step = "wait" =>
               ~room'.playing /\ ~room'.grouped /\ room'.uri = task.cmd.gen
    PROVE  IInv'
<1> USE NothingElse, TaskFacts DEF IInv
<1>1. /\ task' = [cmd |-> task.cmd, at |-> step] /\ task'.cmd = task.cmd /\ task'.at = step
      /\ step \in Steps /\ task' # Nothing
      /\ UNCHANGED <<slot, fresh, open, report, device, gen, stage>>
  BY FirstStepOfKind DEF GoTo, channel, runtime
<1>2. TypeOK'
  BY <1>1 DEF TypeOK, RoomStep, Rooms
<1>3. StageFollowsSlot'
  BY <1>1 DEF StageFollowsSlot
<1>4. StageFollowsTask'
  BY <1>1 DEF StageFollowsTask
<1>5. RoomFollows'
  BY <1>1 DEF RoomFollows, RoomStep
<1>6. (ReportsAreTruthful /\ MembershipKnownUnlessReset)'
  BY <1>1 DEF ReportsAreTruthful, RoomStep
<1> QED
  BY <1>2, <1>3, <1>4, <1>5, <1>6

LEMMA CancelInvariant ==
    ASSUME IInv, task # Nothing, task' = Nothing, RoomStep,
           UNCHANGED <<channel, report, device, runtime>>
    PROVE  IInv'
<1> USE NothingElse, TaskFacts DEF IInv
<1>1. UNCHANGED <<slot, fresh, open, report, device, gen, stage>>
  BY DEF channel, runtime
<1>2. TypeOK'
  BY <1>1 DEF TypeOK, RoomStep, Rooms
<1>3. StageFollowsSlot' /\ StageFollowsTask'
  BY <1>1 DEF StageFollowsSlot, StageFollowsTask
<1>4. RoomFollows'
  BY <1>1 DEF RoomFollows, RoomStep
<1>5. (ReportsAreTruthful /\ MembershipKnownUnlessReset)'
  BY <1>1 DEF ReportsAreTruthful, RoomStep
<1> QED
  BY <1>2, <1>3, <1>4, <1>5

LEMMA FinishInvariant ==
    ASSUME IInv, task # Nothing, NEW outcome \in Answers(task.cmd.kind), Finish(outcome),
           RoomStep, UNCHANGED <<channel, device>>,
           NEW g, g = task.cmd.gen, Truthful(outcome, g)'
    PROVE  IInv'
<1> USE NothingElse, TaskFacts DEF IInv
<1>1. /\ report' = [gen |-> g, kind |-> task.cmd.kind, outcome |-> outcome]
      /\ task' = Nothing
      /\ UNCHANGED <<slot, fresh, open, device, gen>>
      /\ outcome \in Outcomes
      /\ outcome = "Prepared" => task.cmd.kind = "Prepare"
  BY DEF Finish, channel, Answers, Outcomes, Kinds
<1>2. \/ stage' = stage /\ stage' # "prepared"
      \/ stage' = "prepared" /\ stage = "preparing" /\ outcome = "Prepared" /\ g = gen
  BY DEF Finish
<1>3. TypeOK'
  BY <1>1, <1>2 DEF TypeOK, RoomStep, Rooms, Stages
<1>4. StageFollowsSlot'
  BY <1>1, <1>2 DEF StageFollowsSlot, StageFollowsTask
<1>5. StageFollowsTask'
  BY <1>1 DEF StageFollowsTask
<1>6. RoomFollows'
  BY <1>1, <1>2 DEF RoomFollows, RoomStep, Truthful
<1>7. ReportsAreTruthful'
  BY <1>1 DEF ReportsAreTruthful
<1>8. MembershipKnownUnlessReset'
  BY DEF RoomStep
<1> QED
  BY <1>3, <1>4, <1>5, <1>6, <1>7, <1>8

----------------------------------------------------------------------------
(* The steps of the worker.                                                *)
LEMMA LeaveInvariant == ASSUME IInv, Leave PROVE IInv'
<1> USE TaskFacts DEF IInv
<1>1. task # Nothing /\ task.at = "leave" /\ task.cmd.kind # "Join"
  BY DEF Leave, At, StepsOf, Kinds
<1>2. PICK reply \in Replies : LeaveRequest(reply) /\ joined' = (reply # "ok")
  BY DEF Leave
<1>3. room' = room \/ room' = Standalone
  BY <1>2, RequestOutcome DEF LeaveRequest
<1>4. room' \in Rooms /\ room'.uri = room.uri /\ (room'.grouped => room' = room)
  BY <1>1, <1>3 DEF Standalone, Rooms
<1>5. reply = "ok" => ~room'.grouped
  <2>1. reply = "ok" => room' = Standalone
    BY <1>2, RequestOutcome DEF LeaveRequest
  <2> QED
    BY <1>1, <2>1 DEF Standalone, Rooms
<1>6. RoomStep
  BY <1>1, <1>2, <1>4, <1>5 DEF RoomStep, MembershipKnownUnlessReset, MembershipKnown, Leave
<1>7. LET step == BodyStep(task.cmd.kind)
      IN  /\ step \in StepsOf(task.cmd.kind)
          /\ step # "uri" /\ (device.sonos => step # "wait")
  BY <1>1, FirstStepOfKind
<1> QED
  BY <1>1, <1>6, <1>7, GoToInvariant DEF Leave

LEMMA PrepareStandaloneInvariant == ASSUME IInv, PrepareStandalone PROVE IInv'
<1> USE TaskFacts DEF IInv
<1>1. task # Nothing /\ task.at = "standalone" /\ task.cmd.kind = "Prepare"
  BY DEF PrepareStandalone, At, StepsOf, Kinds
<1>2. PICK reply \in Replies :
         /\ LeaveRequest(reply)
         /\ IF reply = "ok"
            THEN GoTo("stop") /\ UNCHANGED <<report, runtime>>
            ELSE FinishPrepareFailed
  BY DEF PrepareStandalone
<1>3. room' = room \/ room' = Standalone
  BY <1>2, RequestOutcome DEF LeaveRequest
<1>4. room' \in Rooms /\ room'.uri = room.uri /\ (room'.grouped => room.grouped)
  BY <1>1, <1>3 DEF Standalone, Rooms
<1>5. RoomStep
  BY <1>1, <1>4 DEF RoomStep, MembershipKnownUnlessReset, MembershipKnown, PrepareStandalone
<1>6. CASE reply = "ok"
  BY <1>1, <1>2, <1>5, <1>6, GoToInvariant DEF PrepareStandalone, StepsOf
<1>7. CASE reply # "ok"
  <2>1. PICK outcome \in {"Failed", "PermanentFailure"} : Finish(outcome)
    BY <1>2, <1>7 DEF FinishPrepareFailed
  <2>2. outcome \in Answers(task.cmd.kind) /\ \A g : Truthful(outcome, g)'
    BY <1>1, <2>1 DEF Answers, Truthful
  <2> QED
    BY <1>1, <1>5, <2>1, <2>2, FinishInvariant DEF PrepareStandalone
<1> QED
  BY <1>6, <1>7

LEMMA PrepareStopInvariant == ASSUME IInv, PrepareStop PROVE IInv'
<1> USE TaskFacts DEF IInv
<1>1. task # Nothing /\ task.cmd.kind = "Prepare"
  BY DEF PrepareStop, At
<1>2. PICK reply \in Replies :
         /\ StopRequest(reply)
         /\ CASE reply # "ok" -> FinishPrepareFailed
              [] reply = "ok" /\ HasChanged -> task' = Nothing /\ UNCHANGED <<report, runtime>>
              [] reply = "ok" /\ ~HasChanged -> GoTo("uri") /\ UNCHANGED <<report, runtime>>
  BY DEF PrepareStop
<1>3. /\ room' = room \/ room' = [room EXCEPT !.playing = FALSE]
      /\ reply = "ok" => ~room.grouped /\ room' = [room EXCEPT !.playing = FALSE]
  BY <1>2, RequestOutcome DEF StopRequest
<1>4. /\ room' \in Rooms /\ room'.uri = room.uri /\ room'.grouped = room.grouped
      /\ reply = "ok" => ~room'.grouped /\ ~room'.playing
  BY <1>1, <1>3 DEF Rooms
<1>5. RoomStep
  BY <1>1, <1>4 DEF RoomStep, MembershipKnownUnlessReset, MembershipKnown, PrepareStop
<1>6. CASE reply = "ok" /\ ~HasChanged
  BY <1>1, <1>2, <1>4, <1>5, <1>6, GoToInvariant DEF PrepareStop, StepsOf
<1>7. CASE reply = "ok" /\ HasChanged
  BY <1>1, <1>2, <1>5, <1>7, CancelInvariant DEF PrepareStop
<1>8. CASE reply # "ok"
  <2>1. PICK outcome \in {"Failed", "PermanentFailure"} : Finish(outcome)
    BY <1>2, <1>8 DEF FinishPrepareFailed
  <2>2. outcome \in Answers(task.cmd.kind) /\ \A g : Truthful(outcome, g)'
    BY <1>1, <2>1 DEF Answers, Truthful
  <2> QED
    BY <1>1, <1>5, <2>1, <2>2, FinishInvariant DEF PrepareStop
<1> QED
  BY <1>6, <1>7, <1>8

LEMMA PrepareUriInvariant == ASSUME IInv, PrepareUri PROVE IInv'
<1> USE TaskFacts DEF IInv
<1>1. /\ task # Nothing /\ task.cmd.kind = "Prepare" /\ task.at = "uri"
      /\ ~room.playing /\ ~room.grouped
  BY DEF PrepareUri, At, StepsOf, Kinds, RoomFollows
<1>2. PICK reply \in Replies :
         /\ UriRequest(reply, task.cmd.gen)
         /\ CASE reply # "ok" -> FinishPrepareFailed
              [] reply = "ok" /\ HasChanged -> task' = Nothing /\ UNCHANGED <<report, runtime>>
              [] reply = "ok" /\ ~HasChanged -> GoTo("wait") /\ UNCHANGED <<report, runtime>>
  BY DEF PrepareUri
<1>3. /\ room' = room \/ room' = [room EXCEPT !.uri = task.cmd.gen]
      /\ reply = "ok" => room' = [room EXCEPT !.uri = task.cmd.gen]
  BY <1>2, RequestOutcome DEF UriRequest
<1>4. /\ room' \in Rooms /\ ~room'.grouped /\ ~room'.playing
      /\ reply = "ok" => room'.uri = task.cmd.gen
  BY <1>1, <1>3, MaxGenAssumption DEF Rooms, Gens
<1>5. RoomStep
  BY <1>1, <1>4 DEF RoomStep, MembershipKnownUnlessReset, MembershipKnown, PrepareUri, StartKinds
<1>6. CASE reply = "ok" /\ ~HasChanged
  BY <1>1, <1>2, <1>4, <1>5, <1>6, GoToInvariant DEF PrepareUri, StepsOf
<1>7. CASE reply = "ok" /\ HasChanged
  BY <1>1, <1>2, <1>5, <1>7, CancelInvariant DEF PrepareUri
<1>8. CASE reply # "ok"
  <2>1. PICK outcome \in {"Failed", "PermanentFailure"} : Finish(outcome)
    BY <1>2, <1>8 DEF FinishPrepareFailed
  <2>2. outcome \in Answers(task.cmd.kind) /\ \A g : Truthful(outcome, g)'
    BY <1>1, <2>1 DEF Answers, Truthful
  <2> QED
    BY <1>1, <1>5, <2>1, <2>2, FinishInvariant DEF PrepareUri
<1> QED
  BY <1>6, <1>7, <1>8

(* A step that leaves the room and the membership note alone.              *)
LEMMA StillRoom ==
    ASSUME IInv, task # Nothing, UNCHANGED <<room, joined, device>> PROVE RoomStep
  BY TaskFacts DEF IInv, RoomStep, MembershipKnownUnlessReset, MembershipKnown

LEMMA PrepareDoneInvariant == ASSUME IInv, PrepareDone PROVE IInv'
<1> USE TaskFacts DEF IInv
<1>1. /\ task # Nothing /\ task.cmd.kind = "Prepare" /\ task.at = "wait"
      /\ device.sonos => ~room.playing /\ ~room.grouped /\ room.uri = task.cmd.gen
  BY DEF PrepareDone, At, StepsOf, Kinds, RoomFollows
<1>2. PICK g : g = task.cmd.gen
  OBVIOUS
<1>3. "Prepared" \in Answers(task.cmd.kind) /\ Truthful("Prepared", g)'
  BY <1>1, <1>2 DEF Answers, Truthful, PrepareDone
<1> QED
  BY <1>1, <1>2, <1>3, StillRoom, FinishInvariant DEF PrepareDone

LEMMA CancelledInvariant == ASSUME IInv, PrepareCancelled \/ JoinsCancelled PROVE IInv'
  BY StillRoom, CancelInvariant DEF PrepareCancelled, JoinsCancelled, At

LEMMA JoinsDoneInvariant == ASSUME IInv, JoinsDone PROVE IInv'
<1>1. task # Nothing /\ task.at = "joins" /\ task.cmd.kind = "PlayGroup"
  BY TaskFacts DEF JoinsDone, At, StepsOf, Kinds
<1> QED
  BY <1>1, StillRoom, GoToInvariant DEF JoinsDone, StepsOf

LEMMA PlayNowInvariant == ASSUME IInv, PlayNow PROVE IInv'
<1> USE TaskFacts DEF IInv
<1>1. /\ task # Nothing /\ task.cmd.kind \in {"Play", "PlayGroup"}
      /\ device.sonos => room.uri = task.cmd.gen
  BY DEF PlayNow, At, StepsOf, Kinds, RoomFollows, StartKinds
<1>2. PICK reply \in Replies :
         /\ PlayRequest(reply, task.cmd.gen)
         /\ joined' = IF task.cmd.kind = "Play" THEN joined /\ reply # "ok" ELSE joined
         /\ IF reply = "ok" THEN Finish("Started")
            ELSE \E outcome \in ErrorOutcomes(reply) : Finish(outcome)
  BY DEF PlayNow
<1> DEFINE after == [room EXCEPT !.playing = TRUE,
                                 !.uri = IF device.sonos THEN @ ELSE task.cmd.gen]
<1>3. /\ room' = room \/ (~room.grouped /\ room' = after)
      /\ reply = "ok" => ~room.grouped /\ room' = after
  BY <1>1, <1>2 DEF PlayRequest, Request, ErrorReplies, Devices
<1>4. /\ room' \in Rooms /\ room'.grouped = room.grouped
      /\ device.sonos => room'.uri = room.uri
      /\ room.grouped => room' = room
      /\ reply = "ok" => room'.playing /\ ~room'.grouped /\ room'.uri = task.cmd.gen
  <2>1. CASE room' = room
    BY <1>1, <1>3, <2>1 DEF Rooms
  <2>2. CASE ~room.grouped /\ room' = after
    <3>1. room'.uri = IF device.sonos THEN room.uri ELSE task.cmd.gen
      BY <1>1, <2>2 DEF Rooms
    <3>2. room'.playing /\ room'.grouped = room.grouped
      BY <1>1, <2>2 DEF Rooms
    <3>3. room' \in Rooms
      <4>1. CASE device.sonos
        BY <1>1, <2>2, <4>1 DEF Rooms
      <4>2. CASE ~device.sonos
        <5>1. room' = [room EXCEPT !.playing = TRUE, !.uri = task.cmd.gen]
          BY <2>2, <4>2
        <5>2. task.cmd.gen \in 0..MaxGen
          BY <1>1, MaxGenAssumption DEF Gens
        <5> QED
          BY <1>1, <5>1, <5>2 DEF Rooms
      <4> QED
        BY <4>1, <4>2
    <3> QED
      BY <1>1, <2>2, <3>1, <3>2, <3>3
  <2> QED
    BY <1>3, <2>1, <2>2
<1>5. joined' \in BOOLEAN /\ (room'.grouped /\ joined => joined')
  BY <1>1, <1>2, <1>4
<1>6. RoomStep
  BY <1>1, <1>4, <1>5 DEF RoomStep, MembershipKnownUnlessReset, MembershipKnown, PlayNow
<1>7. PICK g : g = task.cmd.gen
  OBVIOUS
<1>8. CASE reply = "ok"
  <2>1. "Started" \in Answers(task.cmd.kind) /\ Truthful("Started", g)'
    BY <1>1, <1>4, <1>7, <1>8 DEF Answers, Truthful
  <2> QED
    BY <1>1, <1>2, <1>6, <1>7, <1>8, <2>1, FinishInvariant DEF PlayNow
<1>9. CASE reply # "ok"
  <2>1. PICK outcome \in ErrorOutcomes(reply) : Finish(outcome)
    BY <1>2, <1>9
  <2>2. outcome \in Answers(task.cmd.kind) /\ Truthful(outcome, g)'
    BY <1>1, <2>1 DEF Answers, ErrorOutcomes, Truthful
  <2> QED
    BY <1>1, <1>6, <1>7, <2>1, <2>2, FinishInvariant DEF PlayNow
<1> QED
  BY <1>8, <1>9

LEMMA JoinInvariant == ASSUME IInv, Join PROVE IInv'
<1> USE TaskFacts DEF IInv
<1>1. task # Nothing /\ task.cmd.kind = "Join" /\ ~room.grouped
  BY DEF Join, At, StepsOf, Kinds, RoomFollows
<1>2. PICK reply \in Replies :
         /\ JoinRequest(reply)
         /\ joined' = (reply \in {"ok", "timeout"})
         /\ Finish(CASE reply = "ok" -> "Joined"
                     [] reply = "timeout" -> "Unknown"
                     [] OTHER -> "Failed")
  BY DEF Join
<1>3. /\ room' = room \/ room' = [room EXCEPT !.grouped = TRUE, !.playing = TRUE]
      /\ reply = "ok" => room' = [room EXCEPT !.grouped = TRUE, !.playing = TRUE]
      /\ room'.grouped /\ "reset" \notin device.mayApply => reply \in {"ok", "timeout"}
  BY <1>1, <1>2 DEF JoinRequest, Request, ErrorReplies, Devices
<1>4. /\ room' \in Rooms /\ room'.uri = room.uri
      /\ reply = "ok" => room'.grouped
  BY <1>1, <1>3 DEF Rooms
<1>5. RoomStep
  <2>1. joined' \in BOOLEAN /\ (reply \in {"ok", "timeout"} => joined')
    <3>1. joined' = (reply \in {"ok", "timeout"})
      BY <1>2, Zenon
    <3>2. CASE reply \in {"ok", "timeout"}
      <4>1. joined' = TRUE
        BY <3>1, <3>2, Zenon
      <4> QED
        BY <4>1
    <3>3. CASE reply \notin {"ok", "timeout"}
      <4>1. (reply \in {"ok", "timeout"}) = FALSE
        BY <3>3
      <4>2. joined' = FALSE
        BY <3>1, <4>1
      <4> QED
        BY <4>2, <3>3
    <3> QED
      BY <3>2, <3>3
  <2>2. device' = device
    BY DEF Join
  <2> QED
    BY <1>3, <1>4, <2>1, <2>2 DEF RoomStep, MembershipKnownUnlessReset, MembershipKnown
<1>6. PICK g : g = task.cmd.gen
  OBVIOUS
<1>7. PICK outcome \in {"Joined", "Unknown", "Failed"} :
         Finish(outcome) /\ (outcome = "Joined" => reply = "ok")
  BY <1>2
<1>8. outcome \in Answers(task.cmd.kind) /\ Truthful(outcome, g)'
  BY <1>1, <1>4, <1>7 DEF Answers, Truthful
<1> QED
  BY <1>1, <1>5, <1>6, <1>7, <1>8, FinishInvariant DEF Join

LEMMA StopNowInvariant == ASSUME IInv, StopNow PROVE IInv'
<1> USE TaskFacts DEF IInv
<1>1. task # Nothing /\ task.cmd.kind = "Stop"
  BY DEF StopNow, At
<1>2. PICK reply \in Replies :
         StopRequest(reply) /\ Finish(IF reply = "ok" THEN "Stopped" ELSE "StopUnknown")
  BY DEF StopNow
<1>3. /\ room' = room \/ room' = [room EXCEPT !.playing = FALSE]
      /\ reply = "ok" => ~room.grouped /\ room' = [room EXCEPT !.playing = FALSE]
  BY <1>2, RequestOutcome DEF StopRequest
<1>4. /\ room' \in Rooms /\ room'.uri = room.uri /\ room'.grouped = room.grouped
      /\ reply = "ok" => ~room'.grouped /\ ~room'.playing
  BY <1>1, <1>3 DEF Rooms
<1>5. RoomStep
  BY <1>1, <1>4 DEF RoomStep, MembershipKnownUnlessReset, MembershipKnown, StopNow
<1>6. PICK g : g = task.cmd.gen
  OBVIOUS
<1>7. PICK outcome \in {"Stopped", "StopUnknown"} :
         Finish(outcome) /\ (outcome = "Stopped" => reply = "ok")
  BY <1>2
<1>8. outcome \in Answers(task.cmd.kind) /\ Truthful(outcome, g)'
  BY <1>1, <1>4, <1>7 DEF Answers, Truthful
<1> QED
  BY <1>1, <1>5, <1>6, <1>7, <1>8, FinishInvariant DEF StopNow

(* Steps that touch neither the worker nor the room.                       *)
LEMMA StutterInvariant == ASSUME IInv, Close \/ UNCHANGED vars PROVE IInv'
<1>1. /\ UNCHANGED <<slot, fresh, task, joined, report, room, device, gen, stage>>
      /\ open' \in BOOLEAN
  BY DEF Close, runtime, vars, IInv, TypeOK
<1> QED
  BY <1>1 DEF IInv, TypeOK, StageFollowsSlot, StageFollowsTask, RoomFollows, ReportsAreTruthful,
     Truthful, MembershipKnownUnlessReset, MembershipKnown

----------------------------------------------------------------------------
(* The invariant holds in every reachable state.                           *)
THEOREM Invariant == Spec => []IInv
<1>1. Init => IInv
  BY InitInvariant
<1>2. IInv /\ [Next]_vars => IInv'
  BY SendStopInvariant, SendPrepareInvariant, SendStartInvariant, TakeInvariant, LeaveInvariant,
     PrepareStandaloneInvariant, PrepareStopInvariant, PrepareUriInvariant,
     PrepareDoneInvariant, CancelledInvariant, JoinsDoneInvariant, PlayNowInvariant,
     JoinInvariant, StopNowInvariant, StutterInvariant
     DEF Next, WorkerStep
<1> QED
  BY <1>1, <1>2, PTL DEF Spec

(* Every variable keeps its type: in particular every task runs only steps *)
(* of its command and every answer is one its command allows.              *)
THEOREM Types == Spec => []TypeOK
<1>1. IInv => TypeOK
  BY DEF IInv
<1> QED
  BY <1>1, Invariant, PTL

(* What a worker reports to the runtime is true of the room, for any       *)
(* number of generations and whatever replies are lost.                    *)
THEOREM Truth == Spec => []ReportsAreTruthful
<1>1. IInv => ReportsAreTruthful
  BY DEF IInv
<1> QED
  BY <1>1, Invariant, PTL

(* As long as only a timeout can hide a success, the worker knows when the *)
(* bridge put its room into a group.                                       *)
THEOREM Membership == Spec => []MembershipKnownUnlessReset
<1>1. IInv => MembershipKnownUnlessReset
  BY DEF IInv
<1> QED
  BY <1>1, Invariant, PTL

(* A room begins to play only the stream of the command in hand.           *)
THEOREM OwnStream == Spec => PlaysOwnStream
<1> DEFINE Own == room'.playing /\ ~room.playing /\ ~room'.grouped
                      => room'.uri = task.cmd.gen
<1>1. IInv /\ [Next]_vars => [Own]_vars
  <2> SUFFICES ASSUME IInv, Next, room'.playing, ~room.playing, ~room'.grouped
               PROVE  room'.uri = task.cmd.gen
    BY DEF IInv
  <2>1. room' # room
    OBVIOUS
  <2>2. CASE PlayNow
    <3>1. /\ task # Nothing /\ task.cmd.kind \in StartKinds /\ room \in Rooms
          /\ device.sonos => room.uri = task.cmd.gen
      BY <2>2, TaskFacts DEF PlayNow, At, StepsOf, Kinds, RoomFollows, StartKinds, IInv
    <3>2. PICK reply \in Replies : PlayRequest(reply, task.cmd.gen)
      BY <2>2 DEF PlayNow
    <3>3. room' = [room EXCEPT !.playing = TRUE,
                               !.uri = IF device.sonos THEN @ ELSE task.cmd.gen]
      BY <2>1, <3>2 DEF PlayRequest, Request
    <3> QED
      BY <3>1, <3>3 DEF Rooms
  <2>3. CASE Join
    <3>1. task # Nothing /\ room \in Rooms
      BY <2>3, TaskFacts DEF Join, At
    <3>2. room' = [room EXCEPT !.grouped = TRUE, !.playing = TRUE]
      BY <2>1, <2>3 DEF Join, JoinRequest, Request
    <3> QED
      BY <3>1, <3>2 DEF Rooms
  <2>4. CASE PrepareStop \/ StopNow
    <3>1. task # Nothing /\ room \in Rooms
      BY <2>4, TaskFacts DEF PrepareStop, StopNow, At
    <3>2. room' = [room EXCEPT !.playing = FALSE]
      BY <2>1, <2>4 DEF PrepareStop, StopNow, StopRequest, Request
    <3> QED
      BY <3>1, <3>2 DEF Rooms
  <2>5. CASE PrepareUri
    <3>1. task # Nothing /\ room \in Rooms
      BY <2>5, TaskFacts DEF PrepareUri, At
    <3>2. room' = [room EXCEPT !.uri = task.cmd.gen]
      BY <2>1, <2>5 DEF PrepareUri, UriRequest, Request
    <3> QED
      BY <3>1, <3>2 DEF Rooms
  <2>6. CASE Leave \/ PrepareStandalone
    <3>1. task # Nothing /\ room \in Rooms
      BY <2>6, TaskFacts DEF Leave, PrepareStandalone, At
    <3>2. room' = Standalone
      BY <2>1, <2>6 DEF Leave, PrepareStandalone, LeaveRequest, Request
    <3> QED
      BY <2>1, <3>1, <3>2 DEF Standalone, Rooms
  <2>7. ASSUME SendStop \/ SendPrepare \/ SendStart \/ Close \/ Take \/ PrepareDone
               \/ PrepareCancelled \/ JoinsDone \/ JoinsCancelled
        PROVE  room' = room
    BY <2>7 DEF SendStop, SendPrepare, SendStart, Send, Close, Take, PrepareDone,
                PrepareCancelled, JoinsDone, JoinsCancelled
  <2> QED
    BY <2>1, <2>2, <2>3, <2>4, <2>5, <2>6, <2>7 DEF Next, WorkerStep
<1> QED
  BY <1>1, Invariant, PTL DEF Spec, PlaysOwnStream

----------------------------------------------------------------------------
(* The worker implements its contract: what remains for TLC is liveness.   *)
USE DEF Contract!vars

(* Both modules extend Transport.                                          *)
LEMMA SameVocabulary ==
    /\ Contract!Kinds = Kinds /\ Contract!Abandonable = Abandonable
    /\ \A k \in Kinds : Answers(k) = Contract!Answers(k)
  BY DEF Kinds, Contract!Kinds, Abandonable, Contract!Abandonable, Answers, Contract!Answers

(* Answering a command is an Answer of the contract.                       *)
LEMMA FinishAnswers ==
    ASSUME task # Nothing, task.cmd # Nothing, task.cmd.kind \in Kinds,
           NEW outcome \in Answers(task.cmd.kind), Finish(outcome), UNCHANGED channel
    PROVE  Contract!Answer
<1>1. Busy = task.cmd /\ Busy' = Nothing
  BY DEF Finish, Busy
<1>2. outcome \in Contract!Answers(Busy.kind)
  BY <1>1, SameVocabulary
<1> QED
  BY <1>1, <1>2 DEF Finish, channel, Contract!Answer

(* Going to another step of the same command is a stutter.                 *)
LEMMA GoToStutters ==
    ASSUME IInv, task # Nothing, NEW step \in Steps, GoTo(step), UNCHANGED <<channel, report>>
    PROVE  UNCHANGED Contract!vars
<1>1. task' = [cmd |-> task.cmd, at |-> step] /\ task'.cmd = task.cmd /\ task' # Nothing
  BY TaskFacts, NothingElse DEF GoTo
<1> QED
  BY <1>1 DEF channel, Busy

LEMMA StepImplements == IInv /\ [Next]_vars => [Contract!Next]_(Contract!vars)
<1> SUFFICES ASSUME IInv, [Next]_vars PROVE Contract!Next \/ UNCHANGED Contract!vars
  OBVIOUS
<1> USE NothingElse
<1> DEFINE Step == Contract!Next \/ UNCHANGED Contract!vars
<1>1. ASSUME task # Nothing, NEW outcome \in Answers(task.cmd.kind), Finish(outcome),
             UNCHANGED channel
      PROVE  Contract!Next
  BY <1>1, FinishAnswers, TaskFacts DEF Contract!Next
<1>2. ASSUME task # Nothing, NEW step \in StepsOf(task.cmd.kind), GoTo(step),
             UNCHANGED <<channel, report>>
      PROVE  UNCHANGED Contract!vars
  BY <1>2, GoToStutters, TaskFacts, FirstStepOfKind
<1>3. ASSUME task # Nothing, task' = Nothing, task.cmd.kind \in Abandonable, HasChanged,
             UNCHANGED <<channel, report>>
      PROVE  Contract!Next
  <2>1. Busy = task.cmd /\ Busy # Nothing /\ Busy' = Nothing
    BY <1>3, TaskFacts DEF Busy
  <2> QED
    BY <1>3, <2>1, SameVocabulary DEF Contract!Next, Contract!Abandon, channel, HasChanged
<1>4. CASE UNCHANGED vars
  BY <1>4 DEF vars, Busy
<1>5. ASSUME NEW kind \in Kinds, NEW g \in Gens, Send(kind, g)
      PROVE  Contract!Next
  <2>1. slot' \in Contract!Commands
    BY <1>5, SameVocabulary DEF Send, Contract!Commands, Gens
  <2> QED
    BY <1>5, <2>1 DEF Send, Contract!Next, Contract!Send, Busy
<1>6. CASE SendStop
  BY <1>5, <1>6 DEF SendStop, Kinds, Gens
<1>7. CASE SendPrepare
  BY <1>5, <1>7, MaxGenAssumption DEF SendPrepare, Kinds, Gens, IInv, TypeOK
<1>8. CASE SendStart
  <2>1. gen \in Gens
    BY <1>8, MaxGenAssumption DEF SendStart, Gens, IInv, TypeOK, StageFollowsSlot
  <2> QED
    BY <1>5, <1>8, <2>1 DEF SendStart, StartKinds, Kinds
<1>9. CASE Close
  BY <1>9 DEF Close, Contract!Next, Contract!Close, Busy
<1>10. CASE Take
  <2>1. slot \in Sent /\ task' = [cmd |-> slot, at |-> FirstStep(slot.kind)] /\ task' # Nothing
    BY <1>10, FirstStepOfKind DEF Take, IInv, TypeOK, Sent
  <2>2. Busy = Nothing /\ Busy' = slot
    BY <1>10, <2>1 DEF Take, Busy
  <2> QED
    BY <1>10, <2>2 DEF Take, Contract!Next, Contract!Take
<1>11. CASE Leave
  BY <1>2, <1>11, TaskFacts, FirstStepOfKind DEF Leave, At
<1>12. CASE PrepareStandalone
  <2>1. task # Nothing /\ task.cmd.kind = "Prepare"
    BY <1>12, TaskFacts DEF PrepareStandalone, At, StepsOf, Kinds
  <2> QED
    BY <1>1, <1>2, <1>12, <2>1 DEF PrepareStandalone, FinishPrepareFailed, Answers, StepsOf
<1>13. CASE PrepareStop
  BY <1>1, <1>2, <1>3, <1>13
     DEF PrepareStop, FinishPrepareFailed, Answers, StepsOf, At, Abandonable
<1>14. CASE PrepareUri
  <2>1. task # Nothing /\ task.cmd.kind = "Prepare"
    BY <1>14, TaskFacts DEF PrepareUri, At, StepsOf, Kinds
  <2> QED
    BY <1>1, <1>2, <1>3, <1>14, <2>1
       DEF PrepareUri, FinishPrepareFailed, Answers, StepsOf, Abandonable
<1>15. CASE PrepareDone
  <2>1. task # Nothing /\ task.cmd.kind = "Prepare"
    BY <1>15, TaskFacts DEF PrepareDone, At, StepsOf, Kinds
  <2> QED
    BY <1>1, <1>15, <2>1 DEF PrepareDone, Answers
<1>16. CASE PrepareCancelled
  <2>1. task # Nothing /\ task.cmd.kind = "Prepare"
    BY <1>16, TaskFacts DEF PrepareCancelled, At, StepsOf, Kinds
  <2> QED
    BY <1>3, <1>16, <2>1 DEF PrepareCancelled, Abandonable
<1>17. CASE JoinsDone \/ JoinsCancelled
  <2>1. task # Nothing /\ task.cmd.kind = "PlayGroup"
    BY <1>17, TaskFacts DEF JoinsDone, JoinsCancelled, At, StepsOf, Kinds
  <2> QED
    BY <1>2, <1>3, <1>17, <2>1 DEF JoinsDone, JoinsCancelled, Abandonable, StepsOf
<1>18. CASE PlayNow
  <2>1. task # Nothing /\ task.cmd.kind \in {"Play", "PlayGroup"}
    BY <1>18, TaskFacts DEF PlayNow, At, StepsOf, Kinds
  <2>2. PICK outcome \in {"Started", "Unknown", "Failed", "PermanentFailure"} : Finish(outcome)
    BY <1>18 DEF PlayNow, ErrorOutcomes
  <2>3. outcome \in Answers(task.cmd.kind)
    BY <2>1, <2>2 DEF Answers
  <2> QED
    BY <1>1, <1>18, <2>1, <2>2, <2>3 DEF PlayNow
<1>19. CASE Join
  <2>1. task # Nothing /\ task.cmd.kind = "Join"
    BY <1>19, TaskFacts DEF Join, At, StepsOf, Kinds
  <2>2. PICK outcome \in {"Joined", "Unknown", "Failed"} : Finish(outcome)
    BY <1>19 DEF Join
  <2>3. outcome \in Answers(task.cmd.kind)
    BY <2>1, <2>2 DEF Answers
  <2> QED
    BY <1>1, <1>19, <2>1, <2>2, <2>3 DEF Join
<1>20. CASE StopNow
  <2>1. PICK outcome \in {"Stopped", "StopUnknown"} : Finish(outcome)
    BY <1>20 DEF StopNow
  <2>2. task # Nothing /\ outcome \in Answers(task.cmd.kind)
    BY <1>20, <2>1 DEF StopNow, At, Answers
  <2> QED
    BY <1>1, <1>20, <2>1, <2>2 DEF StopNow
<1> QED
  BY <1>4, <1>6, <1>7, <1>8, <1>9, <1>10, <1>11, <1>12, <1>13, <1>14, <1>15, <1>16, <1>17,
     <1>18, <1>19, <1>20 DEF Next, WorkerStep

(* The safety part of ImplementsContract: every behaviour of the worker,   *)
(* seen through the command it runs, is one of the contract.               *)
THEOREM Refinement == Spec => Contract!Init /\ [][Contract!Next]_(Contract!vars)
<1>1. Init => Contract!Init
  BY DEF Init, Contract!Init, Busy
<1> QED
  BY <1>1, StepImplements, Invariant, PTL DEF Spec
=============================================================================
