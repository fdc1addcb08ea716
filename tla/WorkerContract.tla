-------------------------- MODULE WorkerContract ---------------------------
(***************************************************************************)
(* What the bridge runtime relies on from the worker of one room: the      *)
(* command slot keeps only the latest command, the worker runs one command *)
(* at a time and answers each at most once with an outcome its kind        *)
(* allows, and it drops a command unanswered only when a newer one waits   *)
(* or the slot was closed.  ZoneWorker implements this; BridgeRuntime is   *)
(* built on it.                                                            *)
(***************************************************************************)
EXTENDS Transport

CONSTANTS MaxGen,   \* bound: the highest generation a command carries
          Nothing   \* no command, no answer

VARIABLES slot,     \* the value in the watch channel
          fresh,    \* the worker has not seen that value yet
          open,     \* the runtime still holds the sending half
          busy,     \* the command the worker runs
          report    \* the answer to the last command it took

vars == <<slot, fresh, open, busy, report>>

Commands == [kind : Kinds, gen : 1..MaxGen]

Init ==
    /\ slot = Nothing
    /\ fresh = FALSE
    /\ open = TRUE
    /\ busy = Nothing
    /\ report = Nothing

Send(c) ==
    /\ open
    /\ slot' = c
    /\ fresh' = TRUE
    /\ UNCHANGED <<open, busy, report>>

Close ==
    /\ open' = FALSE
    /\ UNCHANGED <<slot, fresh, busy, report>>

Take ==
    /\ fresh
    /\ busy = Nothing
    /\ busy' = slot
    /\ fresh' = FALSE
    /\ report' = Nothing
    /\ UNCHANGED <<slot, open>>

Answer ==
    /\ busy # Nothing
    /\ \E outcome \in Answers(busy.kind) :
          report' = [gen |-> busy.gen, kind |-> busy.kind, outcome |-> outcome]
    /\ busy' = Nothing
    /\ UNCHANGED <<slot, fresh, open>>

Abandon ==
    /\ busy # Nothing
    /\ busy.kind \in Abandonable
    /\ fresh \/ ~open
    /\ busy' = Nothing
    /\ UNCHANGED <<slot, fresh, open, report>>

Next ==
    \/ \E c \in Commands : Send(c)
    \/ Close
    \/ Take
    \/ Answer
    \/ Abandon

Fairness == WF_vars(Take) /\ WF_vars(Answer \/ Abandon)

Spec == Init /\ [][Next]_vars /\ Fairness
=============================================================================
