----------------------------- MODULE Transport -----------------------------
(***************************************************************************)
(* The vocabulary the bridge runtime and its zone workers share: the       *)
(* transport commands of bridge/mod.rs and the answers a worker sends back *)
(* (DownstreamStartOutcome of main.rs, and PreparedDownstream, which has a *)
(* channel of its own).                                                    *)
(***************************************************************************)
EXTENDS Naturals

Kinds == {"Prepare", "Play", "PlayGroup", "Join", "Stop"}

(* The commands that make a room produce sound. *)
StartKinds == {"Play", "PlayGroup", "Join"}

(* A command carries the downstream generation it belongs to.  The stream, *)
(* the renderer and the URL it also carries are functions of the room and  *)
(* of that generation.                                                     *)
Command == [kind : Kinds, gen : Nat]

Outcomes == {"Prepared", "Started", "Joined", "Stopped", "StopUnknown",
             "Unknown", "Failed", "PermanentFailure"}

(* What start_outcome makes of an error reply: only a timeout leaves the   *)
(* result open, every other error is a failure, retryable or not.          *)
ErrorOutcomes(reply) ==
    IF reply = "timeout" THEN {"Unknown"} ELSE {"Failed", "PermanentFailure"}

(* The answers a worker may give to a command of each kind.                *)
Answers(kind) ==
    CASE kind = "Prepare" -> {"Prepared", "Failed", "PermanentFailure"}
      [] kind \in {"Play", "PlayGroup"} ->
            {"Started", "Unknown", "Failed", "PermanentFailure"}
      [] kind = "Join" -> {"Joined", "Unknown", "Failed"}
      [] kind = "Stop" -> {"Stopped", "StopUnknown"}

(* The answers of a command that did what it was for.                      *)
Successes == {"Prepared", "Started", "Joined", "Stopped"}

(* The commands a worker gives up without an answer once a newer command   *)
(* is waiting.                                                             *)
Abandonable == {"Prepare", "PlayGroup"}
=============================================================================
