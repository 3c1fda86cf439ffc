---------------------------- MODULE CommandPipeline ----------------------------
(***************************************************************************)
(* What the command lifecycle promises, command by command: the states of  *)
(* the runtime-authority design (draft, shadow_only, queued, delivered,    *)
(* acked, failed) and the order they may be entered in, tied to what the   *)
(* terminal does with the command.  There are no handlers, requests or     *)
(* faults here; a command that gets lost simply takes no further step.     *)
(***************************************************************************)
EXTENDS Naturals

CONSTANTS Commands

VARIABLES
  status,    \* the status of each command, "none" before it exists
  executed,  \* how often the terminal executed it
  outcome    \* the results of its executions

vars == <<status, executed, outcome>>

Init ==
  /\ status = [c \in Commands |-> "none"]
  /\ executed = [c \in Commands |-> 0]
  /\ outcome = [c \in Commands |-> {}]

Become(c, from, to) ==
  /\ status[c] = from
  /\ status' = [status EXCEPT ![c] = to]
  /\ UNCHANGED <<executed, outcome>>

Propose(c) == Become(c, "none", "draft")
Approve(c) == Become(c, "draft", "queued")
Shadow(c) == Become(c, "draft", "shadow_only")
Deliver(c) == Become(c, "queued", "delivered")
Expire(c) == Become(c, "queued", "failed")

\* Only a delivered command is executed, and only once.
Execute(c, r) ==
  /\ status[c] = "delivered"
  /\ executed[c] = 0
  /\ executed' = [executed EXCEPT ![c] = 1]
  /\ outcome' = [outcome EXCEPT ![c] = {r}]
  /\ UNCHANGED status

\* A row is settled by the result of its execution.
Ack(c) == outcome[c] = {"OK"} /\ Become(c, "delivered", "acked")
Fail(c) == outcome[c] \in {{"PARTIAL"}, {"ERROR"}} /\ Become(c, "delivered", "failed")

Next ==
  \E c \in Commands :
    \/ Propose(c) \/ Approve(c) \/ Shadow(c) \/ Deliver(c) \/ Expire(c)
    \/ \E r \in {"OK", "PARTIAL", "ERROR"} : Execute(c, r)
    \/ Ack(c) \/ Fail(c)

Spec == Init /\ [][Next]_vars

=============================================================================
