-------------------------- MODULE CommandDelivery --------------------------
(***************************************************************************)
(* What the command channel between the management server and one agent    *)
(* promises to an operator who reads AgentControlLog: a command is logged  *)
(* once, the agent starts it at most once, and its row turns from          *)
(* "waiting" into the outcome of that execution, once.  A command may stay *)
(* at any of these stages for ever: the channel has no retry.              *)
(***************************************************************************)
CONSTANT Cmd        \* the commands operators issue

VARIABLES log,      \* [Cmd -> {"none", "pending", "ok", "fail"}]: the row
          ran       \* [Cmd -> {"no", "started", "ok", "fail"}]: the execution

vars == <<log, ran>>

Outcome == {"ok", "fail"}

Init == /\ log = [c \in Cmd |-> "none"]
        /\ ran = [c \in Cmd |-> "no"]

\* An operator's request is recorded.
Accept(c) == /\ log[c] = "none"
             /\ log' = [log EXCEPT ![c] = "pending"]
             /\ UNCHANGED ran

\* The agent starts a recorded command that it has not started before.
Start(c) == /\ log[c] = "pending"
            /\ ran[c] = "no"
            /\ ran' = [ran EXCEPT ![c] = "started"]
            /\ UNCHANGED log

\* The execution ends.
Finish(c) == /\ ran[c] = "started"
             /\ \E r \in Outcome : ran' = [ran EXCEPT ![c] = r]
             /\ UNCHANGED log

\* The outcome of the execution, and no other, reaches the row.
Record(c) == /\ log[c] = "pending"
             /\ ran[c] \in Outcome
             /\ log' = [log EXCEPT ![c] = ran[c]]
             /\ UNCHANGED ran

Next == \E c \in Cmd : Accept(c) \/ Start(c) \/ Finish(c) \/ Record(c)

Spec == Init /\ [][Next]_vars
=============================================================================
