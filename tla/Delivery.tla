------------------------------ MODULE Delivery ------------------------------
(***************************************************************************)
(* What the supervisor promises about one client's command, whatever the   *)
(* process goes through: it is on record before the agent can see it, it   *)
(* reaches the agent at most once, and what is on record is never undone.  *)
(***************************************************************************)
EXTENDS Naturals

CONSTANT Clients

VARIABLES
    stage,      \* "new", "logged" (intent on record), "settled"
    delivered   \* how often the agent was given the command

Stages == {"new", "logged", "settled"}

Init ==
    /\ stage = [c \in Clients |-> "new"]
    /\ delivered = [c \in Clients |-> 0]

(* The intent becomes durable; nothing has reached the agent.              *)
Log(c) ==
    /\ stage[c] = "new"
    /\ stage' = [stage EXCEPT ![c] = "logged"]
    /\ UNCHANGED delivered

(* The agent is given the command, once, between intent and receipt.       *)
Deliver(c) ==
    /\ stage[c] = "logged" /\ delivered[c] = 0
    /\ delivered' = [delivered EXCEPT ![c] = 1]
    /\ UNCHANGED stage

(* The outcome becomes durable; a policy change is recorded in one step.   *)
Settle(c) ==
    /\ stage[c] \in {"new", "logged"}
    /\ stage' = [stage EXCEPT ![c] = "settled"]
    /\ UNCHANGED delivered

Next == \E c \in Clients : Log(c) \/ Deliver(c) \/ Settle(c)

Spec == Init /\ [][Next]_<<stage, delivered>>
=============================================================================
