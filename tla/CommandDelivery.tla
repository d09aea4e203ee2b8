-------------------------- MODULE CommandDelivery --------------------------
(***************************************************************************)
(* What the command path promises of a command, whoever gives it: it is    *)
(* attempted again only while it is unanswered and attempts are left, and  *)
(* it ends once, answered, failed, or forgotten by a restart.  A failure   *)
(* means that every attempt the command was entitled to has been made, and *)
(* only a failed command is reported as such.                              *)
(*                                                                         *)
(* The specification knows of no message, no dict, no task and no clock;   *)
(* module MqttCommander implements it.                                     *)
(***************************************************************************)
EXTENDS Integers

CONSTANTS
    Commands,  \* all the commands there may be
    MaxRetries

VARIABLES
    plan,    \* per command: the attempts it is entitled to, by number
    made,    \* per command: the attempts made
    outcome, \* per command: what became of it
    reported \* commands whose delivery was reported to have failed

deliveryVars == <<plan, made, outcome, reported>>

(* An operator's command is attempted once, a rule's is retried. *)
Plans == {{0}, 0 .. MaxRetries}

Nothing ==
    /\ plan = [c \in Commands |-> {}]
    /\ made = [c \in Commands |-> {}]
    /\ outcome = [c \in Commands |-> "none"]
    /\ reported = {}

Ask(c) ==
    /\ outcome[c] = "none"
    /\ plan' \in {[plan EXCEPT ![c] = p] : p \in Plans}
    /\ made' = [made EXCEPT ![c] = {0}]
    /\ outcome' = [outcome EXCEPT ![c] = "waiting"]
    /\ UNCHANGED reported

(* The attempts are made in turn. *)
Repeat(c) ==
    /\ outcome[c] = "waiting"
    /\ \E k \in plan[c] : /\ 0 .. k - 1 \subseteq made[c]
                          /\ made' = [made EXCEPT ![c] = @ \union {k}]
    /\ UNCHANGED <<plan, outcome, reported>>

Answer(c) ==
    /\ outcome[c] = "waiting"
    /\ outcome' = [outcome EXCEPT ![c] = "answered"]
    /\ UNCHANGED <<plan, made, reported>>

Fail(c) ==
    /\ outcome[c] = "waiting"
    /\ made[c] = plan[c]
    /\ outcome' = [outcome EXCEPT ![c] = "failed"]
    /\ UNCHANGED <<plan, made, reported>>

ReportFailure(c) ==
    /\ outcome[c] = "failed"
    /\ reported' = reported \union {c}
    /\ UNCHANGED <<plan, made, outcome>>

(* Whoever waits is forgotten; what has ended stays as it is. *)
Forget ==
    /\ outcome' = [c \in Commands |-> IF outcome[c] = "waiting" THEN "forgotten" ELSE outcome[c]]
    /\ UNCHANGED <<plan, made, reported>>

Advance ==
    \/ \E c \in Commands : Ask(c) \/ Repeat(c) \/ Answer(c) \/ Fail(c) \/ ReportFailure(c)
    \/ Forget

Delivery == Nothing /\ [][Advance]_deliveryVars
=============================================================================
