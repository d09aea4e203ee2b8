--------------------------- MODULE MqttCommander ---------------------------
(***************************************************************************)
(* The command path of the control service: the one-second rule loop, the  *)
(* commander (ACK listener and timeout checker), the operator's HTTP       *)
(* threads and the devices behind MQTT.  What becomes of an accepted       *)
(* command, its closed-loop verification, is in module ClosedLoop.         *)
(*                                                                         *)
(* The rule loop, the listener and the checker are coroutines of one event *)
(* loop: each action below is the code between two await points.  The      *)
(* operator threads are real threads and interleave at every statement     *)
(* that touches shared state.                                              *)
(*                                                                         *)
(* Time is abstract: a cooldown, an ACK timeout, a sleep or an alert key   *)
(* may run out at any moment.  What the rules decide is abstract too: a    *)
(* cycle wants to command any set of devices, and the comparison with the  *)
(* device's reported mode may veto any of these commands (LoopSkip).       *)
(***************************************************************************)
EXTENDS Integers, Sequences, FiniteSets

CONSTANTS
    Devices,             \* controllable devices
    Goals,               \* what a command asks of a device (type and payload)
    Operators,           \* HTTP threads serving POST /operator-commands
    MaxRetries,          \* _MAX_RETRIES
    MaxRuleCommands,     \* bound: commands the rule loop issues (retries apart)
    MaxOperatorCommands, \* bound: commands operators issue
    MaxCrashes,          \* bound: restarts of the control process
    Statuses,            \* what a device may answer
    LateAcks,            \* may an ACK arrive once its timeout has been noticed?
    DuplicateAcks,       \* may an ACK be delivered twice?
    SlowCalls,           \* may a call inside send() outlast the ACK timeout?
    RedisFails           \* may a Redis call, or the commander's MQTT publication, raise?

ASSUME DevicesAssumption == Devices # {} /\ IsFiniteSet(Devices)
ASSUME GoalsAssumption == Goals # {}
ASSUME StatusesAssumption == Statuses \subseteq {"ACCEPTED", "REJECTED"}
ASSUME BoundsAssumption ==
    /\ MaxRetries \in Nat
    /\ MaxRuleCommands \in Nat
    /\ MaxOperatorCommands \in Nat
    /\ MaxCrashes \in Nat
    /\ LateAcks \in BOOLEAN /\ DuplicateAcks \in BOOLEAN
    /\ SlowCalls \in BOOLEAN /\ RedisFails \in BOOLEAN

(* Every rule command is attempted at most 1 + MaxRetries times, each      *)
(* attempt under an id of its own; an operator command once.               *)
MaxIds == MaxRuleCommands * (MaxRetries + 1) + MaxOperatorCommands
Ids    == 1 .. MaxIds
NoId   == 0
Handle == Ids \union {NoId}

Fates == {"unused", "open", "acked", "timeout", "forgotten"}

Command == [dev : Devices, goal : Goals, src : {"rule", "operator"},
            root : Handle, tries : 0 .. MaxRetries, fate : Fates]

Unused == [dev |-> CHOOSE d \in Devices : TRUE, goal |-> CHOOSE g \in Goals : TRUE,
           src |-> "rule", root |-> NoId, tries |-> 0, fate |-> "unused"]

Verdicts   == {"ACCEPTED", "REJECTED", "TIMEOUT"}
WriteKinds == {"PENDING", "VERIFIED", "UNVERIFIED"} \union Verdicts
Answers    == [cmd : Ids, status : Statuses]
LoopStates == [at : {"idle", "batch", "publish", "insert", "sent"}, todo : SUBSET Devices,
               cmd : Handle]
AckStates  == [at : {"idle", "update"}, cmd : Handle, status : {"ACCEPTED", "REJECTED"}]
CheckerStates ==
    [at : {"sleep", "pass", "retry", "republish", "record", "giveup", "alert", "raise", "dead"},
     expired : SUBSET Ids, cmd : Handle, new : Handle]
OperStates == [at : {"idle", "publish", "register", "cooldown", "desired"}, cmd : Handle]
Tasks      == [cmd : Ids, at : {"lookup", "sleep", "good", "bad", "alert"}]

VARIABLES
    cmd,       \* per id: what the command is, and what became of it
    issued,    \* number of ids handed out
    pending,   \* ids in _pending_acks
    tracked,   \* ids in _retry_counts
    verify,    \* ids in _pending_verify
    cooldown,  \* devices whose _device_cooldown entry has not run out
    loop,      \* the rule loop: where it awaits, devices left in this batch, id being sent
    ack,       \* the ACK listener: idle, or awaiting update_ack
    checker,   \* the timeout checker: where it awaits, its expired list, ids in hand
    oper,      \* per HTTP thread: which statement is next, and its command id
    verifying, \* verification tasks the listener has spawned
    wire,      \* ids published and not yet answered by the device
    acks,      \* answers on their way to the listener
    applied,   \* per device: the last command it carried out
    desired,   \* per device: the command id stored under desired:*
    writes,    \* per id: its entries in mg:db:write, oldest first
    alerts,    \* devices with a verify:<device>:timeout alert key
    failed,    \* ids an EVT-E-005 event was published about
    crashes    \* restarts so far

shared  == <<pending, tracked, verify, cooldown>>
tasks   == <<loop, ack, checker, oper, verifying>>
network == <<wire, acks, applied>>
store   == <<desired, writes, alerts, failed>>
vars    == <<cmd, issued, shared, tasks, network, store, crashes>>

-----------------------------------------------------------------------------
(* Helpers *)

IdleLoop    == [at |-> "idle", todo |-> {}, cmd |-> NoId]
IdleAck     == [at |-> "idle", cmd |-> NoId, status |-> "ACCEPTED"]
IdleChecker == [at |-> "sleep", expired |-> {}, cmd |-> NoId, new |-> NoId]
IdleOper    == [at |-> "idle", cmd |-> NoId]

RuleRoots     == {c \in Ids : cmd[c].src = "rule" /\ cmd[c].root = c}
OperatorRoots == {c \in Ids : cmd[c].src = "operator" /\ cmd[c].root = c}

SameDevice(c, S) == {b \in S : cmd[b].dev = cmd[c].dev}

(* One XADD to mg:db:write about command c. *)
Record(c, kind) == writes' = [writes EXCEPT ![c] = Append(@, kind)]

(* A fresh command_id standing for the given command. *)
Issue(command) ==
    /\ issued < MaxIds
    /\ issued' = issued + 1
    /\ cmd' = [cmd EXCEPT ![issued + 1] = command]

NewRuleCommand(d, g, id) ==
    [dev |-> d, goal |-> g, src |-> "rule", root |-> id, tries |-> 0, fate |-> "open"]

NewOperatorCommand(d, g, id) ==
    [dev |-> d, goal |-> g, src |-> "operator", root |-> id, tries |-> 0, fate |-> "open"]

(* Mutant: the retry is a command of its own. *)
RetriedAsNew(c) == [cmd[c] EXCEPT !.tries = @ + 1, !.fate = "open", !.root = issued + 1]

Retried(c) == [cmd[c] EXCEPT !.tries = @ + 1, !.fate = "open"]

(* Mutants: one of the two dicts is forgotten. *)
RegisterUntracked(id) == pending' = pending \union {id} /\ tracked' = tracked
RegisterUnawaited(id) == pending' = pending /\ tracked' = tracked \union {id}

(* _pending_acks and _retry_counts. *)
Register(id) ==
    /\ pending' = pending \union {id}
    /\ tracked' = tracked \union {id}

(* Mutant: the entry is read instead of popped. *)
KeepRegistered(id) == UNCHANGED <<pending, tracked>>

Unregister(id) ==
    /\ pending' = pending \ {id}
    /\ tracked' = tracked \ {id}

-----------------------------------------------------------------------------
Init ==
    /\ cmd = [c \in Ids |-> Unused]
    /\ issued = 0
    /\ pending = {} /\ tracked = {} /\ verify = {} /\ cooldown = {}
    /\ loop = IdleLoop /\ ack = IdleAck /\ checker = IdleChecker
    /\ oper = [o \in Operators |-> IdleOper]
    /\ verifying = {}
    /\ wire = {} /\ acks = {}
    /\ applied = [d \in Devices |-> NoId]
    /\ desired = [d \in Devices |-> NoId]
    /\ writes = [c \in Ids |-> <<>>]
    /\ alerts = {} /\ failed = {}
    /\ crashes = 0

-----------------------------------------------------------------------------
(* The rule loop: one cycle a second, one batch of commands a cycle, at    *)
(* most one command per device (rule_engine._resolve).                     *)

LoopBegin(S) ==
    /\ loop.at = "idle"
    /\ loop' = [at |-> "batch", todo |-> S, cmd |-> NoId]
    /\ UNCHANGED <<cmd, issued, shared, ack, checker, oper, verifying, network, store, crashes>>

(* Checks 1 and 2 of _should_send: cooldown, then any pending ACK. *)
ShouldSend(d) ==
    /\ d \notin cooldown
    /\ \A c \in pending : cmd[c].dev # d

(* _should_send says no: by these two checks, or by the device's mode. *)
LoopSkip(d) ==
    /\ loop.at = "batch"
    /\ d \in loop.todo
    /\ loop' = [loop EXCEPT !.todo = @ \ {d}]
    /\ UNCHANGED <<cmd, issued, shared, ack, checker, oper, verifying, network, store, crashes>>

(* _should_send says yes and send() runs up to its first await: the command *)
(* is registered before anything is published.                              *)
LoopSend(d, g) ==
    /\ loop.at = "batch"
    /\ d \in loop.todo
    /\ Cardinality(RuleRoots) < MaxRuleCommands
    /\ ShouldSend(d)
    /\ Issue(NewRuleCommand(d, g, issued + 1))
    /\ Register(issued + 1)
    /\ loop' = [at |-> "publish", todo |-> loop.todo \ {d}, cmd |-> issued + 1]
    /\ UNCHANGED <<verify, cooldown, ack, checker, oper, verifying, network, store, crashes>>

(* desired:* is stored; commands of the same device that still wait for    *)
(* their verification are superseded; then the command is published.       *)
LoopPublish(ok) ==
    /\ loop.at = "publish"
    /\ ok \/ RedisFails
    /\ desired' = [desired EXCEPT ![cmd[loop.cmd].dev] = loop.cmd]
    /\ verify' = (verify \ SameDevice(loop.cmd, verify)) \union {loop.cmd}
    /\ wire' = IF ok THEN wire \union {loop.cmd} ELSE wire
    /\ loop' = IF ok THEN [loop EXCEPT !.at = "insert"] ELSE IdleLoop
    /\ UNCHANGED <<cmd, issued, pending, tracked, cooldown, ack, checker, oper, verifying,
                   acks, applied, writes, alerts, failed, crashes>>

LoopInsert ==
    /\ loop.at = "insert"
    /\ Record(loop.cmd, "PENDING")
    /\ loop' = [loop EXCEPT !.at = "sent"]
    /\ UNCHANGED <<cmd, issued, shared, ack, checker, oper, verifying, network,
                   desired, alerts, failed, crashes>>

(* send() has returned: only now does the loop start the cooldown. *)
LoopCooldown ==
    /\ loop.at = "sent"
    /\ cooldown' = cooldown \union {cmd[loop.cmd].dev}
    /\ loop' = [loop EXCEPT !.at = "batch", !.cmd = NoId]
    /\ UNCHANGED <<cmd, issued, pending, tracked, verify, ack, checker, oper, verifying,
                   network, store, crashes>>

(* An exception out of send() (set_desired, the publication or the history *)
(* entry fails) drops the rest of the batch; what send() registered before *)
(* it stays registered.                                                    *)
LoopFails ==
    /\ RedisFails
    /\ loop.at \in {"publish", "insert"}
    /\ loop' = IdleLoop
    /\ UNCHANGED <<cmd, issued, shared, ack, checker, oper, verifying, network, store, crashes>>

LoopEnd ==
    /\ loop.at = "batch"
    /\ loop.todo = {}
    /\ loop' = IdleLoop
    /\ UNCHANGED <<cmd, issued, shared, ack, checker, oper, verifying, network, store, crashes>>

(* 35 seconds have passed since the entry was written. *)
CooldownExpire(d) ==
    /\ d \in cooldown
    /\ cooldown' = cooldown \ {d}
    /\ UNCHANGED <<cmd, issued, pending, tracked, verify, tasks, network, store, crashes>>

-----------------------------------------------------------------------------
(* The devices.  A command or an answer may be lost (these actions need    *)
(* not happen) or late; an answer may be delivered twice (AckReceive).     *)

DeviceAnswer(c, status) ==
    /\ c \in wire
    /\ wire' = wire \ {c}
    /\ acks' = acks \union {[cmd |-> c, status |-> status]}
    /\ applied' = IF status = "ACCEPTED" THEN [applied EXCEPT ![cmd[c].dev] = c] ELSE applied
    /\ UNCHANGED <<cmd, issued, shared, tasks, store, crashes>>

-----------------------------------------------------------------------------
(* The ACK listener. *)

AckIgnore(m) ==
    /\ ack.at = "idle"
    /\ m \in acks
    /\ m.cmd \notin pending
    /\ acks' = acks \ {m}
    /\ UNCHANGED <<cmd, issued, shared, tasks, wire, applied, store, crashes>>

AckPop(c) == Unregister(c)

AckReceive(m, again) ==
    /\ ack.at = "idle"
    /\ m \in acks
    /\ m.cmd \in pending
    /\ LateAcks \/ m.cmd \notin checker.expired
    /\ again => DuplicateAcks
    /\ acks' = IF again THEN acks ELSE acks \ {m}
    /\ AckPop(m.cmd)
    /\ cooldown' = cooldown \ {cmd[m.cmd].dev}
    /\ cmd' = [cmd EXCEPT ![m.cmd].fate = "acked"]
    /\ ack' = [at |-> "update", cmd |-> m.cmd, status |-> m.status]
    /\ UNCHANGED <<issued, verify, loop, checker, oper, verifying, wire, applied, store, crashes>>

(* Mutant: every answered command is verified. *)
AnyAnswer(status) == TRUE

Accepted(status) == status = "ACCEPTED"

(* update_ack returned: an accepted command gets a verification task, from *)
(* its _pending_verify entry or, when it has none, by a database lookup.   *)
AckRecord ==
    /\ ack.at = "update"
    /\ Record(ack.cmd, ack.status)
    /\ verify' = verify \ {ack.cmd}
    /\ verifying' = IF Accepted(ack.status)
                    THEN verifying \union
                         {[cmd |-> ack.cmd, at |-> IF ack.cmd \in verify THEN "sleep" ELSE "lookup"]}
                    ELSE verifying
    /\ ack' = IdleAck
    /\ UNCHANGED <<cmd, issued, pending, tracked, cooldown, loop, checker, oper, network,
                   desired, alerts, failed, crashes>>

AckRecordFails ==
    /\ RedisFails
    /\ ack.at = "update"
    /\ ack' = IdleAck
    /\ UNCHANGED <<cmd, issued, shared, loop, checker, oper, verifying, network, store, crashes>>

-----------------------------------------------------------------------------
(* The timeout checker: every five seconds. *)

(* Mutants: one retry too many, one too few; a pop() that tolerates a     *)
(* missing entry.                                                          *)
MayRetryOnceMore(c) == c \in tracked /\ cmd[c].tries <= MaxRetries
MayRetryOnceLess(c) == c \in tracked /\ cmd[c].tries + 1 < MaxRetries
Tolerated(c) == TRUE

(* Retries are left; an operator command has no entry to retry from. *)
MayRetry(c) == c \in tracked /\ cmd[c].tries < MaxRetries

CanPop(c) == c \in pending

(* The command gives up its entries; a retry is due or it has failed. *)
Take(c, rest) ==
    /\ CanPop(c)
    /\ Unregister(c)
    /\ verify' = verify \ {c}
    /\ cmd' = [cmd EXCEPT ![c].fate = "timeout"]
    /\ checker' = [at |-> IF MayRetry(c) THEN "retry" ELSE "giveup",
                   expired |-> rest, cmd |-> c, new |-> NoId]
    /\ UNCHANGED <<issued, cooldown, loop, ack, oper, verifying, network, store, crashes>>

(* The pending commands whose timeout has passed are listed once; the      *)
(* first is taken at once, the others one after another with awaits in     *)
(* between.                                                                *)
CheckerScan(E, c) ==
    /\ checker.at = "sleep"
    /\ E \subseteq pending
    /\ SlowCalls \/ loop.cmd \notin E
    /\ c \in E
    /\ Take(c, E \ {c})

CheckerTake(c) ==
    /\ checker.at = "pass"
    /\ c \in checker.expired
    /\ Take(c, checker.expired \ {c})

(* pop() without a default: a listed command that was answered meanwhile   *)
(* raises KeyError, nothing catches it and the task is gone.               *)
CheckerKeyError(c) ==
    /\ checker.at = "pass"
    /\ c \in checker.expired
    /\ c \notin pending
    /\ checker' = [IdleChecker EXCEPT !.at = "dead"]
    /\ UNCHANGED <<cmd, issued, shared, loop, ack, oper, verifying, network, store, crashes>>

CheckerEndPass ==
    /\ checker.at = "pass"
    /\ checker.expired = {}
    /\ checker' = IdleChecker
    /\ UNCHANGED <<cmd, issued, shared, loop, ack, oper, verifying, network, store, crashes>>

(* After two more seconds: the same command under a new id, registered     *)
(* without looking at what else is pending for the device.                 *)
CheckerRetry ==
    /\ checker.at = "retry"
    /\ Issue(Retried(checker.cmd))
    /\ Register(issued + 1)
    /\ verify' = verify \union {issued + 1}
    /\ checker' = [checker EXCEPT !.at = "republish", !.new = issued + 1]
    /\ UNCHANGED <<cooldown, loop, ack, oper, verifying, network, store, crashes>>

CheckerRepublish ==
    /\ checker.at = "republish"
    /\ wire' = wire \union {checker.new}
    /\ checker' = [checker EXCEPT !.at = "record"]
    /\ UNCHANGED <<cmd, issued, shared, loop, ack, oper, verifying, acks, applied, store, crashes>>

CheckerRecord ==
    /\ checker.at = "record"
    /\ Record(checker.cmd, "TIMEOUT")
    /\ checker' = [checker EXCEPT !.at = "pass", !.cmd = NoId, !.new = NoId]
    /\ UNCHANGED <<cmd, issued, shared, loop, ack, oper, verifying, network,
                   desired, alerts, failed, crashes>>

(* The retry's own try block. *)
CheckerRetryFails ==
    /\ RedisFails
    /\ checker.at \in {"republish", "record"}
    /\ checker' = [checker EXCEPT !.at = "pass", !.cmd = NoId, !.new = NoId]
    /\ UNCHANGED <<cmd, issued, shared, loop, ack, oper, verifying, network, store, crashes>>

CheckerGiveUp ==
    /\ checker.at = "giveup"
    /\ Record(checker.cmd, "TIMEOUT")
    /\ checker' = [checker EXCEPT !.at = "alert"]
    /\ UNCHANGED <<cmd, issued, shared, loop, ack, oper, verifying, network,
                   desired, alerts, failed, crashes>>

CheckerAlert ==
    /\ checker.at = "alert"
    /\ alerts' = alerts \union {cmd[checker.cmd].dev}
    /\ checker' = IF cmd[checker.cmd].dev \in alerts
                  THEN [checker EXCEPT !.at = "pass", !.cmd = NoId]
                  ELSE [checker EXCEPT !.at = "raise"]
    /\ UNCHANGED <<cmd, issued, shared, loop, ack, oper, verifying, network,
                   desired, writes, failed, crashes>>

CheckerRaise ==
    /\ checker.at = "raise"
    /\ failed' = failed \union {checker.cmd}
    /\ checker' = [checker EXCEPT !.at = "pass", !.cmd = NoId]
    /\ UNCHANGED <<cmd, issued, shared, loop, ack, oper, verifying, network,
                   desired, writes, alerts, crashes>>

(* The final failure is outside any try block. *)
CheckerFails ==
    /\ RedisFails
    /\ checker.at \in {"giveup", "alert", "raise"}
    /\ checker' = [IdleChecker EXCEPT !.at = "dead"]
    /\ UNCHANGED <<cmd, issued, shared, loop, ack, oper, verifying, network, store, crashes>>

(* An alert key lives an hour. *)
AlertExpire(d) ==
    /\ d \in alerts
    /\ alerts' = alerts \ {d}
    /\ UNCHANGED <<cmd, issued, shared, tasks, network, desired, writes, failed, crashes>>

-----------------------------------------------------------------------------
(* POST /operator-commands. *)

Step(o, at) == oper' = [oper EXCEPT ![o].at = at]

(* The control_history row is requested first; a failure is only logged. *)
OperatorInsert(o, d, g, ok) ==
    /\ oper[o].at = "idle"
    /\ Cardinality(OperatorRoots) < MaxOperatorCommands
    /\ ok \/ RedisFails
    /\ Issue(NewOperatorCommand(d, g, issued + 1))
    /\ IF ok THEN Record(issued + 1, "PENDING") ELSE UNCHANGED writes
    /\ oper' = [oper EXCEPT ![o] = [at |-> "publish", cmd |-> issued + 1]]
    /\ UNCHANGED <<shared, loop, ack, checker, verifying, network, desired, alerts, failed, crashes>>

OperatorPublish(o) ==
    /\ oper[o].at = "publish"
    /\ wire' = wire \union {oper[o].cmd}
    /\ Step(o, "register")
    /\ UNCHANGED <<cmd, issued, shared, loop, ack, checker, verifying, acks, applied, store, crashes>>

(* The operators' own MQTT client is not connected. *)
OperatorPublishFails(o) ==
    /\ oper[o].at = "publish"
    /\ oper' = [oper EXCEPT ![o] = IdleOper]
    /\ UNCHANGED <<cmd, issued, shared, loop, ack, checker, verifying, network, store, crashes>>

RegisterOperatorCommand(o) ==
    /\ oper[o].at = "register"
    /\ pending' = pending \union {oper[o].cmd}
    /\ Step(o, "cooldown")
    /\ UNCHANGED <<cmd, issued, tracked, verify, cooldown, ack, verifying, network, store, crashes>>

OperatorRegister(o) == RegisterOperatorCommand(o) /\ UNCHANGED <<loop, checker>>

(* Another thread's insertion while the checker, or _should_send, iterates *)
(* over the same dict: RuntimeError there.  The checker dies of it, the    *)
(* rule loop drops the rest of its batch.                                  *)
OperatorBreaksChecker(o) ==
    /\ checker.at = "sleep"
    /\ pending # {}
    /\ RegisterOperatorCommand(o)
    /\ checker' = [IdleChecker EXCEPT !.at = "dead"]
    /\ UNCHANGED loop

OperatorBreaksLoop(o) ==
    /\ loop.at = "batch"
    /\ loop.todo # {}
    /\ pending # {}
    /\ RegisterOperatorCommand(o)
    /\ loop' = IdleLoop
    /\ UNCHANGED checker

OperatorCooldown(o) ==
    /\ oper[o].at = "cooldown"
    /\ cooldown' = cooldown \union {cmd[oper[o].cmd].dev}
    /\ Step(o, "desired")
    /\ UNCHANGED <<cmd, issued, pending, tracked, verify, loop, ack, checker, verifying,
                   network, store, crashes>>

OperatorSetDesired(o, ok) ==
    /\ oper[o].at = "desired"
    /\ ok \/ RedisFails
    /\ desired' = IF ok THEN [desired EXCEPT ![cmd[oper[o].cmd].dev] = oper[o].cmd] ELSE desired
    /\ oper' = [oper EXCEPT ![o] = IdleOper]
    /\ UNCHANGED <<cmd, issued, shared, loop, ack, checker, verifying, network,
                   writes, alerts, failed, crashes>>

-----------------------------------------------------------------------------
(* The control process restarts: every dict and every task is gone; Redis, *)
(* the broker and the devices go on.                                       *)
Crash ==
    /\ crashes < MaxCrashes
    /\ crashes' = crashes + 1
    /\ cmd' = [c \in Ids |-> IF cmd[c].fate = "open" THEN [cmd[c] EXCEPT !.fate = "forgotten"]
                                                     ELSE cmd[c]]
    /\ pending' = {} /\ tracked' = {} /\ verify' = {} /\ cooldown' = {}
    /\ loop' = IdleLoop /\ ack' = IdleAck /\ checker' = IdleChecker
    /\ oper' = [o \in Operators |-> IdleOper]
    /\ verifying' = {}
    /\ UNCHANGED <<issued, network, store>>

-----------------------------------------------------------------------------
LoopStep ==
    \/ \E S \in SUBSET Devices : LoopBegin(S)
    \/ \E d \in Devices : LoopSkip(d) \/ \E g \in Goals : LoopSend(d, g)
    \/ (\E ok \in BOOLEAN : LoopPublish(ok)) \/ LoopInsert \/ LoopCooldown
    \/ LoopFails \/ LoopEnd

AckStep ==
    \/ \E m \in acks : AckIgnore(m) \/ \E again \in BOOLEAN : AckReceive(m, again)
    \/ AckRecord \/ AckRecordFails

CheckerStep ==
    \/ \E E \in SUBSET pending : \E c \in E : CheckerScan(E, c)
    \/ \E c \in checker.expired : CheckerTake(c) \/ CheckerKeyError(c)
    \/ CheckerEndPass \/ CheckerRetry \/ CheckerRepublish \/ CheckerRecord
    \/ CheckerRetryFails \/ CheckerGiveUp \/ CheckerAlert \/ CheckerRaise \/ CheckerFails

OperatorStep(o) ==
    \/ \E d \in Devices, g \in Goals, ok \in BOOLEAN : OperatorInsert(o, d, g, ok)
    \/ OperatorPublish(o) \/ OperatorPublishFails(o)
    \/ OperatorRegister(o) \/ OperatorBreaksChecker(o) \/ OperatorBreaksLoop(o)
    \/ OperatorCooldown(o)
    \/ \E ok \in BOOLEAN : OperatorSetDesired(o, ok)

Environment ==
    \/ \E c \in wire, status \in Statuses : DeviceAnswer(c, status)
    \/ \E d \in cooldown : CooldownExpire(d)
    \/ \E d \in alerts : AlertExpire(d)
    \/ Crash

Next ==
    \/ LoopStep \/ AckStep \/ CheckerStep
    \/ \E o \in Operators : OperatorStep(o)
    \/ Environment

Spec == Init /\ [][Next]_vars

-----------------------------------------------------------------------------
(* Properties *)

(* Every part of the state has the shape the code gives it. *)
TypeOK ==
    /\ cmd \in [Ids -> Command] /\ issued \in 0 .. MaxIds
    /\ pending \subseteq Ids /\ tracked \subseteq Ids /\ verify \subseteq Ids
    /\ cooldown \subseteq Devices
    /\ loop \in LoopStates /\ ack \in AckStates /\ checker \in CheckerStates
    /\ oper \in [Operators -> OperStates]
    /\ verifying \subseteq Tasks
    /\ wire \subseteq Ids /\ acks \subseteq Answers
    /\ applied \in [Devices -> Handle] /\ desired \in [Devices -> Handle]
    /\ writes \in [Ids -> Seq(WriteKinds)]
    /\ alerts \subseteq Devices /\ failed \subseteq Ids
    /\ crashes \in 0 .. MaxCrashes

Rule(c) == cmd[c].src = "rule"
Used(c) == cmd[c].fate # "unused"
Chain(c) == {b \in Ids : Used(b) /\ cmd[b].root = cmd[c].root}

(* The rule commands of a device the commander has not finished with:      *)
(* waiting for an answer, or between two attempts.                         *)
LiveAttempts(d) ==
    {c \in pending : Rule(c) /\ cmd[c].dev = d}
        \union (IF checker.at = "retry" /\ cmd[checker.cmd].dev = d THEN {checker.cmd} ELSE {})

(* _should_send keeps a device to one unanswered command, but a command    *)
(* the checker is about to retry is not in _pending_acks: the loop may     *)
(* slip in one more, and never a third.                                    *)
AtMostTwoLiveAttempts ==
    \A d \in Devices : \A a, b, c \in LiveAttempts(d) : a = b \/ b = c \/ a = c

(* send() registers before it publishes, and so does a retry: whenever the *)
(* answer to a rule command comes in, either it is awaited or the command  *)
(* has been timed out (or the process restarted).                          *)
NoRuleAckOrphaned ==
    \A c \in Ids : /\ Rule(c) /\ cmd[c].fate = "open"
                   /\ c \in wire \/ \E m \in acks : m.cmd = c
                  => c \in pending

(* An answer ends the retries: no attempt of a command is ever made after  *)
(* one of its attempts was acknowledged.                                   *)
AckEndsRetries ==
    \A a \in Ids : cmd[a].fate = "acked" => \A b \in Chain(a) : b <= a

(* "Delivery failed" is raised for a rule command only after every one of  *)
(* its attempts was made and timed out.                                    *)
FailureMeansExhausted ==
    \A c \in failed : Rule(c) =>
        \A k \in 0 .. MaxRetries :
            \E b \in Chain(c) : cmd[b].tries = k /\ cmd[b].fate = "timeout"

(* Listener and checker compete for a pending command; only one of them    *)
(* writes its verdict to the history stream, and only once.                *)
OneVerdictPerCommand ==
    \A c \in Ids : \A i, j \in DOMAIN writes[c] :
        writes[c][i] \in Verdicts /\ writes[c][j] \in Verdicts => i = j

-----------------------------------------------------------------------------
(* The specification this one implements: a command is known by the id of  *)
(* its first attempt; between an attempt that timed out and the next it is *)
(* still waiting.                                                          *)

Attempts(r) == {b \in Ids : Used(b) /\ cmd[b].root = r}

Due(b) == checker.at = "retry" /\ checker.cmd = b

PlanOf(r) == IF Attempts(r) = {} THEN {} ELSE IF Rule(r) THEN 0 .. MaxRetries ELSE {0}

Outcome(r) ==
    LET A == Attempts(r) IN
    IF A = {} THEN "none"
    ELSE IF \E b \in A : cmd[b].fate = "acked" THEN "answered"
    ELSE IF \E b \in A : cmd[b].fate = "open" \/ Due(b) THEN "waiting"
    ELSE IF \E b \in A : cmd[b].fate = "timeout" /\ (Rule(b) => cmd[b].tries = MaxRetries) THEN "failed"
    ELSE "forgotten"

Made(r) == {cmd[b].tries : b \in Attempts(r)}

PlanBar     == [r \in Ids |-> PlanOf(r)]
MadeBar     == [r \in Ids |-> Made(r)]
OutcomeBar  == [r \in Ids |-> Outcome(r)]
ReportedBar == {cmd[b].root : b \in failed}

D == INSTANCE CommandDelivery WITH
         Commands <- Ids,
         plan     <- PlanBar,
         made     <- MadeBar,
         outcome  <- OutcomeBar,
         reported <- ReportedBar

(* Loop, listener, checker and HTTP threads together, whatever is lost,    *)
(* late or repeated, treat each command as CommandDelivery says.           *)
DeliversAsPromised == D!Delivery

-----------------------------------------------------------------------------
(* The inductive invariant behind these properties. *)

(* A task that is in the middle of a command holds its id. *)
HandlesOK ==
    /\ loop.at \in {"publish", "insert", "sent"} => loop.cmd \in Ids
    /\ ack.at = "update" => ack.cmd \in Ids /\ ack.status \in Statuses
    /\ checker.at \in {"retry", "republish", "record", "giveup", "alert", "raise"} => checker.cmd \in Ids
    /\ checker.at \in {"republish", "record"} => checker.new \in Ids
    /\ \A o \in Operators : oper[o].at # "idle" => oper[o].cmd \in Ids

(* Ids are handed out in order, and a retry's first attempt is older. *)
IdsInOrder ==
    /\ \A c \in Ids : Used(c) <=> c <= issued
    /\ \A c \in Ids : Used(c) => cmd[c].root \in 1 .. c

(* _pending_acks holds open commands only, every open rule command among   *)
(* them, and _retry_counts exactly the rule commands it holds.             *)
PendingIsOpen ==
    /\ \A c \in pending : cmd[c].fate = "open"
    /\ \A c \in Ids : Rule(c) /\ cmd[c].fate = "open" => c \in pending
    /\ \A c \in Ids : c \in tracked <=> c \in pending /\ Rule(c)

(* A pending command is the latest attempt of its chain. *)
PendingIsLatest == \A c \in pending : \A b \in Chain(c) : b <= c

(* So is the one the checker is about to retry, and nobody answered it. *)
RetryIsDue ==
    checker.at = "retry" =>
        /\ Rule(checker.cmd) /\ cmd[checker.cmd].fate = "timeout"
        /\ cmd[checker.cmd].tries < MaxRetries
        /\ \A b \in Chain(checker.cmd) : b <= checker.cmd /\ cmd[b].fate # "acked"

(* A command an HTTP thread has not registered yet is open and its own. *)
OperatorInHand ==
    /\ \A o \in Operators : oper[o].at \in {"publish", "register"} =>
          /\ ~Rule(oper[o].cmd) /\ cmd[oper[o].cmd].fate = "open" /\ oper[o].cmd \notin pending
          /\ \A b \in Chain(oper[o].cmd) : b = oper[o].cmd
    /\ \A o \in Operators : oper[o].at # "idle" => Used(oper[o].cmd)
    /\ \A o, p \in Operators : oper[o].at # "idle" /\ oper[p].at # "idle" /\ oper[o].cmd = oper[p].cmd
          => o = p

IInv ==
    /\ IdsInOrder /\ PendingIsOpen /\ PendingIsLatest /\ RetryIsDue /\ OperatorInHand
    /\ AtMostTwoLiveAttempts /\ AckEndsRetries

(* Verdicts: none for a command that may still be answered or given up,    *)
(* nor for one whose verdict is in the listener's or the checker's hands.  *)
NoVerdict(c) == \A i \in DOMAIN writes[c] : writes[c][i] \notin Verdicts

VerdictInv ==
    /\ \A c \in Ids : cmd[c].fate \in {"unused", "open"} => NoVerdict(c)
    /\ ack.at = "update" => cmd[ack.cmd].fate = "acked" /\ NoVerdict(ack.cmd)
    /\ checker.at \in {"retry", "republish", "record", "giveup"} =>
          cmd[checker.cmd].fate = "timeout" /\ NoVerdict(checker.cmd)
    /\ OneVerdictPerCommand

(* Every attempt before the current one timed out. *)
FailureInv ==
    /\ \A c \in Ids : Used(c) /\ Rule(c) =>
          \A k \in 0 .. cmd[c].tries - 1 :
              \E b \in Chain(c) : cmd[b].tries = k /\ cmd[b].fate = "timeout"
    /\ checker.at \in {"giveup", "alert", "raise"} =>
          /\ Used(checker.cmd)
          /\ Rule(checker.cmd) =>
                cmd[checker.cmd].tries = MaxRetries /\ cmd[checker.cmd].fate = "timeout"
    /\ \A c \in failed : Used(c) /\ (Rule(c) => cmd[c].tries = MaxRetries /\ cmd[c].fate = "timeout")

(* A retry belongs to the command of its first attempt; an operator's      *)
(* command has one attempt; after its last attempt a command has no other. *)
IsLast(c) == Rule(c) => cmd[c].tries = MaxRetries

ChainInv ==
    /\ \A c \in Ids : Used(c) => /\ cmd[cmd[c].root].src = cmd[c].src
                                 /\ ~Rule(c) => cmd[c].root = c /\ cmd[c].tries = 0
    /\ \A c \in Ids : Used(c) /\ IsLast(c) => \A b \in Chain(c) : b <= c
    /\ checker.at \in {"giveup", "alert", "raise"} =>
          IsLast(checker.cmd) /\ cmd[checker.cmd].fate = "timeout"

-----------------------------------------------------------------------------
(* Liveness.  The event loop runs every coroutine that can go on, and the  *)
(* timeout of a pending command passes: the checker cannot sleep forever   *)
(* while something is pending, nor send() stop halfway.                    *)

LoopProgress == LoopPublish(TRUE) \/ LoopInsert \/ LoopCooldown

CheckerProgress ==
    \/ \E c \in checker.expired : CheckerTake(c) \/ CheckerKeyError(c)
    \/ CheckerEndPass \/ CheckerRetry \/ CheckerRepublish \/ CheckerRecord
    \/ CheckerGiveUp \/ CheckerAlert \/ CheckerRaise

Fairness ==
    /\ WF_vars(\E E \in SUBSET pending : \E c \in E : CheckerScan(E, c))
    /\ WF_vars(CheckerProgress)
    /\ WF_vars(LoopProgress)

FairSpec == Spec /\ Fairness

(* Whatever the devices and the network do, a rule command ends: one of    *)
(* its attempts is answered, or the last one has timed out, or the process *)
(* was restarted.                                                          *)
CommandConcludes ==
    \A c \in Ids : (cmd[c].fate = "open" /\ Rule(c)) ~>
        (crashes > 0 \/ \E b \in Chain(c) :
            \/ cmd[b].fate = "acked"
            \/ cmd[b].fate = "timeout" /\ cmd[b].tries = MaxRetries)

=============================================================================
