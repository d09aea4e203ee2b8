--------------------------- MODULE CommandProofs ---------------------------
(***************************************************************************)
(* Theorems about the command path, for every number of devices, operators,*)
(* commands, retries and restarts: its types, the inductive invariant with *)
(* the safety properties that follow from it, the verdicts on a command,   *)
(* and that every step of the tasks is a step of CommandDelivery or none   *)
(* of its business.                                                        *)
(*                                                                         *)
(* Then about the path together with its verification tasks and the        *)
(* db-writer: closed-loop verification happens once, after the answer, and *)
(* the rows of control_history hold the answers that came.                 *)
(***************************************************************************)
EXTENDS ControlHistory, TLAPS

-----------------------------------------------------------------------------
(* Facts about the constants *)

LEMMA ConstantFacts ==
    /\ MaxIds \in Nat
    /\ Ids \subseteq Nat \ {0}
    /\ \A i \in Nat : i < MaxIds => i + 1 \in Ids
    /\ Unused \in Command
<1>1. \A a, b \in Nat : a * b \in Nat
  OBVIOUS
<1>2. MaxIds \in Nat
  BY <1>1, BoundsAssumption DEF MaxIds
<1>3. Unused \in Command
  BY DevicesAssumption, GoalsAssumption, BoundsAssumption DEF Unused, Command, Fates, Handle, NoId
<1> QED BY <1>2, <1>3 DEF Ids

-----------------------------------------------------------------------------
(* Type correctness.  By itself TypeOK is not inductive: a task in the     *)
(* middle of a command must hold an id, and a retry must be left.          *)

RetryLeft == checker.at = "retry" => cmd[checker.cmd].tries < MaxRetries

Typed == TypeOK /\ HandlesOK /\ RetryLeft

LEMMA TypedInit == Init => Typed
BY ConstantFacts, BoundsAssumption
   DEF Init, Typed, TypeOK, HandlesOK, RetryLeft, IdleLoop, IdleAck, IdleChecker, IdleOper, NoId, Handle,
       LoopStates, AckStates, CheckerStates, OperStates

LEMMA RecordTyped ==
    ASSUME NEW c \in Ids, NEW kind \in WriteKinds,
           writes \in [Ids -> Seq(WriteKinds)], Record(c, kind)
    PROVE  writes' \in [Ids -> Seq(WriteKinds)]
<1>1. \A s \in Seq(WriteKinds) : Append(s, kind) \in Seq(WriteKinds)
  OBVIOUS
<1> QED BY <1>1 DEF Record

LEMMA CommandTyped ==
    /\ MaxRetries \in Nat
    /\ \A x \in Command : x.dev \in Devices /\ x.tries \in Nat /\ x.tries <= MaxRetries
BY BoundsAssumption DEF Command

LEMMA IssueTyped ==
    ASSUME NEW command \in Command, TypeOK, Issue(command)
    PROVE  /\ issued + 1 \in Ids /\ issued' \in 0 .. MaxIds
           /\ cmd' \in [Ids -> Command]
           /\ \A c \in Ids : cmd'[c] = IF c = issued + 1 THEN command ELSE cmd[c]
BY ConstantFacts DEF TypeOK, Issue

LEMMA FateTyped ==
    ASSUME NEW c \in Ids, NEW f \in Fates, cmd \in [Ids -> Command],
           cmd' = [cmd EXCEPT ![c].fate = f]
    PROVE  /\ cmd' \in [Ids -> Command]
           /\ \A b \in Ids \ {c} : cmd'[b] = cmd[b]
           /\ cmd'[c].fate = f
           /\ \A b \in Ids : /\ cmd'[b].dev = cmd[b].dev /\ cmd'[b].src = cmd[b].src
                             /\ cmd'[b].root = cmd[b].root /\ cmd'[b].tries = cmd[b].tries
<1>1. cmd[c] \in Command
  OBVIOUS
<1>2. [cmd[c] EXCEPT !.fate = f] \in Command
  BY <1>1 DEF Command
<1>3. cmd' = [cmd EXCEPT ![c] = [cmd[c] EXCEPT !.fate = f]]
  OBVIOUS
<1>4. \A b \in Ids \ {c} : cmd'[b] = cmd[b]
  BY <1>3
<1>5. cmd'[c] = [cmd[c] EXCEPT !.fate = f]
  BY <1>3
<1>6. /\ cmd'[c].fate = f /\ cmd'[c].dev = cmd[c].dev /\ cmd'[c].src = cmd[c].src
      /\ cmd'[c].root = cmd[c].root /\ cmd'[c].tries = cmd[c].tries
  BY <1>1, <1>5 DEF Command
<1> QED BY <1>2, <1>3, <1>4, <1>6

LEMMA StepTyped ==
    ASSUME NEW o \in Operators, NEW at \in {"idle", "publish", "register", "cooldown", "desired"},
           oper \in [Operators -> OperStates], Step(o, at)
    PROVE  /\ oper' \in [Operators -> OperStates]
           /\ \A p \in Operators \ {o} : oper'[p] = oper[p]
           /\ oper'[o].at = at
           /\ \A p \in Operators : oper'[p].cmd = oper[p].cmd
<1>1. oper[o] \in OperStates
  OBVIOUS
<1>2. oper' = [oper EXCEPT ![o] = [oper[o] EXCEPT !.at = at]]
  BY DEF Step
<1>3. [oper[o] EXCEPT !.at = at] \in OperStates
  BY <1>1 DEF OperStates
<1>4. oper'[o].at = at /\ oper'[o].cmd = oper[o].cmd
  BY <1>1, <1>2 DEF OperStates
<1> QED BY <1>2, <1>3, <1>4

LEMMA TypedLoop == Typed /\ LoopStep => Typed'
<1> SUFFICES ASSUME Typed, LoopStep PROVE Typed'
  OBVIOUS
<1> USE ConstantFacts DEF Typed, TypeOK, HandlesOK, RetryLeft, IdleLoop, NoId, Handle, LoopStates,
                             shared, tasks, network, store
<1>1. ASSUME NEW S \in SUBSET Devices, LoopBegin(S) PROVE Typed'
  BY <1>1 DEF LoopBegin
<1>2. ASSUME NEW d \in Devices, LoopSkip(d) PROVE Typed'
  BY <1>2 DEF LoopSkip
<1>3. ASSUME NEW d \in Devices, NEW g \in Goals, LoopSend(d, g) PROVE Typed'
  <2>1. NewRuleCommand(d, g, issued + 1) \in Command
    BY <1>3, BoundsAssumption DEF LoopSend, Issue, NewRuleCommand, Command, Fates
  <2>2. /\ cmd' \in [Ids -> Command] /\ issued' \in 0 .. MaxIds
        /\ issued + 1 \in Ids
    BY <1>3, <2>1, IssueTyped DEF LoopSend
  <2>3. RetryLeft'
    <3>1. \A c \in Ids : cmd'[c] = cmd[c] \/ cmd'[c].tries = 0
      <4>1. NewRuleCommand(d, g, issued + 1).tries = 0
        BY DEF NewRuleCommand
      <4> QED BY <1>3, <2>1, <4>1, IssueTyped DEF LoopSend
    <3>2. checker.at = "retry" => cmd[checker.cmd].tries \in Nat /\ checker.cmd \in Ids
      BY CommandTyped
    <3>3. checker' = checker
      BY <1>3 DEF LoopSend
    <3>4. checker.at = "retry" => cmd[checker.cmd].tries < MaxRetries
      OBVIOUS
    <3> SUFFICES ASSUME checker.at = "retry" PROVE cmd'[checker.cmd].tries < MaxRetries
      BY <3>3
    <3>5. CASE cmd'[checker.cmd] = cmd[checker.cmd]
      BY <3>4, <3>5
    <3>6. CASE cmd'[checker.cmd].tries = 0
      BY <3>2, <3>4, <3>6, CommandTyped
    <3> QED BY <3>1, <3>2, <3>5, <3>6
  <2>4. TypeOK'
    BY <1>3, <2>2 DEF LoopSend, Register
  <2> QED BY <1>3, <2>2, <2>3, <2>4 DEF LoopSend
<1>4. ASSUME NEW ok \in BOOLEAN, LoopPublish(ok) PROVE Typed'
  BY <1>4 DEF LoopPublish, SameDevice
<1>5. CASE LoopInsert
  <2>1. writes' \in [Ids -> Seq(WriteKinds)]
    BY <1>5, RecordTyped DEF LoopInsert, WriteKinds
  <2> QED BY <1>5, <2>1 DEF LoopInsert
<1>6. CASE LoopCooldown
  <2>1. cmd[loop.cmd].dev \in Devices
    BY <1>6 DEF LoopCooldown, Command
  <2> QED BY <1>6, <2>1 DEF LoopCooldown
<1>7. CASE LoopFails
  BY <1>7 DEF LoopFails
<1>8. CASE LoopEnd
  BY <1>8 DEF LoopEnd
<1> QED BY <1>1, <1>2, <1>3, <1>4, <1>5, <1>6, <1>7, <1>8 DEF LoopStep

LEMMA TypedAck == Typed /\ AckStep => Typed'
<1> SUFFICES ASSUME Typed, AckStep PROVE Typed'
  OBVIOUS
<1> USE ConstantFacts DEF Typed, TypeOK, HandlesOK, RetryLeft, IdleAck, NoId, Handle, AckStates,
                             shared, tasks, network, store
<1>1. ASSUME NEW m \in acks, AckIgnore(m) PROVE Typed'
  BY <1>1 DEF AckIgnore
<1>2. ASSUME NEW m \in acks, NEW again \in BOOLEAN, AckReceive(m, again) PROVE Typed'
  <2>1. m.cmd \in Ids /\ m.status \in Statuses
    BY DEF Answers
  <2>2. /\ cmd' \in [Ids -> Command]
        /\ \A c \in Ids : cmd'[c].tries = cmd[c].tries
    BY <1>2, <2>1, FateTyped DEF AckReceive, Fates
  <2>3. RetryLeft'
    BY <1>2, <2>2 DEF AckReceive
  <2>4. ack' \in AckStates
    BY <1>2, <2>1, StatusesAssumption DEF AckReceive
  <2>5. TypeOK'
    BY <1>2, <2>2, <2>4 DEF AckReceive, AckPop, Unregister
  <2> QED BY <1>2, <2>1, <2>3, <2>5 DEF AckReceive
<1>3. CASE AckRecord
  <2>1. ack.status \in WriteKinds
    BY DEF WriteKinds, Verdicts
  <2>2. writes' \in [Ids -> Seq(WriteKinds)]
    BY <1>3, <2>1, RecordTyped DEF AckRecord
  <2>3. verifying' \subseteq Tasks
    BY <1>3 DEF AckRecord, Tasks
  <2> QED BY <1>3, <2>2, <2>3 DEF AckRecord
<1>4. CASE AckRecordFails
  BY <1>4 DEF AckRecordFails
<1> QED BY <1>1, <1>2, <1>3, <1>4 DEF AckStep

LEMMA TypedTake ==
    ASSUME Typed, NEW c \in Ids, NEW others \in SUBSET Ids, Take(c, others)
    PROVE  Typed'
<1> USE ConstantFacts DEF Typed, TypeOK, HandlesOK, RetryLeft, NoId, Handle, CheckerStates, network, store
<1>1. /\ cmd' \in [Ids -> Command]
      /\ \A b \in Ids : cmd'[b].tries = cmd[b].tries
  BY FateTyped DEF Take, Fates
<1>2. checker'.cmd = c /\ (checker'.at = "retry" => MayRetry(c)) /\ checker'.at \in {"retry", "giveup"}
  BY DEF Take
<1>3. RetryLeft'
  BY <1>1, <1>2 DEF MayRetry
<1>4. TypeOK'
  BY <1>1 DEF Take, Unregister
<1>5. HandlesOK'
  BY <1>2 DEF Take
<1> QED BY <1>3, <1>4, <1>5

LEMMA TypedChecker == Typed /\ CheckerStep => Typed'
<1> SUFFICES ASSUME Typed, CheckerStep PROVE Typed'
  OBVIOUS
<1> USE ConstantFacts DEF Typed, TypeOK, HandlesOK, RetryLeft, IdleChecker, NoId, Handle,
                            CheckerStates, shared, tasks, network, store
<1>1. ASSUME NEW E \in SUBSET pending, NEW c \in E, CheckerScan(E, c) PROVE Typed'
  BY <1>1, TypedTake DEF CheckerScan
<1>2. ASSUME NEW c \in checker.expired, CheckerTake(c) PROVE Typed'
  BY <1>2, TypedTake DEF CheckerTake
<1>3. ASSUME NEW c \in checker.expired, CheckerKeyError(c) PROVE Typed'
  BY <1>3 DEF CheckerKeyError
<1>4. CASE CheckerEndPass
  BY <1>4 DEF CheckerEndPass
<1>5. CASE CheckerRetry
  <2>1. Retried(checker.cmd) \in Command
    <3>1. cmd[checker.cmd] \in Command /\ cmd[checker.cmd].tries < MaxRetries
      BY <1>5 DEF CheckerRetry
    <3>2. cmd[checker.cmd].tries + 1 \in 0 .. MaxRetries
      BY <3>1, CommandTyped
    <3> QED BY <3>1, <3>2 DEF Retried, Command, Fates
  <2>2. /\ issued + 1 \in Ids /\ issued' \in 0 .. MaxIds
        /\ cmd' \in [Ids -> Command]
    BY <1>5, <2>1, IssueTyped DEF CheckerRetry
  <2> QED BY <1>5, <2>2 DEF CheckerRetry, Register
<1>6. CASE CheckerRepublish
  BY <1>6 DEF CheckerRepublish
<1>7. CASE CheckerRecord
  <2>1. writes' \in [Ids -> Seq(WriteKinds)]
    BY <1>7, RecordTyped DEF CheckerRecord, WriteKinds, Verdicts
  <2> QED BY <1>7, <2>1 DEF CheckerRecord
<1>8. CASE CheckerRetryFails
  BY <1>8 DEF CheckerRetryFails
<1>9. CASE CheckerGiveUp
  <2>1. writes' \in [Ids -> Seq(WriteKinds)]
    BY <1>9, RecordTyped DEF CheckerGiveUp, WriteKinds, Verdicts
  <2> QED BY <1>9, <2>1 DEF CheckerGiveUp
<1>10. CASE CheckerAlert
  <2>1. cmd[checker.cmd].dev \in Devices
    BY <1>10, CommandTyped DEF CheckerAlert
  <2> QED BY <1>10, <2>1 DEF CheckerAlert
<1>11. CASE CheckerRaise
  BY <1>11 DEF CheckerRaise
<1>12. CASE CheckerFails
  BY <1>12 DEF CheckerFails
<1> QED BY <1>1, <1>2, <1>3, <1>4, <1>5, <1>6, <1>7, <1>8, <1>9, <1>10, <1>11, <1>12 DEF CheckerStep

LEMMA IdleTyped ==
    ASSUME NEW o \in Operators, oper \in [Operators -> OperStates],
           oper' = [oper EXCEPT ![o] = IdleOper]
    PROVE  /\ oper' \in [Operators -> OperStates]
           /\ \A p \in Operators \ {o} : oper'[p] = oper[p]
           /\ oper'[o].at = "idle"
<1>1. IdleOper \in OperStates /\ IdleOper.at = "idle"
  BY DEF IdleOper, OperStates, Handle
<1> QED BY <1>1

(* Thread o goes on with the command it holds, or is done with it. *)
StepsOn(o) ==
    /\ oper' \in [Operators -> OperStates]
    /\ \A p \in Operators \ {o} : oper'[p] = oper[p]
    /\ oper'[o].at = "idle" \/ (oper[o].at # "idle" /\ oper'[o].cmd = oper[o].cmd)

LEMMA TypedOperator == Typed /\ (\E o \in Operators : OperatorStep(o)) => Typed'
<1> SUFFICES ASSUME Typed, NEW o \in Operators, OperatorStep(o) PROVE Typed'
  OBVIOUS
<1> USE ConstantFacts DEF Typed, TypeOK, HandlesOK, RetryLeft, NoId, Handle,
                             shared, tasks, network, store
<1>1. ASSUME NEW d \in Devices, NEW g \in Goals, NEW ok \in BOOLEAN, OperatorInsert(o, d, g, ok)
      PROVE Typed'
  <2>1. NewOperatorCommand(d, g, issued + 1) \in Command
    BY <1>1, BoundsAssumption DEF OperatorInsert, Issue, NewOperatorCommand, Command, Fates
  <2>2. /\ cmd' \in [Ids -> Command] /\ issued' \in 0 .. MaxIds
        /\ issued + 1 \in Ids
    BY <1>1, <2>1, IssueTyped DEF OperatorInsert
  <2>3. RetryLeft'
    <3>1. \A c \in Ids : cmd'[c] = cmd[c] \/ cmd'[c].tries = 0
      <4>1. NewOperatorCommand(d, g, issued + 1).tries = 0
        BY DEF NewOperatorCommand
      <4> QED BY <1>1, <2>1, <4>1, IssueTyped DEF OperatorInsert
    <3>2. checker.at = "retry" => cmd[checker.cmd].tries \in Nat /\ checker.cmd \in Ids
      BY CommandTyped
    <3>3. checker' = checker
      BY <1>1 DEF OperatorInsert
    <3> SUFFICES ASSUME checker.at = "retry" PROVE cmd'[checker.cmd].tries < MaxRetries
      BY <3>3
    <3>5. CASE cmd'[checker.cmd] = cmd[checker.cmd]
      BY <3>5
    <3>6. CASE cmd'[checker.cmd].tries = 0
      BY <3>2, <3>6, CommandTyped
    <3> QED BY <3>1, <3>2, <3>5, <3>6
  <2>4. writes' \in [Ids -> Seq(WriteKinds)]
    BY <1>1, <2>2, RecordTyped DEF OperatorInsert, WriteKinds
  <2>5. oper' \in [Operators -> OperStates] /\ oper'[o].cmd \in Ids
        /\ \A p \in Operators \ {o} : oper'[p] = oper[p]
    BY <1>1, <2>2 DEF OperatorInsert, OperStates
  <2>6. TypeOK'
    BY <1>1, <2>2, <2>4, <2>5 DEF OperatorInsert
  <2>7. HandlesOK'
    BY <1>1, <2>5 DEF OperatorInsert
  <2> QED BY <2>3, <2>6, <2>7
<1>2. CASE OperatorPublish(o)
  <2>1. StepsOn(o)
    BY <1>2, StepTyped DEF OperatorPublish, StepsOn
  <2> QED BY <1>2, <2>1 DEF OperatorPublish, StepsOn
<1>3. CASE OperatorPublishFails(o)
  <2>1. StepsOn(o)
    BY <1>3, IdleTyped DEF OperatorPublishFails, StepsOn
  <2> QED BY <1>3, <2>1 DEF OperatorPublishFails, StepsOn
<1>4. ASSUME RegisterOperatorCommand(o), loop' \in {loop, IdleLoop},
             checker' \in {checker, [IdleChecker EXCEPT !.at = "dead"]}
      PROVE  Typed'
  <2>1. StepsOn(o)
    BY <1>4, StepTyped DEF RegisterOperatorCommand, StepsOn
  <2>2. loop' \in LoopStates /\ (loop' = loop \/ loop'.at = "idle")
    BY <1>4 DEF IdleLoop, LoopStates
  <2>3. checker' \in CheckerStates /\ (checker' = checker \/ checker'.at = "dead")
    BY <1>4 DEF IdleChecker, CheckerStates
  <2> QED BY <1>4, <2>1, <2>2, <2>3 DEF RegisterOperatorCommand, StepsOn
<1>5. CASE OperatorCooldown(o)
  <2>1. cmd[oper[o].cmd].dev \in Devices
    BY <1>5, CommandTyped DEF OperatorCooldown
  <2>2. StepsOn(o)
    BY <1>5, StepTyped DEF OperatorCooldown, StepsOn
  <2> QED BY <1>5, <2>1, <2>2 DEF OperatorCooldown, StepsOn
<1>6. ASSUME NEW ok \in BOOLEAN, OperatorSetDesired(o, ok) PROVE Typed'
  <2>1. StepsOn(o)
    BY <1>6, IdleTyped DEF OperatorSetDesired, StepsOn
  <2> QED BY <1>6, <2>1 DEF OperatorSetDesired, StepsOn
<1> QED BY <1>1, <1>2, <1>3, <1>4, <1>5, <1>6
        DEF OperatorStep, OperatorRegister, OperatorBreaksChecker, OperatorBreaksLoop

LEMMA TypedEnvironment == Typed /\ Environment => Typed'
<1> SUFFICES ASSUME Typed, Environment PROVE Typed'
  OBVIOUS
<1> USE ConstantFacts DEF Typed, TypeOK, HandlesOK, RetryLeft, NoId, Handle, shared, tasks, network, store
<1>1. ASSUME NEW c \in wire, NEW status \in Statuses, DeviceAnswer(c, status) PROVE Typed'
  <2>1. acks' \subseteq Answers
    BY <1>1 DEF DeviceAnswer, Answers
  <2>2. applied' \in [Devices -> Handle]
    BY <1>1 DEF DeviceAnswer
  <2> QED BY <1>1, <2>1, <2>2 DEF DeviceAnswer
<1>2. ASSUME NEW d \in cooldown, CooldownExpire(d) PROVE Typed'
  BY <1>2 DEF CooldownExpire
<1>3. ASSUME NEW d \in alerts, AlertExpire(d) PROVE Typed'
  BY <1>3 DEF AlertExpire
<1>4. CASE Crash
  <2>1. cmd' \in [Ids -> Command]
    <3>1. \A x \in Command : [x EXCEPT !.fate = "forgotten"] \in Command
      BY DEF Command, Fates
    <3> QED BY <1>4, <3>1 DEF Crash
  <2>2. crashes' \in 0 .. MaxCrashes
    BY <1>4, BoundsAssumption DEF Crash
  <2>3. /\ loop' \in LoopStates /\ ack' \in AckStates /\ checker' \in CheckerStates
        /\ oper' \in [Operators -> OperStates]
    BY <1>4 DEF Crash, IdleLoop, IdleAck, IdleChecker, IdleOper, LoopStates, AckStates, CheckerStates,
                OperStates
  <2>4. HandlesOK' /\ RetryLeft'
    BY <1>4 DEF Crash, IdleLoop, IdleAck, IdleChecker, IdleOper
  <2> QED BY <1>4, <2>1, <2>2, <2>3, <2>4 DEF Crash
<1> QED BY <1>1, <1>2, <1>3, <1>4 DEF Environment

LEMMA TypedNext == Typed /\ [Next]_vars => Typed'
<1>1. Typed /\ UNCHANGED vars => Typed'
  BY DEF Typed, TypeOK, HandlesOK, RetryLeft, vars, shared, tasks, network, store
<1> QED BY <1>1, TypedLoop, TypedAck, TypedChecker, TypedOperator, TypedEnvironment DEF Next

LEMMA TypedAlways == Spec => []Typed
BY TypedInit, TypedNext, PTL DEF Spec

(* Every reachable state of the command path has the shape the code gives  *)
(* it, whatever the number of devices, commands, retries and restarts.     *)
THEOREM TypeCorrect == Spec => []TypeOK
<1>1. Typed => TypeOK
  BY DEF Typed
<1> QED BY <1>1, TypedAlways, PTL

-----------------------------------------------------------------------------
(* Handing out an id *)

(* The id is new, nothing else changes, and ids stay in order. *)
LEMMA IssueFresh ==
    ASSUME Typed, IdsInOrder, NEW command \in Command, Issue(command),
           NEW n, n = issued + 1,
           command.fate = "open", command.root \in 1 .. n
    PROVE  /\ n \in Ids /\ ~Used(n) /\ issued' = n
           /\ \A c \in Ids : Used(c) => c < n
           /\ \A c \in Ids : c # n => cmd'[c] = cmd[c]
           /\ cmd'[n] = command
           /\ IdsInOrder'
<1> USE DEF Typed
<1>1. /\ n \in Ids /\ issued \in Nat /\ Ids \subseteq Nat \ {0}
      /\ \A c \in Ids : cmd'[c] = IF c = n THEN command ELSE cmd[c]
  BY IssueTyped, ConstantFacts DEF TypeOK
<1>2. issued' = n
  BY DEF Issue
<1>3. ~Used(n) /\ \A c \in Ids : Used(c) => c < n
  BY <1>1 DEF IdsInOrder, Used
<1>4. \A c \in Ids : (Used(c))' <=> c <= issued'
  <2>1. Used(n)'
    BY <1>1 DEF Used
  <2>2. ASSUME NEW c \in Ids, c # n PROVE Used(c)' <=> Used(c)
    BY <1>1, <2>2 DEF Used
  <2> QED BY <1>1, <1>2, <2>1, <2>2 DEF IdsInOrder, Used
<1>5. \A c \in Ids : (Used(c))' => cmd'[c].root \in 1 .. c
  <2>1. ASSUME NEW c \in Ids, c # n, Used(c)' PROVE cmd'[c].root \in 1 .. c
    BY <1>1, <2>1 DEF Used, IdsInOrder
  <2> QED BY <1>1, <2>1
<1> QED BY <1>1, <1>2, <1>3, <1>4, <1>5 DEF IdsInOrder

(* A command of its own has a chain of its own. *)
LEMMA FreshChain ==
    ASSUME Typed, IdsInOrder, NEW command \in Command, Issue(command),
           NEW n, n = issued + 1,
           command.fate = "open", command.root = n
    PROVE  /\ \A c \in Ids : c # n /\ Used(c) => Chain(c)' = Chain(c)
           /\ \A b \in Chain(n)' : b = n
<1> USE DEF Typed
<1>1. n \in 1 .. n
  BY ConstantFacts DEF TypeOK
<1>2. /\ n \in Ids /\ ~Used(n)
      /\ \A c \in Ids : Used(c) => c < n
      /\ \A c \in Ids : c # n => cmd'[c] = cmd[c]
      /\ cmd'[n] = command
  BY <1>1, IssueFresh
<1>3. \A c \in Ids : Used(c) => cmd[c].root # n
  BY <1>1, <1>2, ConstantFacts DEF IdsInOrder
<1>4. \A c \in Ids : c # n => (Used(c)' <=> Used(c))
  BY <1>2 DEF Used
<1>5. ASSUME NEW c \in Ids, c # n, Used(c) PROVE Chain(c)' = Chain(c)
  <2>1. ASSUME NEW b \in Ids
        PROVE  (Used(b)' /\ cmd'[b].root = cmd'[c].root) <=> (Used(b) /\ cmd[b].root = cmd[c].root)
    BY <1>2, <1>3, <1>4, <1>5 DEF Used
  <2> QED BY <2>1 DEF Chain
<1>6. \A b \in Chain(n)' : b = n
  <2>1. ASSUME NEW b \in Ids, Used(b)', cmd'[b].root = cmd'[n].root PROVE b = n
    BY <1>2, <1>3, <1>4, <2>1 DEF Used
  <2> QED BY <2>1 DEF Chain
<1> QED BY <1>5, <1>6

-----------------------------------------------------------------------------
(* Steps that hand out no id and settle no command *)

(* The HTTP threads only go on with what they hold. *)
OperKeeps ==
    \A p \in Operators :
        /\ oper'[p].at # "idle" => oper[p].at # "idle" /\ oper'[p].cmd = oper[p].cmd
        /\ oper'[p].at \in {"publish", "register"} => oper[p].at \in {"publish", "register"}

LEMMA FramedStep ==
    ASSUME IInv, OperKeeps, UNCHANGED <<cmd, issued, pending, tracked>>,
           checker'.at = "retry" => checker' = checker
    PROVE  IInv'
<1> USE DEF IInv
<1>1. IdsInOrder' /\ PendingIsOpen' /\ PendingIsLatest' /\ AckEndsRetries'
  BY DEF IdsInOrder, PendingIsOpen, PendingIsLatest, AckEndsRetries, Chain, Used, Rule
<1>2. RetryIsDue'
  BY DEF RetryIsDue, Chain, Used, Rule
<1>3. OperatorInHand'
  BY DEF OperatorInHand, OperKeeps, Used, Rule, Chain
<1>4. AtMostTwoLiveAttempts'
  <2>1. \A d \in Devices : LiveAttempts(d)' \subseteq LiveAttempts(d)
    BY DEF LiveAttempts, Rule
  <2> QED BY <2>1 DEF AtMostTwoLiveAttempts
<1> QED BY <1>1, <1>2, <1>3, <1>4

-----------------------------------------------------------------------------
(* Handing out an id for a command of its own, by the loop or an operator *)

LEMMA FreshStep ==
    ASSUME Typed, IInv, NEW command \in Command, NEW n, n = issued + 1, Issue(command),
           command.fate = "open", command.root = n, UNCHANGED checker
    PROVE  /\ n \in Ids /\ n \notin pending /\ ~Used(n)
           /\ \A c \in Ids : c # n => cmd'[c] = cmd[c]
           /\ cmd'[n] = command
           /\ IdsInOrder' /\ AckEndsRetries' /\ RetryIsDue'
           /\ \A b \in Chain(n)' : b = n
           /\ \A c \in Ids : c # n /\ Used(c) => Chain(c)' = Chain(c)
           /\ \A c \in pending : /\ c \in Ids /\ c # n
                                 /\ \A b \in Chain(c)' : b <= c
<1> USE DEF Typed, IInv
<1>1. n \in 1 .. n
  BY ConstantFacts DEF TypeOK
<1>2. /\ n \in Ids /\ ~Used(n) /\ IdsInOrder'
      /\ \A c \in Ids : Used(c) => c < n
      /\ \A c \in Ids : c # n => cmd'[c] = cmd[c]
      /\ cmd'[n] = command
  BY <1>1, IssueFresh
<1>3. /\ \A c \in Ids : c # n /\ Used(c) => Chain(c)' = Chain(c)
      /\ \A b \in Chain(n)' : b = n
  BY FreshChain
<1>4. \A c \in pending : c \in Ids /\ Used(c) /\ c # n
  BY <1>2 DEF PendingIsOpen, TypeOK, Used
<1>5. \A c \in pending : \A b \in Chain(c)' : b <= c
  BY <1>3, <1>4 DEF PendingIsLatest
<1>6. AckEndsRetries'
  <2>1. ASSUME NEW a \in Ids, cmd'[a].fate = "acked", NEW b \in Chain(a)' PROVE b <= a
    <3>1. a # n
      BY <1>2, <2>1
    <3>2. Used(a) /\ cmd[a].fate = "acked"
      BY <1>2, <2>1, <3>1 DEF Used
    <3> QED BY <1>3, <2>1, <3>1, <3>2 DEF AckEndsRetries
  <2> QED BY <2>1 DEF AckEndsRetries
<1>7. RetryIsDue'
  <2> SUFFICES ASSUME checker.at = "retry" PROVE RetryIsDue'
    BY DEF RetryIsDue
  <2>1. checker.cmd \in Ids /\ Used(checker.cmd) /\ checker.cmd # n
    BY <1>2 DEF HandlesOK, RetryIsDue, Used
  <2>2. Chain(checker.cmd)' = Chain(checker.cmd)
    <3>1. PICK c \in Ids : c = checker.cmd
      BY <2>1
    <3> QED BY <1>3, <2>1, <3>1
  <2>3. \A b \in Chain(checker.cmd) : b \in Ids /\ b # n
    BY <1>2 DEF Chain
  <2> QED BY <1>2, <2>1, <2>2, <2>3 DEF RetryIsDue, Rule
<1> QED BY <1>2, <1>3, <1>4, <1>5, <1>6, <1>7

LEMMA IInvLoopSend ==
    ASSUME Typed, IInv, NEW d \in Devices, NEW g \in Goals, LoopSend(d, g)
    PROVE  IInv'
<1> DEFINE n == issued + 1
           command == NewRuleCommand(d, g, n)
<1>0. PICK m : m = n
  OBVIOUS
<1>1. command \in Command /\ m \in Ids
  <2>1. m \in Ids
    BY <1>0, ConstantFacts DEF LoopSend, Issue, Typed, TypeOK
  <2> QED BY <1>0, <2>1, BoundsAssumption DEF NewRuleCommand, Command, Fates, Handle
<1>2. /\ command.dev = d /\ command.src = "rule" /\ command.fate = "open" /\ command.root = m
  BY <1>0 DEF NewRuleCommand
<1>3. /\ Issue(command) /\ pending' = pending \union {m} /\ tracked' = tracked \union {m}
      /\ checker' = checker /\ oper' = oper /\ ShouldSend(d)
  BY <1>0 DEF LoopSend, Register
<1> HIDE DEF n, command
<1>4. /\ m \in Ids /\ m \notin pending /\ ~Used(m)
      /\ \A c \in Ids : c # m => cmd'[c] = cmd[c]
      /\ cmd'[m] = command
      /\ IdsInOrder' /\ AckEndsRetries' /\ RetryIsDue'
      /\ \A b \in Chain(m)' : b = m
      /\ \A c \in Ids : c # m /\ Used(c) => Chain(c)' = Chain(c)
      /\ \A c \in pending : /\ c \in Ids /\ c # m
                            /\ \A b \in Chain(c)' : b <= c
  BY <1>0, <1>1, <1>2, <1>3, FreshStep DEF n
<1> USE DEF IInv
<1>5. PendingIsOpen'
  BY <1>2, <1>3, <1>4 DEF PendingIsOpen, Rule, Used
<1>6. PendingIsLatest'
  BY <1>3, <1>4, ConstantFacts DEF PendingIsLatest
<1>7. OperatorInHand'
  BY <1>3, <1>4 DEF OperatorInHand, Rule, Used, Typed, HandlesOK
<1>8. AtMostTwoLiveAttempts'
  <2>1. checker.at = "retry" => checker.cmd \in Ids /\ checker.cmd # m
    BY <1>4 DEF Typed, HandlesOK, RetryIsDue, Used
  <2>2. ASSUME NEW e \in Devices, e # d PROVE LiveAttempts(e)' \subseteq LiveAttempts(e)
    BY <1>2, <1>3, <1>4, <2>1, <2>2 DEF LiveAttempts, Rule
  <2>3. LiveAttempts(d)' \subseteq {m} \union {checker.cmd}
    BY <1>2, <1>3, <1>4, <2>1 DEF LiveAttempts, Rule, ShouldSend
  <2> QED BY <2>2, <2>3 DEF AtMostTwoLiveAttempts
<1> QED BY <1>4, <1>5, <1>6, <1>7, <1>8

LEMMA IInvOperatorInsert ==
    ASSUME Typed, IInv, NEW o \in Operators, NEW d \in Devices, NEW g \in Goals, NEW ok \in BOOLEAN,
           OperatorInsert(o, d, g, ok)
    PROVE  IInv'
<1> DEFINE n == issued + 1
           command == NewOperatorCommand(d, g, n)
<1>0. PICK m : m = n
  OBVIOUS
<1>1. command \in Command /\ m \in Ids
  <2>1. m \in Ids
    BY <1>0, ConstantFacts DEF OperatorInsert, Issue, Typed, TypeOK
  <2> QED BY <1>0, <2>1, BoundsAssumption DEF NewOperatorCommand, Command, Fates, Handle
<1>2. /\ command.dev = d /\ command.src = "operator" /\ command.fate = "open" /\ command.root = m
  BY <1>0 DEF NewOperatorCommand
<1>3. /\ Issue(command) /\ pending' = pending /\ tracked' = tracked /\ checker' = checker
      /\ oper[o].at = "idle"
      /\ oper'[o].cmd = m /\ \A p \in Operators \ {o} : oper'[p] = oper[p]
  <2>1. oper' = [oper EXCEPT ![o] = [at |-> "publish", cmd |-> m]]
    BY <1>0 DEF OperatorInsert
  <2>2. oper \in [Operators -> OperStates]
    BY DEF Typed, TypeOK
  <2>3. oper'[o] = [at |-> "publish", cmd |-> m] /\ \A p \in Operators \ {o} : oper'[p] = oper[p]
    BY <2>1, <2>2
  <2> QED BY <1>0, <2>3 DEF OperatorInsert, shared
<1> HIDE DEF n, command
<1>4. /\ m \in Ids /\ m \notin pending /\ ~Used(m)
      /\ \A c \in Ids : c # m => cmd'[c] = cmd[c]
      /\ cmd'[m] = command
      /\ IdsInOrder' /\ AckEndsRetries' /\ RetryIsDue'
      /\ \A b \in Chain(m)' : b = m
      /\ \A c \in Ids : c # m /\ Used(c) => Chain(c)' = Chain(c)
      /\ \A c \in pending : /\ c \in Ids /\ c # m
                            /\ \A b \in Chain(c)' : b <= c
  BY <1>0, <1>1, <1>2, <1>3, FreshStep DEF n
<1> USE DEF IInv
<1>5. PendingIsOpen'
  BY <1>2, <1>3, <1>4 DEF PendingIsOpen, Rule
<1>6. PendingIsLatest'
  BY <1>3, <1>4 DEF PendingIsLatest
<1>7. OperatorInHand'
  <2>1. \A p \in Operators \ {o} : oper[p].at # "idle" => oper[p].cmd \in Ids /\ oper[p].cmd # m
    BY <1>4 DEF OperatorInHand, Typed, HandlesOK
  <2> QED BY <1>2, <1>3, <1>4, <2>1 DEF OperatorInHand, Rule, Used
<1>8. AtMostTwoLiveAttempts'
  <2>1. checker.at = "retry" => checker.cmd \in Ids /\ checker.cmd # m
    BY <1>4 DEF Typed, HandlesOK, RetryIsDue, Used
  <2>2. ASSUME NEW e \in Devices PROVE LiveAttempts(e)' \subseteq LiveAttempts(e)
    BY <1>3, <1>4, <2>1 DEF LiveAttempts, Rule
  <2> QED BY <2>2 DEF AtMostTwoLiveAttempts
<1> QED BY <1>4, <1>5, <1>6, <1>7, <1>8

-----------------------------------------------------------------------------
(* The thread that registers its command finds it open and unknown to the  *)
(* commander.                                                              *)
LEMMA IInvRegister ==
    ASSUME Typed, IInv, NEW o \in Operators, RegisterOperatorCommand(o),
           checker'.at = "retry" => checker' = checker
    PROVE  IInv'
<1> USE DEF IInv
<1>1. /\ oper[o].cmd \in Ids /\ ~Rule(oper[o].cmd) /\ cmd[oper[o].cmd].fate = "open"
      /\ pending' = pending \union {oper[o].cmd}
      /\ UNCHANGED <<cmd, issued, tracked>>
  BY DEF RegisterOperatorCommand, Typed, HandlesOK, OperatorInHand
<1>2. /\ oper'[o].at = "cooldown" /\ oper[o].at = "register"
      /\ \A p \in Operators : oper'[p].cmd = oper[p].cmd
      /\ \A p \in Operators \ {o} : oper'[p] = oper[p]
  BY StepTyped DEF RegisterOperatorCommand, Typed, TypeOK
<1>3. IdsInOrder' /\ AckEndsRetries'
  BY <1>1 DEF IdsInOrder, AckEndsRetries, Chain, Used
<1>4. PendingIsOpen'
  BY <1>1 DEF PendingIsOpen, Rule
<1>5. PendingIsLatest'
  <2>1. \A b \in Chain(oper[o].cmd) : b <= oper[o].cmd
    <3>1. \A b \in Chain(oper[o].cmd) : b = oper[o].cmd
      BY <1>2 DEF OperatorInHand
    <3>2. oper[o].cmd \in Nat
      BY <1>1, ConstantFacts
    <3> QED BY <3>1, <3>2
  <2> QED BY <1>1, <2>1 DEF PendingIsLatest, Chain, Used
<1>6. RetryIsDue'
  BY <1>1 DEF RetryIsDue, Chain, Used, Rule
<1>7. OperatorInHand'
  <2>1. \A p \in Operators \ {o} : oper[p].at # "idle" => oper[p].cmd # oper[o].cmd
    BY <1>2 DEF OperatorInHand
  <2> QED BY <1>1, <1>2, <2>1 DEF OperatorInHand, Rule, Used, Chain
<1>8. AtMostTwoLiveAttempts'
  <2>1. \A d \in Devices : LiveAttempts(d)' \subseteq LiveAttempts(d)
    BY <1>1 DEF LiveAttempts, Rule
  <2> QED BY <2>1 DEF AtMostTwoLiveAttempts
<1> QED BY <1>3, <1>4, <1>5, <1>6, <1>7, <1>8

-----------------------------------------------------------------------------
(* A command is settled: answered, or taken by the checker.                *)

(* Everything but its own fate and its entries stays, so the invariant     *)
(* keeps what it says of the others.                                       *)
LEMMA SettledFrame ==
    ASSUME Typed, IInv, NEW c \in pending, NEW f \in {"acked", "timeout"},
           cmd' = [cmd EXCEPT ![c].fate = f], Unregister(c), UNCHANGED <<issued, oper>>
    PROVE  /\ c \in Ids
           /\ \A b \in Ids \ {c} : cmd'[b] = cmd[b]
           /\ cmd'[c].fate = f
           /\ \A b \in Ids : /\ cmd'[b].dev = cmd[b].dev /\ cmd'[b].src = cmd[b].src
                             /\ cmd'[b].root = cmd[b].root /\ cmd'[b].tries = cmd[b].tries
           /\ \A b \in Ids : Chain(b)' = Chain(b) /\ (Used(b)' <=> Used(b))
           /\ IdsInOrder' /\ PendingIsOpen' /\ PendingIsLatest' /\ OperatorInHand'
<1> USE DEF Typed, IInv
<1>1. /\ c \in Ids /\ cmd[c].fate = "open" /\ f \in Fates
  BY DEF PendingIsOpen, TypeOK, Fates
<1>2. /\ \A b \in Ids \ {c} : cmd'[b] = cmd[b]
      /\ cmd'[c].fate = f
      /\ \A b \in Ids : /\ cmd'[b].dev = cmd[b].dev /\ cmd'[b].src = cmd[b].src
                        /\ cmd'[b].root = cmd[b].root /\ cmd'[b].tries = cmd[b].tries
  BY <1>1, FateTyped DEF TypeOK
<1>3. \A b \in Ids : (Used(b)' <=> Used(b)) /\ (Rule(b)' <=> Rule(b))
  BY <1>1, <1>2 DEF Used, Rule
<1>4. \A b \in Ids : Chain(b)' = Chain(b)
  BY <1>2, <1>3 DEF Chain
<1>5. IdsInOrder'
  BY <1>2, <1>3 DEF IdsInOrder
<1>6. PendingIsOpen'
  BY <1>1, <1>2, <1>3 DEF PendingIsOpen, Unregister
<1>7. PendingIsLatest'
  BY <1>4 DEF PendingIsLatest, Unregister, TypeOK
<1>8. OperatorInHand'
  <2>1. ASSUME NEW o \in Operators, oper[o].at \in {"publish", "register"}
        PROVE  oper[o].cmd \in Ids \ {c}
    BY <2>1 DEF OperatorInHand, HandlesOK
  <2>2. ASSUME NEW o \in Operators, oper[o].at \in {"publish", "register"}
        PROVE  (/\ ~Rule(oper[o].cmd) /\ cmd[oper[o].cmd].fate = "open" /\ oper[o].cmd \notin pending
                /\ \A b \in Chain(oper[o].cmd) : b = oper[o].cmd)'
    <3>1. PICK b \in Ids \ {c} : b = oper[o].cmd
      BY <2>1, <2>2
    <3>2. oper' = oper /\ pending' \subseteq pending
      BY DEF Unregister
    <3> QED BY <1>2, <1>3, <1>4, <2>2, <3>1, <3>2 DEF OperatorInHand
  <2>3. ASSUME NEW o \in Operators, oper[o].at # "idle" PROVE Used(oper[o].cmd)'
    BY <1>3, <2>3 DEF OperatorInHand, HandlesOK, Used
  <2> QED BY <2>2, <2>3 DEF OperatorInHand
<1> QED BY <1>1, <1>2, <1>3, <1>4, <1>5, <1>6, <1>7, <1>8

LEMMA IInvAckReceive ==
    ASSUME Typed, IInv, NEW m \in acks, NEW again \in BOOLEAN, AckReceive(m, again)
    PROVE  IInv'
<1> USE DEF IInv
<1>1. /\ m.cmd \in pending /\ cmd' = [cmd EXCEPT ![m.cmd].fate = "acked"]
      /\ Unregister(m.cmd) /\ UNCHANGED <<issued, oper, checker>>
  BY DEF AckReceive, AckPop
<1>2. PICK c \in pending : c = m.cmd
  BY <1>1
<1>3. /\ c \in Ids
      /\ \A b \in Ids \ {c} : cmd'[b] = cmd[b]
      /\ cmd'[c].fate = "acked"
      /\ \A b \in Ids : /\ cmd'[b].dev = cmd[b].dev /\ cmd'[b].src = cmd[b].src
                        /\ cmd'[b].root = cmd[b].root /\ cmd'[b].tries = cmd[b].tries
      /\ \A b \in Ids : Chain(b)' = Chain(b) /\ (Used(b)' <=> Used(b))
      /\ IdsInOrder' /\ PendingIsOpen' /\ PendingIsLatest' /\ OperatorInHand'
  BY <1>1, <1>2, SettledFrame
<1>4. AckEndsRetries'
  BY <1>3 DEF AckEndsRetries, PendingIsLatest
<1>5. RetryIsDue'
  <2> SUFFICES ASSUME checker.at = "retry" PROVE RetryIsDue'
    BY <1>1 DEF RetryIsDue
  <2>1. PICK k \in Ids : k = checker.cmd
    BY DEF Typed, HandlesOK
  <2>2. k # c /\ cmd[k].fate = "timeout"
    BY <2>1 DEF RetryIsDue, PendingIsOpen
  <2>3. c \notin Chain(k)
    <3> SUFFICES ASSUME c \in Chain(k) PROVE FALSE
      OBVIOUS
    <3>1. c <= k
      BY <2>1 DEF RetryIsDue
    <3>2. k \in Chain(c)
      BY <1>3, <2>2 DEF Chain, Used
    <3>3. k <= c
      BY <3>2 DEF PendingIsLatest
    <3> QED BY <1>3, <2>1, <2>2, <3>1, <3>3, ConstantFacts
  <2>4. \A b \in Chain(k) : b \in Ids
    BY DEF Chain
  <2>5. \A b \in Chain(k)' : b <= k /\ cmd'[b].fate # "acked"
    BY <1>3, <2>1, <2>3, <2>4 DEF RetryIsDue
  <2>6. checker'.cmd = k /\ Rule(k)' /\ cmd'[k].fate = "timeout" /\ cmd'[k].tries < MaxRetries
    <3>1. checker' = checker /\ cmd'[k] = cmd[k]
      BY <1>1, <1>3, <2>2
    <3>2. Rule(checker.cmd) /\ cmd[checker.cmd].tries < MaxRetries
      BY DEF RetryIsDue
    <3> QED BY <2>1, <2>2, <3>1, <3>2 DEF Rule
  <2> QED BY <2>5, <2>6 DEF RetryIsDue, Rule, Chain, Used
<1>6. AtMostTwoLiveAttempts'
  <2>1. \A d \in Devices : LiveAttempts(d)' \subseteq LiveAttempts(d)
    BY <1>1, <1>3 DEF LiveAttempts, Rule, Unregister, Typed, TypeOK, HandlesOK
  <2> QED BY <2>1 DEF AtMostTwoLiveAttempts
<1> QED BY <1>3, <1>4, <1>5, <1>6

LEMMA IInvTake ==
    ASSUME Typed, IInv, NEW c \in pending, NEW others \in SUBSET Ids, Take(c, others),
           checker.at \in {"sleep", "pass"}
    PROVE  IInv'
<1> USE DEF IInv
<1>1. /\ cmd' = [cmd EXCEPT ![c].fate = "timeout"] /\ Unregister(c) /\ UNCHANGED <<issued, oper>>
      /\ checker'.cmd = c /\ (checker'.at = "retry" => MayRetry(c))
  BY DEF Take
<1>2. /\ c \in Ids
      /\ \A b \in Ids \ {c} : cmd'[b] = cmd[b]
      /\ cmd'[c].fate = "timeout"
      /\ \A b \in Ids : /\ cmd'[b].dev = cmd[b].dev /\ cmd'[b].src = cmd[b].src
                        /\ cmd'[b].root = cmd[b].root /\ cmd'[b].tries = cmd[b].tries
      /\ \A b \in Ids : Chain(b)' = Chain(b) /\ (Used(b)' <=> Used(b))
      /\ IdsInOrder' /\ PendingIsOpen' /\ PendingIsLatest' /\ OperatorInHand'
  BY <1>1, SettledFrame
<1>3. AckEndsRetries'
  BY <1>2 DEF AckEndsRetries
<1>4. RetryIsDue'
  <2> SUFFICES ASSUME checker'.at = "retry" PROVE RetryIsDue'
    BY DEF RetryIsDue
  <2>1. Rule(c) /\ cmd[c].tries < MaxRetries
    BY <1>1, <1>2 DEF MayRetry, PendingIsOpen
  <2>2. \A b \in Chain(c) : b \in Ids /\ b <= c
    BY DEF PendingIsLatest, Chain
  <2>3. \A b \in Chain(c) : cmd'[b].fate # "acked"
    <3> SUFFICES ASSUME NEW b \in Chain(c), b # c PROVE cmd[b].fate # "acked"
      BY <1>2, <2>2
    <3>1. c \in Chain(b)
      BY <1>2 DEF Chain, Used, PendingIsOpen
    <3>2. cmd[b].fate = "acked" => c <= b
      BY <2>2, <3>1 DEF AckEndsRetries
    <3>3. b \in Nat /\ c \in Nat /\ b <= c
      BY <1>2, <2>2, ConstantFacts
    <3> QED BY <3>2, <3>3
  <2>4. \A b \in Chain(c)' : b <= c /\ cmd'[b].fate # "acked"
    BY <1>2, <2>2, <2>3
  <2>5. checker'.cmd = c /\ Rule(c)' /\ cmd'[c].fate = "timeout" /\ cmd'[c].tries < MaxRetries
    BY <1>1, <1>2, <2>1 DEF Rule
  <2> QED BY <2>4, <2>5 DEF RetryIsDue, Rule, Chain, Used
<1>5. AtMostTwoLiveAttempts'
  <2>1. ASSUME NEW d \in Devices PROVE LiveAttempts(d)' \subseteq LiveAttempts(d)
    <3>1. checker'.at = "retry" => Rule(c)
      BY <1>1, <1>2 DEF MayRetry, PendingIsOpen
    <3> QED BY <1>1, <1>2, <3>1 DEF LiveAttempts, Rule, Unregister, Typed, TypeOK
  <2> QED BY <2>1 DEF AtMostTwoLiveAttempts
<1> QED BY <1>2, <1>3, <1>4, <1>5

-----------------------------------------------------------------------------
(* The retry: no pending command belongs to the chain it continues, and    *)
(* nobody in that chain was answered.                                      *)
LEMMA IInvRetry == ASSUME Typed, IInv, CheckerRetry PROVE IInv'
<1> USE DEF IInv
<1>1. PICK k \in Ids : k = checker.cmd
  BY DEF Typed, HandlesOK, CheckerRetry
<1>2. PICK n : n = issued + 1
  OBVIOUS
<1>3. /\ Rule(k) /\ cmd[k].fate = "timeout" /\ Used(k) /\ cmd[k].tries < MaxRetries
      /\ \A b \in Chain(k) : b <= k /\ cmd[b].fate # "acked"
  BY <1>1 DEF RetryIsDue, CheckerRetry, Used
<1> DEFINE command == Retried(k)
<1>4. /\ command \in Command /\ command.fate = "open" /\ command.src = "rule"
      /\ command.dev = cmd[k].dev /\ command.root = cmd[k].root
  <2>1. cmd[k] \in Command
    BY DEF Typed, TypeOK
  <2>2. cmd[k].tries + 1 \in 0 .. MaxRetries
    BY <1>3, <2>1, CommandTyped
  <2> QED BY <1>3, <2>1, <2>2 DEF Retried, Command, Fates, Rule
<1>5. /\ Issue(command) /\ pending' = pending \union {n} /\ tracked' = tracked \union {n}
      /\ checker'.at = "republish" /\ oper' = oper /\ checker.at = "retry"
  BY <1>1, <1>2 DEF CheckerRetry, Register
<1> HIDE DEF command
<1>6. command.root \in 1 .. n
  <2>1. cmd[k].root \in 1 .. k /\ k <= issued /\ k \in Nat /\ issued \in Nat
    BY <1>3, ConstantFacts DEF IdsInOrder, Typed, TypeOK
  <2> QED BY <1>2, <1>4, <2>1
<1>7. /\ n \in Ids /\ ~Used(n) /\ issued' = n
      /\ \A c \in Ids : Used(c) => c < n
      /\ \A c \in Ids : c # n => cmd'[c] = cmd[c]
      /\ cmd'[n] = command
      /\ IdsInOrder'
  BY <1>2, <1>4, <1>5, <1>6, IssueFresh
<1>8. k # n /\ \A c \in Ids : c # n => (Used(c)' <=> Used(c)) /\ (Rule(c)' <=> Rule(c))
  BY <1>3, <1>7 DEF Used, Rule
<1>9. ASSUME NEW c \in pending PROVE c \in Ids /\ c # n /\ Used(c) /\ cmd[c].root # cmd[k].root
  <2>1. c \in Ids /\ cmd[c].fate = "open" /\ Used(c)
    BY DEF PendingIsOpen, Typed, TypeOK, Used
  <2>2. ASSUME cmd[c].root = cmd[k].root PROVE FALSE
    <3>1. k \in Chain(c) /\ c \in Chain(k)
      BY <1>3, <2>1, <2>2 DEF Chain
    <3>2. k <= c /\ c <= k
      BY <1>3, <3>1 DEF PendingIsLatest
    <3>3. k \in Nat /\ c \in Nat
      BY <2>1, ConstantFacts
    <3>4. k = c
      BY <3>2, <3>3
    <3> QED BY <1>3, <2>1, <3>4
  <2> QED BY <1>7, <2>1, <2>2
<1>10. ASSUME NEW c \in Ids, c # n, cmd[c].root # cmd[k].root PROVE Chain(c)' = Chain(c)
  <2>1. ASSUME NEW b \in Ids
        PROVE  (Used(b)' /\ cmd'[b].root = cmd'[c].root) <=> (Used(b) /\ cmd[b].root = cmd[c].root)
    BY <1>4, <1>7, <1>8, <1>10
  <2> QED BY <2>1 DEF Chain
<1>11. PendingIsOpen'
  BY <1>4, <1>5, <1>7, <1>8, <1>9 DEF PendingIsOpen, Rule
<1>12. PendingIsLatest'
  <2>1. ASSUME NEW c \in pending PROVE \A b \in Chain(c)' : b <= c
    BY <1>9, <1>10 DEF PendingIsLatest
  <2>2. \A b \in Chain(n)' : b <= n
    BY <1>7 DEF Chain, IdsInOrder
  <2> QED BY <1>5, <2>1, <2>2 DEF PendingIsLatest
<1>13. RetryIsDue'
  BY <1>5 DEF RetryIsDue
<1>14. OperatorInHand'
  <2>1. ASSUME NEW o \in Operators, oper[o].at # "idle" PROVE oper[o].cmd \in Ids \ {n} /\ Used(oper[o].cmd)'
    BY <1>5, <1>7, <1>8, <2>1 DEF OperatorInHand, Typed, HandlesOK, Used
  <2>2. ASSUME NEW o \in Operators, oper[o].at \in {"publish", "register"}
        PROVE  (/\ ~Rule(oper[o].cmd) /\ cmd[oper[o].cmd].fate = "open" /\ oper[o].cmd \notin pending
                /\ \A b \in Chain(oper[o].cmd) : b = oper[o].cmd)'
    <3>1. PICK h \in Ids \ {n} : h = oper[o].cmd
      BY <2>1, <2>2
    <3>2. ~Rule(h) /\ cmd[h].fate = "open" /\ h \notin pending /\ \A b \in Chain(h) : b = h
      BY <2>2, <3>1 DEF OperatorInHand
    <3>3. cmd[h].root # cmd[k].root
      <4>1. k \in Chain(h) => k = h
        BY <3>2
      <4> QED BY <1>3, <3>2, <4>1 DEF Chain
    <3>4. ~Rule(h)' /\ cmd'[h].fate = "open" /\ h \notin pending' /\ \A b \in Chain(h)' : b = h
      BY <1>5, <1>7, <1>8, <1>10, <3>1, <3>2, <3>3
    <3>5. oper'[o].cmd = h
      BY <1>5, <3>1
    <3> QED BY <3>4, <3>5 DEF Rule, Chain, Used
  <2> QED BY <1>5, <2>1, <2>2 DEF OperatorInHand
<1>15. AtMostTwoLiveAttempts'
  <2>1. ASSUME NEW d \in Devices
        PROVE  \/ LiveAttempts(d)' \subseteq LiveAttempts(d)
               \/ k \in LiveAttempts(d) /\ LiveAttempts(d)' \subseteq (LiveAttempts(d) \ {k}) \union {n}
    <3>1. k \notin pending
      BY <1>3 DEF PendingIsOpen
    <3>2. CASE cmd[k].dev = d
      BY <1>1, <1>4, <1>5, <1>7, <1>8, <1>9, <3>1, <3>2 DEF LiveAttempts
    <3>3. CASE cmd[k].dev # d
      BY <1>1, <1>4, <1>5, <1>7, <1>8, <1>9, <3>1, <3>3 DEF LiveAttempts
    <3> QED BY <3>2, <3>3
  <2> QED BY <2>1 DEF AtMostTwoLiveAttempts
<1>16. AckEndsRetries'
  <2>1. ASSUME NEW a \in Ids, cmd'[a].fate = "acked" PROVE \A b \in Chain(a)' : b <= a
    <3>1. a # n /\ cmd[a].fate = "acked"
      BY <1>4, <1>7, <2>1
    <3>2. cmd[a].root # cmd[k].root
      BY <1>3, <3>1 DEF Chain, Used
    <3> QED BY <1>10, <3>1, <3>2 DEF AckEndsRetries
  <2> QED BY <2>1 DEF AckEndsRetries
<1> QED BY <1>7, <1>11, <1>12, <1>13, <1>14, <1>15, <1>16

(* A restart forgets what was open and what is between two attempts. *)
LEMMA IInvCrash == ASSUME Typed, IInv, Crash PROVE IInv'
<1> USE DEF IInv
<1>1. /\ \A c \in Ids : cmd[c].fate = "open" => cmd'[c].fate = "forgotten"
      /\ \A c \in Ids : cmd[c].fate # "open" => cmd'[c].fate = cmd[c].fate
      /\ \A c \in Ids : cmd'[c].root = cmd[c].root
  <2>1. \A c \in Ids : cmd[c] \in Command
    BY DEF Typed, TypeOK
  <2> QED BY <2>1 DEF Crash, Command
<1>2. /\ pending' = {} /\ tracked' = {} /\ issued' = issued
      /\ checker'.at = "sleep" /\ \A o \in Operators : oper'[o].at = "idle"
  BY DEF Crash, IdleChecker, IdleOper
<1>3. \A c \in Ids : Used(c)' <=> Used(c)
  BY <1>1 DEF Used
<1>4. \A c \in Ids : Chain(c)' = Chain(c)
  BY <1>1, <1>3 DEF Chain
<1>5. IdsInOrder'
  BY <1>1, <1>2, <1>3 DEF IdsInOrder
<1>6. PendingIsOpen' /\ PendingIsLatest'
  BY <1>1, <1>2 DEF PendingIsOpen, PendingIsLatest
<1>7. AckEndsRetries'
  BY <1>1, <1>4 DEF AckEndsRetries
<1>8. RetryIsDue' /\ OperatorInHand' /\ AtMostTwoLiveAttempts'
  BY <1>2 DEF RetryIsDue, OperatorInHand, AtMostTwoLiveAttempts, LiveAttempts
<1> QED BY <1>5, <1>6, <1>7, <1>8

-----------------------------------------------------------------------------
LEMMA IInvInit == Init => IInv
<1> SUFFICES ASSUME Init PROVE IInv
  OBVIOUS
<1>1. /\ \A c \in Ids : cmd[c].fate = "unused"
      /\ issued = 0 /\ pending = {} /\ tracked = {} /\ checker.at = "sleep"
      /\ \A o \in Operators : oper[o].at = "idle"
  BY DEF Init, Unused, IdleChecker, IdleOper
<1>2. IdsInOrder
  BY <1>1, ConstantFacts DEF IdsInOrder, Used
<1> QED BY <1>1, <1>2 DEF IInv, PendingIsOpen, PendingIsLatest, RetryIsDue, OperatorInHand,
                         AtMostTwoLiveAttempts, LiveAttempts, AckEndsRetries

LEMMA IInvLoop == Typed /\ IInv /\ LoopStep => IInv'
<1> SUFFICES ASSUME Typed, IInv, LoopStep PROVE IInv'
  OBVIOUS
<1>1. ASSUME UNCHANGED <<cmd, issued, pending, tracked, checker, oper>> PROVE IInv'
  BY <1>1, FramedStep DEF OperKeeps
<1>2. ASSUME NEW S \in SUBSET Devices, LoopBegin(S) PROVE IInv'
  BY <1>1, <1>2 DEF LoopBegin, shared
<1>3. ASSUME NEW d \in Devices, LoopSkip(d) PROVE IInv'
  BY <1>1, <1>3 DEF LoopSkip, shared
<1>4. ASSUME NEW ok \in BOOLEAN, LoopPublish(ok) PROVE IInv'
  BY <1>1, <1>4 DEF LoopPublish
<1>5. CASE LoopInsert
  BY <1>1, <1>5 DEF LoopInsert, shared
<1>6. CASE LoopCooldown
  BY <1>1, <1>6 DEF LoopCooldown
<1>7. CASE LoopFails \/ LoopEnd
  BY <1>1, <1>7 DEF LoopFails, LoopEnd, shared
<1> QED BY <1>2, <1>3, <1>4, <1>5, <1>6, <1>7, IInvLoopSend DEF LoopStep

LEMMA IInvAck == Typed /\ IInv /\ AckStep => IInv'
<1> SUFFICES ASSUME Typed, IInv, AckStep PROVE IInv'
  OBVIOUS
<1>1. ASSUME UNCHANGED <<cmd, issued, pending, tracked, checker, oper>> PROVE IInv'
  BY <1>1, FramedStep DEF OperKeeps
<1>2. ASSUME NEW m \in acks, AckIgnore(m) PROVE IInv'
  BY <1>1, <1>2 DEF AckIgnore, shared, tasks
<1>3. CASE AckRecord \/ AckRecordFails
  BY <1>1, <1>3 DEF AckRecord, AckRecordFails, shared
<1> QED BY <1>2, <1>3, IInvAckReceive DEF AckStep

LEMMA IInvChecker == Typed /\ IInv /\ CheckerStep => IInv'
<1> SUFFICES ASSUME Typed, IInv, CheckerStep PROVE IInv'
  OBVIOUS
<1>1. ASSUME UNCHANGED <<cmd, issued, pending, tracked, oper>>, checker'.at # "retry" PROVE IInv'
  BY <1>1, FramedStep DEF OperKeeps
<1>2. ASSUME NEW E \in SUBSET pending, NEW c \in E, CheckerScan(E, c) PROVE IInv'
  <2>1. c \in pending /\ E \ {c} \in SUBSET Ids
    BY DEF Typed, TypeOK
  <2> QED BY <1>2, <2>1, IInvTake DEF CheckerScan
<1>3. ASSUME NEW c \in checker.expired, CheckerTake(c) PROVE IInv'
  <2>1. c \in pending /\ checker.expired \ {c} \in SUBSET Ids
    BY <1>3 DEF CheckerTake, Take, CanPop, Typed, TypeOK, CheckerStates
  <2> QED BY <1>3, <2>1, IInvTake DEF CheckerTake
<1>4. ASSUME \/ \E c \in checker.expired : CheckerKeyError(c)
             \/ CheckerEndPass \/ CheckerFails
      PROVE  IInv'
  BY <1>1, <1>4 DEF CheckerKeyError, CheckerEndPass, CheckerFails, IdleChecker, shared
<1>5. CASE CheckerRepublish \/ CheckerRecord \/ CheckerRetryFails
  BY <1>1, <1>5 DEF CheckerRepublish, CheckerRecord, CheckerRetryFails, shared, Typed, TypeOK, CheckerStates
<1>6. CASE CheckerGiveUp \/ CheckerAlert \/ CheckerRaise
  BY <1>1, <1>6 DEF CheckerGiveUp, CheckerAlert, CheckerRaise, shared, Typed, TypeOK, CheckerStates
<1> QED BY <1>2, <1>3, <1>4, <1>5, <1>6, IInvRetry DEF CheckerStep

LEMMA IInvOperator == Typed /\ IInv /\ (\E o \in Operators : OperatorStep(o)) => IInv'
<1> SUFFICES ASSUME Typed, IInv, NEW o \in Operators, OperatorStep(o) PROVE IInv'
  OBVIOUS
<1>1. oper \in [Operators -> OperStates]
  BY DEF Typed, TypeOK
<1>2. CASE OperatorPublish(o)
  <2>1. OperKeeps
    BY <1>1, <1>2, StepTyped DEF OperatorPublish, OperKeeps
  <2> QED BY <1>2, <2>1, FramedStep DEF OperatorPublish, shared
<1>3. CASE OperatorPublishFails(o)
  <2>1. OperKeeps
    BY <1>1, <1>3, IdleTyped DEF OperatorPublishFails, OperKeeps
  <2> QED BY <1>3, <2>1, FramedStep DEF OperatorPublishFails, shared
<1>4. CASE OperatorRegister(o) \/ OperatorBreaksChecker(o) \/ OperatorBreaksLoop(o)
  BY <1>4, IInvRegister DEF OperatorRegister, OperatorBreaksChecker, OperatorBreaksLoop, IdleChecker
<1>5. CASE OperatorCooldown(o)
  <2>1. OperKeeps
    BY <1>1, <1>5, StepTyped DEF OperatorCooldown, OperKeeps
  <2> QED BY <1>5, <2>1, FramedStep DEF OperatorCooldown
<1>6. ASSUME NEW ok \in BOOLEAN, OperatorSetDesired(o, ok) PROVE IInv'
  <2>1. OperKeeps
    BY <1>1, <1>6, IdleTyped DEF OperatorSetDesired, OperKeeps
  <2> QED BY <1>6, <2>1, FramedStep DEF OperatorSetDesired, shared
<1> QED BY <1>2, <1>3, <1>4, <1>5, <1>6, IInvOperatorInsert DEF OperatorStep

LEMMA IInvEnvironment == Typed /\ IInv /\ Environment => IInv'
<1> SUFFICES ASSUME Typed, IInv, Environment PROVE IInv'
  OBVIOUS
<1>1. ASSUME UNCHANGED <<cmd, issued, pending, tracked, checker, oper>> PROVE IInv'
  BY <1>1, FramedStep DEF OperKeeps
<1>2. ASSUME NEW c \in wire, NEW status \in Statuses, DeviceAnswer(c, status) PROVE IInv'
  BY <1>1, <1>2 DEF DeviceAnswer, shared, tasks
<1>3. ASSUME NEW d \in cooldown, CooldownExpire(d) PROVE IInv'
  BY <1>1, <1>3 DEF CooldownExpire, tasks
<1>4. ASSUME NEW d \in alerts, AlertExpire(d) PROVE IInv'
  BY <1>1, <1>4 DEF AlertExpire, shared, tasks
<1> QED BY <1>2, <1>3, <1>4, IInvCrash DEF Environment

LEMMA IInvNext == Typed /\ IInv /\ [Next]_vars => IInv'
<1>1. IInv /\ UNCHANGED vars => IInv'
  BY FramedStep DEF OperKeeps, vars, shared, tasks
<1> QED BY <1>1, IInvLoop, IInvAck, IInvChecker, IInvOperator, IInvEnvironment DEF Next

LEMMA IInvAlways == Spec => []IInv
BY TypedAlways, IInvInit, IInvNext, PTL DEF Spec

-----------------------------------------------------------------------------
(* The safety properties *)

(* However the loop, the listener, the checker and the operators           *)
(* interleave, a device never has three rule commands in flight: the one   *)
(* unanswered command _should_send allows, and one being retried.          *)
THEOREM TwoLiveAttemptsAtMost == Spec => []AtMostTwoLiveAttempts
<1>1. IInv => AtMostTwoLiveAttempts
  BY DEF IInv
<1> QED BY <1>1, IInvAlways, PTL

(* No attempt of a command is made after one of its attempts was answered, *)
(* for any number of retries.                                              *)
THEOREM AckEndsTheRetries == Spec => []AckEndsRetries
<1>1. IInv => AckEndsRetries
  BY DEF IInv
<1> QED BY <1>1, IInvAlways, PTL

(* The answer to a rule command that is still open is always awaited.      *)
THEOREM RuleAcksAwaited == Spec => []NoRuleAckOrphaned
<1>1. IInv => NoRuleAckOrphaned
  BY DEF IInv, PendingIsOpen, NoRuleAckOrphaned
<1> QED BY <1>1, IInvAlways, PTL

-----------------------------------------------------------------------------
(* One verdict per command *)

Once(c) == \A i, j \in DOMAIN writes[c] :
              writes[c][i] \in Verdicts /\ writes[c][j] \in Verdicts => i = j

(* An entry that is no verdict changes nothing; a first verdict is the     *)
(* only one.                                                               *)
LEMMA RecordVerdicts ==
    ASSUME writes \in [Ids -> Seq(WriteKinds)], NEW c \in Ids, NEW kind \in WriteKinds, Record(c, kind)
    PROVE  /\ \A b \in Ids \ {c} : writes'[b] = writes[b]
           /\ kind \notin Verdicts => /\ NoVerdict(c) => NoVerdict(c)'
                                      /\ Once(c) => Once(c)'
           /\ NoVerdict(c) => Once(c)'
<1>1. PICK s \in Seq(WriteKinds) : s = writes[c]
  OBVIOUS
<1>2. writes'[c] = Append(s, kind) /\ \A b \in Ids \ {c} : writes'[b] = writes[b]
  BY <1>1 DEF Record
<1>3. /\ Len(s) \in Nat /\ DOMAIN s = 1 .. Len(s)
      /\ DOMAIN Append(s, kind) = 1 .. (Len(s) + 1)
      /\ \A i \in 1 .. Len(s) : Append(s, kind)[i] = s[i]
      /\ Append(s, kind)[Len(s) + 1] = kind
  OBVIOUS
<1>4. \A i \in 1 .. (Len(s) + 1) : i \in 1 .. Len(s) \/ i = Len(s) + 1
  BY <1>3
<1>5. kind \notin Verdicts /\ NoVerdict(c) => NoVerdict(c)'
  BY <1>1, <1>2, <1>3, <1>4 DEF NoVerdict
<1>6. kind \notin Verdicts /\ Once(c) => Once(c)'
  BY <1>1, <1>2, <1>3, <1>4 DEF Once
<1>7. NoVerdict(c) => Once(c)'
  BY <1>1, <1>2, <1>3, <1>4 DEF Once, NoVerdict
<1> QED BY <1>2, <1>5, <1>6, <1>7

LEMMA VerdictFacts == VerdictInv => \A c \in Ids : Once(c)
BY DEF VerdictInv, OneVerdictPerCommand, Once

(* Steps that write nothing and settle nothing. *)
LEMMA VerdictFrame ==
    ASSUME VerdictInv, UNCHANGED <<cmd, writes>>, ack' = ack \/ ack'.at = "idle",
           \/ checker' = checker
           \/ checker'.at \in {"sleep", "pass", "alert", "raise", "dead"}
           \/ /\ checker'.at = "record" /\ checker.at = "republish" /\ checker'.cmd = checker.cmd
    PROVE  VerdictInv'
<1>1. OneVerdictPerCommand'
  BY DEF VerdictInv, OneVerdictPerCommand
<1>2. \A c \in Ids : cmd'[c].fate \in {"unused", "open"} => NoVerdict(c)'
  BY DEF VerdictInv, NoVerdict
<1>3. (ack.at = "update" => cmd[ack.cmd].fate = "acked" /\ NoVerdict(ack.cmd))'
  BY DEF VerdictInv, NoVerdict
<1>4. (checker.at \in {"retry", "republish", "record", "giveup"} =>
          cmd[checker.cmd].fate = "timeout" /\ NoVerdict(checker.cmd))'
  BY DEF VerdictInv, NoVerdict
<1> QED BY <1>1, <1>2, <1>3, <1>4 DEF VerdictInv

(* Steps that write an entry about c and settle nothing: no verdict, or    *)
(* the first one of a command that is settled.                             *)
LEMMA VerdictRecord ==
    ASSUME Typed, VerdictInv, UNCHANGED cmd, NEW c \in Ids, NEW kind \in WriteKinds, Record(c, kind),
           kind \in Verdicts => NoVerdict(c) /\ cmd[c].fate \notin {"unused", "open"},
           \/ ack' = ack /\ (kind \in Verdicts /\ ack.at = "update" => ack.cmd # c)
           \/ ack'.at = "idle",
           \/ checker' = checker /\ (/\ kind \in Verdicts
                                  /\ checker.at \in {"retry", "republish", "record", "giveup"}
                                  => checker.cmd # c)
           \/ checker'.at \in {"sleep", "pass", "alert", "raise", "dead"}
    PROVE  VerdictInv'
<1>1. /\ \A b \in Ids \ {c} : writes'[b] = writes[b]
      /\ kind \notin Verdicts => /\ NoVerdict(c) => NoVerdict(c)'
                                 /\ Once(c) => Once(c)'
      /\ NoVerdict(c) => Once(c)'
  BY RecordVerdicts DEF Typed, TypeOK
<1>2. \A b \in Ids : Once(b)'
  <2>1. \A b \in Ids \ {c} : Once(b)'
    BY <1>1, VerdictFacts DEF Once
  <2> QED BY <1>1, <2>1, VerdictFacts
<1>3. OneVerdictPerCommand'
  BY <1>2 DEF OneVerdictPerCommand, Once
<1>4. ASSUME NEW b \in Ids, NoVerdict(b), b = c => kind \notin Verdicts PROVE NoVerdict(b)'
  BY <1>1, <1>4 DEF NoVerdict
<1>5. \A b \in Ids : cmd'[b].fate \in {"unused", "open"} => NoVerdict(b)'
  BY <1>4 DEF VerdictInv
<1>6. (ack.at = "update" => cmd[ack.cmd].fate = "acked" /\ NoVerdict(ack.cmd))'
  <2> SUFFICES ASSUME ack'.at = "update"
               PROVE  (cmd[ack.cmd].fate = "acked" /\ NoVerdict(ack.cmd))'
    OBVIOUS
  <2>1. PICK a \in Ids : a = ack.cmd /\ a = ack'.cmd
    BY DEF Typed, HandlesOK
  <2>2. cmd[a].fate = "acked" /\ NoVerdict(a) /\ (a = c => kind \notin Verdicts)
    BY <2>1 DEF VerdictInv
  <2>3. NoVerdict(a)'
    BY <1>4, <2>2
  <2> QED BY <2>1, <2>2, <2>3 DEF NoVerdict
<1>7. (checker.at \in {"retry", "republish", "record", "giveup"} =>
          cmd[checker.cmd].fate = "timeout" /\ NoVerdict(checker.cmd))'
  <2> SUFFICES ASSUME checker'.at \in {"retry", "republish", "record", "giveup"}
               PROVE  (cmd[checker.cmd].fate = "timeout" /\ NoVerdict(checker.cmd))'
    OBVIOUS
  <2>1. PICK a \in Ids : a = checker.cmd /\ a = checker'.cmd
    BY DEF Typed, HandlesOK
  <2>2. cmd[a].fate = "timeout" /\ NoVerdict(a) /\ (a = c => kind \notin Verdicts)
    BY <2>1 DEF VerdictInv
  <2>3. NoVerdict(a)'
    BY <1>4, <2>2
  <2> QED BY <2>1, <2>2, <2>3 DEF NoVerdict
<1> QED BY <1>3, <1>5, <1>6, <1>7 DEF VerdictInv

(* A pending command is open, hence without a verdict, and in nobody's     *)
(* hands: the listener or the checker takes it with a clean record.        *)
LEMMA VerdictAckReceive ==
    ASSUME Typed, IInv, VerdictInv, NEW m \in acks, NEW again \in BOOLEAN, AckReceive(m, again)
    PROVE  VerdictInv'
<1>1. PICK c \in Ids : /\ c = m.cmd /\ c \in pending /\ cmd[c].fate = "open" /\ NoVerdict(c)
  BY DEF AckReceive, IInv, PendingIsOpen, VerdictInv, Typed, TypeOK
<1>2. /\ \A b \in Ids \ {c} : cmd'[b] = cmd[b]
      /\ cmd'[c].fate = "acked"
  BY <1>1, FateTyped DEF AckReceive, Fates, Typed, TypeOK
<1>3. writes' = writes /\ checker' = checker /\ ack'.cmd = c
  BY <1>1 DEF AckReceive, store
<1>4. \A b \in Ids : NoVerdict(b)' <=> NoVerdict(b)
  BY <1>3 DEF NoVerdict
<1>5. OneVerdictPerCommand'
  BY <1>3 DEF VerdictInv, OneVerdictPerCommand
<1>6. (checker.at \in {"retry", "republish", "record", "giveup"} =>
          cmd[checker.cmd].fate = "timeout" /\ NoVerdict(checker.cmd))'
  <2> SUFFICES ASSUME checker.at \in {"retry", "republish", "record", "giveup"}
               PROVE  (cmd[checker.cmd].fate = "timeout" /\ NoVerdict(checker.cmd))'
    BY <1>3
  <2>1. PICK a \in Ids : a = checker.cmd
    BY DEF Typed, HandlesOK
  <2>2. a # c /\ cmd[a].fate = "timeout" /\ NoVerdict(a)
    BY <1>1, <2>1 DEF VerdictInv
  <2> QED BY <1>2, <1>3, <1>4, <2>1, <2>2 DEF NoVerdict
<1>7. (cmd[ack.cmd].fate = "acked" /\ NoVerdict(ack.cmd))'
  BY <1>1, <1>2, <1>3 DEF NoVerdict
<1>8. \A b \in Ids : cmd'[b].fate \in {"unused", "open"} => NoVerdict(b)'
  BY <1>2, <1>4 DEF VerdictInv
<1> QED BY <1>5, <1>6, <1>7, <1>8 DEF VerdictInv

LEMMA VerdictTake ==
    ASSUME Typed, IInv, VerdictInv, NEW c \in pending, NEW others, Take(c, others)
    PROVE  VerdictInv'
<1>1. c \in Ids /\ cmd[c].fate = "open" /\ NoVerdict(c)
  BY DEF IInv, PendingIsOpen, VerdictInv, Typed, TypeOK
<1>2. /\ \A b \in Ids \ {c} : cmd'[b] = cmd[b]
      /\ cmd'[c].fate = "timeout"
  BY <1>1, FateTyped DEF Take, Fates, Typed, TypeOK
<1>3. writes' = writes /\ ack' = ack /\ checker'.cmd = c
  BY DEF Take, store
<1>4. \A b \in Ids : NoVerdict(b)' <=> NoVerdict(b)
  BY <1>3 DEF NoVerdict
<1>5. OneVerdictPerCommand'
  BY <1>3 DEF VerdictInv, OneVerdictPerCommand
<1>6. (ack.at = "update" => cmd[ack.cmd].fate = "acked" /\ NoVerdict(ack.cmd))'
  <2> SUFFICES ASSUME ack.at = "update" PROVE (cmd[ack.cmd].fate = "acked" /\ NoVerdict(ack.cmd))'
    BY <1>3
  <2>1. PICK a \in Ids : a = ack.cmd
    BY DEF Typed, HandlesOK
  <2>2. a # c /\ cmd[a].fate = "acked" /\ NoVerdict(a)
    BY <1>1, <2>1 DEF VerdictInv
  <2> QED BY <1>2, <1>3, <1>4, <2>1, <2>2 DEF NoVerdict
<1>7. (cmd[checker.cmd].fate = "timeout" /\ NoVerdict(checker.cmd))'
  BY <1>1, <1>2, <1>3 DEF NoVerdict
<1>8. \A b \in Ids : cmd'[b].fate \in {"unused", "open"} => NoVerdict(b)'
  BY <1>2, <1>4 DEF VerdictInv
<1> QED BY <1>5, <1>6, <1>7, <1>8 DEF VerdictInv

(* A new id has no verdict and is nobody's. *)
LEMMA VerdictIssue ==
    ASSUME Typed, VerdictInv, NEW n \in Ids, ~Used(n), \A b \in Ids \ {n} : cmd'[b] = cmd[b],
           \/ writes' = writes
           \/ Record(n, "PENDING"),
           ack' = ack,
           \/ checker' = checker
           \/ checker.at = "retry" /\ checker'.at = "republish" /\ checker'.cmd = checker.cmd
    PROVE  VerdictInv'
<1>1. NoVerdict(n) /\ Once(n)
  BY VerdictFacts DEF VerdictInv, Used
<1>2. /\ \A b \in Ids \ {n} : writes'[b] = writes[b]
      /\ NoVerdict(n)' /\ Once(n)'
  <2>1. CASE writes' = writes
    BY <1>1, <2>1 DEF NoVerdict, Once
  <2>2. CASE Record(n, "PENDING")
    BY <1>1, <2>2, RecordVerdicts DEF Typed, TypeOK, WriteKinds, Verdicts
  <2> QED BY <2>1, <2>2
<1>3. \A b \in Ids \ {n} : (NoVerdict(b)' <=> NoVerdict(b)) /\ (Once(b)' <=> Once(b))
  BY <1>2 DEF NoVerdict, Once
<1>4. OneVerdictPerCommand'
  BY <1>2, <1>3, VerdictFacts DEF Once, OneVerdictPerCommand
<1>5. \A b \in Ids : cmd'[b].fate \in {"unused", "open"} => NoVerdict(b)'
  BY <1>2, <1>3 DEF VerdictInv
<1>6. (ack.at = "update" => cmd[ack.cmd].fate = "acked" /\ NoVerdict(ack.cmd))'
  <2> SUFFICES ASSUME ack.at = "update" PROVE (cmd[ack.cmd].fate = "acked" /\ NoVerdict(ack.cmd))'
    OBVIOUS
  <2>1. PICK a \in Ids : a = ack.cmd
    BY DEF Typed, HandlesOK
  <2>2. a # n /\ cmd[a].fate = "acked" /\ NoVerdict(a)
    BY <2>1 DEF VerdictInv, Used
  <2> QED BY <1>3, <2>1, <2>2 DEF NoVerdict
<1>7. (checker.at \in {"retry", "republish", "record", "giveup"} =>
          cmd[checker.cmd].fate = "timeout" /\ NoVerdict(checker.cmd))'
  <2> SUFFICES ASSUME checker'.at \in {"retry", "republish", "record", "giveup"}
               PROVE  (cmd[checker.cmd].fate = "timeout" /\ NoVerdict(checker.cmd))'
    OBVIOUS
  <2>1. PICK a \in Ids : a = checker.cmd /\ a = checker'.cmd
    BY DEF Typed, HandlesOK
  <2>2. a # n /\ cmd[a].fate = "timeout" /\ NoVerdict(a)
    BY <2>1 DEF VerdictInv, Used
  <2> QED BY <1>3, <2>1, <2>2 DEF NoVerdict
<1> QED BY <1>4, <1>5, <1>6, <1>7 DEF VerdictInv

LEMMA IssueNew ==
    ASSUME Typed, IInv, NEW command, Issue(command)
    PROVE  \E n \in Ids : /\ n = issued + 1 /\ ~Used(n) /\ cmd'[n] = command
                          /\ \A b \in Ids \ {n} : cmd'[b] = cmd[b]
<1>1. issued + 1 \in Ids /\ issued \in Nat
  BY ConstantFacts DEF Issue, Typed, TypeOK
<1>2. ~Used(issued + 1)
  BY <1>1 DEF IInv, IdsInOrder, Used
<1>3. cmd \in [Ids -> Command]
  BY DEF Typed, TypeOK
<1> QED BY <1>1, <1>2, <1>3 DEF Issue

LEMMA VerdictLoop == Typed /\ IInv /\ VerdictInv /\ LoopStep => VerdictInv'
<1> SUFFICES ASSUME Typed, IInv, VerdictInv, LoopStep PROVE VerdictInv'
  OBVIOUS
<1>1. ASSUME UNCHANGED <<cmd, writes, ack, checker>> PROVE VerdictInv'
  BY <1>1, VerdictFrame
<1>2. ASSUME NEW S \in SUBSET Devices, LoopBegin(S) PROVE VerdictInv'
  BY <1>1, <1>2 DEF LoopBegin, store
<1>3. ASSUME NEW d \in Devices, LoopSkip(d) PROVE VerdictInv'
  BY <1>1, <1>3 DEF LoopSkip, store
<1>4. ASSUME NEW d \in Devices, NEW g \in Goals, LoopSend(d, g) PROVE VerdictInv'
  <2>1. PICK n \in Ids : ~Used(n) /\ \A b \in Ids \ {n} : cmd'[b] = cmd[b]
    BY <1>4, IssueNew DEF LoopSend
  <2> QED BY <1>4, <2>1, VerdictIssue DEF LoopSend, store
<1>5. ASSUME NEW ok \in BOOLEAN, LoopPublish(ok) PROVE VerdictInv'
  BY <1>1, <1>5 DEF LoopPublish
<1>6. CASE LoopInsert
  <2>1. loop.cmd \in Ids /\ "PENDING" \in WriteKinds /\ "PENDING" \notin Verdicts
    BY <1>6 DEF LoopInsert, Typed, HandlesOK, WriteKinds, Verdicts
  <2> QED BY <1>6, <2>1, VerdictRecord DEF LoopInsert
<1>7. CASE LoopCooldown
  BY <1>1, <1>7 DEF LoopCooldown, store
<1>8. CASE LoopFails \/ LoopEnd
  BY <1>1, <1>8 DEF LoopFails, LoopEnd, store
<1> QED BY <1>2, <1>3, <1>4, <1>5, <1>6, <1>7, <1>8 DEF LoopStep

LEMMA VerdictAck == Typed /\ IInv /\ VerdictInv /\ AckStep => VerdictInv'
<1> SUFFICES ASSUME Typed, IInv, VerdictInv, AckStep PROVE VerdictInv'
  OBVIOUS
<1>1. ASSUME NEW m \in acks, AckIgnore(m) PROVE VerdictInv'
  BY <1>1, VerdictFrame DEF AckIgnore, tasks, store
<1>2. CASE AckRecord
  <2>1. /\ ack.cmd \in Ids /\ ack.status \in WriteKinds
        /\ NoVerdict(ack.cmd) /\ cmd[ack.cmd].fate = "acked"
    BY <1>2 DEF AckRecord, Typed, TypeOK, HandlesOK, AckStates, WriteKinds, Verdicts, VerdictInv
  <2>2. checker.at \in {"retry", "republish", "record", "giveup"} => checker.cmd # ack.cmd
    BY <2>1 DEF VerdictInv
  <2>3. ack'.at = "idle" /\ checker' = checker /\ UNCHANGED cmd /\ Record(ack.cmd, ack.status)
    BY <1>2 DEF AckRecord, IdleAck
  <2> QED BY <2>1, <2>2, <2>3, VerdictRecord
<1>3. CASE AckRecordFails
  BY <1>3, VerdictFrame DEF AckRecordFails, IdleAck, store
<1> QED BY <1>1, <1>2, <1>3, VerdictAckReceive DEF AckStep

LEMMA VerdictChecker == Typed /\ IInv /\ VerdictInv /\ CheckerStep => VerdictInv'
<1> SUFFICES ASSUME Typed, IInv, VerdictInv, CheckerStep PROVE VerdictInv'
  OBVIOUS
<1> USE DEF CheckerStates
<1>0. checker \in CheckerStates
  BY DEF Typed, TypeOK
<1>1. ASSUME NEW E \in SUBSET pending, NEW c \in E, CheckerScan(E, c) PROVE VerdictInv'
  BY <1>1, VerdictTake DEF CheckerScan
<1>2. ASSUME NEW c \in checker.expired, CheckerTake(c) PROVE VerdictInv'
  BY <1>2, VerdictTake DEF CheckerTake, Take, CanPop
<1>3. ASSUME \/ \E c \in checker.expired : CheckerKeyError(c)
             \/ CheckerEndPass \/ CheckerFails
      PROVE  VerdictInv'
  BY <1>3, VerdictFrame DEF CheckerKeyError, CheckerEndPass, CheckerFails, IdleChecker, store
<1>4. CASE CheckerRetry
  <2>1. PICK n \in Ids : ~Used(n) /\ \A b \in Ids \ {n} : cmd'[b] = cmd[b]
    BY <1>4, IssueNew DEF CheckerRetry
  <2> QED BY <1>0, <1>4, <2>1, VerdictIssue DEF CheckerRetry, store
<1>5. CASE CheckerRepublish
  BY <1>0, <1>5, VerdictFrame DEF CheckerRepublish, store
<1>6. ASSUME CheckerRecord \/ CheckerGiveUp PROVE VerdictInv'
  <2>1. /\ checker.cmd \in Ids /\ "TIMEOUT" \in WriteKinds
        /\ NoVerdict(checker.cmd) /\ cmd[checker.cmd].fate = "timeout"
    BY <1>6 DEF CheckerRecord, CheckerGiveUp, Typed, HandlesOK, WriteKinds, Verdicts, VerdictInv
  <2>2. ack.at = "update" => ack.cmd # checker.cmd
    BY <2>1 DEF VerdictInv
  <2>3. /\ checker'.at \in {"pass", "alert"} /\ ack' = ack /\ UNCHANGED cmd
        /\ Record(checker.cmd, "TIMEOUT")
    BY <1>0, <1>6 DEF CheckerRecord, CheckerGiveUp
  <2> QED BY <2>1, <2>2, <2>3, VerdictRecord
<1>7. CASE CheckerRetryFails
  BY <1>0, <1>7, VerdictFrame DEF CheckerRetryFails, store
<1>8. CASE CheckerAlert \/ CheckerRaise
  BY <1>0, <1>8, VerdictFrame DEF CheckerAlert, CheckerRaise
<1> QED BY <1>1, <1>2, <1>3, <1>4, <1>5, <1>6, <1>7, <1>8 DEF CheckerStep

LEMMA VerdictOperator ==
    Typed /\ IInv /\ VerdictInv /\ (\E o \in Operators : OperatorStep(o)) => VerdictInv'
<1> SUFFICES ASSUME Typed, IInv, VerdictInv, NEW o \in Operators, OperatorStep(o) PROVE VerdictInv'
  OBVIOUS
<1>1. ASSUME NEW d \in Devices, NEW g \in Goals, NEW ok \in BOOLEAN, OperatorInsert(o, d, g, ok)
      PROVE  VerdictInv'
  <2>1. PICK n \in Ids : n = issued + 1 /\ ~Used(n) /\ \A b \in Ids \ {n} : cmd'[b] = cmd[b]
    BY <1>1, IssueNew DEF OperatorInsert
  <2>2. (writes' = writes \/ Record(n, "PENDING")) /\ ack' = ack /\ checker' = checker
    BY <1>1, <2>1 DEF OperatorInsert
  <2> QED BY <2>1, <2>2, VerdictIssue
<1>2. CASE OperatorPublish(o) \/ OperatorPublishFails(o)
  BY <1>2, VerdictFrame DEF OperatorPublish, OperatorPublishFails, store
<1>3. CASE OperatorRegister(o) \/ OperatorBreaksChecker(o) \/ OperatorBreaksLoop(o)
  BY <1>3, VerdictFrame DEF OperatorRegister, OperatorBreaksChecker, OperatorBreaksLoop,
                            RegisterOperatorCommand, IdleChecker, store
<1>4. CASE OperatorCooldown(o)
  BY <1>4, VerdictFrame DEF OperatorCooldown, store
<1>5. ASSUME NEW ok \in BOOLEAN, OperatorSetDesired(o, ok) PROVE VerdictInv'
  BY <1>5, VerdictFrame DEF OperatorSetDesired
<1> QED BY <1>1, <1>2, <1>3, <1>4, <1>5 DEF OperatorStep

LEMMA VerdictEnvironment == Typed /\ IInv /\ VerdictInv /\ Environment => VerdictInv'
<1> SUFFICES ASSUME Typed, IInv, VerdictInv, Environment PROVE VerdictInv'
  OBVIOUS
<1>1. ASSUME NEW c \in wire, NEW status \in Statuses, DeviceAnswer(c, status) PROVE VerdictInv'
  BY <1>1, VerdictFrame DEF DeviceAnswer, tasks, store
<1>2. ASSUME NEW d \in cooldown, CooldownExpire(d) PROVE VerdictInv'
  BY <1>2, VerdictFrame DEF CooldownExpire, tasks, store
<1>3. ASSUME NEW d \in alerts, AlertExpire(d) PROVE VerdictInv'
  BY <1>3, VerdictFrame DEF AlertExpire, tasks
<1>4. CASE Crash
  <2>1. \A b \in Ids : cmd'[b].fate \in {"unused", "open"} => cmd[b].fate = "unused"
    <3>1. \A b \in Ids : cmd[b] \in Command
      BY DEF Typed, TypeOK
    <3> QED BY <1>4, <3>1 DEF Crash, Command
  <2>2. writes' = writes /\ ack'.at = "idle" /\ checker'.at = "sleep"
    BY <1>4 DEF Crash, IdleAck, IdleChecker, store
  <2> QED BY <2>1, <2>2 DEF VerdictInv, NoVerdict, OneVerdictPerCommand
<1> QED BY <1>1, <1>2, <1>3, <1>4 DEF Environment

LEMMA VerdictInit == Init => VerdictInv
BY DEF Init, VerdictInv, NoVerdict, OneVerdictPerCommand, IdleAck, IdleChecker

LEMMA VerdictNext == Typed /\ IInv /\ VerdictInv /\ [Next]_vars => VerdictInv'
<1>1. VerdictInv /\ UNCHANGED vars => VerdictInv'
  BY VerdictFrame DEF vars, tasks, store
<1> QED BY <1>1, VerdictLoop, VerdictAck, VerdictChecker, VerdictOperator, VerdictEnvironment DEF Next

(* The listener and the checker compete for every pending command, and a   *)
(* restart may come between any two steps: at most one verdict is ever     *)
(* written about a command.                                                *)
THEOREM OneVerdict == Spec => []OneVerdictPerCommand
<1>1. VerdictInv => OneVerdictPerCommand
  BY DEF VerdictInv
<1> QED BY <1>1, TypedAlways, IInvAlways, VerdictInit, VerdictNext, PTL DEF Spec

-----------------------------------------------------------------------------
(* "Delivery failed" *)

(* A step that leaves the commands alone, takes no command and reports     *)
(* none but the one in the checker's hands.                                *)
LEMMA FailureFrame ==
    ASSUME Typed, FailureInv, cmd' = cmd,
           \/ failed' = failed
           \/ checker.at = "raise" /\ failed' = failed \union {checker.cmd} /\ Used(checker.cmd),
           \/ checker' = checker
           \/ checker'.at \notin {"giveup", "alert", "raise"}
           \/ checker.at \in {"giveup", "alert"} /\ checker'.cmd = checker.cmd
    PROVE  FailureInv'
<1>1. \A c \in Ids : Used(c)' /\ Rule(c)' =>
          \A k \in 0 .. cmd'[c].tries - 1 :
              \E b \in Chain(c)' : cmd'[b].tries = k /\ cmd'[b].fate = "timeout"
  <2>1. \A c \in Ids : Chain(c)' = Chain(c) /\ (Used(c)' <=> Used(c)) /\ (Rule(c)' <=> Rule(c))
    BY DEF Chain, Used, Rule
  <2> QED BY <2>1 DEF FailureInv
<1>2. (checker.at \in {"giveup", "alert", "raise"} =>
          /\ Used(checker.cmd)
          /\ Rule(checker.cmd) =>
                cmd[checker.cmd].tries = MaxRetries /\ cmd[checker.cmd].fate = "timeout")'
  BY DEF FailureInv, Rule, Used
<1>3. (\A c \in failed : Used(c) /\ (Rule(c) => cmd[c].tries = MaxRetries /\ cmd[c].fate = "timeout"))'
  BY DEF FailureInv, Used, Rule
<1> QED BY <1>1, <1>2, <1>3 DEF FailureInv

(* A settled command keeps its place in the chain, and a timed-out one its *)
(* fate.                                                                   *)
LEMMA FailureSettled ==
    ASSUME Typed, IInv, FailureInv, NEW c \in pending, NEW f \in {"acked", "timeout"},
           cmd' = [cmd EXCEPT ![c].fate = f], Unregister(c), UNCHANGED <<issued, oper, failed>>,
           \/ checker' = checker
           \/ checker'.at \in {"giveup", "alert", "raise"} =>
                 checker'.cmd = c /\ f = "timeout" /\ (Rule(c) => cmd[c].tries = MaxRetries)
    PROVE  FailureInv'
<1>1. /\ c \in Ids /\ cmd[c].fate = "open"
      /\ \A b \in Ids \ {c} : cmd'[b] = cmd[b]
      /\ cmd'[c].fate = f
      /\ \A b \in Ids : /\ cmd'[b].dev = cmd[b].dev /\ cmd'[b].src = cmd[b].src
                        /\ cmd'[b].root = cmd[b].root /\ cmd'[b].tries = cmd[b].tries
      /\ \A b \in Ids : Chain(b)' = Chain(b) /\ (Used(b)' <=> Used(b))
  BY SettledFrame DEF IInv, PendingIsOpen
<1>2. \A b \in Ids : (Rule(b)' <=> Rule(b)) /\ (cmd[b].fate = "timeout" => cmd'[b].fate = "timeout")
  BY <1>1 DEF Rule
<1>3. ASSUME NEW a \in Ids, Used(a)', Rule(a)', NEW k \in 0 .. cmd'[a].tries - 1
      PROVE  \E b \in Chain(a)' : cmd'[b].tries = k /\ cmd'[b].fate = "timeout"
  <2>1. PICK b \in Chain(a) : cmd[b].tries = k /\ cmd[b].fate = "timeout"
    BY <1>1, <1>2, <1>3 DEF FailureInv
  <2>2. b \in Ids
    BY DEF Chain
  <2> QED BY <1>1, <1>2, <2>1, <2>2
<1>4. (checker.at \in {"giveup", "alert", "raise"} =>
          /\ Used(checker.cmd)
          /\ Rule(checker.cmd) =>
                cmd[checker.cmd].tries = MaxRetries /\ cmd[checker.cmd].fate = "timeout")'
  <2> SUFFICES ASSUME checker'.at \in {"giveup", "alert", "raise"}
               PROVE  (/\ Used(checker.cmd)
                       /\ Rule(checker.cmd) =>
                             cmd[checker.cmd].tries = MaxRetries /\ cmd[checker.cmd].fate = "timeout")'
    OBVIOUS
  <2>1. CASE checker' = checker
    <3>1. PICK k \in Ids : k = checker.cmd
      BY <2>1 DEF Typed, HandlesOK
    <3>2. Used(k) /\ (Rule(k) => cmd[k].tries = MaxRetries /\ cmd[k].fate = "timeout")
      BY <2>1, <3>1 DEF FailureInv
    <3> QED BY <1>1, <1>2, <2>1, <3>1, <3>2 DEF Rule, Used
  <2>2. CASE checker'.cmd = c /\ f = "timeout" /\ (Rule(c) => cmd[c].tries = MaxRetries)
    BY <1>1, <1>2, <2>2 DEF Rule, Used
  <2> QED BY <2>1, <2>2
<1>5. (\A a \in failed : Used(a) /\ (Rule(a) => cmd[a].tries = MaxRetries /\ cmd[a].fate = "timeout"))'
  BY <1>1, <1>2 DEF FailureInv, Typed, TypeOK
<1> QED BY <1>3, <1>4, <1>5 DEF FailureInv

(* A new command adds to chains and takes nothing away. *)
LEMMA FailureIssued ==
    ASSUME Typed, IInv, FailureInv, failed' = failed, NEW command, Issue(command),
           command.fate = "open",
           \/ command.tries = 0 /\ checker' = checker
           \/ /\ checker.at = "retry" /\ checker'.at = "republish"
              /\ command.root = cmd[checker.cmd].root /\ command.tries = cmd[checker.cmd].tries + 1
    PROVE  FailureInv'
<1>1. PICK n \in Ids : /\ ~Used(n) /\ cmd'[n] = command
                       /\ \A b \in Ids \ {n} : cmd'[b] = cmd[b]
  BY IssueNew
<1>2. \A b \in Ids : Used(b) => b # n /\ cmd'[b] = cmd[b] /\ Used(b)' /\ (Rule(b)' <=> Rule(b))
  BY <1>1 DEF Used, Rule
<1>3. \A c \in Ids : c # n => Chain(c) \subseteq Chain(c)'
  BY <1>1, <1>2 DEF Chain
<1>4. \A c \in Ids : \A b \in Chain(c) : Used(b) /\ b \in Ids
  BY DEF Chain
<1>5. ASSUME NEW a \in Ids, Used(a)', Rule(a)', NEW k \in 0 .. cmd'[a].tries - 1
      PROVE  \E b \in Chain(a)' : cmd'[b].tries = k /\ cmd'[b].fate = "timeout"
  <2>1. CASE a # n
    <3>1. PICK b \in Chain(a) : cmd[b].tries = k /\ cmd[b].fate = "timeout"
      BY <1>1, <1>5, <2>1 DEF FailureInv, Used, Rule
    <3> QED BY <1>2, <1>3, <1>4, <2>1, <3>1
  <2>2. CASE a = n
    <3>1. ~ command.tries = 0
      BY <1>1, <1>5, <2>2
    <3>2. PICK h \in Ids : h = checker.cmd
      BY <3>1 DEF Typed, HandlesOK
    <3>3. /\ Rule(h) /\ cmd[h].fate = "timeout" /\ Used(h)
          /\ command.root = cmd[h].root /\ command.tries = cmd[h].tries + 1
      BY <3>1, <3>2 DEF IInv, RetryIsDue, Used
    <3>4. \A b \in Chain(h) : b \in Chain(a)'
      BY <1>1, <1>2, <2>2, <3>3 DEF Chain
    <3>5. cmd[h].tries \in Nat /\ h \in Chain(h)
      BY <3>3, CommandTyped DEF Typed, TypeOK, Chain
    <3>6. k \in 0 .. cmd[h].tries - 1 \/ k = cmd[h].tries
      BY <1>1, <1>5, <2>2, <3>3, <3>5
    <3>7. PICK b \in Chain(h) : cmd[b].tries = k /\ cmd[b].fate = "timeout"
      BY <3>3, <3>5, <3>6 DEF FailureInv
    <3> QED BY <1>2, <1>4, <3>4, <3>7
  <2> QED BY <2>1, <2>2
<1>6. (checker.at \in {"giveup", "alert", "raise"} =>
          /\ Used(checker.cmd)
          /\ Rule(checker.cmd) =>
                cmd[checker.cmd].tries = MaxRetries /\ cmd[checker.cmd].fate = "timeout")'
  <2> SUFFICES ASSUME checker'.at \in {"giveup", "alert", "raise"}
               PROVE  (/\ Used(checker.cmd)
                       /\ Rule(checker.cmd) =>
                             cmd[checker.cmd].tries = MaxRetries /\ cmd[checker.cmd].fate = "timeout")'
    OBVIOUS
  <2>1. PICK h \in Ids : checker' = checker /\ h = checker.cmd
    BY DEF Typed, HandlesOK
  <2>2. h # n /\ Used(h) /\ (Rule(h) => cmd[h].tries = MaxRetries /\ cmd[h].fate = "timeout")
    BY <1>1, <2>1 DEF FailureInv
  <2> QED BY <1>1, <2>1, <2>2 DEF Rule, Used
<1>7. (\A a \in failed : Used(a) /\ (Rule(a) => cmd[a].tries = MaxRetries /\ cmd[a].fate = "timeout"))'
  BY <1>2 DEF FailureInv, Typed, TypeOK
<1> QED BY <1>5, <1>6, <1>7 DEF FailureInv

LEMMA FailureTake ==
    ASSUME Typed, IInv, FailureInv, NEW c \in pending, NEW others, Take(c, others)
    PROVE  FailureInv'
<1>1. c \in Ids /\ (Rule(c) => c \in tracked)
  BY DEF IInv, PendingIsOpen, Typed, TypeOK
<1>2. cmd[c].tries \in Nat /\ cmd[c].tries <= MaxRetries /\ MaxRetries \in Nat
  BY <1>1, CommandTyped DEF Typed, TypeOK
<1>3. checker'.at = "giveup" /\ Rule(c) => cmd[c].tries = MaxRetries
  BY <1>1, <1>2 DEF Take, MayRetry
<1>4. /\ cmd' = [cmd EXCEPT ![c].fate = "timeout"] /\ Unregister(c)
      /\ UNCHANGED <<issued, oper, failed>>
      /\ checker'.cmd = c /\ checker'.at \in {"retry", "giveup"}
  BY DEF Take, store
<1> QED BY <1>3, <1>4, FailureSettled

LEMMA FailureLoop == Typed /\ IInv /\ FailureInv /\ LoopStep => FailureInv'
<1> SUFFICES ASSUME Typed, IInv, FailureInv, LoopStep PROVE FailureInv'
  OBVIOUS
<1>1. ASSUME UNCHANGED <<cmd, failed, checker>> PROVE FailureInv'
  BY <1>1, FailureFrame
<1>2. ASSUME NEW S \in SUBSET Devices, LoopBegin(S) PROVE FailureInv'
  BY <1>1, <1>2 DEF LoopBegin, store
<1>3. ASSUME NEW d \in Devices, LoopSkip(d) PROVE FailureInv'
  BY <1>1, <1>3 DEF LoopSkip, store
<1>4. ASSUME NEW d \in Devices, NEW g \in Goals, LoopSend(d, g) PROVE FailureInv'
  <2>1. PICK command : command = NewRuleCommand(d, g, issued + 1)
    OBVIOUS
  <2>2. command.fate = "open" /\ command.tries = 0
    BY <2>1 DEF NewRuleCommand
  <2> QED BY <1>4, <2>1, <2>2, FailureIssued DEF LoopSend, store
<1>5. ASSUME NEW ok \in BOOLEAN, LoopPublish(ok) PROVE FailureInv'
  BY <1>1, <1>5 DEF LoopPublish
<1>6. CASE LoopInsert \/ LoopCooldown \/ LoopFails \/ LoopEnd
  BY <1>1, <1>6 DEF LoopInsert, LoopCooldown, LoopFails, LoopEnd, store
<1> QED BY <1>2, <1>3, <1>4, <1>5, <1>6 DEF LoopStep

LEMMA FailureAck == Typed /\ IInv /\ FailureInv /\ AckStep => FailureInv'
<1> SUFFICES ASSUME Typed, IInv, FailureInv, AckStep PROVE FailureInv'
  OBVIOUS
<1>1. ASSUME NEW m \in acks, AckIgnore(m) PROVE FailureInv'
  BY <1>1, FailureFrame DEF AckIgnore, tasks, store
<1>2. ASSUME NEW m \in acks, NEW again \in BOOLEAN, AckReceive(m, again) PROVE FailureInv'
  BY <1>2, FailureSettled DEF AckReceive, AckPop, store
<1>3. CASE AckRecord \/ AckRecordFails
  BY <1>3, FailureFrame DEF AckRecord, AckRecordFails, store
<1> QED BY <1>1, <1>2, <1>3 DEF AckStep

LEMMA FailureChecker == Typed /\ IInv /\ FailureInv /\ CheckerStep => FailureInv'
<1> SUFFICES ASSUME Typed, IInv, FailureInv, CheckerStep PROVE FailureInv'
  OBVIOUS
<1>0. checker \in CheckerStates
  BY DEF Typed, TypeOK
<1>1. ASSUME NEW E \in SUBSET pending, NEW c \in E, CheckerScan(E, c) PROVE FailureInv'
  BY <1>1, FailureTake DEF CheckerScan
<1>2. ASSUME NEW c \in checker.expired, CheckerTake(c) PROVE FailureInv'
  BY <1>2, FailureTake DEF CheckerTake, Take, CanPop
<1>3. ASSUME \/ \E c \in checker.expired : CheckerKeyError(c)
             \/ CheckerEndPass \/ CheckerFails
      PROVE  FailureInv'
  BY <1>3, FailureFrame DEF CheckerKeyError, CheckerEndPass, CheckerFails, IdleChecker, store
<1>4. CASE CheckerRetry
  <2>1. PICK command : command = Retried(checker.cmd)
    OBVIOUS
  <2>2. checker.cmd \in Ids
    BY <1>4 DEF CheckerRetry, Typed, HandlesOK
  <2>3. /\ command.fate = "open" /\ command.root = cmd[checker.cmd].root
        /\ command.tries = cmd[checker.cmd].tries + 1
    BY <2>1, <2>2 DEF Retried, Typed, TypeOK, Command
  <2> QED BY <1>0, <1>4, <2>1, <2>3, FailureIssued DEF CheckerRetry, store, CheckerStates
<1>5. CASE CheckerRepublish \/ CheckerRecord \/ CheckerRetryFails
  BY <1>0, <1>5, FailureFrame DEF CheckerRepublish, CheckerRecord, CheckerRetryFails, store, CheckerStates
<1>6. CASE CheckerGiveUp \/ CheckerAlert
  BY <1>0, <1>6, FailureFrame DEF CheckerGiveUp, CheckerAlert, CheckerStates
<1>7. CASE CheckerRaise
  <2>1. Used(checker.cmd) /\ checker.at = "raise"
    BY <1>7 DEF CheckerRaise, FailureInv
  <2> QED BY <1>0, <1>7, <2>1, FailureFrame DEF CheckerRaise, CheckerStates
<1> QED BY <1>1, <1>2, <1>3, <1>4, <1>5, <1>6, <1>7 DEF CheckerStep

LEMMA FailureOperator ==
    Typed /\ IInv /\ FailureInv /\ (\E o \in Operators : OperatorStep(o)) => FailureInv'
<1> SUFFICES ASSUME Typed, IInv, FailureInv, NEW o \in Operators, OperatorStep(o) PROVE FailureInv'
  OBVIOUS
<1>1. ASSUME NEW d \in Devices, NEW g \in Goals, NEW ok \in BOOLEAN, OperatorInsert(o, d, g, ok)
      PROVE  FailureInv'
  <2>1. PICK command : command = NewOperatorCommand(d, g, issued + 1)
    OBVIOUS
  <2>2. command.fate = "open" /\ command.tries = 0
    BY <2>1 DEF NewOperatorCommand
  <2> QED BY <1>1, <2>1, <2>2, FailureIssued DEF OperatorInsert
<1>2. CASE OperatorPublish(o) \/ OperatorPublishFails(o) \/ OperatorCooldown(o)
  BY <1>2, FailureFrame DEF OperatorPublish, OperatorPublishFails, OperatorCooldown, store
<1>3. CASE OperatorRegister(o) \/ OperatorBreaksChecker(o) \/ OperatorBreaksLoop(o)
  BY <1>3, FailureFrame DEF OperatorRegister, OperatorBreaksChecker, OperatorBreaksLoop,
                            RegisterOperatorCommand, IdleChecker, store
<1>4. ASSUME NEW ok \in BOOLEAN, OperatorSetDesired(o, ok) PROVE FailureInv'
  BY <1>4, FailureFrame DEF OperatorSetDesired
<1> QED BY <1>1, <1>2, <1>3, <1>4 DEF OperatorStep

LEMMA FailureEnvironment == Typed /\ IInv /\ FailureInv /\ Environment => FailureInv'
<1> SUFFICES ASSUME Typed, IInv, FailureInv, Environment PROVE FailureInv'
  OBVIOUS
<1>1. ASSUME NEW c \in wire, NEW status \in Statuses, DeviceAnswer(c, status) PROVE FailureInv'
  BY <1>1, FailureFrame DEF DeviceAnswer, tasks, store
<1>2. ASSUME NEW d \in cooldown, CooldownExpire(d) PROVE FailureInv'
  BY <1>2, FailureFrame DEF CooldownExpire, tasks, store
<1>3. ASSUME NEW d \in alerts, AlertExpire(d) PROVE FailureInv'
  BY <1>3, FailureFrame DEF AlertExpire, tasks
<1>4. CASE Crash
  <2>1. \A b \in Ids : /\ cmd'[b].tries = cmd[b].tries /\ cmd'[b].root = cmd[b].root
                       /\ cmd'[b].src = cmd[b].src
                       /\ cmd[b].fate # "open" => cmd'[b].fate = cmd[b].fate
                       /\ cmd[b].fate = "open" => cmd'[b].fate = "forgotten"
    <3>1. \A b \in Ids : cmd[b] \in Command
      BY DEF Typed, TypeOK
    <3> QED BY <1>4, <3>1 DEF Crash, Command
  <2>2. failed' = failed /\ failed \subseteq Ids /\ checker'.at = "sleep"
    BY <1>4 DEF Crash, IdleChecker, store, Typed, TypeOK
  <2>3. \A b \in Ids : /\ Used(b)' <=> Used(b)
                       /\ Rule(b)' <=> Rule(b)
                       /\ cmd[b].fate = "timeout" => cmd'[b].fate = "timeout"
    BY <2>1 DEF Used, Rule
  <2>4. \A c \in Ids : Chain(c)' = Chain(c)
    BY <2>1, <2>3 DEF Chain
  <2>5. ASSUME NEW a \in Ids, Used(a)', Rule(a)', NEW k \in 0 .. cmd'[a].tries - 1
        PROVE  \E b \in Chain(a)' : cmd'[b].tries = k /\ cmd'[b].fate = "timeout"
    <3>1. PICK b \in Chain(a) : cmd[b].tries = k /\ cmd[b].fate = "timeout"
      BY <2>1, <2>3, <2>5 DEF FailureInv
    <3>2. b \in Ids
      BY DEF Chain
    <3> QED BY <2>1, <2>3, <2>4, <3>1, <3>2
  <2>6. (\A a \in failed : Used(a) /\ (Rule(a) => cmd[a].tries = MaxRetries /\ cmd[a].fate = "timeout"))'
    BY <2>1, <2>2, <2>3 DEF FailureInv
  <2> QED BY <2>2, <2>5, <2>6 DEF FailureInv
<1> QED BY <1>1, <1>2, <1>3, <1>4 DEF Environment

LEMMA FailureInit == Init => FailureInv
BY DEF Init, FailureInv, Unused, Used, IdleChecker

LEMMA FailureNext == Typed /\ IInv /\ FailureInv /\ [Next]_vars => FailureInv'
<1>1. Typed /\ FailureInv /\ UNCHANGED vars => FailureInv'
  BY FailureFrame DEF vars, tasks, store
<1> QED BY <1>1, FailureLoop, FailureAck, FailureChecker, FailureOperator, FailureEnvironment DEF Next

LEMMA FailureImplies == Typed /\ FailureInv => FailureMeansExhausted
<1> SUFFICES ASSUME Typed, FailureInv, NEW c \in failed, Rule(c), NEW k \in 0 .. MaxRetries
             PROVE  \E b \in Chain(c) : cmd[b].tries = k /\ cmd[b].fate = "timeout"
  BY DEF FailureMeansExhausted
<1>1. c \in Ids /\ Used(c) /\ cmd[c].tries = MaxRetries /\ cmd[c].fate = "timeout"
  BY DEF FailureInv, Typed, TypeOK
<1>2. c \in Chain(c)
  BY <1>1 DEF Chain
<1>3. k = MaxRetries \/ k \in 0 .. cmd[c].tries - 1
  BY <1>1, BoundsAssumption
<1> QED BY <1>1, <1>2, <1>3 DEF FailureInv

(* "Delivery failed" is never raised for a rule command with a retry left, *)
(* nor for one of whose attempts was answered instead of timing out.       *)
THEOREM FailureIsExhausted == Spec => []FailureMeansExhausted
BY FailureImplies, TypedAlways, IInvAlways, FailureInit, FailureNext, PTL DEF Spec

-----------------------------------------------------------------------------
(* The steps, by what they do to the commands, to the reported failures    *)
(* and to the command in the checker's hands.                              *)

Final == {"giveup", "alert", "raise"}

Still ==
    /\ UNCHANGED <<cmd, failed>>
    /\ checker.at = "retry" \/ checker'.at = "retry" => checker' = checker
    /\ checker'.at \in Final => checker.at \in Final /\ checker'.cmd = checker.cmd

Given ==
    /\ UNCHANGED <<failed, checker>>
    /\ \E command \in Command : /\ Issue(command)
                                /\ command.fate = "open" /\ command.root = issued + 1
                                /\ command.tries = 0

Answered ==
    /\ UNCHANGED <<failed, checker, issued, oper>>
    /\ \E c \in pending : cmd' = [cmd EXCEPT ![c].fate = "acked"] /\ Unregister(c)

Taken ==
    /\ checker.at # "retry"
    /\ \E c \in pending, others \in SUBSET Ids : Take(c, others)

Kinds == Still \/ Given \/ Answered \/ Taken \/ CheckerRetry \/ CheckerRaise \/ Crash

LEMMA LoopKinds == Typed /\ LoopStep => Kinds
<1> SUFFICES ASSUME Typed, LoopStep PROVE Kinds
  OBVIOUS
<1>1. UNCHANGED <<cmd, failed, checker>> => Still
  BY DEF Still
<1>2. ASSUME NEW d \in Devices, NEW g \in Goals, LoopSend(d, g) PROVE Given
  <2>1. PICK command : command = NewRuleCommand(d, g, issued + 1)
    OBVIOUS
  <2>2. command \in Command /\ command.fate = "open" /\ command.root = issued + 1 /\ command.tries = 0
    <3>1. issued + 1 \in Ids
      BY <1>2, ConstantFacts DEF LoopSend, Issue, Typed, TypeOK
    <3> QED BY <2>1, <3>1, BoundsAssumption DEF NewRuleCommand, Command, Fates, Handle
  <2> QED BY <1>2, <2>1, <2>2 DEF LoopSend, Given, store
<1>3. ASSUME ~ \E d \in Devices, g \in Goals : LoopSend(d, g) PROVE UNCHANGED <<cmd, failed, checker>>
  BY <1>3 DEF LoopStep, LoopBegin, LoopSkip, LoopPublish, LoopInsert, LoopCooldown, LoopFails, LoopEnd, store
<1> QED BY <1>1, <1>2, <1>3 DEF Kinds

LEMMA AckKinds == Typed /\ AckStep => Kinds
<1> SUFFICES ASSUME Typed, AckStep PROVE Kinds
  OBVIOUS
<1>1. ASSUME NEW m \in acks, NEW again \in BOOLEAN, AckReceive(m, again) PROVE Answered
  BY <1>1 DEF AckReceive, AckPop, Answered, store
<1>2. ASSUME NEW m \in acks, AckIgnore(m) PROVE Still
  BY <1>2 DEF AckIgnore, Still, tasks, store
<1>3. CASE AckRecord \/ AckRecordFails
  BY <1>3 DEF AckRecord, AckRecordFails, Still, store, Kinds
<1> QED BY <1>1, <1>2, <1>3 DEF AckStep, Kinds

LEMMA CheckerKinds == Typed /\ CheckerStep => Kinds
<1> SUFFICES ASSUME Typed, CheckerStep PROVE Kinds
  OBVIOUS
<1>0. checker \in CheckerStates /\ pending \subseteq Ids
  BY DEF Typed, TypeOK
<1>1. ASSUME NEW E \in SUBSET pending, NEW c \in E, CheckerScan(E, c) PROVE Taken
  BY <1>0, <1>1 DEF CheckerScan, Taken
<1>2. ASSUME NEW c \in checker.expired, CheckerTake(c) PROVE Taken
  BY <1>0, <1>2 DEF CheckerTake, Taken, Take, CanPop, CheckerStates
<1>3. ASSUME NEW c \in checker.expired, CheckerKeyError(c) PROVE Still
  BY <1>0, <1>3 DEF CheckerKeyError, Still, store, IdleChecker, Final
<1>4. CheckerEndPass => Still
  BY <1>0 DEF CheckerEndPass, Still, store, IdleChecker, Final
<1>5. CheckerRepublish \/ CheckerRecord \/ CheckerRetryFails => Still
  BY <1>0 DEF CheckerRepublish, CheckerRecord, CheckerRetryFails, Still, store, CheckerStates, Final
<1>6. CheckerGiveUp \/ CheckerAlert => Still
  BY <1>0 DEF CheckerGiveUp, CheckerAlert, Still, CheckerStates, Final
<1>7. CheckerFails => Still
  BY <1>0 DEF CheckerFails, Still, store, IdleChecker, Final
<1> QED BY <1>1, <1>2, <1>3, <1>4, <1>5, <1>6, <1>7 DEF CheckerStep, Kinds

LEMMA OperatorKinds == Typed /\ (\E o \in Operators : OperatorStep(o)) => Kinds
<1> SUFFICES ASSUME Typed, NEW o \in Operators, OperatorStep(o) PROVE Kinds
  OBVIOUS
<1>1. ASSUME NEW d \in Devices, NEW g \in Goals, NEW ok \in BOOLEAN, OperatorInsert(o, d, g, ok) PROVE Given
  <2>1. PICK command : command = NewOperatorCommand(d, g, issued + 1)
    OBVIOUS
  <2>2. command \in Command /\ command.fate = "open" /\ command.root = issued + 1 /\ command.tries = 0
    <3>1. issued + 1 \in Ids
      BY <1>1, ConstantFacts DEF OperatorInsert, Issue, Typed, TypeOK
    <3> QED BY <2>1, <3>1, BoundsAssumption DEF NewOperatorCommand, Command, Fates, Handle
  <2> QED BY <1>1, <2>1, <2>2 DEF OperatorInsert, Given
<1>2. CASE OperatorPublish(o) \/ OperatorPublishFails(o) \/ OperatorCooldown(o)
  BY <1>2 DEF OperatorPublish, OperatorPublishFails, OperatorCooldown, Still, store, Kinds
<1>3. CASE OperatorRegister(o) \/ OperatorBreaksLoop(o)
  BY <1>3 DEF OperatorRegister, OperatorBreaksLoop, RegisterOperatorCommand, Still, store, Kinds
<1>4. CASE OperatorBreaksChecker(o)
  BY <1>4 DEF OperatorBreaksChecker, RegisterOperatorCommand, IdleChecker, Still, store, Kinds, Final
<1>5. ASSUME NEW ok \in BOOLEAN, OperatorSetDesired(o, ok) PROVE Still
  BY <1>5 DEF OperatorSetDesired, Still
<1> QED BY <1>1, <1>2, <1>3, <1>4, <1>5 DEF OperatorStep, Kinds

LEMMA EnvironmentKinds == Environment => Kinds
BY DEF Environment, DeviceAnswer, CooldownExpire, AlertExpire, Still, Kinds, tasks, store

LEMMA StepKinds == Typed /\ [Next]_vars => Kinds
<1>1. UNCHANGED vars => Still
  BY DEF vars, Still, tasks, store
<1> QED BY <1>1, LoopKinds, AckKinds, CheckerKinds, OperatorKinds, EnvironmentKinds DEF Next, Kinds

-----------------------------------------------------------------------------
(* The chains *)

LEMMA RootIsUsed ==
    ASSUME Typed, IInv, NEW c \in Ids, Used(c)
    PROVE  cmd[c].root \in Ids /\ Used(cmd[c].root)
<1>1. PICK r : r = cmd[c].root /\ r \in 1 .. c /\ c <= issued
  BY DEF IInv, IdsInOrder
<1>2. c \in 1 .. MaxIds /\ MaxIds \in Nat /\ issued \in Nat
  BY ConstantFacts DEF Ids, Typed, TypeOK
<1>3. r \in 1 .. MaxIds /\ r <= issued
  BY <1>1, <1>2
<1> QED BY <1>1, <1>3 DEF IInv, IdsInOrder, Ids

LEMMA RootFacts ==
    ASSUME ChainInv, NEW c \in Ids, Used(c), NEW r \in Ids, r = cmd[c].root
    PROVE  cmd[r].src = cmd[c].src /\ (~Rule(c) => r = c /\ cmd[c].tries = 0)
BY DEF ChainInv

LEMMA ChainGiven == ASSUME Typed, IInv, ChainInv, Given PROVE ChainInv'
<1>1. PICK command \in Command : /\ Issue(command) /\ command.fate = "open"
                                 /\ command.root = issued + 1 /\ command.tries = 0
  BY DEF Given
<1>2. PICK n : n = issued + 1
  OBVIOUS
<1>3. /\ n \in Ids /\ ~Used(n)
      /\ \A c \in Ids : c # n => cmd'[c] = cmd[c]
      /\ cmd'[n] = command
      /\ \A b \in Chain(n)' : b = n
      /\ \A c \in Ids : c # n /\ Used(c) => Chain(c)' = Chain(c)
  BY <1>1, <1>2, FreshStep DEF Given
<1>4. \A c \in Ids : c # n => (Used(c)' <=> Used(c)) /\ (Rule(c)' <=> Rule(c)) /\ (IsLast(c)' <=> IsLast(c))
  BY <1>3 DEF Used, Rule, IsLast
<1>5. ASSUME NEW c \in Ids, Used(c)'
      PROVE  /\ cmd'[cmd'[c].root].src = cmd'[c].src
             /\ ~Rule(c)' => cmd'[c].root = c /\ cmd'[c].tries = 0
  <2>1. CASE c = n
    BY <1>1, <1>2, <1>3, <2>1
  <2>2. CASE c # n
    <3>1. Used(c)
      BY <1>4, <1>5, <2>2
    <3>2. PICK r \in Ids : r = cmd[c].root /\ Used(r)
      BY <3>1, RootIsUsed
    <3>3. r # n /\ cmd'[c] = cmd[c] /\ cmd'[r] = cmd[r]
      BY <1>3, <2>2, <3>2
    <3>4. cmd[r].src = cmd[c].src /\ (~Rule(c) => r = c /\ cmd[c].tries = 0)
      BY <3>1, <3>2, RootFacts
    <3> QED BY <1>4, <2>2, <3>2, <3>3, <3>4
  <2> QED BY <2>1, <2>2
<1>6. ASSUME NEW c \in Ids, Used(c)', IsLast(c)', NEW b \in Chain(c)' PROVE b <= c
  <2>1. CASE c = n
    BY <1>2, <1>3, <1>6, <2>1 DEF Typed, TypeOK
  <2>2. CASE c # n
    BY <1>3, <1>4, <1>6, <2>2 DEF ChainInv
  <2> QED BY <2>1, <2>2
<1>7. ASSUME checker'.at \in Final PROVE IsLast(checker.cmd)' /\ cmd'[checker'.cmd].fate = "timeout"
  <2>1. PICK h \in Ids : h = checker.cmd /\ checker' = checker
    BY <1>7 DEF Given, Typed, HandlesOK, Final
  <2>2. cmd[h].fate = "timeout" /\ IsLast(h) /\ h # n
    BY <1>3, <1>7, <2>1 DEF ChainInv, Used, Final
  <2> QED BY <1>3, <1>4, <2>1, <2>2 DEF IsLast, Rule
<1> QED BY <1>5, <1>6, <1>7 DEF ChainInv, Final

(* A retry lengthens the chain of a command with an attempt left. *)
LEMMA RetryGives ==
    ASSUME Typed, IInv, CheckerRetry
    PROVE  \E h, n \in Ids :
             /\ h = checker.cmd /\ checker.at = "retry" /\ checker'.at = "republish" /\ failed' = failed
             /\ Used(h) /\ Rule(h) /\ cmd[h].fate = "timeout" /\ cmd[h].tries < MaxRetries
             /\ \A b \in Chain(h) : b <= h /\ cmd[b].fate # "acked"
             /\ ~Used(n) /\ \A c \in Ids : Used(c) => c < n
             /\ \A c \in Ids : c # n => cmd'[c] = cmd[c]
             /\ cmd'[n].root = cmd[h].root /\ cmd'[n].src = "rule" /\ cmd'[n].fate = "open"
             /\ cmd'[n].tries = cmd[h].tries + 1
<1>1. PICK h \in Ids : h = checker.cmd
  BY DEF Typed, HandlesOK, CheckerRetry
<1>2. PICK n : n = issued + 1
  OBVIOUS
<1>3. /\ Rule(h) /\ cmd[h].fate = "timeout" /\ Used(h) /\ cmd[h].tries < MaxRetries
      /\ \A b \in Chain(h) : b <= h /\ cmd[b].fate # "acked"
  BY <1>1 DEF RetryIsDue, CheckerRetry, Used, IInv
<1>4. PICK command : command = Retried(h)
  OBVIOUS
<1>5. /\ command \in Command /\ command.fate = "open" /\ command.src = "rule"
      /\ command.root = cmd[h].root /\ command.tries = cmd[h].tries + 1
  <2>1. cmd[h] \in Command
    BY DEF Typed, TypeOK
  <2>2. cmd[h].tries + 1 \in 0 .. MaxRetries
    BY <1>3, <2>1, CommandTyped
  <2> QED BY <1>3, <1>4, <2>1, <2>2 DEF Retried, Command, Fates, Rule
<1>6. command.root \in 1 .. n
  <2>1. cmd[h].root \in 1 .. h /\ h <= issued /\ h \in Nat /\ issued \in Nat
    BY <1>3, ConstantFacts DEF IInv, IdsInOrder, Typed, TypeOK
  <2> QED BY <1>2, <1>5, <2>1
<1>7. /\ Issue(command) /\ checker.at = "retry" /\ checker'.at = "republish" /\ failed' = failed
  BY <1>1, <1>4 DEF CheckerRetry, store, Typed, TypeOK, CheckerStates
<1>8. /\ n \in Ids /\ ~Used(n)
      /\ \A c \in Ids : Used(c) => c < n
      /\ \A c \in Ids : c # n => cmd'[c] = cmd[c]
      /\ cmd'[n] = command
  BY <1>2, <1>5, <1>6, <1>7, IssueFresh DEF IInv
<1> QED BY <1>1, <1>3, <1>5, <1>7, <1>8

LEMMA ChainRetry == ASSUME Typed, IInv, ChainInv, CheckerRetry PROVE ChainInv'
<1>1. PICK h, n \in Ids :
             /\ h = checker.cmd /\ checker.at = "retry" /\ checker'.at = "republish"
             /\ Used(h) /\ Rule(h) /\ cmd[h].tries < MaxRetries
             /\ \A b \in Chain(h) : b <= h
             /\ ~Used(n) /\ \A c \in Ids : Used(c) => c < n
             /\ \A c \in Ids : c # n => cmd'[c] = cmd[c]
             /\ cmd'[n].root = cmd[h].root /\ cmd'[n].src = "rule"
  BY RetryGives
<1>2. \A c \in Ids : c # n => (Used(c)' <=> Used(c)) /\ (Rule(c)' <=> Rule(c)) /\ (IsLast(c)' <=> IsLast(c))
  BY <1>1 DEF Used, Rule, IsLast
<1>3. \A c \in Ids : Used(c) => cmd[c].root \in Ids /\ Used(cmd[c].root)
  BY RootIsUsed
<1>4. ASSUME NEW c \in Ids, Used(c)'
      PROVE  /\ cmd'[cmd'[c].root].src = cmd'[c].src
             /\ ~Rule(c)' => cmd'[c].root = c /\ cmd'[c].tries = 0
  <2>1. CASE c = n
    <3>1. PICK r \in Ids : r = cmd[h].root /\ Used(r) /\ r # n /\ cmd'[r] = cmd[r]
      BY <1>1, <1>3
    <3>2. cmd[r].src = "rule"
      BY <1>1, <3>1, RootFacts DEF Rule
    <3> QED BY <1>1, <2>1, <3>1, <3>2 DEF Rule
  <2>2. CASE c # n
    <3>1. Used(c) /\ cmd'[c] = cmd[c]
      BY <1>1, <1>2, <1>4, <2>2
    <3>2. PICK r \in Ids : r = cmd[c].root /\ Used(r) /\ r # n /\ cmd'[r] = cmd[r]
      BY <1>1, <1>3, <3>1
    <3>3. cmd[r].src = cmd[c].src /\ (~Rule(c) => r = c /\ cmd[c].tries = 0)
      BY <3>1, <3>2, RootFacts
    <3> QED BY <1>2, <2>2, <3>1, <3>2, <3>3
  <2> QED BY <2>1, <2>2
<1>5. ASSUME NEW c \in Ids, Used(c)', IsLast(c)', NEW b \in Chain(c)' PROVE b <= c
  <2>1. b \in Ids /\ Used(b)' /\ cmd'[b].root = cmd'[c].root
    BY DEF Chain
  <2>2. CASE c = n
    BY <1>1, <1>2, <2>1, <2>2, ConstantFacts
  <2>3. CASE c # n /\ b # n
    BY <1>1, <1>2, <1>5, <2>1, <2>3 DEF ChainInv, Chain
  <2>4. CASE c # n /\ b = n
    <3>1. Used(c) /\ IsLast(c) /\ cmd[c].root = cmd[h].root
      BY <1>1, <1>2, <1>5, <2>1, <2>4
    <3>2. c \in Chain(h) /\ h \in Chain(c)
      BY <1>1, <3>1 DEF Chain
    <3>3. c = h
      BY <1>1, <3>1, <3>2, ConstantFacts DEF ChainInv
    <3> QED BY <1>1, <3>1, <3>3, CommandTyped DEF IsLast, Typed, TypeOK
  <2> QED BY <2>2, <2>3, <2>4
<1> QED BY <1>1, <1>4, <1>5 DEF ChainInv

LEMMA ChainSettled ==
    ASSUME Typed, IInv, ChainInv, NEW c \in pending, NEW f \in {"acked", "timeout"},
           cmd' = [cmd EXCEPT ![c].fate = f], Unregister(c), UNCHANGED <<issued, oper>>,
           \/ checker' = checker
           \/ checker'.at \in Final => checker'.cmd = c /\ f = "timeout" /\ IsLast(c)
    PROVE  ChainInv'
<1>1. /\ c \in Ids /\ cmd[c].fate = "open"
      /\ \A b \in Ids \ {c} : cmd'[b] = cmd[b]
      /\ cmd'[c].fate = f
      /\ \A b \in Ids : /\ cmd'[b].src = cmd[b].src
                        /\ cmd'[b].root = cmd[b].root /\ cmd'[b].tries = cmd[b].tries
      /\ \A b \in Ids : Chain(b)' = Chain(b) /\ (Used(b)' <=> Used(b))
  BY SettledFrame DEF IInv, PendingIsOpen
<1>2. \A b \in Ids : (Rule(b)' <=> Rule(b)) /\ (IsLast(b)' <=> IsLast(b))
  BY <1>1 DEF Rule, IsLast
<1>3. \A b \in Ids : Used(b) => cmd[b].root \in Ids
  BY RootIsUsed
<1>4. ASSUME NEW b \in Ids, Used(b)'
      PROVE  /\ cmd'[cmd'[b].root].src = cmd'[b].src
             /\ ~Rule(b)' => cmd'[b].root = b /\ cmd'[b].tries = 0
  <2>1. Used(b)
    BY <1>1, <1>4
  <2>2. PICK r \in Ids : r = cmd[b].root
    BY <1>3, <2>1
  <2>3. cmd[r].src = cmd[b].src /\ (~Rule(b) => r = b /\ cmd[b].tries = 0)
    BY <2>1, <2>2, RootFacts
  <2>4. cmd'[r].src = cmd[r].src /\ cmd'[b].src = cmd[b].src /\ cmd'[b].root = r /\ cmd'[b].tries = cmd[b].tries
    BY <1>1, <2>2
  <2> QED BY <1>2, <2>3, <2>4
<1>5. (\A b \in Ids : Used(b) /\ IsLast(b) => \A a \in Chain(b) : a <= b)'
  BY <1>1, <1>2 DEF ChainInv
<1>6. ASSUME checker'.at \in Final PROVE IsLast(checker.cmd)' /\ cmd'[checker'.cmd].fate = "timeout"
  <2>1. CASE checker' = checker
    <3>1. PICK h \in Ids : h = checker.cmd
      BY <1>6, <2>1 DEF Typed, HandlesOK, Final
    <3>2. cmd[h].fate = "timeout" /\ IsLast(h)
      BY <1>6, <2>1, <3>1 DEF ChainInv, Final
    <3> QED BY <1>1, <1>2, <2>1, <3>1, <3>2 DEF IsLast, Rule
  <2>2. CASE checker'.cmd = c /\ f = "timeout" /\ IsLast(c)
    BY <1>1, <1>2, <2>2 DEF IsLast, Rule
  <2> QED BY <1>6, <2>1, <2>2
<1> QED BY <1>4, <1>5, <1>6 DEF ChainInv, Final

(* The checker gives a command up only when no attempt is left. *)
LEMMA TakeFacts ==
    ASSUME Typed, IInv, NEW c \in pending, NEW others, Take(c, others)
    PROVE  /\ c \in Ids /\ cmd[c].fate = "open"
           /\ cmd' = [cmd EXCEPT ![c].fate = "timeout"] /\ Unregister(c)
           /\ UNCHANGED <<issued, oper, failed>>
           /\ checker'.cmd = c /\ checker'.at \in {"retry", "giveup"}
           /\ checker'.at = "giveup" => IsLast(c)
<1>1. c \in Ids /\ (Rule(c) => c \in tracked) /\ cmd[c].fate = "open"
  BY DEF IInv, PendingIsOpen, Typed, TypeOK
<1>2. cmd[c].tries \in Nat /\ cmd[c].tries <= MaxRetries /\ MaxRetries \in Nat
  BY <1>1, CommandTyped DEF Typed, TypeOK
<1>3. checker'.at = "giveup" => IsLast(c)
  BY <1>1, <1>2 DEF Take, MayRetry, IsLast
<1>4. /\ cmd' = [cmd EXCEPT ![c].fate = "timeout"] /\ Unregister(c)
      /\ UNCHANGED <<issued, oper, failed>>
      /\ checker'.cmd = c /\ checker'.at \in {"retry", "giveup"}
  BY DEF Take, store
<1> QED BY <1>1, <1>3, <1>4

LEMMA CrashFacts ==
    ASSUME Typed, Crash
    PROVE  /\ failed' = failed /\ checker'.at = "sleep"
           /\ \A b \in Ids : /\ cmd'[b].tries = cmd[b].tries /\ cmd'[b].root = cmd[b].root
                             /\ cmd'[b].src = cmd[b].src
                             /\ cmd[b].fate # "open" => cmd'[b].fate = cmd[b].fate
                             /\ cmd[b].fate = "open" => cmd'[b].fate = "forgotten"
           /\ \A b \in Ids : /\ Used(b)' <=> Used(b)
                             /\ Rule(b)' <=> Rule(b)
                             /\ IsLast(b)' <=> IsLast(b)
                             /\ Chain(b)' = Chain(b)
<1>1. \A b \in Ids : cmd[b] \in Command
  BY DEF Typed, TypeOK
<1>2. /\ \A b \in Ids : /\ cmd'[b].tries = cmd[b].tries /\ cmd'[b].root = cmd[b].root
                        /\ cmd'[b].src = cmd[b].src
                        /\ cmd[b].fate # "open" => cmd'[b].fate = cmd[b].fate
                        /\ cmd[b].fate = "open" => cmd'[b].fate = "forgotten"
      /\ failed' = failed /\ checker'.at = "sleep"
  BY <1>1 DEF Crash, Command, store, IdleChecker
<1>3. \A b \in Ids : (Used(b)' <=> Used(b)) /\ (Rule(b)' <=> Rule(b)) /\ (IsLast(b)' <=> IsLast(b))
  BY <1>2 DEF Used, Rule, IsLast
<1>4. \A b \in Ids : Chain(b)' = Chain(b)
  BY <1>2, <1>3 DEF Chain
<1> QED BY <1>2, <1>3, <1>4

LEMMA ChainNext == Typed /\ IInv /\ ChainInv /\ [Next]_vars => ChainInv'
<1> SUFFICES ASSUME Typed, IInv, ChainInv, Kinds PROVE ChainInv'
  BY StepKinds
<1>1. CASE Still
  BY <1>1 DEF Still, ChainInv, Chain, Used, Rule, IsLast, Final
<1>2. CASE Answered
  BY <1>2, ChainSettled DEF Answered
<1>3. CASE Taken
  BY <1>3, TakeFacts, ChainSettled DEF Taken, Final
<1>4. CASE CheckerRaise
  BY <1>4 DEF CheckerRaise, ChainInv, Chain, Used, Rule, IsLast, Typed, TypeOK, CheckerStates
<1>5. CASE Crash
  <2>1. \A b \in Ids : Used(b) => cmd[b].root \in Ids
    BY RootIsUsed
  <2> QED BY <1>5, <2>1, CrashFacts DEF ChainInv
<1> QED BY <1>1, <1>2, <1>3, <1>4, <1>5, ChainGiven, ChainRetry DEF Kinds

LEMMA ChainInit == Init => ChainInv
BY DEF Init, ChainInv, Unused, Used, IdleChecker

LEMMA ChainAlways == Spec => []ChainInv
BY TypedAlways, IInvAlways, ChainInit, ChainNext, PTL DEF Spec

-----------------------------------------------------------------------------
(* The mapped state of one command *)

LEMMA AttemptsOfChain ==
    ASSUME Typed, IInv, NEW c \in Ids, Used(c)
    PROVE  /\ cmd[c].root \in Ids /\ Used(cmd[c].root)
           /\ Attempts(cmd[c].root) = Chain(c) /\ c \in Chain(c)
BY RootIsUsed DEF Attempts, Chain

LEMMA ChainOfOne ==
    ASSUME ChainInv, NEW b \in Ids, Used(b), ~Rule(b), NEW a \in Chain(b)
    PROVE  a = b
<1>1. cmd[b].root = b /\ a \in Ids /\ Used(a) /\ cmd[a].root = b
  BY DEF ChainInv, Chain
<1>2. ~Rule(a)
  BY <1>1, RootFacts DEF Rule
<1> QED BY <1>1, <1>2, RootFacts

(* A command some attempt of which is open, or about to be repeated, waits. *)
LEMMA OpenWaits ==
    ASSUME Typed, IInv, ChainInv, NEW c \in Ids, cmd[c].fate = "open" \/ Due(c)
    PROVE  /\ Used(c) /\ Outcome(cmd[c].root) = "waiting"
           /\ \A b \in Chain(c) : /\ b <= c /\ cmd[b].fate # "acked"
                                  /\ cmd[b].fate = "open" \/ Due(b) => b = c
<1>1. Used(c)
  BY DEF Used, Due, IInv, RetryIsDue
<1>2. \A b \in Chain(c) : b \in Ids /\ Used(b) /\ c \in Chain(b)
  BY <1>1 DEF Chain
<1>3. ASSUME NEW b \in Ids, Used(b), ~Rule(b), NEW a \in Chain(b) PROVE a = b
  BY <1>3, ChainOfOne
<1>4. ASSUME NEW b \in Ids, cmd[b].fate = "open" \/ Due(b), Rule(b)
      PROVE  \A a \in Chain(b) : a <= b
  BY <1>4 DEF Due, IInv, RetryIsDue, PendingIsOpen, PendingIsLatest
<1>5. ASSUME NEW b \in Chain(c), cmd[b].fate = "open" \/ Due(b) PROVE b = c
  <2>1. CASE ~Rule(b) \/ ~Rule(c)
    BY <1>1, <1>2, <1>3, <2>1
  <2>2. CASE Rule(b) /\ Rule(c)
    <3>1. c <= b
      BY <1>2, <1>4, <1>5, <2>2
    <3>2. b <= c
      BY <1>4, <1>5, <2>2
    <3>3. b \in Nat /\ c \in Nat
      BY <1>2, ConstantFacts
    <3> QED BY <3>1, <3>2, <3>3
  <2> QED BY <2>1, <2>2
<1>6. ASSUME NEW b \in Chain(c), cmd[b].fate = "acked" PROVE FALSE
  <2>1. CASE Due(c)
    BY <1>6, <2>1 DEF Due, IInv, RetryIsDue
  <2>2. CASE cmd[c].fate = "open" /\ ~Rule(c)
    BY <1>1, <1>3, <1>6, <2>2
  <2>3. CASE cmd[c].fate = "open" /\ Rule(c)
    <3>1. c <= b
      BY <1>2, <1>6 DEF IInv, AckEndsRetries
    <3>2. b <= c
      BY <1>4, <1>6, <2>3
    <3>3. b \in Nat /\ c \in Nat
      BY <1>2, ConstantFacts
    <3> QED BY <1>6, <2>3, <3>1, <3>2, <3>3
  <2> QED BY <2>1, <2>2, <2>3
<1>7. Outcome(cmd[c].root) = "waiting"
  BY <1>1, <1>6, AttemptsOfChain DEF Outcome
<1>8. \A b \in Chain(c) : b <= c
  BY <1>1, <1>3, <1>4, ConstantFacts
<1> QED BY <1>1, <1>5, <1>6, <1>7, <1>8

(* A command none of whose attempts changed is what it was. *)
LEMMA Untouched ==
    ASSUME Typed, IInv, NEW r \in Ids, Attempts(r)' = Attempts(r),
           \A b \in Attempts(r) : cmd'[b] = cmd[b] /\ (Due(b)' <=> Due(b)),
           cmd'[r].src = cmd[r].src
    PROVE  /\ PlanOf(r)' = PlanOf(r) /\ Outcome(r)' = Outcome(r)
           /\ Made(r)' = Made(r)
<1>1. PlanOf(r)' = PlanOf(r)
  BY DEF PlanOf, Rule
<1>2. Made(r)' = Made(r)
  BY DEF Made
<1>3. \A b \in Attempts(r) : b \in Ids
  BY DEF Attempts
<1>4. (\E b \in Attempts(r) : cmd[b].fate = "acked")' <=> \E b \in Attempts(r) : cmd[b].fate = "acked"
  OBVIOUS
<1>5. (\E b \in Attempts(r) : cmd[b].fate = "open" \/ Due(b))'
      <=> \E b \in Attempts(r) : cmd[b].fate = "open" \/ Due(b)
  OBVIOUS
<1>6. (\E b \in Attempts(r) : cmd[b].fate = "timeout" /\ (Rule(b) => cmd[b].tries = MaxRetries))'
      <=> \E b \in Attempts(r) : cmd[b].fate = "timeout" /\ (Rule(b) => cmd[b].tries = MaxRetries)
  BY DEF Rule
<1>7. Outcome(r)' = Outcome(r)
  BY <1>4, <1>5, <1>6 DEF Outcome
<1> QED BY <1>1, <1>2, <1>7

Same(r) == PlanOf(r)' = PlanOf(r) /\ Made(r)' = Made(r) /\ Outcome(r)' = Outcome(r)

LEMMA AllSame ==
    ASSUME \A r \in Ids : Same(r), ReportedBar' = ReportedBar
    PROVE  UNCHANGED D!deliveryVars
BY DEF Same, PlanBar, MadeBar, OutcomeBar, D!deliveryVars

LEMMA OneChanges ==
    ASSUME NEW r \in Ids, \A q \in Ids \ {r} : Same(q)
    PROVE  /\ PlanBar' = [PlanBar EXCEPT ![r] = PlanOf(r)']
           /\ MadeBar' = [MadeBar EXCEPT ![r] = Made(r)']
           /\ OutcomeBar' = [OutcomeBar EXCEPT ![r] = Outcome(r)']
           /\ PlanBar[r] = PlanOf(r) /\ MadeBar[r] = Made(r) /\ OutcomeBar[r] = Outcome(r)
BY DEF Same, PlanBar, MadeBar, OutcomeBar

-----------------------------------------------------------------------------
(* The steps of CommandDelivery *)

LEMMA StillStutters == ASSUME Typed, IInv, Still PROVE UNCHANGED D!deliveryVars
<1>1. \A b \in Ids : Due(b)' <=> Due(b)
  BY DEF Still, Due
<1>2. \A r \in Ids : Attempts(r)' = Attempts(r) /\ \A b \in Attempts(r) : b \in Ids
  BY DEF Still, Attempts, Used
<1>3. \A r \in Ids : Same(r)
  BY <1>1, <1>2, Untouched DEF Still, Same
<1>4. ReportedBar' = ReportedBar
  BY DEF Still, ReportedBar
<1> QED BY <1>3, <1>4, AllSame

LEMMA GivenAsks == ASSUME Typed, IInv, FailureInv, Given PROVE \E r \in Ids : D!Ask(r)
<1>1. PICK command \in Command : /\ Issue(command) /\ command.fate = "open"
                                 /\ command.root = issued + 1 /\ command.tries = 0
  BY DEF Given
<1>2. PICK n : n = issued + 1
  OBVIOUS
<1>3. /\ n \in Ids /\ ~Used(n)
      /\ \A c \in Ids : c # n => cmd'[c] = cmd[c]
      /\ cmd'[n] = command
  BY <1>1, <1>2, FreshStep DEF Given
<1>4. \A c \in Ids : c # n => (Used(c)' <=> Used(c))
  BY <1>3 DEF Used
<1>5. \A c \in Ids : Used(c) => cmd[c].root # n
  BY <1>3, RootIsUsed
<1>6. Attempts(n) = {} /\ Attempts(n)' = {n}
  BY <1>1, <1>2, <1>3, <1>4, <1>5 DEF Attempts, Used
<1>7. Outcome(n) = "none"
  BY <1>6 DEF Outcome
<1>8. Made(n)' = {0}
  BY <1>1, <1>3, <1>6 DEF Made
<1>9. PlanOf(n)' \in D!Plans
  BY <1>6 DEF PlanOf, D!Plans
<1>10. Outcome(n)' = "waiting"
  BY <1>1, <1>3, <1>6 DEF Outcome
<1>11. ASSUME NEW q \in Ids \ {n} PROVE Same(q)
  <2>1. Attempts(q)' = Attempts(q)
    BY <1>1, <1>2, <1>3, <1>4 DEF Attempts, Used
  <2>2. \A b \in Attempts(q) : cmd'[b] = cmd[b] /\ (Due(b)' <=> Due(b))
    BY <1>3 DEF Attempts, Due, Given
  <2> QED BY <1>3, <2>1, <2>2, Untouched DEF Same
<1>12. ReportedBar' = ReportedBar
  <2>1. \A b \in failed : b \in Ids /\ Used(b)
    BY DEF FailureInv, Typed, TypeOK
  <2> QED BY <1>3, <2>1 DEF ReportedBar, Given
<1>13. D!Ask(n)
  <2>1. PlanBar' \in {[PlanBar EXCEPT ![n] = p] : p \in D!Plans}
    BY <1>3, <1>9, <1>11, OneChanges
  <2> QED BY <1>3, <1>7, <1>8, <1>10, <1>11, <1>12, <2>1, OneChanges DEF D!Ask
<1> QED BY <1>3, <1>13

(* An attempt is settled: nothing but its fate and the checker changes. *)
LEMMA SettledOthers ==
    ASSUME Typed, IInv, NEW c \in pending, NEW f \in {"acked", "timeout"},
           cmd' = [cmd EXCEPT ![c].fate = f], Unregister(c), UNCHANGED <<issued, oper, failed>>,
           \A b \in Ids \ {c} : Due(b)' <=> Due(b)
    PROVE  /\ c \in Ids /\ cmd[c].fate = "open" /\ cmd'[c].fate = f
           /\ \A b \in Ids \ {c} : cmd'[b] = cmd[b]
           /\ \A b \in Ids : cmd'[b].tries = cmd[b].tries /\ cmd'[b].src = cmd[b].src
           /\ Used(c) /\ cmd[c].root \in Ids /\ Attempts(cmd[c].root) = Chain(c) /\ c \in Chain(c)
           /\ \A r \in Ids : /\ Attempts(r)' = Attempts(r)
                             /\ Made(r)' = Made(r) /\ PlanOf(r)' = PlanOf(r)
           /\ \A r \in Ids \ {cmd[c].root} : Same(r)
           /\ ReportedBar' = ReportedBar
<1>1. /\ c \in Ids /\ cmd[c].fate = "open"
      /\ \A b \in Ids \ {c} : cmd'[b] = cmd[b]
      /\ cmd'[c].fate = f
      /\ \A b \in Ids : /\ cmd'[b].src = cmd[b].src
                        /\ cmd'[b].root = cmd[b].root /\ cmd'[b].tries = cmd[b].tries
      /\ \A b \in Ids : Chain(b)' = Chain(b) /\ (Used(b)' <=> Used(b))
  BY SettledFrame DEF IInv, PendingIsOpen
<1>2. Used(c) /\ cmd[c].root \in Ids /\ Attempts(cmd[c].root) = Chain(c) /\ c \in Chain(c)
  BY <1>1, AttemptsOfChain DEF Used
<1>3. \A r \in Ids : Attempts(r)' = Attempts(r)
  BY <1>1 DEF Attempts
<1>4. \A r \in Ids : Made(r)' = Made(r)
  BY <1>1, <1>3 DEF Made, Attempts
<1>5. \A r \in Ids : PlanOf(r)' = PlanOf(r)
  BY <1>1, <1>3 DEF PlanOf, Rule
<1>6. ASSUME NEW r \in Ids \ {cmd[c].root} PROVE Same(r)
  <2>1. \A b \in Attempts(r) : b \in Ids \ {c}
    BY <1>6 DEF Attempts
  <2> QED BY <1>1, <1>3, <2>1, Untouched DEF Same
<1>7. ReportedBar' = ReportedBar
  BY <1>1 DEF ReportedBar, Typed, TypeOK
<1> QED BY <1>1, <1>2, <1>3, <1>4, <1>5, <1>6, <1>7

LEMMA AnswerAnswers == ASSUME Typed, IInv, ChainInv, Answered PROVE \E r \in Ids : D!Answer(r)
<1>1. PICK c \in pending : cmd' = [cmd EXCEPT ![c].fate = "acked"] /\ Unregister(c)
  BY DEF Answered
<1>2. \A b \in Ids : Due(b)' <=> Due(b)
  BY DEF Answered, Due
<1>3. PICK r : r = cmd[c].root
  OBVIOUS
<1>4. /\ c \in Ids /\ cmd[c].fate = "open" /\ cmd'[c].fate = "acked"
      /\ r \in Ids /\ Attempts(r)' = Attempts(r) /\ Attempts(r) = Chain(c) /\ c \in Chain(c)
      /\ Made(r)' = Made(r) /\ PlanOf(r)' = PlanOf(r)
      /\ \A q \in Ids \ {r} : Same(q)
      /\ ReportedBar' = ReportedBar
  BY <1>1, <1>2, <1>3, SettledOthers DEF Answered
<1>5. Outcome(r) = "waiting"
  BY <1>3, <1>4, OpenWaits
<1>6. Outcome(r)' = "answered"
  BY <1>4 DEF Outcome
<1>7. D!Answer(r)
  <2>1. PlanBar' = PlanBar /\ MadeBar' = MadeBar
    BY <1>4 DEF PlanBar, MadeBar, Same
  <2> QED BY <1>4, <1>5, <1>6, <2>1, OneChanges DEF D!Answer
<1> QED BY <1>4, <1>7

(* The attempts made up to and with the last are all there were to make. *)
LEMMA AllMade ==
    ASSUME Typed, IInv, ChainInv, FailureInv, NEW c \in Ids, Used(c), IsLast(c),
           \A b \in Chain(c) : ~Rule(c) => b = c
    PROVE  Made(cmd[c].root) = PlanOf(cmd[c].root)
<1>1. PICK r \in Ids : /\ r = cmd[c].root /\ Used(r) /\ Attempts(r) = Chain(c) /\ c \in Chain(c)
                       /\ cmd[r].src = cmd[c].src /\ (~Rule(c) => cmd[c].tries = 0)
  BY AttemptsOfChain, RootFacts
<1>2. \A b \in Chain(c) : b \in Ids /\ cmd[b].tries \in 0 .. MaxRetries
  BY CommandTyped DEF Chain, Typed, TypeOK
<1>3. CASE Rule(c)
  <2>1. PlanOf(r) = 0 .. MaxRetries
    BY <1>1, <1>3 DEF PlanOf, Rule
  <2>2. Made(r) \subseteq 0 .. MaxRetries
    BY <1>1, <1>2 DEF Made
  <2>3. ASSUME NEW k \in 0 .. MaxRetries PROVE k \in Made(r)
    <3>1. k = cmd[c].tries \/ k \in 0 .. cmd[c].tries - 1
      BY <1>3, CommandTyped DEF IsLast
    <3>2. \E b \in Chain(c) : cmd[b].tries = k
      BY <1>1, <1>3, <3>1 DEF FailureInv
    <3> QED BY <1>1, <3>2 DEF Made
  <2> QED BY <1>1, <2>1, <2>2, <2>3
<1>4. CASE ~Rule(c)
  BY <1>1, <1>4 DEF PlanOf, Made, Rule
<1> QED BY <1>3, <1>4

LEMMA TakenFails ==
    ASSUME Typed, IInv, ChainInv, FailureInv, Taken
    PROVE  UNCHANGED D!deliveryVars \/ \E r \in Ids : D!Fail(r)
<1>1. PICK c \in pending, others \in SUBSET Ids : Take(c, others)
  BY DEF Taken
<1>2. /\ cmd' = [cmd EXCEPT ![c].fate = "timeout"] /\ Unregister(c)
      /\ UNCHANGED <<issued, oper, failed>>
      /\ checker'.cmd = c /\ checker'.at \in {"retry", "giveup"}
      /\ checker'.at = "giveup" => IsLast(c)
  BY <1>1, TakeFacts
<1>3. checker.at # "retry"
  BY DEF Taken
<1>4. \A b \in Ids \ {c} : Due(b)' <=> Due(b)
  BY <1>2, <1>3 DEF Due
<1>5. PICK r : r = cmd[c].root
  OBVIOUS
<1>6. /\ c \in Ids /\ cmd[c].fate = "open" /\ cmd'[c].fate = "timeout"
      /\ \A b \in Ids \ {c} : cmd'[b] = cmd[b]
      /\ \A b \in Ids : cmd'[b].tries = cmd[b].tries /\ cmd'[b].src = cmd[b].src
      /\ Used(c) /\ r \in Ids /\ Attempts(r)' = Attempts(r) /\ Attempts(r) = Chain(c) /\ c \in Chain(c)
      /\ Made(r)' = Made(r) /\ PlanOf(r)' = PlanOf(r)
      /\ \A q \in Ids \ {r} : Same(q)
      /\ ReportedBar' = ReportedBar
  BY <1>2, <1>4, <1>5, SettledOthers
<1>7. /\ Outcome(r) = "waiting"
      /\ \A b \in Chain(c) : /\ b \in Ids /\ cmd[b].fate # "acked"
                             /\ cmd[b].fate = "open" \/ Due(b) => b = c
  BY <1>5, <1>6, OpenWaits DEF Chain
<1>8. ~ \E b \in Attempts(r)' : cmd'[b].fate = "acked"
  BY <1>6, <1>7
<1>9. CASE checker'.at = "retry"
  <2>1. Due(c)'
    BY <1>2, <1>9 DEF Due
  <2>2. Outcome(r)' = "waiting"
    BY <1>6, <1>8, <2>1 DEF Outcome
  <2> QED BY <1>6, <1>7, <2>2, AllSame DEF Same
<1>10. CASE checker'.at = "giveup"
  <2>1. ~ \E b \in Attempts(r)' : cmd'[b].fate = "open" \/ Due(b)'
    BY <1>6, <1>7, <1>10 DEF Due
  <2>2. IsLast(c)'
    BY <1>2, <1>6, <1>10 DEF IsLast, Rule
  <2>3. Outcome(r)' = "failed"
    BY <1>6, <1>8, <2>1, <2>2 DEF Outcome, IsLast
  <2>4. Made(r) = PlanOf(r)
    <3>1. \A b \in Chain(c) : ~Rule(c) => b = c
      BY <1>6, ChainOfOne
    <3> QED BY <1>2, <1>5, <1>6, <1>10, <3>1, AllMade
  <2>5. D!Fail(r)
    <3>1. PlanBar' = PlanBar /\ MadeBar' = MadeBar
      BY <1>6 DEF PlanBar, MadeBar, Same
    <3> QED BY <1>6, <1>7, <2>3, <2>4, <3>1, OneChanges DEF D!Fail
  <2> QED BY <1>6, <2>5
<1> QED BY <1>2, <1>9, <1>10

LEMMA RetryRepeats ==
    ASSUME Typed, IInv, ChainInv, FailureInv, CheckerRetry
    PROVE  \E r \in Ids : D!Repeat(r)
<1>1. PICK h, n \in Ids :
             /\ h = checker.cmd /\ checker.at = "retry" /\ checker'.at = "republish" /\ failed' = failed
             /\ Used(h) /\ Rule(h) /\ cmd[h].fate = "timeout" /\ cmd[h].tries < MaxRetries
             /\ \A b \in Chain(h) : b <= h /\ cmd[b].fate # "acked"
             /\ ~Used(n) /\ \A c \in Ids : Used(c) => c < n
             /\ \A c \in Ids : c # n => cmd'[c] = cmd[c]
             /\ cmd'[n].root = cmd[h].root /\ cmd'[n].src = "rule" /\ cmd'[n].fate = "open"
             /\ cmd'[n].tries = cmd[h].tries + 1
  BY RetryGives
<1>2. PICK r \in Ids : /\ r = cmd[h].root /\ Used(r) /\ Attempts(r) = Chain(h) /\ h \in Chain(h)
                       /\ cmd[r].src = "rule" /\ r # n
  BY <1>1, AttemptsOfChain, RootFacts DEF Rule
<1>3. \A c \in Ids : c # n => (Used(c)' <=> Used(c))
  BY <1>1 DEF Used
<1>4. Attempts(r)' = Attempts(r) \union {n}
  BY <1>1, <1>2, <1>3 DEF Attempts, Used
<1>5. \A b \in Attempts(r) : b \in Ids /\ b # n
  BY <1>1 DEF Attempts
<1>6. ASSUME NEW q \in Ids \ {r} PROVE Same(q)
  <2>1. Attempts(q)' = Attempts(q)
    BY <1>1, <1>2, <1>3 DEF Attempts
  <2>2. \A b \in Attempts(q) : b \in Ids /\ b # n /\ b # h
    BY <1>1, <1>2 DEF Attempts
  <2>3. \A b \in Attempts(q) : cmd'[b] = cmd[b] /\ (Due(b)' <=> Due(b))
    BY <1>1, <2>2 DEF Due
  <2>4. CASE q # n
    BY <1>1, <2>1, <2>3, <2>4, Untouched DEF Same
  <2>5. CASE q = n
    <3>1. Attempts(q) = {}
      BY <1>1, <2>5, RootIsUsed DEF Attempts
    <3> QED BY <2>1, <3>1 DEF Same, PlanOf, Made, Outcome
  <2> QED BY <2>4, <2>5
<1>7. Outcome(r) = "waiting"
  BY <1>1, <1>2, OpenWaits DEF Due
<1>8. Outcome(r)' = "waiting"
  <2>1. ~ \E b \in Attempts(r)' : cmd'[b].fate = "acked"
    BY <1>1, <1>2, <1>4, <1>5
  <2> QED BY <1>1, <1>4, <2>1 DEF Outcome
<1>9. PlanOf(r) = 0 .. MaxRetries /\ PlanOf(r)' = PlanOf(r)
  BY <1>1, <1>2, <1>4 DEF PlanOf, Rule
<1>10. PICK k : k = cmd[h].tries + 1
  OBVIOUS
<1>11. k \in 0 .. MaxRetries /\ k - 1 = cmd[h].tries /\ cmd[h].tries \in Nat
  <2>1. cmd[h].tries \in Nat /\ MaxRetries \in Nat /\ cmd[h].tries < MaxRetries
    <3>1. cmd[h] \in Command
      BY DEF Typed, TypeOK
    <3> QED BY <1>1, <3>1, CommandTyped
  <2> QED BY <1>10, <2>1
<1>12. 0 .. k - 1 \subseteq Made(r)
  <2> SUFFICES ASSUME NEW i \in 0 .. k - 1 PROVE i \in Made(r)
    OBVIOUS
  <2>1. i = cmd[h].tries \/ i \in 0 .. cmd[h].tries - 1
    BY <1>11
  <2>2. \E b \in Chain(h) : cmd[b].tries = i
    BY <1>1, <1>2, <2>1 DEF FailureInv
  <2> QED BY <1>2, <2>2 DEF Made
<1>13. Made(r)' = Made(r) \union {k}
  BY <1>1, <1>4, <1>5, <1>10 DEF Made
<1>14. ReportedBar' = ReportedBar
  <2>1. \A b \in failed : b \in Ids /\ b # n
    BY <1>1 DEF FailureInv, Typed, TypeOK
  <2> QED BY <1>1, <2>1 DEF ReportedBar
<1>15. D!Repeat(r)
  <2>1. PlanBar' = PlanBar /\ OutcomeBar' = OutcomeBar
    BY <1>6, <1>7, <1>8, <1>9 DEF PlanBar, OutcomeBar, Same
  <2>2. MadeBar' = [MadeBar EXCEPT ![r] = @ \union {k}]
    BY <1>6, <1>13, OneChanges
  <2>3. PlanBar[r] = PlanOf(r) /\ MadeBar[r] = Made(r) /\ OutcomeBar[r] = Outcome(r)
    BY <1>6, OneChanges
  <2> QED BY <1>7, <1>9, <1>11, <1>12, <1>14, <2>1, <2>2, <2>3 DEF D!Repeat
<1> QED BY <1>15

LEMMA RaiseReports ==
    ASSUME Typed, IInv, ChainInv, FailureInv, CheckerRaise
    PROVE  \E r \in Ids : D!ReportFailure(r)
<1>1. PICK c \in Ids : /\ c = checker.cmd /\ Used(c) /\ IsLast(c) /\ cmd[c].fate = "timeout"
                       /\ failed' = failed \union {c}
  BY DEF CheckerRaise, Typed, HandlesOK, ChainInv, FailureInv
<1>2. PICK r \in Ids : r = cmd[c].root /\ Attempts(r) = Chain(c) /\ c \in Chain(c)
  BY <1>1, AttemptsOfChain
<1>3. cmd' = cmd /\ \A b \in Ids : ~Due(b) /\ ~Due(b)'
  BY DEF CheckerRaise, Due, Typed, TypeOK, CheckerStates
<1>4. \A b \in Chain(c) : b \in Ids /\ b <= c /\ c \in Chain(b)
  BY <1>1 DEF ChainInv, Chain
<1>5. ASSUME NEW b \in Chain(c), cmd[b].fate = "acked" \/ cmd[b].fate = "open" PROVE FALSE
  <2>1. c <= b
    BY <1>4, <1>5, OpenWaits DEF IInv, AckEndsRetries
  <2>2. b = c
    <3>1. b \in Nat /\ c \in Nat /\ b <= c
      BY <1>1, <1>4, ConstantFacts
    <3> QED BY <2>1, <3>1
  <2> QED BY <1>1, <1>5, <2>2
<1>6. Outcome(r) = "failed"
  BY <1>1, <1>2, <1>3, <1>4, <1>5 DEF Outcome, IsLast
<1>7. ASSUME NEW q \in Ids PROVE Same(q)
  <2>1. Attempts(q)' = Attempts(q) /\ \A b \in Attempts(q) : b \in Ids
    BY <1>3 DEF Attempts, Used
  <2> QED BY <1>3, <2>1, Untouched DEF Same
<1>8. ReportedBar' = ReportedBar \union {r}
  BY <1>1, <1>2, <1>3 DEF ReportedBar
<1>9. D!ReportFailure(r)
  <2>1. PlanBar' = PlanBar /\ MadeBar' = MadeBar /\ OutcomeBar' = OutcomeBar
    BY <1>7 DEF Same, PlanBar, MadeBar, OutcomeBar
  <2>2. OutcomeBar[r] = "failed"
    BY <1>6, <1>7, OneChanges
  <2> QED BY <1>8, <2>1, <2>2 DEF D!ReportFailure
<1> QED BY <1>9

LEMMA CrashForgets == ASSUME Typed, IInv, ChainInv, Crash PROVE D!Forget
<1>1. ASSUME NEW r \in Ids
      PROVE  /\ PlanOf(r)' = PlanOf(r) /\ Made(r)' = Made(r)
             /\ Outcome(r)' = IF Outcome(r) = "waiting" THEN "forgotten" ELSE Outcome(r)
  <2>1. /\ Attempts(r)' = Attempts(r)
        /\ \A b \in Attempts(r) : b \in Ids /\ Used(b) /\ Attempts(r) = Chain(b)
    BY CrashFacts DEF Attempts, Chain
  <2>2. PlanOf(r)' = PlanOf(r) /\ Made(r)' = Made(r)
    BY <2>1, CrashFacts DEF PlanOf, Made
  <2>3. \A b \in Attempts(r) : /\ ~Due(b)' /\ cmd'[b].fate # "open"
                               /\ cmd'[b].fate = "acked" <=> cmd[b].fate = "acked"
                               /\ cmd'[b].fate = "timeout" <=> cmd[b].fate = "timeout"
                               /\ IsLast(b)' <=> IsLast(b)
    <3>1. \A b \in Ids : cmd[b].fate = "open" \/ cmd[b].fate # "open"
      OBVIOUS
    <3> QED BY <2>1, <3>1, CrashFacts DEF Due
  <2>4. ASSUME NEW b \in Attempts(r), cmd[b].fate = "open" \/ Due(b),
               NEW a \in Attempts(r), cmd[a].fate = "timeout", IsLast(a)
        PROVE  FALSE
    <3>1. a \in Ids /\ b \in Ids /\ Used(a) /\ a \in Chain(b) /\ b \in Chain(a)
      BY <2>1
    <3>2. a <= b /\ b <= a
      BY <2>4, <3>1, OpenWaits DEF ChainInv
    <3>3. a = b
      BY <3>1, <3>2, ConstantFacts
    <3>4. Due(a) /\ Rule(a) /\ cmd[a].tries < MaxRetries
      BY <2>4, <3>3 DEF Due, IInv, RetryIsDue
    <3>5. cmd[a].tries \in Nat /\ MaxRetries \in Nat
      <4>1. cmd[a] \in Command
        BY <3>1 DEF Typed, TypeOK
      <4> QED BY <4>1, CommandTyped
    <3> QED BY <2>4, <3>4, <3>5 DEF IsLast
  <2>5. Outcome(r)' = IF Outcome(r) = "waiting" THEN "forgotten" ELSE Outcome(r)
    <3>1. CASE Attempts(r) = {} \/ \E b \in Attempts(r) : cmd[b].fate = "acked"
      BY <2>1, <2>3, <3>1 DEF Outcome
    <3>2. CASE /\ Attempts(r) # {} /\ ~ \E b \in Attempts(r) : cmd[b].fate = "acked"
               /\ \E b \in Attempts(r) : cmd[b].fate = "open" \/ Due(b)
      <4>1. Outcome(r) = "waiting"
        BY <3>2 DEF Outcome
      <4>2. Outcome(r)' = "forgotten"
        BY <2>1, <2>3, <2>4, <3>2 DEF Outcome, IsLast
      <4> QED BY <4>1, <4>2
    <3>3. CASE /\ Attempts(r) # {} /\ ~ \E b \in Attempts(r) : cmd[b].fate = "acked"
               /\ ~ \E b \in Attempts(r) : cmd[b].fate = "open" \/ Due(b)
      <4>1. Outcome(r)' = Outcome(r)
        BY <2>1, <2>3, <3>3 DEF Outcome, IsLast
      <4>2. Outcome(r) # "waiting"
        BY <3>3 DEF Outcome
      <4> QED BY <4>1, <4>2
    <3> QED BY <3>1, <3>2, <3>3
  <2> QED BY <2>2, <2>5
<1>2. ReportedBar' = ReportedBar
  BY CrashFacts DEF ReportedBar, Typed, TypeOK
<1> QED BY <1>1, <1>2 DEF D!Forget, PlanBar, MadeBar, OutcomeBar

-----------------------------------------------------------------------------
LEMMA InitIsNothing == Init => D!Nothing
<1> SUFFICES ASSUME Init PROVE D!Nothing
  OBVIOUS
<1>1. \A r \in Ids : Attempts(r) = {}
  BY DEF Init, Attempts, Used, Unused
<1>2. \A r \in Ids : PlanOf(r) = {} /\ Made(r) = {} /\ Outcome(r) = "none"
  BY <1>1 DEF PlanOf, Made, Outcome
<1> QED BY <1>2 DEF Init, D!Nothing, PlanBar, MadeBar, OutcomeBar, ReportedBar

LEMMA StepAdvances ==
    Typed /\ IInv /\ ChainInv /\ FailureInv /\ [Next]_vars => [D!Advance]_(D!deliveryVars)
<1> SUFFICES ASSUME Typed, IInv, ChainInv, FailureInv, Kinds PROVE [D!Advance]_(D!deliveryVars)
  BY StepKinds
<1>1. CASE Still
  BY <1>1, StillStutters
<1>2. CASE Given
  BY <1>2, GivenAsks DEF D!Advance
<1>3. CASE Answered
  BY <1>3, AnswerAnswers DEF D!Advance
<1>4. CASE Taken
  BY <1>4, TakenFails DEF D!Advance
<1>5. CASE CheckerRetry
  BY <1>5, RetryRepeats DEF D!Advance
<1>6. CASE CheckerRaise
  BY <1>6, RaiseReports DEF D!Advance
<1>7. CASE Crash
  BY <1>7, CrashForgets DEF D!Advance
<1> QED BY <1>1, <1>2, <1>3, <1>4, <1>5, <1>6, <1>7 DEF Kinds

LEMMA FailureInvAlways == Spec => []FailureInv
BY TypedAlways, IInvAlways, FailureInit, FailureNext, PTL DEF Spec

(* The command path implements CommandDelivery: whatever the devices, the  *)
(* broker, Redis and the operators do, send(), the ACK listener, the       *)
(* timeout checker and the HTTP threads together attempt a command again   *)
(* only while it is unanswered, in turn, and end it once.                  *)
THEOREM ImplementsDelivery == Spec => DeliversAsPromised
<1>1. Init => D!Nothing
  BY InitIsNothing
<1>2. Typed /\ IInv /\ ChainInv /\ FailureInv /\ [Next]_vars => [D!Advance]_(D!deliveryVars)
  BY StepAdvances
<1> QED BY <1>1, <1>2, TypedAlways, IInvAlways, ChainAlways, FailureInvAlways, PTL
        DEF Spec, DeliversAsPromised, D!Delivery

-----------------------------------------------------------------------------
(* The verification tasks leave the command path alone *)

Results == {"VERIFIED", "UNVERIFIED"}

(* What a verification step does to the tasks and to the entries. *)
Verifies(v) ==
    /\ UNCHANGED rest
    /\ \/ verifying' = verifying \ {v}
       \/ \E t \in Tasks : t.cmd = v.cmd /\ (v.at = "alert" => t.at = "alert")
                           /\ verifying' = (verifying \ {v}) \union {t}
                           /\ (writes' # writes => t.at = "alert")
    /\ \/ UNCHANGED writes
       \/ /\ v.at # "alert"
          /\ \E kind \in Results : Record(v.cmd, kind)

LEMMA VerifyKinds ==
    ASSUME Typed, NEW v \in verifying, VerifyStep(v)
    PROVE  Verifies(v)
<1>1. v \in Tasks
  BY DEF Typed, TypeOK
<1>2. \A at \in {"sleep", "good", "bad", "alert"} :
        [v EXCEPT !.at = at] \in Tasks /\ [v EXCEPT !.at = at].cmd = v.cmd
                                       /\ [v EXCEPT !.at = at].at = at
  BY <1>1 DEF Tasks
<1>3. ASSUME NEW found \in BOOLEAN, VerifyLookup(v, found) PROVE Verifies(v)
  BY <1>2, <1>3 DEF VerifyLookup, Verifies, Finish, Move
<1>4. ASSUME NEW at \in {"good", "bad"}, VerifyRead(v, at) PROVE Verifies(v)
  BY <1>2, <1>4 DEF VerifyRead, Verifies, Move
<1>5. CASE VerifyAbandon(v)
  BY <1>5 DEF VerifyAbandon, Verifies, Finish
<1>6. CASE VerifyGood(v)
  BY <1>6 DEF VerifyGood, Verifies, Finish, Results
<1>7. CASE VerifyBad(v)
  BY <1>2, <1>7 DEF VerifyBad, Verifies, Finish, Move, Results
<1>8. CASE VerifyAlert(v)
  BY <1>8 DEF VerifyAlert, Verifies, Finish
<1> QED BY <1>3, <1>4, <1>5, <1>6, <1>7, <1>8 DEF VerifyStep

LEMMA TypedVerify == ASSUME Typed, NEW v \in verifying, Verifies(v) PROVE Typed'
<1>1. v.cmd \in Ids /\ verifying' \subseteq Tasks
  BY DEF Typed, TypeOK, Tasks, Verifies
<1>2. writes' \in [Ids -> Seq(WriteKinds)]
  BY <1>1, RecordTyped DEF Typed, TypeOK, Verifies, Results, WriteKinds
<1> QED BY <1>1, <1>2 DEF Verifies, rest, shared, network, Typed, TypeOK, HandlesOK, RetryLeft

LEMMA IInvVerify == ASSUME IInv, UNCHANGED rest PROVE IInv'
BY DEF rest, shared, IInv, IdsInOrder, PendingIsOpen, PendingIsLatest, RetryIsDue, OperatorInHand,
       AtMostTwoLiveAttempts, AckEndsRetries, LiveAttempts, Chain, Used, Rule

LEMMA VerdictVerify ==
    ASSUME Typed, VerdictInv, NEW v \in verifying, Verifies(v)
    PROVE  VerdictInv'
<1>1. CASE UNCHANGED writes
  BY <1>1, VerdictFrame DEF Verifies, rest
<1>2. ASSUME NEW kind \in Results, Record(v.cmd, kind) PROVE VerdictInv'
  <2>1. v.cmd \in Ids /\ kind \in WriteKinds /\ kind \notin Verdicts
    BY DEF Typed, TypeOK, Tasks, Results, WriteKinds, Verdicts
  <2> QED BY <1>2, <2>1, VerdictRecord DEF Verifies, rest
<1> QED BY <1>1, <1>2 DEF Verifies

LEMMA FailureVerify == ASSUME FailureInv, UNCHANGED rest PROVE FailureInv'
BY DEF rest, FailureInv, Chain, Used, Rule

LEMMA ChainVerify == ASSUME ChainInv, UNCHANGED rest PROVE ChainInv'
BY DEF rest, ChainInv, IsLast, Chain, Used, Rule

(* The invariants of the command path. *)
PathInv == Typed /\ IInv /\ VerdictInv /\ FailureInv /\ ChainInv

LEMMA PathInit == InitLoop => PathInv
BY TypedInit, IInvInit, VerdictInit, FailureInit, ChainInit DEF InitLoop, PathInv

LEMMA PathNext == PathInv /\ [NextLoop]_loopVars => PathInv'
<1> SUFFICES ASSUME PathInv, [NextLoop]_loopVars PROVE PathInv'
  OBVIOUS
<1>1. CASE [Next]_vars
  BY <1>1, TypedNext, IInvNext, VerdictNext, FailureNext, ChainNext DEF PathInv
<1>2. ASSUME NEW v \in verifying, VerifyStep(v) PROVE PathInv'
  <2>1. Verifies(v)
    BY <1>2, VerifyKinds DEF PathInv
  <2> QED BY <2>1, TypedVerify, IInvVerify, VerdictVerify, FailureVerify, ChainVerify DEF Verifies, PathInv
<1> QED BY <1>1, <1>2 DEF NextLoop, NoticeExpire, loopVars

-----------------------------------------------------------------------------
(* Entries *)

LEMMA Recorded ==
    ASSUME Typed, NEW c \in Ids, NEW kind, Record(c, kind)
    PROVE  /\ \A b \in Ids \ {c} : writes'[b] = writes[b]
           /\ Len(writes[c]) \in Nat /\ Len(writes'[c]) = Len(writes[c]) + 1
           /\ DOMAIN writes[c] = 1 .. Len(writes[c])
           /\ DOMAIN writes'[c] = 1 .. (Len(writes[c]) + 1)
           /\ \A i \in 1 .. Len(writes[c]) : writes'[c][i] = writes[c][i]
           /\ writes'[c][Len(writes[c]) + 1] = kind
<1>1. PICK s \in Seq(WriteKinds) : s = writes[c]
  BY DEF Typed, TypeOK
<1>2. writes'[c] = Append(s, kind) /\ \A b \in Ids \ {c} : writes'[b] = writes[b]
  BY <1>1 DEF Record, Typed, TypeOK
<1>3. /\ Len(s) \in Nat /\ DOMAIN s = 1 .. Len(s)
      /\ Len(Append(s, kind)) = Len(s) + 1
      /\ DOMAIN Append(s, kind) = 1 .. (Len(s) + 1)
      /\ \A i \in 1 .. Len(s) : Append(s, kind)[i] = s[i]
      /\ Append(s, kind)[Len(s) + 1] = kind
  OBVIOUS
<1> QED BY <1>1, <1>2, <1>3

(* An entry about c adds its kind to what there is about c. *)
LEMMA RecordedNone ==
    ASSUME Typed, NEW c \in Ids, NEW kind, Record(c, kind), NEW b \in Ids, NEW kinds
    PROVE  None(b, kinds)' <=> None(b, kinds) /\ (b = c => kind \notin kinds)
<1>1. CASE b # c
  BY <1>1, Recorded DEF None
<1>2. CASE b = c
  <2>1. \A i \in 1 .. (Len(writes[c]) + 1) : i \in 1 .. Len(writes[c]) \/ i = Len(writes[c]) + 1
    BY Recorded
  <2>2. Len(writes[c]) + 1 \in 1 .. (Len(writes[c]) + 1)
        /\ \A i \in 1 .. Len(writes[c]) : i \in 1 .. (Len(writes[c]) + 1)
    BY Recorded
  <2> QED BY <1>2, <2>1, <2>2, Recorded DEF None
<1> QED BY <1>1, <1>2

(* What the steps of the command path do to the entries and to the tasks. *)
AckedStay == \A c \in Ids : /\ cmd[c].fate = "acked" => cmd'[c].fate = "acked"
                            /\ Used(c) => Used(c)'

(* The id the loop is about to publish or to insert. *)
LoopHolds ==
    loop'.at \in {"publish", "insert"} =>
        \/ loop.at \in {"publish", "insert"} /\ loop'.cmd = loop.cmd
        \/ \E n \in Ids : n = loop'.cmd /\ ~Used(n) /\ Used(n)'

Silent == UNCHANGED writes /\ verifying' \subseteq verifying /\ LoopHolds

OperatorAsks ==
    /\ UNCHANGED <<verifying, loop>>
    /\ \E n \in Ids : ~Used(n) /\ Used(n)' /\ Record(n, "PENDING")

TimesOut ==
    /\ UNCHANGED <<verifying, loop>>
    /\ \E c \in Ids : Record(c, "TIMEOUT")

EntryKinds == Silent \/ LoopInsert \/ OperatorAsks \/ AckRecord \/ TimesOut

LEMMA FatesKept ==
    ASSUME Typed, IInv, NEW c \in Ids, NEW f \in Fates \ {"unused"}, cmd[c].fate # "acked" \/ f = "acked",
           cmd' = [cmd EXCEPT ![c].fate = f]
    PROVE  AckedStay
<1>1. cmd' \in [Ids -> Command] /\ \A b \in Ids \ {c} : cmd'[b] = cmd[b]
  BY FateTyped DEF Typed, TypeOK
<1>2. cmd'[c].fate = f
  BY DEF Typed, TypeOK, Command
<1> QED BY <1>1, <1>2 DEF AckedStay, Used, Fates

LEMMA KeptWhenGiven ==
    ASSUME Typed, IInv, NEW command \in Command, NEW n, n = issued + 1, command.fate = "open",
           command.root \in 1 .. n, Issue(command)
    PROVE  AckedStay /\ n \in Ids /\ ~Used(n) /\ Used(n)'
<1>1. /\ n \in Ids /\ ~Used(n)
      /\ \A c \in Ids : c # n => cmd'[c] = cmd[c]
      /\ cmd'[n] = command
  BY IssueFresh DEF IInv
<1>2. cmd[n].fate = "unused" /\ cmd'[n].fate = "open"
  BY <1>1 DEF Used
<1> QED BY <1>1, <1>2 DEF AckedStay, Used

LEMMA AckedKept == ASSUME Typed, IInv, [Next]_vars PROVE AckedStay
<1>1. Kinds
  BY StepKinds
<1>2. CASE Still \/ CheckerRaise
  BY <1>2 DEF Still, CheckerRaise, AckedStay, Used
<1>3. CASE Given
  <2>1. PICK command \in Command : /\ Issue(command)
                                   /\ command.fate = "open" /\ command.root = issued + 1
    BY <1>3 DEF Given
  <2>2. command.root \in 1 .. (issued + 1)
    BY <2>1 DEF Typed, TypeOK
  <2> QED BY <2>1, <2>2, KeptWhenGiven
<1>4. ASSUME NEW c \in pending, cmd' = [cmd EXCEPT ![c].fate = "acked"] PROVE AckedStay
  BY <1>4, FatesKept DEF Typed, TypeOK, Fates
<1>5. ASSUME NEW c \in pending, cmd' = [cmd EXCEPT ![c].fate = "timeout"] PROVE AckedStay
  <2>1. c \in Ids /\ cmd[c].fate # "acked"
    BY DEF IInv, PendingIsOpen, Typed, TypeOK
  <2> QED BY <1>5, <2>1, FatesKept DEF Fates
<1>6. CASE CheckerRetry
  <2>1. PICK n \in Ids : /\ ~Used(n) /\ cmd'[n].fate = "open"
                         /\ \A c \in Ids : c # n => cmd'[c] = cmd[c]
    BY <1>6, RetryGives
  <2> QED BY <2>1 DEF AckedStay, Used
<1>7. CASE Crash
  <2>1. \A c \in Ids : cmd[c] \in Command
    BY DEF Typed, TypeOK
  <2> QED BY <1>7, <2>1 DEF Crash, AckedStay, Used, Command
<1> QED BY <1>1, <1>2, <1>3, <1>4, <1>5, <1>6, <1>7 DEF Kinds, Answered, Taken, Take

LEMMA LoopEntries == ASSUME Typed, IInv, LoopStep PROVE EntryKinds
<1>1. CASE LoopInsert
  BY <1>1 DEF EntryKinds
<1>2. ASSUME NEW d \in Devices, NEW g \in Goals, LoopSend(d, g) PROVE Silent
  <2>1. PICK n : n = issued + 1
    OBVIOUS
  <2>2. PICK command : command = NewRuleCommand(d, g, n)
    OBVIOUS
  <2>3. n \in Ids /\ n \in 1 .. n
    BY <1>2, <2>1, ConstantFacts DEF LoopSend, Issue, Typed, TypeOK
  <2>4. command \in Command /\ command.fate = "open" /\ command.root \in 1 .. n
    BY <2>2, <2>3, BoundsAssumption DEF NewRuleCommand, Command, Fates, Handle
  <2>5. ~Used(n) /\ Used(n)'
    BY <1>2, <2>1, <2>2, <2>4, KeptWhenGiven DEF LoopSend
  <2>6. loop'.cmd = n
    BY <1>2, <2>1 DEF LoopSend
  <2> QED BY <1>2, <2>3, <2>5, <2>6 DEF LoopSend, Silent, LoopHolds, store
<1>3. ASSUME NEW S \in SUBSET Devices, LoopBegin(S) PROVE Silent
  BY <1>3 DEF LoopBegin, Silent, LoopHolds, store
<1>4. ASSUME NEW d \in Devices, LoopSkip(d) PROVE Silent
  BY <1>4 DEF LoopSkip, Silent, LoopHolds, store, Typed, TypeOK, LoopStates
<1>5. ASSUME NEW ok \in BOOLEAN, LoopPublish(ok) PROVE Silent
  BY <1>5 DEF LoopPublish, Silent, LoopHolds, IdleLoop, Typed, TypeOK, LoopStates
<1>6. CASE LoopCooldown
  <2>1. loop'.at = "batch"
    BY <1>6 DEF LoopCooldown, Typed, TypeOK, LoopStates
  <2> QED BY <1>6, <2>1 DEF LoopCooldown, EntryKinds, Silent, LoopHolds, store
<1>7. CASE LoopFails \/ LoopEnd
  BY <1>7 DEF LoopFails, LoopEnd, EntryKinds, Silent, LoopHolds, IdleLoop, store
<1> QED BY <1>1, <1>2, <1>3, <1>4, <1>5, <1>6, <1>7 DEF LoopStep, EntryKinds

LEMMA CheckerEntries == ASSUME Typed, IInv, CheckerStep PROVE EntryKinds
<1>1. CASE CheckerRecord \/ CheckerGiveUp
  <2>1. checker.cmd \in Ids
    BY <1>1 DEF CheckerRecord, CheckerGiveUp, Typed, HandlesOK
  <2> QED BY <1>1, <2>1 DEF CheckerRecord, CheckerGiveUp, TimesOut, EntryKinds
<1>2. ASSUME ~CheckerRecord, ~CheckerGiveUp PROVE UNCHANGED <<writes, verifying, loop>>
  BY <1>2 DEF CheckerStep, CheckerScan, CheckerTake, Take, CheckerKeyError, CheckerEndPass, CheckerRetry,
              CheckerRepublish, CheckerRetryFails, CheckerAlert, CheckerRaise, CheckerFails, store
<1> QED BY <1>1, <1>2 DEF EntryKinds, Silent, LoopHolds

LEMMA AckEntries == ASSUME Typed, IInv, AckStep PROVE EntryKinds
<1>1. ASSUME ~AckRecord PROVE UNCHANGED <<writes, verifying, loop>>
  BY <1>1 DEF AckStep, AckIgnore, AckReceive, AckRecordFails, tasks, store
<1> QED BY <1>1 DEF EntryKinds, Silent, LoopHolds

LEMMA OperatorEntries == ASSUME Typed, IInv, NEW o \in Operators, OperatorStep(o) PROVE EntryKinds
<1>1. ASSUME NEW d \in Devices, NEW g \in Goals, NEW ok \in BOOLEAN, OperatorInsert(o, d, g, ok)
      PROVE  EntryKinds
  <2>1. PICK n : n = issued + 1
    OBVIOUS
  <2>2. PICK command : command = NewOperatorCommand(d, g, n)
    OBVIOUS
  <2>3. n \in Ids /\ n \in 1 .. n
    BY <1>1, <2>1, ConstantFacts DEF OperatorInsert, Issue, Typed, TypeOK
  <2>4. command \in Command /\ command.fate = "open" /\ command.root \in 1 .. n
    BY <2>2, <2>3, BoundsAssumption DEF NewOperatorCommand, Command, Fates, Handle
  <2>5. ~Used(n) /\ Used(n)'
    BY <1>1, <2>1, <2>2, <2>4, KeptWhenGiven DEF OperatorInsert
  <2>6. UNCHANGED <<verifying, loop>> /\ (UNCHANGED writes \/ Record(n, "PENDING"))
    BY <1>1, <2>1 DEF OperatorInsert
  <2> QED BY <2>3, <2>5, <2>6 DEF EntryKinds, Silent, OperatorAsks, LoopHolds
<1>2. CASE OperatorBreaksLoop(o)
  BY <1>2 DEF OperatorBreaksLoop, RegisterOperatorCommand, EntryKinds, Silent, LoopHolds, IdleLoop, store
<1>3. ASSUME ~OperatorBreaksLoop(o), ~ \E d \in Devices, g \in Goals, ok \in BOOLEAN : OperatorInsert(o, d, g, ok)
      PROVE  UNCHANGED <<writes, verifying, loop>>
  BY <1>3 DEF OperatorStep, OperatorPublish, OperatorPublishFails, OperatorRegister, OperatorBreaksChecker,
              RegisterOperatorCommand, OperatorCooldown, OperatorSetDesired, store
<1> QED BY <1>1, <1>2, <1>3 DEF EntryKinds, Silent, LoopHolds

LEMMA StepEntries == ASSUME Typed, IInv, [Next]_vars PROVE EntryKinds
<1>1. CASE Crash
  BY <1>1 DEF Crash, EntryKinds, Silent, LoopHolds, IdleLoop, store
<1>2. CASE Environment /\ ~Crash
  BY <1>2 DEF Environment, DeviceAnswer, CooldownExpire, AlertExpire, EntryKinds, Silent, LoopHolds, tasks, store
<1>3. CASE UNCHANGED vars
  BY <1>3 DEF vars, tasks, store, EntryKinds, Silent, LoopHolds
<1> QED BY <1>1, <1>2, <1>3, LoopEntries, CheckerEntries, AckEntries, OperatorEntries DEF Next

-----------------------------------------------------------------------------
(* Verification happens once, after the answer *)

LEMMA AskedRecord ==
    ASSUME Typed, AskedOnce, AckedStay, NEW c \in Ids, NEW kind, Record(c, kind),
           kind = "PENDING" => None(c, {"PENDING"}) /\ Used(c)',
           loop'.at \in {"publish", "insert"} =>
               loop.at \in {"publish", "insert"} /\ loop'.cmd = loop.cmd /\ (kind = "PENDING" => loop.cmd # c)
    PROVE  AskedOnce'
<1>1. ASSUME NEW b \in Ids, NEW i \in DOMAIN writes'[b], NEW j \in DOMAIN writes'[b],
             writes'[b][i] = "PENDING", writes'[b][j] = "PENDING"
      PROVE  i = j
  <2>1. CASE b # c
    BY <1>1, <2>1, Recorded DEF AskedOnce
  <2>2. CASE b = c
    <3>1. i \in 1 .. Len(writes[c]) \/ i = Len(writes[c]) + 1
      BY <1>1, <2>2, Recorded
    <3>2. j \in 1 .. Len(writes[c]) \/ j = Len(writes[c]) + 1
      BY <1>1, <2>2, Recorded
    <3> QED BY <1>1, <2>2, <3>1, <3>2, Recorded DEF AskedOnce, None
  <2> QED BY <2>1, <2>2
<1>2. ASSUME NEW b \in Ids, ~Used(b)' PROVE None(b, {"PENDING"})'
  <2>1. ~Used(b) /\ None(b, {"PENDING"}) /\ (b = c => kind # "PENDING")
    BY <1>2 DEF AskedOnce, AckedStay
  <2> QED BY <2>1, RecordedNone
<1>3. ASSUME loop'.at \in {"publish", "insert"} PROVE (Used(loop.cmd) /\ None(loop.cmd, {"PENDING"}))'
  <2>1. PICK b \in Ids : b = loop.cmd /\ b = loop'.cmd
    BY <1>3 DEF Typed, HandlesOK
  <2>2. Used(b) /\ None(b, {"PENDING"}) /\ (b = c => kind # "PENDING")
    BY <1>3, <2>1 DEF AskedOnce
  <2>3. Used(b)' /\ None(b, {"PENDING"})'
    BY <2>2, RecordedNone DEF AckedStay
  <2> QED BY <2>1, <2>3 DEF Used, None
<1> QED BY <1>1, <1>2, <1>3 DEF AskedOnce

(* The last part of VerifiedOnceWhenAccepted, for one command. *)
ResultOnce(c) ==
    \A j \in DOMAIN writes[c] : Result(c, j) =>
        /\ \E i \in 1 .. j - 1 : writes[c][i] = "ACCEPTED"
        /\ \A k \in DOMAIN writes[c] : Result(c, k) => k = j

LEMMA ResultRecord ==
    ASSUME Typed, NEW c \in Ids, NEW kind, Record(c, kind), NEW b \in Ids, ResultOnce(b),
           kind \in Results => None(c, Results) /\ ~None(c, {"ACCEPTED"})
    PROVE  ResultOnce(b)'
<1>1. CASE b # c
  BY <1>1, Recorded DEF ResultOnce, Result
<1>2. CASE b = c
  <2> SUFFICES ASSUME NEW j \in DOMAIN writes'[c], Result(c, j)'
               PROVE  /\ \E i \in 1 .. j - 1 : writes'[c][i] = "ACCEPTED"
                      /\ \A k \in DOMAIN writes'[c] : Result(c, k)' => k = j
    BY <1>2 DEF ResultOnce
  <2>1. \A k \in DOMAIN writes'[c] : k \in 1 .. Len(writes[c]) \/ k = Len(writes[c]) + 1
    BY Recorded
  <2>2. \A k \in 1 .. Len(writes[c]) : Result(c, k)' <=> Result(c, k)
    BY Recorded DEF Result
  <2>3. CASE j = Len(writes[c]) + 1
    <3>1. kind \in Results
      BY <2>3, Recorded DEF Result, Results
    <3>2. PICK i \in 1 .. Len(writes[c]) : writes[c][i] = "ACCEPTED"
      BY <3>1, Recorded DEF None
    <3>3. i \in 1 .. j - 1 /\ writes'[c][i] = "ACCEPTED"
      BY <2>3, <3>2, Recorded
    <3>4. \A k \in 1 .. Len(writes[c]) : ~Result(c, k)'
      BY <2>2, <3>1, Recorded DEF None, Result, Results
    <3> QED BY <2>1, <2>3, <3>3, <3>4
  <2>4. CASE j \in 1 .. Len(writes[c])
    <3>1. /\ \E i \in 1 .. j - 1 : writes[c][i] = "ACCEPTED"
          /\ \A k \in DOMAIN writes[c] : Result(c, k) => k = j
      BY <1>2, <2>2, <2>4, Recorded DEF ResultOnce
    <3>2. PICK i \in 1 .. j - 1 : writes[c][i] = "ACCEPTED"
      BY <3>1
    <3>3. writes'[c][i] = "ACCEPTED"
      BY <2>4, <3>2, Recorded
    <3>4. kind \notin Results
      BY <2>2, <2>4, Recorded DEF Result, Results, None
    <3>5. ASSUME NEW k \in DOMAIN writes'[c], Result(c, k)' PROVE k = j
      <4>1. k \in 1 .. Len(writes[c])
        BY <2>1, <3>4, <3>5, Recorded DEF Result, Results
      <4> QED BY <2>2, <3>1, <3>5, <4>1, Recorded
    <3> QED BY <3>2, <3>3, <3>5
  <2> QED BY <2>1, <2>3, <2>4
<1> QED BY <1>1, <1>2

(* The tasks that are there already are of accepted commands, one each. *)
TasksOnce ==
    \A v \in verifying : /\ cmd[v.cmd].fate = "acked" /\ ~None(v.cmd, {"ACCEPTED"})
                         /\ v.at # "alert" => None(v.cmd, Results)
                         /\ \A w \in verifying : w.cmd = v.cmd => w = v

AnswersCame == \A c \in Ids : cmd[c].fate # "acked" => None(c, {"ACCEPTED", "REJECTED"})

LEMMA LogParts ==
    LogInv <=> AskedOnce /\ AnswersCame /\ TasksOnce /\ \A c \in Ids : ResultOnce(c)
BY DEF LogInv, AnsweredFirst, VerifiedOnceWhenAccepted, AnswersCame, TasksOnce, ResultOnce, Results

LEMMA AnswersRecord ==
    ASSUME Typed, AnswersCame, AckedStay, NEW c \in Ids, NEW kind, Record(c, kind),
           kind \in {"ACCEPTED", "REJECTED"} => cmd[c].fate = "acked"
    PROVE  AnswersCame'
<1> SUFFICES ASSUME NEW b \in Ids, cmd'[b].fate # "acked" PROVE None(b, {"ACCEPTED", "REJECTED"})'
  BY DEF AnswersCame
<1>1. cmd[b].fate # "acked" /\ None(b, {"ACCEPTED", "REJECTED"})
  BY DEF AckedStay, AnswersCame
<1> QED BY <1>1, RecordedNone

(* Tasks that end are no trouble, nor is an entry unless it is the result  *)
(* of a task that goes on.                                                 *)
LEMMA TasksRecord ==
    ASSUME Typed, TasksOnce, AckedStay, NEW c \in Ids, NEW kind, Record(c, kind),
           verifying' \subseteq verifying,
           kind \in Results => \A v \in verifying' : v.cmd # c
    PROVE  TasksOnce'
<1> SUFFICES ASSUME NEW v \in verifying'
             PROVE  /\ cmd'[v.cmd].fate = "acked" /\ ~None(v.cmd, {"ACCEPTED"})'
                    /\ v.at # "alert" => None(v.cmd, Results)'
                    /\ \A w \in verifying' : w.cmd = v.cmd => w = v
  BY DEF TasksOnce
<1>1. v \in verifying /\ v.cmd \in Ids
  BY DEF Typed, TypeOK, Tasks
<1>2. cmd'[v.cmd].fate = "acked" /\ \A w \in verifying' : w.cmd = v.cmd => w = v
  BY <1>1 DEF TasksOnce, AckedStay
<1>3. ~None(v.cmd, {"ACCEPTED"})'
  BY <1>1, RecordedNone DEF TasksOnce
<1>4. v.at # "alert" => None(v.cmd, Results)'
  BY <1>1, RecordedNone DEF TasksOnce
<1> QED BY <1>2, <1>3, <1>4

LEMMA LogSilent == ASSUME Typed, LogInv, AckedStay, Silent PROVE LogInv'
<1>1. \A b, kinds : None(b, kinds)' <=> None(b, kinds)
  BY DEF Silent, None
<1>2. AskedOnce'
  <2>1. \A c \in Ids : ~Used(c)' => None(c, {"PENDING"})'
    BY <1>1 DEF LogInv, AskedOnce, AckedStay
  <2>2. ASSUME loop'.at \in {"publish", "insert"} PROVE (Used(loop.cmd) /\ None(loop.cmd, {"PENDING"}))'
    <3>1. CASE loop.at \in {"publish", "insert"} /\ loop'.cmd = loop.cmd
      <4>1. PICK b \in Ids : b = loop.cmd
        BY <3>1 DEF Typed, HandlesOK
      <4>2. Used(b)' /\ None(b, {"PENDING"})'
        BY <1>1, <3>1, <4>1 DEF LogInv, AskedOnce, AckedStay
      <4> QED BY <3>1, <4>1, <4>2 DEF Used, None
    <3>2. ASSUME NEW n \in Ids, n = loop'.cmd, ~Used(n), Used(n)'
          PROVE  (Used(loop.cmd) /\ None(loop.cmd, {"PENDING"}))'
      <4>1. None(n, {"PENDING"})'
        BY <1>1, <3>2 DEF LogInv, AskedOnce
      <4> QED BY <3>2, <4>1 DEF Used, None
    <3> QED BY <2>2, <3>1, <3>2 DEF Silent, LoopHolds
  <2> QED BY <2>1, <2>2 DEF Silent, LogInv, AskedOnce
<1>3. AnswersCame'
  BY <1>1, LogParts DEF AnswersCame, AckedStay
<1>4. TasksOnce'
  <2> SUFFICES ASSUME NEW v \in verifying'
               PROVE  /\ cmd'[v.cmd].fate = "acked" /\ ~None(v.cmd, {"ACCEPTED"})'
                      /\ v.at # "alert" => None(v.cmd, Results)'
                      /\ \A w \in verifying' : w.cmd = v.cmd => w = v
    BY DEF TasksOnce
  <2>1. v \in verifying /\ v.cmd \in Ids
    BY DEF Silent, Typed, TypeOK, Tasks
  <2> QED BY <1>1, <2>1, LogParts DEF Silent, TasksOnce, AckedStay
<1>5. \A c \in Ids : ResultOnce(c)'
  BY LogParts DEF Silent, ResultOnce, Result
<1> QED BY <1>2, <1>3, <1>4, <1>5, LogParts DEF LogInv, AnsweredFirst, VerifiedOnceWhenAccepted, AnswersCame, TasksOnce, ResultOnce, Results

(* Log entries that are no answer and no result. *)
LEMMA LogAsked ==
    ASSUME Typed, LogInv, AckedStay, NEW c \in Ids, NEW kind \in {"PENDING", "TIMEOUT"}, Record(c, kind),
           verifying' = verifying,
           kind = "PENDING" => None(c, {"PENDING"}) /\ Used(c)',
           loop'.at \in {"publish", "insert"} =>
               loop.at \in {"publish", "insert"} /\ loop'.cmd = loop.cmd /\ (kind = "PENDING" => loop.cmd # c)
    PROVE  LogInv'
<1>1. AskedOnce /\ AnswersCame /\ TasksOnce /\ \A b \in Ids : ResultOnce(b)
  BY LogParts
<1>2. AskedOnce'
  BY <1>1, AskedRecord
<1>3. AnswersCame'
  BY <1>1, AnswersRecord
<1>4. TasksOnce'
  BY <1>1, TasksRecord DEF Results
<1>5. \A b \in Ids : ResultOnce(b)'
  BY <1>1, ResultRecord DEF Results
<1> QED BY <1>2, <1>3, <1>4, <1>5
        DEF LogInv, AnsweredFirst, VerifiedOnceWhenAccepted, AnswersCame, TasksOnce, ResultOnce, Results

(* The answer of a command is recorded without a verdict before it: no     *)
(* task is at work on the command, and no result is there.                 *)
LEMMA LogAcked == ASSUME Typed, Typed', LogInv, VerdictInv, AckedStay, AckRecord PROVE LogInv'
<1>1. AskedOnce /\ AnswersCame /\ TasksOnce /\ \A b \in Ids : ResultOnce(b)
  BY LogParts
<1>2. PICK c \in Ids : c = ack.cmd
  BY DEF AckRecord, Typed, HandlesOK
<1>3. PICK kind \in {"ACCEPTED", "REJECTED"} : kind = ack.status
  BY DEF Typed, TypeOK, AckStates
<1>4. Record(c, kind) /\ cmd[c].fate = "acked" /\ NoVerdict(c) /\ loop' = loop /\ kind \in Verdicts
  BY <1>2, <1>3 DEF AckRecord, VerdictInv, Verdicts
<1>5. None(c, {"ACCEPTED"}) /\ None(c, Results)
  <2>1. None(c, {"ACCEPTED"})
    BY <1>4 DEF NoVerdict, None, Verdicts
  <2>2. ASSUME NEW j \in DOMAIN writes[c], Result(c, j) PROVE FALSE
    <3>1. \E i \in 1 .. j - 1 : writes[c][i] = "ACCEPTED"
      BY <1>1, <2>2 DEF ResultOnce
    <3>2. writes[c] \in Seq(WriteKinds)
      BY DEF Typed, TypeOK
    <3> QED BY <2>1, <2>2, <3>1, <3>2 DEF None
  <2> QED BY <2>1, <2>2 DEF None, Result, Results
<1>6. AskedOnce'
  BY <1>1, <1>3, <1>4, AskedRecord DEF LogInv, AskedOnce
<1>7. AnswersCame'
  BY <1>1, <1>4, AnswersRecord
<1>8. \A b \in Ids : ResultOnce(b)'
  BY <1>1, <1>3, <1>4, ResultRecord DEF Results
<1>9. TasksOnce'
  <2>1. CASE verifying' = verifying
    BY <1>1, <1>3, <1>4, <2>1, TasksRecord DEF Results
  <2>2. ASSUME NEW t, t.cmd = c, kind = "ACCEPTED", verifying' = verifying \union {t} PROVE TasksOnce'
    <3>1. \A v \in verifying : v.cmd \in Ids /\ v.cmd # c
      BY <1>1, <1>5 DEF TasksOnce, Typed, TypeOK, Tasks
    <3>2. \A b \in Ids : None(b, Results)' <=> None(b, Results)
      BY <1>3, <1>4, RecordedNone DEF Results
    <3>3. ~None(c, {"ACCEPTED"})' /\ \A b \in Ids : ~None(b, {"ACCEPTED"}) => ~None(b, {"ACCEPTED"})'
      BY <1>4, <2>2, RecordedNone
    <3>4. ASSUME NEW v \in verifying'
          PROVE  /\ cmd'[v.cmd].fate = "acked" /\ ~None(v.cmd, {"ACCEPTED"})'
                 /\ v.at # "alert" => None(v.cmd, Results)'
      BY <1>1, <1>4, <1>5, <2>2, <3>1, <3>2, <3>3, <3>4 DEF TasksOnce, AckedStay
    <3>5. ASSUME NEW v \in verifying', NEW w \in verifying', w.cmd = v.cmd PROVE w = v
      BY <1>1, <2>2, <3>1, <3>5 DEF TasksOnce
    <3> QED BY <3>4, <3>5 DEF TasksOnce
  <2> QED BY <1>2, <1>3, <2>1, <2>2 DEF AckRecord, Accepted
<1> QED BY <1>6, <1>7, <1>8, <1>9
        DEF LogInv, AnsweredFirst, VerifiedOnceWhenAccepted, AnswersCame, TasksOnce, ResultOnce, Results

(* A result is recorded by the only task of its command, which then ends   *)
(* or only reports it.                                                     *)
LEMMA LogVerify == ASSUME Typed, LogInv, NEW v \in verifying, Verifies(v) PROVE LogInv'
<1>1. AskedOnce /\ AnswersCame /\ TasksOnce /\ \A b \in Ids : ResultOnce(b)
  BY LogParts
<1>2. PICK c \in Ids : c = v.cmd
  BY DEF Typed, TypeOK, Tasks
<1>3. AckedStay /\ cmd' = cmd /\ loop' = loop
  BY DEF Verifies, rest, AckedStay, Used
<1>4. \A w \in verifying : w.cmd \in Ids /\ (w.cmd = c => w = v)
  BY <1>1, <1>2 DEF TasksOnce, Typed, TypeOK, Tasks
<1>5. cmd[c].fate = "acked" /\ ~None(c, {"ACCEPTED"}) /\ (v.at # "alert" => None(c, Results))
  BY <1>1, <1>2 DEF TasksOnce
<1>6. ASSUME NEW kind \in Results, Record(c, kind) PROVE AskedOnce' /\ AnswersCame'
  BY <1>1, <1>3, <1>6, AskedRecord, AnswersRecord DEF LogInv, AskedOnce, Results
<1>7. ASSUME NEW kind \in Results, Record(c, kind), v.at # "alert" PROVE \A b \in Ids : ResultOnce(b)'
  BY <1>1, <1>5, <1>7, ResultRecord
<1>8. CASE UNCHANGED writes
  <2>1. \A b, kinds : None(b, kinds)' <=> None(b, kinds)
    BY <1>8 DEF None
  <2>2. AskedOnce' /\ AnswersCame'
    BY <1>1, <1>3, <1>8, <2>1 DEF AskedOnce, AnswersCame, Used
  <2>3. \A b \in Ids : ResultOnce(b)'
    BY <1>1, <1>8 DEF ResultOnce, Result
  <2>4. TasksOnce'
    <3>1. ASSUME NEW w \in verifying'
          PROVE  /\ cmd'[w.cmd].fate = "acked" /\ ~None(w.cmd, {"ACCEPTED"})'
                 /\ w.at # "alert" => None(w.cmd, Results)'
      BY <1>1, <1>2, <1>3, <1>5, <2>1, <3>1 DEF TasksOnce, Verifies
    <3>2. ASSUME NEW w \in verifying', NEW u \in verifying', u.cmd = w.cmd PROVE u = w
      BY <1>1, <1>2, <1>4, <3>2 DEF TasksOnce, Verifies
    <3> QED BY <3>1, <3>2 DEF TasksOnce
  <2> QED BY <2>2, <2>3, <2>4
          DEF LogInv, AnsweredFirst, VerifiedOnceWhenAccepted, AnswersCame, TasksOnce, ResultOnce, Results
<1>9. ASSUME NEW kind \in Results, Record(c, kind), v.at # "alert", writes' # writes PROVE TasksOnce'
  <2>1. \A w \in verifying' : w.cmd \in Ids /\ (w.cmd # c \/ w.at = "alert") /\ (w.cmd # c => w \in verifying)
    BY <1>2, <1>4, <1>9 DEF Verifies
  <2>2. ASSUME NEW w \in verifying'
        PROVE  /\ cmd'[w.cmd].fate = "acked" /\ ~None(w.cmd, {"ACCEPTED"})'
               /\ w.at # "alert" => None(w.cmd, Results)'
    <3>1. PICK b \in Ids : b = w.cmd
      BY <2>1
    <3>2. cmd[b].fate = "acked" /\ ~None(b, {"ACCEPTED"}) /\ (b # c /\ w.at # "alert" => None(b, Results))
      BY <1>1, <1>5, <2>1, <3>1 DEF TasksOnce
    <3>3. ~None(b, {"ACCEPTED"})' /\ (b # c /\ w.at # "alert" => None(b, Results)')
      BY <1>9, <3>2, RecordedNone
    <3> QED BY <1>3, <2>1, <3>1, <3>2, <3>3 DEF None
  <2>3. ASSUME NEW w \in verifying', NEW u \in verifying', u.cmd = w.cmd PROVE u = w
    BY <1>1, <1>2, <1>4, <2>3 DEF TasksOnce, Verifies
  <2> QED BY <2>2, <2>3 DEF TasksOnce
<1> QED BY <1>2, <1>6, <1>7, <1>8, <1>9
        DEF Verifies, LogInv, AnsweredFirst, VerifiedOnceWhenAccepted, AnswersCame, TasksOnce, ResultOnce, Results

LEMMA LogInit == InitLoop => LogInv
BY ConstantFacts DEF InitLoop, Init, LogInv, AskedOnce, AnsweredFirst, VerifiedOnceWhenAccepted, None, Result, IdleLoop

LEMMA LogPath == ASSUME PathInv, LogInv, [Next]_vars PROVE LogInv'
<1>1. Typed /\ Typed' /\ IInv /\ VerdictInv /\ AckedStay /\ EntryKinds
  BY TypedNext, AckedKept, StepEntries DEF PathInv
<1>2. CASE Silent
  BY <1>1, <1>2, LogSilent
<1>3. CASE LoopInsert
  <2>1. PICK c \in Ids : c = loop.cmd
    BY <1>1, <1>3 DEF LoopInsert, Typed, HandlesOK
  <2>2. Used(c) /\ None(c, {"PENDING"})
    BY <1>3, <2>1 DEF LoopInsert, LogInv, AskedOnce
  <2>3. Record(c, "PENDING") /\ verifying' = verifying /\ Used(c)'
    BY <1>1, <1>3, <2>1, <2>2 DEF LoopInsert, AckedStay
  <2>4. loop'.at = "sent"
    BY <1>1, <1>3 DEF LoopInsert, Typed, TypeOK, LoopStates
  <2> QED BY <1>1, <2>2, <2>3, <2>4, LogAsked
<1>4. CASE OperatorAsks
  <2>1. PICK n \in Ids : ~Used(n) /\ Used(n)' /\ Record(n, "PENDING")
    BY <1>4 DEF OperatorAsks
  <2>2. None(n, {"PENDING"}) /\ (loop.at \in {"publish", "insert"} => loop.cmd # n)
    BY <2>1 DEF LogInv, AskedOnce
  <2> QED BY <1>1, <1>4, <2>1, <2>2, LogAsked DEF OperatorAsks
<1>5. CASE AckRecord
  BY <1>1, <1>5, LogAcked
<1>6. CASE TimesOut
  BY <1>1, <1>6, LogAsked DEF TimesOut
<1> QED BY <1>1, <1>2, <1>3, <1>4, <1>5, <1>6 DEF EntryKinds

LEMMA LogNext == PathInv /\ LogInv /\ [NextLoop]_loopVars => LogInv'
<1> SUFFICES ASSUME PathInv, LogInv, [NextLoop]_loopVars PROVE LogInv'
  OBVIOUS
<1>1. ASSUME NEW v \in verifying, VerifyStep(v) PROVE LogInv'
  BY <1>1, VerifyKinds, LogVerify DEF PathInv
<1>2. CASE [Next]_vars
  BY <1>2, LogPath
<1> QED BY <1>1, <1>2 DEF NextLoop, NoticeExpire, loopVars

LEMMA LoopAlways == LoopSpec => [](PathInv /\ LogInv)
BY PathInit, PathNext, LogInit, LogNext, PTL DEF LoopSpec

(* Whatever the listener, the checker, the operators and the tasks do, a   *)
(* command is verified at most once, after its answer was recorded.        *)
THEOREM VerifiedOnce == LoopSpec => []VerifiedOnceWhenAccepted
<1>1. LogInv => VerifiedOnceWhenAccepted
  BY DEF LogInv
<1> QED BY <1>1, LoopAlways, PTL

-----------------------------------------------------------------------------
(* The rows *)

(* The stream only grows. *)
Grows == \A c \in Ids : /\ Len(writes[c]) <= Len(writes'[c])
                        /\ \A k \in 1 .. Len(writes[c]) : writes'[c][k] = writes[c][k]

LEMMA EntriesGrow == ASSUME PathInv, [NextLoop]_loopVars PROVE Grows
<1>1. Typed /\ \A c \in Ids : Len(writes[c]) \in Nat
  BY DEF PathInv, Typed, TypeOK
<1>2. ASSUME NEW c \in Ids, NEW kind, Record(c, kind) PROVE Grows
  BY <1>1, <1>2, Recorded DEF Grows
<1>3. CASE UNCHANGED writes
  BY <1>1, <1>3 DEF Grows
<1>4. CASE [Next]_vars
  <2>1. EntryKinds
    BY <1>4, StepEntries DEF PathInv
  <2>2. ack.at = "update" => ack.cmd \in Ids
    BY <1>1 DEF Typed, HandlesOK
  <2>3. loop.at = "insert" => loop.cmd \in Ids
    BY <1>1 DEF Typed, HandlesOK
  <2> QED BY <1>2, <1>3, <2>1, <2>2, <2>3 DEF EntryKinds, Silent, LoopInsert, OperatorAsks, AckRecord, TimesOut
<1>5. ASSUME NEW v \in verifying, VerifyStep(v) PROVE Grows
  <2>1. Verifies(v) /\ v.cmd \in Ids
    BY <1>1, <1>5, VerifyKinds DEF Typed, TypeOK, Tasks
  <2> QED BY <1>2, <1>3, <2>1 DEF Verifies
<1> QED BY <1>3, <1>4, <1>5 DEF NextLoop, NoticeExpire, loopVars

LEMMA RowInit == InitHistory => RowInv
BY DEF InitHistory, InitLoop, Init, RowInv, NoRow, Rows, Took

LEMMA RowGrows == ASSUME RowInv, Typed, Grows, UNCHANGED <<row, taken>> PROVE RowInv'
<1>1. ASSUME NEW c \in Ids PROVE taken[c] <= Len(writes'[c])
                              /\ \A kind : Took(c, kind) => Took(c, kind)'
  <2>1. taken[c] \in Nat /\ taken[c] <= Len(writes[c]) /\ Len(writes[c]) \in Nat
        /\ Len(writes[c]) <= Len(writes'[c])
    BY DEF RowInv, Typed, TypeOK, Grows
  <2>2. Len(writes'[c]) \in Int \/ Len(writes'[c]) \notin Int
    OBVIOUS
  <2>3. \A kind : Took(c, kind) => Took(c, kind)'
    BY <2>1 DEF Took, Grows
  <2> QED BY <2>1, <2>3
<1> QED BY <1>1 DEF RowInv

(* What the next entry means for the row it is about. *)
LEMMA NextEntry ==
    ASSUME Typed, VerdictInv, LogInv, RowInv, NEW c \in Ids, Waiting(c)
    PROVE  /\ Entry(c) \in WriteKinds
           /\ Entry(c) = "PENDING" => row[c].status = "none"
           /\ Entry(c) \in Verdicts => row[c].status \notin {"ACCEPTED", "REJECTED"}
           /\ Entry(c) \in Results => Took(c, "ACCEPTED") /\ row[c].status # "REJECTED"
<1>1. /\ writes[c] \in Seq(WriteKinds) /\ taken[c] \in Nat /\ taken[c] + 1 \in DOMAIN writes[c]
      /\ \A k \in 1 .. taken[c] : k \in DOMAIN writes[c] /\ k # taken[c] + 1
  BY DEF Typed, TypeOK, RowInv, Waiting
<1>2. Entry(c) \in WriteKinds
  BY <1>1 DEF Entry
<1>3. Entry(c) = "PENDING" => ~Took(c, "PENDING")
  BY <1>1 DEF Entry, Took, LogInv, AskedOnce
<1>4. ASSUME NEW kind \in Verdicts, Entry(c) \in Verdicts PROVE ~Took(c, kind)
  BY <1>1, <1>4 DEF Entry, Took, VerdictInv, OneVerdictPerCommand
<1>5. ASSUME Entry(c) \in Results PROVE Took(c, "ACCEPTED") /\ ~Took(c, "REJECTED")
  <2>1. ResultOnce(c)
    BY LogParts
  <2>2. PICK i \in 1 .. taken[c] : writes[c][i] = "ACCEPTED"
    BY <1>1, <1>5, <2>1 DEF ResultOnce, Result, Results, Entry
  <2>3. \A k \in 1 .. taken[c] : writes[c][k] = "REJECTED" => k = i
    BY <1>1, <2>2 DEF VerdictInv, OneVerdictPerCommand, Verdicts
  <2> QED BY <2>2, <2>3 DEF Took
<1> QED BY <1>2, <1>3, <1>4, <1>5 DEF RowInv, Verdicts

LEMMA RowTaken ==
    ASSUME Typed, RowInv, NEW c \in Ids, Waiting(c), taken' = [taken EXCEPT ![c] = @ + 1],
           UNCHANGED writes
    PROVE  /\ taken' \in [Ids -> Nat] /\ \A b \in Ids : taken'[b] <= Len(writes'[b])
           /\ \A b \in Ids : \A kind : Took(b, kind) => Took(b, kind)'
           /\ \A kind : kind = Entry(c) => Took(c, kind)'
<1>1. /\ taken'[c] = taken[c] + 1 /\ \A b \in Ids \ {c} : taken'[b] = taken[b]
      /\ \A b \in Ids : taken[b] \in Nat /\ Len(writes[b]) \in Nat /\ taken[b] <= Len(writes[b])
  BY DEF RowInv, Typed, TypeOK
<1>2. taken' \in [Ids -> Nat] /\ \A b \in Ids : taken'[b] <= Len(writes'[b])
  BY <1>1 DEF RowInv, Waiting
<1>3. \A b \in Ids : \A kind : Took(b, kind) => Took(b, kind)'
  BY <1>1 DEF Took
<1>4. \A kind : kind = Entry(c) => Took(c, kind)'
  BY <1>1 DEF Took, Entry
<1> QED BY <1>2, <1>3, <1>4

LEMMA RowApply ==
    ASSUME Typed, VerdictInv, LogInv, RowInv, NEW c \in Ids, HistoryApply(c)
    PROVE  /\ RowInv'
           /\ row[c].status \in {"ACCEPTED", "REJECTED"} => row'[c].status = row[c].status
<1>1. PICK r \in Rows : r = row[c]
  BY DEF RowInv
<1>2. PICK kind \in WriteKinds : kind = Entry(c)
  BY NextEntry DEF HistoryApply
<1>3. row'[c] = Apply(r, kind) /\ \A b \in Ids \ {c} : row'[b] = row[b]
  BY <1>1, <1>2 DEF HistoryApply, RowInv
<1>4. /\ taken' \in [Ids -> Nat] /\ \A b \in Ids : taken'[b] <= Len(writes'[b])
      /\ \A b \in Ids : \A k : Took(b, k) => Took(b, k)'
      /\ Took(c, kind)'
  BY <1>2, RowTaken DEF HistoryApply, loopVars, vars, store
<1>5. /\ kind = "PENDING" => r.status = "none"
      /\ kind \in Verdicts => r.status \notin {"ACCEPTED", "REJECTED"}
      /\ kind \in Results => Took(c, "ACCEPTED") /\ r.status # "REJECTED"
      /\ r.status # "none" => Took(c, "PENDING")
      /\ r.status \in {"ACCEPTED", "REJECTED"} => Took(c, r.status)
      /\ r.verified # "null" => r.status = "ACCEPTED"
  BY <1>1, <1>2, NextEntry DEF HistoryApply, RowInv
<1>6. /\ Apply(r, kind) \in Rows
      /\ r.status \in {"ACCEPTED", "REJECTED"} => Apply(r, kind).status = r.status
      /\ Apply(r, kind).status # "none" => r.status # "none" \/ kind = "PENDING"
      /\ Apply(r, kind).status \in {"ACCEPTED", "REJECTED"} =>
             \/ Apply(r, kind).status = r.status
             \/ Apply(r, kind).status = kind
             \/ kind \in Results /\ Apply(r, kind).status = "ACCEPTED"
      /\ Apply(r, kind).verified # "null" => Apply(r, kind).status = "ACCEPTED"
  <2>1. CASE kind = "PENDING"
    BY <1>5, <2>1 DEF Apply, Insert, Rows
  <2>2. CASE kind # "PENDING" /\ r.status = "none"
    <3>1. Apply(r, kind) = r
      BY <2>2 DEF Apply, Update
    <3> QED BY <1>5, <2>2, <3>1
  <2>3. CASE kind \in Results /\ r.status # "none"
    <3>1. /\ Apply(r, kind).status = "ACCEPTED" /\ Apply(r, kind).verified \in {"true", "false"}
          /\ Apply(r, kind) \in Rows
      BY <2>3 DEF Apply, Update, Rows, Verdicts, Results
    <3> QED BY <1>5, <2>3, <3>1
  <2>4. CASE kind \in Verdicts /\ r.status # "none"
    <3>1. Apply(r, kind) = [r EXCEPT !.status = kind]
      BY <2>4 DEF Apply, Update, Verdicts
    <3> QED BY <1>5, <2>4, <3>1 DEF Rows
  <2> QED BY <2>1, <2>2, <2>3, <2>4 DEF WriteKinds, Results
<1>7. row' \in [Ids -> Rows]
  BY <1>1, <1>3, <1>6 DEF HistoryApply, RowInv
<1>8. ASSUME NEW b \in Ids
      PROVE  /\ row'[b].status # "none" => Took(b, "PENDING")'
             /\ row'[b].status \in {"ACCEPTED", "REJECTED"} =>
                    \E s : s = row'[b].status /\ Took(b, s)'
             /\ row'[b].verified # "null" => row'[b].status = "ACCEPTED"
  <2>1. CASE b # c
    BY <1>3, <1>4, <2>1 DEF RowInv
  <2>2. CASE b = c
    BY <1>3, <1>4, <1>5, <1>6, <2>2
  <2> QED BY <2>1, <2>2
<1>9. \A b \in Ids : row'[b].status \in {"ACCEPTED", "REJECTED"} => Took(b, row[b].status)'
  BY <1>8 DEF Took
<1> QED BY <1>1, <1>3, <1>4, <1>6, <1>7, <1>8, <1>9 DEF RowInv

LEMMA RowNext ==
    ASSUME PathInv, LogInv, RowInv, [NextHistory]_historyVars
    PROVE  /\ RowInv'
           /\ \A c \in Ids : row[c].status \in {"ACCEPTED", "REJECTED"} => row'[c].status = row[c].status
<1>1. Typed /\ VerdictInv
  BY DEF PathInv
<1>2. CASE [NextLoop]_loopVars /\ UNCHANGED <<row, taken>>
  BY <1>1, <1>2, EntriesGrow, RowGrows
<1>3. ASSUME NEW c \in Ids, HistoryApply(c)
      PROVE  /\ RowInv'
             /\ \A b \in Ids : row[b].status \in {"ACCEPTED", "REJECTED"} => row'[b].status = row[b].status
  BY <1>1, <1>3, RowApply DEF HistoryApply, RowInv
<1>4. ASSUME NEW c \in Ids, HistoryLoses(c) PROVE RowInv' /\ row' = row
  <2>1. /\ taken' \in [Ids -> Nat] /\ \A b \in Ids : taken'[b] <= Len(writes'[b])
        /\ \A b \in Ids : \A k : Took(b, k) => Took(b, k)'
    BY <1>1, <1>4, RowTaken DEF HistoryLoses, loopVars, vars, store
  <2>2. row' = row
    BY <1>4 DEF HistoryLoses
  <2>3. ASSUME NEW b \in Ids, row'[b].status \in {"ACCEPTED", "REJECTED"} PROVE Took(b, row[b].status)'
    <3>1. PICK k : k = row[b].status
      OBVIOUS
    <3>2. Took(b, k)'
      BY <2>1, <2>2, <2>3, <3>1 DEF RowInv
    <3> QED BY <2>2, <3>1, <3>2 DEF Took
  <2> QED BY <2>1, <2>2, <2>3 DEF RowInv
<1>5. ASSUME NEW c \in Ids, StaleTimeout(c)
      PROVE  /\ RowInv'
             /\ \A b \in Ids : row[b].status \in {"ACCEPTED", "REJECTED"} => row'[b].status = row[b].status
  <2>1. /\ row[c] \in Rows /\ row[c].status = "PENDING"
        /\ row'[c] = [row[c] EXCEPT !.status = "TIMEOUT"] /\ \A b \in Ids \ {c} : row'[b] = row[b]
    BY <1>5 DEF StaleTimeout, IsStale, RowInv
  <2>2. row'[c] \in Rows /\ row'[c].status = "TIMEOUT" /\ row'[c].verified = row[c].verified
    BY <2>1 DEF Rows, Verdicts
  <2>3. row' \in [Ids -> Rows]
    BY <1>5, <2>2 DEF StaleTimeout, RowInv
  <2>4. UNCHANGED <<writes, taken>>
    BY <1>5 DEF StaleTimeout, loopVars, vars, store
  <2>5. \A b \in Ids : \A k : Took(b, k)' <=> Took(b, k)
    BY <2>4 DEF Took
  <2>6. ASSUME NEW b \in Ids
        PROVE  /\ row[b].status \in {"ACCEPTED", "REJECTED"} => row'[b].status = row[b].status
               /\ row'[b].status \in {"ACCEPTED", "REJECTED"} => row'[b].status = row[b].status
               /\ row'[b].status # "none" => row[b].status # "none"
               /\ row'[b].verified # "null" => row'[b].status = "ACCEPTED"
    BY <2>1, <2>2 DEF RowInv
  <2>7. \A b \in Ids : row'[b].status \in {"ACCEPTED", "REJECTED"} => Took(b, row[b].status)'
    BY <2>4, <2>6 DEF RowInv, Took
  <2> QED BY <2>3, <2>4, <2>5, <2>6, <2>7 DEF RowInv
<1> QED BY <1>2, <1>3, <1>4, <1>5 DEF NextHistory, historyVars

LEMMA HistoryIsLoop == HistorySpec => LoopSpec
<1>1. InitHistory => InitLoop
  BY DEF InitHistory
<1>2. [NextHistory]_historyVars => [NextLoop]_loopVars
  BY DEF NextHistory, HistoryApply, HistoryLoses, StaleTimeout, historyVars
<1> QED BY <1>1, <1>2, PTL DEF HistorySpec, LoopSpec

LEMMA RowsAlways == HistorySpec => [](PathInv /\ LogInv /\ RowInv)
<1>1. PathInv /\ LogInv /\ RowInv /\ [NextHistory]_historyVars => RowInv'
  BY RowNext
<1> QED BY <1>1, RowInit, HistoryIsLoop, LoopAlways, PTL DEF HistorySpec

(* A row never claims an answer that did not come, nor a verification      *)
(* result without it: not after lost entries, not after a clean-up.        *)
THEOREM RowsAreTrue == HistorySpec => []AnswerRowsAreTrue
<1>1. LogInv /\ RowInv /\ Typed => AnswerRowsAreTrue
  BY DEF LogInv, AnsweredFirst, None, RowInv, Took, AnswerRowsAreTrue, Typed, TypeOK
<1> QED BY <1>1, RowsAlways, PTL DEF PathInv

(* An answer in the table is never replaced by another status. *)
THEOREM AnswersStay == HistorySpec => AnswerIsFinal
<1>1. PathInv /\ LogInv /\ RowInv /\ [NextHistory]_historyVars =>
          [\A c \in Ids : row[c].status \in {"ACCEPTED", "REJECTED"} => row'[c].status = row[c].status]_row
  BY RowNext
<1> QED BY <1>1, RowsAlways, PTL DEF HistorySpec, AnswerIsFinal

-----------------------------------------------------------------------------
(* The whole of it *)

(* The command path keeps what it promises when its verification tasks and *)
(* the db-writer run beside it.                                            *)
THEOREM PathKeepsItsPromises ==
    HistorySpec => [](/\ OneVerdictPerCommand /\ AtMostTwoLiveAttempts /\ AckEndsRetries
                      /\ NoRuleAckOrphaned /\ FailureMeansExhausted)
<1>1. PathInv => /\ OneVerdictPerCommand /\ AtMostTwoLiveAttempts /\ AckEndsRetries
                 /\ NoRuleAckOrphaned /\ FailureMeansExhausted
  BY FailureImplies DEF PathInv, IInv, VerdictInv, PendingIsOpen, NoRuleAckOrphaned
<1> QED BY <1>1, RowsAlways, PTL

(* And it goes on implementing CommandDelivery: a verification step is none *)
(* of its business.                                                         *)
THEOREM WholeDeliversAsPromised == HistorySpec => DeliversAsPromised
<1>1. InitLoop => D!Nothing
  BY InitIsNothing DEF InitLoop
<1>2. ASSUME PathInv, [NextLoop]_loopVars PROVE [D!Advance]_(D!deliveryVars)
  <2>1. CASE [Next]_vars
    BY <1>2, <2>1, StepAdvances DEF PathInv
  <2>2. CASE UNCHANGED rest
    <3>1. Still
      BY <2>2 DEF rest, Still
    <3> QED BY <1>2, <3>1, StillStutters DEF PathInv
  <2>3. ASSUME NEW v \in verifying, VerifyStep(v) PROVE UNCHANGED rest
    BY <1>2, <2>3, VerifyKinds DEF PathInv, Verifies
  <2> QED BY <1>2, <2>1, <2>2, <2>3 DEF NextLoop, NoticeExpire, loopVars
<1>3. PathInv /\ [NextLoop]_loopVars => [D!Advance]_(D!deliveryVars)
  BY <1>2
<1> QED BY <1>1, <1>3, HistoryIsLoop, LoopAlways, PTL
        DEF LoopSpec, DeliversAsPromised, D!Delivery
=============================================================================
