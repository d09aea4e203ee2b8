----------------------------- MODULE ClosedLoop -----------------------------
(***************************************************************************)
(* Closed-loop verification of accepted commands, on top of the command    *)
(* path: the tasks _verify_from_db and _verify_after_delay that the ACK    *)
(* listener spawns, one per accepted command, all on the same event loop.  *)
(***************************************************************************)
EXTENDS MqttCommander

VARIABLE
    notices  \* Redis alert keys verify:<device>:<command type>

loopVars == <<vars, notices>>

(* What the tasks never touch. *)
rest == <<cmd, issued, shared, loop, ack, checker, oper, network, desired, alerts, failed, crashes>>

NoticeKey(c) == <<cmd[c].dev, cmd[c].goal>>

InitLoop == Init /\ notices = {}

-----------------------------------------------------------------------------
Finish(v) == verifying' = verifying \ {v}
Move(v, at) == verifying' = (verifying \ {v}) \union {[v EXCEPT !.at = at]}

(* _verify_from_db: the row is found or it is not. *)
VerifyLookup(v, found) ==
    /\ v.at = "lookup"
    /\ IF found THEN Move(v, "sleep") ELSE Finish(v)
    /\ UNCHANGED <<rest, writes, notices>>

(* _check_physical_result: the device shows what was asked for only if the *)
(* last command it applied asked for it; a faulty device may not even then.*)
Reflects(c, at) ==
    LET last == applied[cmd[c].dev]
    IN  at = "good" => last # NoId /\ cmd[last].goal = cmd[c].goal

(* Ten seconds later the device's state is read. *)
VerifyRead(v, at) ==
    /\ v.at = "sleep"
    /\ Reflects(v.cmd, at)
    /\ Move(v, at)
    /\ UNCHANGED <<rest, writes, notices>>

(* The state:* key has expired, or a Redis call failed: the task ends. *)
VerifyAbandon(v) ==
    /\ v.at = "sleep" \/ (RedisFails /\ v.at # "lookup")
    /\ Finish(v)
    /\ UNCHANGED <<rest, writes, notices>>

(* mark_verified, then the alert key is cleared. *)
VerifyGood(v) ==
    /\ v.at = "good"
    /\ Record(v.cmd, "VERIFIED")
    /\ notices' = notices \ {NoticeKey(v.cmd)}
    /\ Finish(v)
    /\ UNCHANGED rest

(* mark_verified, then is_alerted: a device and command type already       *)
(* alerted is not reported again.                                          *)
VerifyBad(v) ==
    /\ v.at = "bad"
    /\ Record(v.cmd, "UNVERIFIED")
    /\ IF NoticeKey(v.cmd) \in notices THEN Finish(v) ELSE Move(v, "alert")
    /\ UNCHANGED <<rest, notices>>

VerifyAlert(v) ==
    /\ v.at = "alert"
    /\ notices' = notices \union {NoticeKey(v.cmd)}
    /\ Finish(v)
    /\ UNCHANGED <<rest, writes>>

(* An alert key lives an hour. *)
NoticeExpire(k) ==
    /\ notices' = notices \ {k}
    /\ UNCHANGED vars

VerifyStep(v) ==
    \/ \E found \in BOOLEAN : VerifyLookup(v, found)
    \/ \E at \in {"good", "bad"} : VerifyRead(v, at)
    \/ VerifyAbandon(v) \/ VerifyGood(v) \/ VerifyBad(v) \/ VerifyAlert(v)

NextLoop ==
    \/ Next /\ UNCHANGED notices
    \/ \E v \in verifying : VerifyStep(v)
    \/ \E k \in notices : NoticeExpire(k)

LoopSpec == InitLoop /\ [][NextLoop]_loopVars

-----------------------------------------------------------------------------
(* Properties *)

Result(c, i) == writes[c][i] \in {"VERIFIED", "UNVERIFIED"}

(* A command has at most one verification task, none before its answer has *)
(* been recorded, and at most one result, after its ACCEPTED: whatever the *)
(* listener, the checker and the operators do in between, and although an  *)
(* answer may be delivered twice (mqtt_commander.py:177-196, 205-261).     *)
VerifiedOnceWhenAccepted ==
    /\ \A v \in verifying : /\ cmd[v.cmd].fate = "acked"
                            /\ \A w \in verifying : w.cmd = v.cmd => w = v
    /\ \A c \in Ids : \A j \in DOMAIN writes[c] : Result(c, j) =>
           /\ \E i \in 1 .. j - 1 : writes[c][i] = "ACCEPTED"
           /\ \A k \in DOMAIN writes[c] : Result(c, k) => k = j

-----------------------------------------------------------------------------
(* The inductive invariant behind these properties. *)

None(c, kinds) == \A i \in DOMAIN writes[c] : writes[c][i] \notin kinds

(* The INSERT of a command is asked for once, by whoever issued its id. *)
AskedOnce ==
    /\ \A c \in Ids : \A i, j \in DOMAIN writes[c] :
           writes[c][i] = "PENDING" /\ writes[c][j] = "PENDING" => i = j
    /\ \A c \in Ids : ~Used(c) => None(c, {"PENDING"})
    /\ loop.at \in {"publish", "insert"} => Used(loop.cmd) /\ None(loop.cmd, {"PENDING"})

(* An answer is recorded when it came; a verification is of an accepted    *)
(* command, and its result is not recorded before it ends.                 *)
AnsweredFirst ==
    /\ \A c \in Ids : cmd[c].fate # "acked" => None(c, {"ACCEPTED", "REJECTED"})
    /\ \A v \in verifying : /\ ~None(v.cmd, {"ACCEPTED"})
                            /\ v.at # "alert" => None(v.cmd, {"VERIFIED", "UNVERIFIED"})

LogInv == AskedOnce /\ AnsweredFirst /\ VerifiedOnceWhenAccepted
=============================================================================
