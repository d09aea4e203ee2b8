---------------------------- MODULE TrainingJobs ----------------------------
(***************************************************************************)
(* The training of the solar models, on a server, where an operator starts *)
(* and resumes it, or as jobs of a RunPod worker: the handler extracts the *)
(* data package of the job, runs the stages one by one as processes, and   *)
(* answers with a zip of the whole output directory.  A worker may be warm *)
(* and still have on its disk what earlier jobs left.                      *)
(*                                                                         *)
(* Every file is written in place.  The numbered copy of a checkpoint and  *)
(* the logs, which nothing reads, are left out, and the tables beside a    *)
(* model are one file.                                                     *)
(***************************************************************************)
EXTENDS Integers, FiniteSets

CONSTANTS
    Orders,      \* what may be asked for: the files of the data package, the stages
    Epochs,      \* epochs of the configuration
    MaxRmse,     \* bound: the values of val_rmse
    MaxSessions  \* bound: trainings started

Stages    == {"mlp", "lightgbm", "site_correction"}
LatestPt  == <<"mlp", "latest">>
BestPt    == <<"mlp", "best">>
DataFiles == {"data"} \X {"train", "val", "siteTrain", "siteVal"}
DataOf(s) == {"data"} \X (IF s = "site_correction" THEN {"siteTrain", "siteVal"} ELSE {"train", "val"})
StageFiles(s) == IF s = "mlp" THEN {LatestPt, BestPt} ELSE {s} \X {"model", "tables", "metrics"}
AllFiles  == DataFiles \union UNION {StageFiles(s) : s \in Stages}
Metrics   == {"lightgbm", "site_correction"} \X {"metrics"}
NoStage   == "no stage"

OrdersAllowed == [package : SUBSET DataFiles, stages : SUBSET (Stages \union {"other"}), resume : BOOLEAN]

ASSUME OrdersAssumption == Orders \subseteq OrdersAllowed
ASSUME EpochsAssumption == Epochs \in Nat \ {0} /\ MaxRmse \in Nat /\ MaxSessions \in Nat

VARIABLES
    machine, \* "runpod" or "server"
    session, \* trainings started so far
    order,   \* what the last one was asked for
    phase,   \* idle, extract or stages
    stagesLeft, \* stages to come
    result,  \* per stage: its status
    current, \* the stage whose process runs
    epoch,   \* of the process of the MLP: the epoch it is at,
    rmse,    \*     val_rmse of that epoch
    bestVal, \*     best_val_rmse
    unwritten, \* files to be written
    opened,  \* the one of them that is open, if any
    content, \* per file: its content
    tried,   \* history: val_rmse of the epochs saved since the last start, and of the one resumed
    spoilt,  \* history: the best epoch was not saved since a process died between its files
    jobAnswer \* the last answer of the handler

worker  == <<machine, session, order, phase>>
process == <<current, epoch, rmse, bestVal>>
writing == <<unwritten, opened>>
past    == <<tried, spoilt>>
jobVars == <<worker, stagesLeft, result, process, writing, content, past, jobAnswer>>

NoFile  == [is |-> "none", of |-> 0, epoch |-> 0, rmse |-> 0]
CutFile == [is |-> "cut", of |-> 0, epoch |-> 0, rmse |-> 0]
WrittenAs(f) == IF f[1] = "mlp" THEN [is |-> "whole", of |-> session, epoch |-> epoch, rmse |-> rmse]
                ELSE [NoFile EXCEPT !.is = "whole", !.of = session]
Infinity == MaxRmse + 1

\* The disk of a server has the data.
TrainingInit ==
    /\ machine \in {"runpod", "server"}
    /\ session = 0
    /\ order = [package |-> {}, stages |-> {}, resume |-> FALSE]
    /\ phase = "idle"
    /\ stagesLeft = {}
    /\ result = [s \in Stages |-> "none"]
    /\ current = NoStage /\ epoch = 0 /\ rmse = 0 /\ bestVal = Infinity
    /\ unwritten = {} /\ opened = {}
    /\ content = [f \in AllFiles |-> IF machine = "server" /\ f \in DataFiles
                                     THEN [NoFile EXCEPT !.is = "whole"] ELSE NoFile]
    /\ tried = {} /\ spoilt = FALSE
    /\ jobAnswer = [of |-> 0, ok |-> FALSE, order |-> order, result |-> result, files |-> content]

-----------------------------------------------------------------------------
(* Files are written in place: one by one, a checkpoint before the copy    *)
(* that is the best, a model before its metrics.                           *)

Turn(f) == IF f[2] = "metrics" THEN 3 ELSE IF f[2] \in {"best", "tables"} THEN 2 ELSE 1

OpenFile(f) ==
    /\ f \in unwritten /\ opened = {}
    /\ \A g \in unwritten : Turn(f) <= Turn(g)
    /\ opened' = {f}
    /\ content' = [content EXCEPT ![f] = CutFile]
    /\ UNCHANGED <<worker, stagesLeft, result, process, unwritten, past, jobAnswer>>

CloseFile(f) ==
    /\ f \in opened
    /\ opened' = {}
    /\ unwritten' = unwritten \ {f}
    /\ content' = [content EXCEPT ![f] = WrittenAs(f)]
    /\ tried' = IF f = LatestPt THEN tried \union {rmse} ELSE tried
    /\ spoilt' = (spoilt /\ f # BestPt)
    /\ UNCHANGED <<worker, stagesLeft, result, process, jobAnswer>>

NoProcess == current' = NoStage /\ epoch' = 0 /\ rmse' = 0 /\ bestVal' = Infinity

(* The process, the handler or the machine stops, whatever is open. *)
Stops ==
    /\ NoProcess
    /\ unwritten' = {} /\ opened' = {} /\ stagesLeft' = {}
    /\ spoilt' = (spoilt \/ (BestPt \in unwritten /\ LatestPt \notin unwritten))
    /\ UNCHANGED <<machine, session, order, content, tried>>

-----------------------------------------------------------------------------
(* The handler and its data: _train(), _extract_zip() *)

\* Mutant: a file that is there is not written again.
ExtractsNew(package) == {d \in package : content[d].is = "none"}

Extracts(package) == package

\* A server's trainings are those of train.py and of run_training_stages.sh.
MayAsk(o) ==
    IF machine = "runpod" THEN o.package # {} /\ ~o.resume
    ELSE o.package = {} /\ (o.stages = Stages \/ o.stages = {"mlp"})
         /\ (o.resume => o.stages = {"mlp"})

Begin(o) ==
    /\ phase = "idle" /\ session < MaxSessions /\ MayAsk(o)
    /\ session' = session + 1
    /\ order' = o
    /\ stagesLeft' = o.stages
    /\ result' = [s \in Stages |-> "none"]
    /\ phase' = IF machine = "runpod" THEN "extract" ELSE "stages"
    /\ unwritten' = Extracts(o.package)
    /\ UNCHANGED <<machine, process, opened, content, past, jobAnswer>>

\* A stage that is not known raises.
RunStages ==
    /\ phase = "extract" /\ unwritten = {}
    /\ stagesLeft \subseteq Stages
    /\ phase' = "stages"
    /\ UNCHANGED <<machine, session, order, stagesLeft, result, process, writing, content, past, jobAnswer>>

-----------------------------------------------------------------------------
(* A stage: _run_command(), and the mains of the three *)

Missing(s) == {d \in DataOf(s) : content[d].is = "none"}

Waiting(s) == phase = "stages" /\ current = NoStage /\ s \in stagesLeft

Skips(s) == s = "site_correction" /\ Missing(s) # {}

SkipStage ==
    /\ Waiting("site_correction") /\ Skips("site_correction")
    /\ stagesLeft' = stagesLeft \ {"site_correction"}
    /\ result' = [result EXCEPT !["site_correction"] = "SKIPPED"]
    /\ UNCHANGED <<worker, process, writing, content, past, jobAnswer>>

\* Mutant: the best value so far is not restored.
Forgets(checkpoint) == Infinity

Restores(checkpoint) == checkpoint.rmse

Starts(s) ==
    /\ Waiting(s) /\ Missing(s) = {}
    /\ stagesLeft' = stagesLeft \ {s}
    /\ current' = s
    /\ UNCHANGED <<worker, result, opened, content, spoilt, jobAnswer>>

StartModel(s) ==
    /\ s # "mlp" /\ Starts(s)
    /\ unwritten' = StageFiles(s)
    /\ UNCHANGED <<epoch, rmse, bestVal, tried>>

Fresh ==
    /\ Starts("mlp")
    /\ order.resume => content[LatestPt].is = "none"
    /\ epoch' = 0 /\ bestVal' = Infinity /\ tried' = {}
    /\ UNCHANGED <<rmse, unwritten>>

Resume ==
    /\ Starts("mlp")
    /\ order.resume /\ content[LatestPt].is = "whole"
    /\ epoch' = content[LatestPt].epoch
    /\ bestVal' = Restores(content[LatestPt])
    /\ tried' = {content[LatestPt].rmse}
    /\ UNCHANGED <<rmse, unwritten>>

IsBest(r) == r < bestVal

RunEpoch(r) ==
    /\ current = "mlp" /\ unwritten = {} /\ epoch < Epochs
    /\ epoch' = epoch + 1
    /\ rmse' = r
    /\ bestVal' = IF IsBest(r) THEN r ELSE bestVal
    /\ unwritten' = {LatestPt} \union (IF IsBest(r) THEN {BestPt} ELSE {})
    /\ UNCHANGED <<worker, stagesLeft, result, current, opened, content, past, jobAnswer>>

EndStage ==
    /\ current # NoStage /\ unwritten = {}
    /\ current = "mlp" => epoch >= Epochs
    /\ result' = [result EXCEPT ![current] = "COMPLETED"]
    /\ NoProcess
    /\ UNCHANGED <<worker, stagesLeft, writing, content, past, jobAnswer>>

\* A process that fails ends the stages; a file that is missing and a
\* checkpoint that is cut make it fail.
StageFails(s) ==
    /\ current = s \/ (Waiting(s) /\ ~Skips(s))
    /\ result' = [result EXCEPT ![s] = "FAILED"]
    /\ Stops
    /\ UNCHANGED <<phase, jobAnswer>>

-----------------------------------------------------------------------------
(* The end of a training *)

StagesOver == phase = "stages" /\ current = NoStage /\ stagesLeft = {}

\* The whole output directory is zipped, and metrics.json of both models read,
\* whichever job wrote them.
JobAnswers ==
    /\ StagesOver /\ machine = "runpod"
    /\ \A f \in Metrics : content[f].is # "cut"
    /\ jobAnswer' = [of |-> session, ok |-> \A s \in Stages : result[s] # "FAILED",
                     order |-> order, result |-> result, files |-> content]
    /\ phase' = "idle"
    /\ UNCHANGED <<machine, session, order, stagesLeft, result, process, writing, content, past>>

ScriptEnds ==
    /\ StagesOver /\ machine = "server"
    /\ phase' = "idle"
    /\ UNCHANGED <<machine, session, order, stagesLeft, result, process, writing, content, past, jobAnswer>>

\* The download, the extraction, a check or the upload raises, or the machine
\* or the operator stops the training.
TrainingDies ==
    /\ phase # "idle"
    /\ phase' = "idle"
    /\ Stops
    /\ UNCHANGED <<result, jobAnswer>>

\* A worker that is not warm has nothing on its disk.
NewWorker ==
    /\ machine = "runpod" /\ phase = "idle"
    /\ content' = [f \in AllFiles |-> NoFile]
    /\ tried' = {} /\ spoilt' = FALSE
    /\ UNCHANGED <<worker, stagesLeft, result, process, writing, jobAnswer>>

Training ==
    \/ \E f \in AllFiles : OpenFile(f) \/ CloseFile(f)
    \/ \E s \in Stages : StartModel(s) \/ StageFails(s)
    \/ \E r \in 0 .. MaxRmse : RunEpoch(r)
    \/ SkipStage \/ Fresh \/ Resume \/ EndStage

TrainingNext ==
    \/ \E o \in Orders : Begin(o)
    \/ RunStages \/ Training
    \/ JobAnswers \/ ScriptEnds \/ TrainingDies \/ NewWorker

TrainingSpec == TrainingInit /\ [][TrainingNext]_jobVars

-----------------------------------------------------------------------------
(* Properties *)

\* What an answer calls COMPLETED is of its own job, although the worker may
\* have the files of earlier jobs, whole or cut, where this one looks: the
\* files of the stage in the zip are whole and written by it, and as far as
\* its package has the data of the stage, the stage has read that.  An answer
\* that says ok has every stage that was asked for, but for a site correction
\* whose data is not in the package (runpod/handler.py _train()).
AnswerIsOfItsJob ==
    jobAnswer.of # 0 =>
        LET own(f) == jobAnswer.files[f].is = "whole" /\ jobAnswer.files[f].of = jobAnswer.of IN
        /\ \A s \in Stages : jobAnswer.result[s] = "COMPLETED" =>
              /\ \A f \in StageFiles(s) : own(f)
              /\ \A d \in DataOf(s) \intersect jobAnswer.order.package : own(d)
        /\ jobAnswer.ok => \A s \in jobAnswer.order.stages :
              \/ jobAnswer.result[s] = "COMPLETED"
              \/ /\ s = "site_correction" /\ jobAnswer.result[s] = "SKIPPED"
                 /\ ~(DataOf(s) \subseteq jobAnswer.order.package)

\* best.pt, with which infer.py predicts, is as good as every epoch saved since
\* the last start, the one that was resumed included, however often a training
\* was stopped and resumed, unless it was stopped between the files of an epoch
\* and no better one was saved since.  That it is the best of all epochs before
\* the resume as well is not so: train.py:141 takes the value of the latest.
BestIsOfItsRun ==
    unwritten = {} /\ ~spoilt =>
        \A r \in tried : content[BestPt].is = "whole" /\ content[BestPt].rmse <= r

\* docs/jira/train.md:60: after the end of a session or an interruption a
\* training can be continued.  latest.pt is written in place.
ResumeContinues == phase = "idle" /\ tried # {} => content[LatestPt].is = "whole"

TrainingTypeOK ==
    /\ machine \in {"runpod", "server"} /\ session \in 0 .. MaxSessions
    /\ order \in OrdersAllowed
    /\ phase \in {"idle", "extract", "stages"}
    /\ stagesLeft \subseteq Stages \union {"other"}
    /\ result \in [Stages -> {"none", "COMPLETED", "FAILED", "SKIPPED"}]
    /\ current \in Stages \union {NoStage}
    /\ epoch \in 0 .. Epochs /\ rmse \in 0 .. MaxRmse /\ bestVal \in 0 .. Infinity
    /\ unwritten \subseteq AllFiles /\ opened \subseteq unwritten
    /\ content \in [AllFiles -> [is : {"none", "cut", "whole"}, of : 0 .. MaxSessions,
                                 epoch : 0 .. Epochs, rmse : 0 .. MaxRmse]]
    /\ tried \subseteq 0 .. MaxRmse /\ spoilt \in BOOLEAN
=============================================================================
