------------------------------ MODULE Archive ------------------------------
(***************************************************************************)
(* The archive of satellite products the forecast models are trained on,   *)
(* collected over weeks on one drive: the runner that goes through the     *)
(* months and starts a collector for each, the collector that downloads    *)
(* what is not there yet, the index of what is missing, and the runner     *)
(* that retries it.  Any of them may be stopped at any step; nothing but   *)
(* the drive remembers.  The hourly and the half-hourly configuration      *)
(* share the drive and differ in the minute of their files.                *)
(*                                                                         *)
(* A slot stands for one hour and product.  The operator follows the flow  *)
(* the documentation gives: months, index, retry, and again, for one       *)
(* configuration or the other, one process at a time.                      *)
(***************************************************************************)
EXTENDS Naturals, Sequences, FiniteSets, TLC

CONSTANTS
    Months,    \* months of the archive
    Slots,     \* files of a month and minute
    Minutes,   \* the minutes of the configurations, as "00" and "30"
    Unserved,  \* files the service answers 404 for
    Attempts,  \* request.retries
    MaxFaults  \* bound: bad answers, broken streams, processes stopped

Files == (1..Months) \X Minutes \X (1..Slots)

ASSUME ArchiveAssumption == Months \in Nat \ {0} /\ Slots \in Nat \ {0} /\ IsFiniteSet(Minutes)
ASSUME UnservedAssumption == Unserved \subseteq Files
ASSUME AttemptsAssumption == Attempts \in Nat \ {0} /\ MaxFaults \in Nat

VARIABLES
    disk,      \* per file: what its path holds
    part,      \* files with a .part beside their path
    stage,     \* what the operator does
    minute,    \* the configuration in use
    agenda,    \* collectors to start: their files, in order
    todo,      \* files the collector has still to go through
    running,   \* a collector runs
    attempt,   \* its attempt at the first of them
    streaming, \* its body is being written
    log,       \* the collector's manifest so far
    monthLog,  \* manifests saved by the collectors of months
    stampLog,  \* manifests saved by the collectors of single times
    index,     \* the retry index: per file the reason, or NoIndex
    faults     \* faults so far

collector == <<todo, running, attempt, streaming, log>>
saved     == <<monthLog, stampLog>>
vars      == <<disk, part, stage, minute, agenda, collector, saved, index, faults>>

Contents == {"none", "whole", "short", "torn"}
Statuses == {"none", "COMPLETED", "SKIPPED_EXISTS", "FAILED", "REJECTED"}
Reasons  == {"none", "MISSING", "FAILED", "REJECTED_OR_NO_DATA", "SUSPICIOUS_SMALL_FILE"}
NoLog    == [f \in Files |-> "none"]
NoIndex  == [f \in Files |-> "none"]

TypeOK ==
    /\ disk \in [Files -> Contents]
    /\ part \subseteq Files
    /\ stage \in {"months", "monthRun", "index", "retry", "retryRun"}
    /\ minute \in Minutes
    /\ agenda \in Seq(Seq(Files)) /\ todo \in Seq(Files)
    /\ running \in BOOLEAN /\ streaming \in BOOLEAN
    /\ attempt \in 1..Attempts
    /\ {log, monthLog, stampLog} \subseteq [Files -> Statuses]
    /\ index \in [Files -> Reasons]
    /\ faults \in 0..MaxFaults

Idle == agenda = <<>> /\ ~running

Init ==
    /\ disk = [f \in Files |-> "none"]
    /\ part = {}
    /\ stage = "months"
    /\ minute \in Minutes
    /\ agenda = <<>>
    /\ todo = <<>> /\ running = FALSE /\ attempt = 1 /\ streaming = FALSE /\ log = NoLog
    /\ monthLog = NoLog /\ stampLog = NoLog
    /\ index = NoIndex
    /\ faults = 0

-----------------------------------------------------------------------------
(* The runner of the months *)

MonthFiles(m, o) == [s \in 1..Slots |-> <<m, o, s>>]

\* month_existing_records counts the files of every minute.
Existing(m) == Cardinality({f \in Files : f[1] = m /\ disk[f] # "none"})
IsFull(m)   == Existing(m) >= Slots

ResumeMonth ==
    IF \A m \in 1..Months : IsFull(m) THEN 1
    ELSE CHOOSE m \in 1..Months : ~IsFull(m) /\ \A n \in 1..m - 1 : IsFull(n)

\* From the first month that is not full, or through all of them.
RunMonths(o) ==
    /\ stage = "months"
    /\ stage' = "monthRun"
    /\ minute' = o
    /\ agenda' = [i \in 1..Months - ResumeMonth + 1 |-> MonthFiles(ResumeMonth + i - 1, o)]
    /\ UNCHANGED <<disk, part, collector, saved, index, faults>>

\* A month found full is passed over.
PassMonth ==
    /\ stage = "monthRun" /\ ~running /\ agenda # <<>>
    /\ IsFull(Head(agenda)[1][1])
    /\ agenda' = Tail(agenda)
    /\ UNCHANGED <<disk, part, stage, minute, collector, saved, index, faults>>

StartCollector ==
    /\ ~running /\ agenda # <<>>
    /\ stage = "monthRun" => ~IsFull(Head(agenda)[1][1])
    /\ agenda' = Tail(agenda)
    /\ todo' = Head(agenda)
    /\ running' = TRUE
    /\ log' = NoLog
    /\ UNCHANGED <<disk, part, stage, minute, attempt, streaming, saved, index, faults>>

EndRun ==
    /\ stage \in {"monthRun", "retryRun"} /\ Idle
    /\ stage' = IF stage = "monthRun" THEN "index" ELSE "months"
    /\ UNCHANGED <<disk, part, minute, agenda, collector, saved, index, faults>>

-----------------------------------------------------------------------------
(* The collector *)

\* As a check that takes a .part for the file.
AnyTrace(f) == disk[f] # "none" \/ f \in part

Exists(f) == disk[f] # "none"

\* The collector is done with its file, with that status.
Recorded(f, status) ==
    /\ log' = [log EXCEPT ![f] = status]
    /\ todo' = Tail(todo)
    /\ attempt' = 1
    /\ streaming' = FALSE

SkipFile ==
    LET f == Head(todo) IN
    /\ todo # <<>> /\ Exists(f) /\ attempt = 1 /\ ~streaming
    /\ Recorded(f, "SKIPPED_EXISTS")
    /\ UNCHANGED <<disk, part, stage, minute, agenda, running, saved, index, faults>>

\* As if the body were written where it belongs at once.
BeginsInPlace(f) == disk' = [disk EXCEPT ![f] = "torn"] /\ part' = part

\* The body is written beside the path, over what is there.
Begins(f) == part' = part \union {f} /\ UNCHANGED disk

Answered ==
    LET f == Head(todo) IN
    /\ todo # <<>> /\ ~Exists(f) /\ ~streaming
    /\ f \notin Unserved
    /\ Begins(f)
    /\ streaming' = TRUE
    /\ UNCHANGED <<stage, minute, agenda, todo, running, attempt, log, saved, index, faults>>

\* The body ends and the .part replaces the path.  What the service sends with
\* a 200 may be a message instead of the product.
Arrived ==
    LET f == Head(todo) IN
    /\ streaming
    /\ \E body \in {"whole", "short"} :
        /\ body = "short" => faults < MaxFaults
        /\ faults' = IF body = "short" THEN faults + 1 ELSE faults
        /\ disk' = [disk EXCEPT ![f] = body]
    /\ part' = part \ {f}
    /\ Recorded(f, "COMPLETED")
    /\ UNCHANGED <<stage, minute, agenda, running, saved, index>>

MoreAttempts == attempt < Attempts

\* An attempt fails, for good with the last one; the .part is removed.
Failed ==
    LET f == Head(todo) IN
    /\ todo # <<>> /\ (streaming \/ ~Exists(f))
    /\ IF f \in Unserved THEN UNCHANGED faults
       ELSE faults < MaxFaults /\ faults' = faults + 1
    /\ part' = part \ {f}
    /\ IF MoreAttempts
       THEN /\ attempt' = attempt + 1
            /\ streaming' = FALSE
            /\ UNCHANGED <<todo, log>>
       ELSE \E status \in IF f \in Unserved THEN {"REJECTED"} ELSE {"FAILED", "REJECTED"} :
                Recorded(f, status)
    /\ UNCHANGED <<disk, stage, minute, agenda, running, saved, index>>

\* The manifest is saved under the collector's window, over an earlier one.
EndCollector ==
    LET Over(old) == [f \in Files |-> IF log[f] # "none" THEN log[f] ELSE old[f]] IN
    /\ running /\ todo = <<>>
    /\ running' = FALSE
    /\ log' = NoLog
    /\ IF stage = "monthRun" THEN monthLog' = Over(monthLog) /\ UNCHANGED stampLog
       ELSE stampLog' = Over(stampLog) /\ UNCHANGED monthLog
    /\ UNCHANGED <<disk, part, stage, minute, agenda, todo, attempt, streaming, index, faults>>

\* The collector ends with an error before its manifest: the runner goes on,
\* or stops where --stop-on-failure says so.
CollectorStops ==
    /\ running /\ faults < MaxFaults
    /\ faults' = faults + 1
    /\ agenda' \in {agenda, <<>>}
    /\ todo' = <<>> /\ running' = FALSE /\ attempt' = 1 /\ streaming' = FALSE /\ log' = NoLog
    /\ UNCHANGED <<disk, part, stage, minute, saved, index>>

-----------------------------------------------------------------------------
(* The index and the retries *)

Rejected(status) == CASE status = "REJECTED" -> "REJECTED_OR_NO_DATA"
                      [] status = "FAILED" -> "FAILED"
                      [] OTHER -> "MISSING"

\* The manifest whose name sorts last: of the single time, but for the first
\* time of a month, whose window starts alike and ends earlier.
Latest(f) == IF stampLog[f] # "none" /\ (f[3] # 1 \/ monthLog[f] = "none") THEN stampLog[f] ELSE monthLog[f]

\* As if a file the manifest calls completed were not looked at.
TrustedReason(f) ==
    IF Latest(f) \in {"COMPLETED", "SKIPPED_EXISTS"} \/ disk[f] = "whole" THEN "none"
    ELSE IF disk[f] # "none" THEN "SUSPICIOUS_SMALL_FILE" ELSE Rejected(Latest(f))

Reason(f) ==
    IF disk[f] = "whole" THEN "none"
    ELSE IF disk[f] # "none" THEN "SUSPICIOUS_SMALL_FILE" ELSE Rejected(Latest(f))

BuildIndex ==
    /\ stage = "index"
    /\ stage' = "retry"
    /\ index' = [f \in Files |-> IF f[2] = minute THEN Reason(f) ELSE "none"]
    /\ UNCHANGED <<disk, part, minute, agenda, collector, saved, faults>>

\* A collector for the time of every item, in order.
RunRetry ==
    LET times == [i \in 1..Months * Slots |-> <<((i - 1) \div Slots) + 1, minute, ((i - 1) % Slots) + 1>>]
        items == SelectSeq(times, LAMBDA f : index[f] # "none") IN
    /\ stage = "retry"
    /\ stage' = "retryRun"
    /\ agenda' = [i \in 1..Len(items) |-> <<items[i]>>]
    /\ UNCHANGED <<disk, part, minute, collector, saved, index, faults>>

-----------------------------------------------------------------------------
\* The machine or the operator stops everything.
Stopped ==
    /\ stage # "months" /\ faults < MaxFaults
    /\ faults' = faults + 1
    /\ stage' = "months"
    /\ agenda' = <<>>
    /\ todo' = <<>> /\ running' = FALSE /\ attempt' = 1 /\ streaming' = FALSE /\ log' = NoLog
    /\ UNCHANGED <<disk, part, minute, saved, index>>

Scripts == \/ PassMonth \/ StartCollector \/ EndRun
           \/ SkipFile \/ Answered \/ Arrived \/ Failed \/ EndCollector
           \/ BuildIndex \/ RunRetry

Next == \/ \E o \in Minutes : RunMonths(o)
        \/ Scripts
        \/ CollectorStops
        \/ Stopped

Spec == Init /\ [][Next]_vars

\* The scripts run to their end, and the operator comes back to each
\* configuration.
FairSpec == Spec /\ WF_vars(Scripts) /\ \A o \in Minutes : SF_vars(RunMonths(o))

-----------------------------------------------------------------------------
\* Whatever is stopped, a path holds nothing but a body received to its end:
\* what a later run skips because it exists is not half a file
\* (collect_gk2a_le2_archive.py:88-117, 150).
ServedInFull == \A f \in Files : disk[f] # "torn"

\* A file of the configuration that is not whole on the drive is in the index
\* made of it, until the next one: neither an earlier failure nor an earlier
\* success in a manifest hides it (build_gk2a_failure_index.py:148-191).
GapsAreListed ==
    stage \in {"retry", "retryRun"} =>
        \A f \in Files : f[2] = minute => disk[f] = "whole" \/ index[f] # "none"

\* Of every file the service has something comes to the drive, the file or a
\* body too small to be one, which is listed and never fetched again, whatever is stopped or fails
\* on the way, and although a month counts as full by the files of both
\* minutes (run_gk2a_le2_archive_monthly.py:74-83, 149): the index and the
\* retry make up for what the runner of the months passes over.
ServedComesHome == <>(\A f \in Files \ Unserved : disk[f] # "none")

-----------------------------------------------------------------------------
(* The inductive invariant behind ServedInFull and GapsAreListed: files to *)
(* go through are a running collector's, and a body that is being written  *)
(* is of a file its path does not hold yet.                                *)
ArchiveInv ==
    /\ disk \in [Files -> Contents \ {"torn"}]
    /\ todo # <<>> => running
    /\ streaming => todo # <<>> /\ disk[Head(todo)] = "none"
    /\ GapsAreListed
=============================================================================
