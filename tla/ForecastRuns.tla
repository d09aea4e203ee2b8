---------------------------- MODULE ForecastRuns ----------------------------
(***************************************************************************)
(* The calls of POST /api/ai/forecast for one site, served by several      *)
(* gunicorn workers, and the tables they share: ai_forecast_run with its   *)
(* points and events, and ai_forecast_latest_24h, the projection that      *)
(* GET /api/ai/forecast/latest shows.                                      *)
(*                                                                         *)
(* A call writes its run row first, asks the live satellite model, falls   *)
(* back to the capacity-factor model when that fails, and stores the       *)
(* result in one transaction at PostgreSQL's READ COMMITTED level: the     *)
(* DELETE of the projection sees the rows committed when it starts, waits  *)
(* for the transactions that hold them, and skips the rows that were       *)
(* deleted meanwhile; the INSERTs update in place the rows they find.      *)
(* What is forecast is left out: a forecast is its number of rows.         *)
(***************************************************************************)
EXTENDS Integers, FiniteSets

CONSTANTS
    Calls,      \* the calls, each on a worker of its own
    Asked,      \* per call: the requests it may be
    MaxRows,    \* bound: rows of a forecast
    LatestRows, \* rows of the projection (24)
    MaxFailures \* bound: transactions that fail, workers killed by gunicorn's timeout or a restart

ASSUME BoundsAssumption == {MaxRows, LatestRows, MaxFailures} \subseteq Nat

Kinds    == {"started", "inserted"}
Runs     == Calls \X Kinds
NoRun    == <<"none">>
NoRow    == [run |-> NoRun, tuple |-> NoRun]
Horizon  == 0 .. LatestRows - 1
Requests == {r \in [horizon : BOOLEAN, live : BOOLEAN, anchored : BOOLEAN] : r.live => r.horizon}

ASSUME CallsAssumption == IsFiniteSet(Calls) /\ Asked \in [Calls -> SUBSET Requests]

VARIABLES
    pc,       \* per call: what it does next
    request,  \* per call: asks for a horizon, of the live model, from a given
              \* time (or with features and load of its own)
    known,    \* per call: the run id start_forecast() returned
    fellBack, \* per call: its warnings hold live_satellite_failed
    rows,     \* per call: rows of its forecast
    answer,   \* per call: what its response says of the saving
    status,   \* per run: its status column, or none when there is no row
    completed,\* runs with a completed_at
    points,   \* per run: its rows of ai_forecast_point
    events,   \* per run: its rows of ai_inference_event
    latest,   \* per row of the projection: the run it shows and the one that inserted it
    seen,     \* per open transaction: the rows its DELETE has still to lock, by the run that inserted them
    held,     \* per open transaction: the rows it deleted
    wrote,    \* per open transaction: the rows it inserted or updated
    lastSaved,\* history: the run saved last
    overlap,  \* history: per call, the runs saved while its transaction was open
    misled,   \* history: calls whose COMMIT was done but not confirmed
    failures  \* transactions failed and workers killed so far

calls       == <<pc, request, known, fellBack, rows, answer>>
runTables   == <<status, completed, points, events>>
transaction == <<seen, held, wrote>>
projection  == <<latest, lastSaved, overlap>>
vars        == <<calls, runTables, transaction, projection, misled, failures>>

Over    == {"answered", "raised", "killed"}
Working == {"requesting", "waiting", "falling", "predicting", "saving", "replacing", "logging"}

(* Mutant: what the run's status column says is believed. *)
StatusOfRun(c) == IF known[c] # NoRun /\ status[known[c]] = "FALLBACK" THEN "FALLBACK" ELSE "SUCCESS"

(* Mutant: a status the table does not know. *)
UnknownStatus(c) == IF fellBack[c] THEN "FALLBACK" ELSE "OK"

Status(c) == IF fellBack[c] THEN "FALLBACK" ELSE "SUCCESS"
Shown(c)  == {i \in Horizon : i < rows[c]}
(* save_forecast() updates the run the call started, or inserts one. *)
Target(c) == IF known[c] = NoRun THEN <<c, "inserted">> ELSE known[c]

NoLocks == /\ seen = [c \in Calls |-> [i \in Horizon |-> NoRun]]
           /\ held = [c \in Calls |-> {}]
           /\ wrote = [c \in Calls |-> {}]

Init ==
    /\ pc = [c \in Calls |-> "new"]
    /\ request = [c \in Calls |-> [horizon |-> FALSE, live |-> FALSE, anchored |-> FALSE]]
    /\ known = [c \in Calls |-> NoRun]
    /\ fellBack = [c \in Calls |-> FALSE]
    /\ rows = [c \in Calls |-> 0]
    /\ answer = [c \in Calls |-> "none"]
    /\ status = [r \in Runs |-> "none"]
    /\ completed = {}
    /\ points = [r \in Runs |-> 0]
    /\ events = [r \in Runs |-> {}]
    /\ latest = [i \in Horizon |-> NoRow]
    /\ NoLocks
    /\ lastSaved = NoRun
    /\ overlap = [c \in Calls |-> {}]
    /\ misled = {}
    /\ failures = 0

Goes(c, where) == pc' = [pc EXCEPT ![c] = where]

(* A transaction outside save_forecast(): it commits, or it fails and the  *)
(* caller ignores the exception.                                           *)
Commits == UNCHANGED failures
Fails   == /\ failures < MaxFailures
           /\ failures' = failures + 1

Records(r, event) == /\ events' = [events EXCEPT ![r] = @ \union {event}]
                     /\ UNCHANGED <<completed, points>>

(* update_forecast_run(): its status, and with the last one its end. *)
UpdatesRun(r, to, ends, event) ==
    /\ status' = [status EXCEPT ![r] = to]
    /\ completed' = IF ends THEN completed \union {r} ELSE completed
    /\ events' = [events EXCEPT ![r] = @ \union {event}]
    /\ UNCHANGED points

(* record_runpod_event(): the job's id is left out. *)
RecordsJob(r, event) == Records(r, event) /\ UNCHANGED status

(* An event of the run that start_forecast() returned, when it did. *)
TriesToRecord(c, event) ==
    \/ /\ known[c] # NoRun
       /\ RecordsJob(known[c], event)
       /\ Commits
    \/ /\ known[c] # NoRun
       /\ Fails
       /\ UNCHANGED runTables
    \/ /\ known[c] = NoRun
       /\ Commits
       /\ UNCHANGED runTables

(* What POST /forecast/scheduled makes of a request: 24 hours from now on. *)
Scheduled(r) == [horizon |-> TRUE, live |-> r.live, anchored |-> TRUE]
Requested(c) == Asked[c] \union {Scheduled(r) : r \in Asked[c]}

(* Without start_time or target_times the capacity-factor model has no     *)
(* target times, and the call raises.                                      *)
AfterStart(r) == IF r.live THEN "requesting"
                 ELSE IF r.horizon /\ ~r.anchored THEN "raised"
                 ELSE "predicting"

(* A horizon request gets its run row before anything is computed; when    *)
(* the transaction fails, also after its COMMIT, the call goes on without. *)
StartRun(c, r) ==
    /\ pc[c] = "new"
    /\ request' = [request EXCEPT ![c] = r]
    /\ Goes(c, AfterStart(r))
    /\ \/ /\ ~r.horizon
          /\ Commits
          /\ UNCHANGED <<known, runTables>>
       \/ /\ r.horizon
          /\ Fails
          /\ UNCHANGED <<known, runTables>>
       \/ /\ r.horizon
          /\ status' = [status EXCEPT ![<<c, "started">>] = "PARTIAL"]
          /\ Records(<<c, "started">>, "FORECAST_REQUESTED")
          /\ \/ /\ Commits
                /\ known' = [known EXCEPT ![c] = <<c, "started">>]
             \/ /\ Fails
                /\ UNCHANGED known
    /\ UNCHANGED <<fellBack, rows, answer, transaction, projection, misled>>

RequestLive(c) ==
    /\ pc[c] = "requesting"
    /\ Goes(c, "waiting")
    /\ TriesToRecord(c, "RUNPOD_REQUESTED")
    /\ UNCHANGED <<request, known, fellBack, rows, answer, transaction, projection, misled>>

LiveAnswers(c) ==
    /\ pc[c] = "waiting"
    /\ Goes(c, "predicting")
    /\ TriesToRecord(c, "RUNPOD_COMPLETED")
    /\ UNCHANGED <<request, known, fellBack, rows, answer, transaction, projection, misled>>

LiveFails(c) ==
    /\ pc[c] = "waiting"
    /\ Goes(c, "falling")
    /\ fellBack' = [fellBack EXCEPT ![c] = TRUE]
    /\ TriesToRecord(c, "RUNPOD_FAILED")
    /\ UNCHANGED <<request, known, rows, answer, transaction, projection, misled>>

(* _mark_forecast_fallback() and _build_solar_payload() *)
FallBack(c) ==
    /\ pc[c] = "falling"
    /\ Goes(c, IF request[c].anchored THEN "predicting" ELSE "raised")
    /\ \/ /\ known[c] # NoRun
          /\ UpdatesRun(known[c], "FALLBACK", FALSE, "FORECAST_FALLBACK")
          /\ Commits
       \/ /\ known[c] # NoRun
          /\ Fails
          /\ UNCHANGED runTables
       \/ /\ known[c] = NoRun
          /\ Commits
          /\ UNCHANGED runTables
    /\ UNCHANGED <<request, known, fellBack, rows, answer, transaction, projection, misled>>

(* Only a request without a horizon, and without features, has no rows. *)
Predict(c, n) ==
    /\ pc[c] = "predicting"
    /\ request[c].horizon => n > 0
    /\ rows' = [rows EXCEPT ![c] = n]
    /\ Goes(c, "saving")
    /\ UNCHANGED <<request, known, fellBack, answer, runTables, transaction, projection, misled, failures>>

PredictRaises(c) ==
    /\ pc[c] = "predicting"
    /\ Goes(c, "raised")
    /\ UNCHANGED <<request, known, fellBack, rows, answer, runTables, transaction, projection, misled, failures>>

-----------------------------------------------------------------------------
(* The transaction of save_forecast(): the run and its points are its own; *)
(* the rows of the projection are shared.                                  *)

OpenSave(c) ==
    /\ pc[c] = "saving"
    /\ Goes(c, "replacing")
    /\ seen' = [seen EXCEPT ![c] = [i \in Horizon |-> latest[i].tuple]]
    /\ overlap' = [overlap EXCEPT ![c] = {}]
    /\ UNCHANGED <<request, known, fellBack, rows, answer, runTables, held, wrote,
                   latest, lastSaved, misled, failures>>

Holders(c, i) == {d \in Calls \ {c} : i \in held[d] \union wrote[d]}

(* The row the DELETE saw is there still, updated in place or not. *)
Remains(c, i) == seen[c][i] = latest[i].tuple
Deleting(c)   == \E i \in Horizon : seen[c][i] # NoRun

(* The DELETE takes the rows in the order it finds them on disk. *)
DeleteRow(c, i) ==
    /\ pc[c] = "replacing"
    /\ seen[c][i] # NoRun
    /\ Remains(c, i) => Holders(c, i) = {}
    /\ held' = IF Remains(c, i) THEN [held EXCEPT ![c] = @ \union {i}] ELSE held
    /\ seen' = [seen EXCEPT ![c][i] = NoRun]
    /\ UNCHANGED <<calls, runTables, wrote, projection, misled, failures>>

(* The INSERTs come in the order of horizon_index. *)
IsNext(c, i) == /\ ~Deleting(c)
                /\ i \in Shown(c) \ wrote[c]
                /\ \A j \in Shown(c) \ wrote[c] : i <= j

InsertRow(c, i) ==
    /\ pc[c] = "replacing"
    /\ IsNext(c, i)
    /\ Holders(c, i) = {}
    /\ wrote' = [wrote EXCEPT ![c] = @ \union {i}]
    /\ UNCHANGED <<calls, runTables, seen, held, projection, misled, failures>>

Replaced(c) == ~Deleting(c) /\ wrote[c] = Shown(c)

(* A row the transaction deleted, or found missing, is a new one; one that *)
(* came after its DELETE is updated.                                       *)
Inserted(c, i) ==
    [run |-> Target(c),
     tuple |-> IF latest[i] = NoRow \/ i \in held[c] THEN Target(c) ELSE latest[i].tuple]

(* Mutant: a row that is there already is left as it is. *)
ProjectedIfNew(c, i) == IF i \in wrote[c] /\ (latest[i] = NoRow \/ i \in held[c]) THEN Inserted(c, i)
                        ELSE IF i \in held[c] THEN NoRow
                        ELSE latest[i]

Projected(c, i) == IF i \in wrote[c] THEN Inserted(c, i)
                   ELSE IF i \in held[c] THEN NoRow
                   ELSE latest[i]

(* Mutant: the connection is left open with its transaction. *)
KeepOpen(c) == UNCHANGED transaction

Release(c) ==
    /\ seen' = [seen EXCEPT ![c] = [i \in Horizon |-> NoRun]]
    /\ held' = [held EXCEPT ![c] = {}]
    /\ wrote' = [wrote EXCEPT ![c] = {}]

(* _insert_points() *)
InsertsPoints(r, n) == points' = [points EXCEPT ![r] = n]

(* What the COMMIT makes visible. *)
Saved(c) ==
    LET r == Target(c) IN
    /\ status' = [status EXCEPT ![r] = Status(c)]
    /\ completed' = completed \union {r}
    /\ InsertsPoints(r, rows[c])
    /\ events' = [events EXCEPT ![r] = @ \union {"FORECAST_SAVED"}]
    /\ latest' = [i \in Horizon |-> Projected(c, i)]
    /\ lastSaved' = r
    /\ overlap' = [d \in Calls |-> IF d # c /\ pc[d] = "replacing" THEN overlap[d] \union {r}
                                   ELSE overlap[d]]

CommitSave(c) ==
    /\ pc[c] = "replacing"
    /\ Replaced(c)
    /\ Saved(c)
    /\ Release(c)
    /\ answer' = [answer EXCEPT ![c] = "saved"]
    /\ Goes(c, "answered")
    /\ UNCHANGED <<request, known, fellBack, rows, misled, failures>>

(* Mutant: the points are committed by themselves. *)
SaveFailsAfterPoints(c) ==
    /\ pc[c] = "replacing"
    /\ Fails
    /\ Release(c)
    /\ Goes(c, "logging")
    /\ points' = [points EXCEPT ![Target(c)] = rows[c]]
    /\ UNCHANGED <<request, known, fellBack, rows, answer, status, completed, events, projection, misled>>

(* A statement or the connection fails; at the COMMIT the transaction may  *)
(* have been done all the same.                                            *)
SaveFails(c) ==
    /\ pc[c] \in {"saving", "replacing"}
    /\ Fails
    /\ Release(c)
    /\ Goes(c, "logging")
    /\ \/ UNCHANGED <<runTables, projection, misled>>
       \/ /\ pc[c] = "replacing"
          /\ Replaced(c)
          /\ Saved(c)
          /\ misled' = misled \union {c}
    /\ UNCHANGED <<request, known, fellBack, rows, answer>>

(* Transactions that wait for each other in a circle: PostgreSQL aborts    *)
(* one of them.                                                            *)
Wanted(c)   == IF Deleting(c) THEN {i \in Horizon : seen[c][i] # NoRun}
                              ELSE {i \in Horizon : IsNext(c, i)}
WaitsFor(c) == UNION {Holders(c, i) : i \in Wanted(c)}
Stuck(c)    == /\ pc[c] = "replacing"
               /\ \A i \in Wanted(c) : /\ Deleting(c) => Remains(c, i)
                                       /\ Holders(c, i) # {}

DeadlockVictim(c) ==
    /\ \E S \in SUBSET Calls : c \in S /\ \A d \in S : Stuck(d) /\ WaitsFor(d) \intersect S # {}
    /\ Release(c)
    /\ Goes(c, "logging")
    /\ UNCHANGED <<request, known, fellBack, rows, answer, runTables, projection, misled, failures>>

(* _log_persistence_failure(): the answer is given whatever it can record. *)
LogFailure(c) ==
    /\ pc[c] = "logging"
    /\ \/ /\ known[c] # NoRun
          /\ UpdatesRun(known[c], "FAILED", TRUE, "FORECAST_SAVE_FAILED")
          /\ Commits
       \/ /\ known[c] # NoRun
          /\ Fails
          /\ UNCHANGED runTables
       \/ /\ known[c] = NoRun
          /\ Commits
          /\ UNCHANGED runTables
    /\ answer' = [answer EXCEPT ![c] = "unsaved"]
    /\ Goes(c, "answered")
    /\ UNCHANGED <<request, known, fellBack, rows, transaction, projection, misled>>

(* A worker is killed: the server rolls its transaction back, unless the   *)
(* COMMIT was on its way.                                                  *)
Kill(c) ==
    /\ pc[c] \in Working
    /\ Fails
    /\ Release(c)
    /\ Goes(c, "killed")
    /\ \/ UNCHANGED <<runTables, projection>>
       \/ /\ pc[c] = "replacing"
          /\ Replaced(c)
          /\ Saved(c)
    /\ UNCHANGED <<request, known, fellBack, rows, answer, misled>>

Step(c) ==
    \/ RequestLive(c)
    \/ LiveAnswers(c)
    \/ LiveFails(c)
    \/ FallBack(c)
    \/ \E n \in 0 .. MaxRows : Predict(c, n)
    \/ PredictRaises(c)
    \/ OpenSave(c)
    \/ \E i \in Horizon : DeleteRow(c, i) \/ InsertRow(c, i)
    \/ CommitSave(c)
    \/ DeadlockVictim(c)
    \/ SaveFails(c)
    \/ LogFailure(c)

Next ==
    \E c \in Calls :
        \/ \E r \in Requested(c) : StartRun(c, r)
        \/ Step(c)
        \/ Kill(c)

Spec == Init /\ [][Next]_vars

(* A worker that is not killed goes on: the live call has a timeout and    *)
(* PostgreSQL grants a lock when its holder is gone.                       *)
FairSpec == Spec /\ \A c \in Calls : WF_vars(Step(c))

-----------------------------------------------------------------------------
Statuses == {"none", "PARTIAL", "FALLBACK", "SUCCESS", "FAILED"}
Events   == {"FORECAST_REQUESTED", "RUNPOD_REQUESTED", "RUNPOD_COMPLETED", "RUNPOD_FAILED",
             "FORECAST_FALLBACK", "FORECAST_SAVED", "FORECAST_SAVE_FAILED"}

TypeOK ==
    /\ pc \in [Calls -> {"new"} \union Working \union Over]
    /\ request \in [Calls -> Requests]
    /\ known \in [Calls -> Runs \union {NoRun}]
    /\ fellBack \in [Calls -> BOOLEAN]
    /\ rows \in [Calls -> 0 .. MaxRows]
    /\ answer \in [Calls -> {"none", "saved", "unsaved"}]
    /\ status \in [Runs -> Statuses]
    /\ completed \subseteq Runs
    /\ points \in [Runs -> 0 .. MaxRows]
    /\ events \in [Runs -> SUBSET Events]
    /\ latest \in [Horizon -> [run : Runs \union {NoRun}, tuple : Runs \union {NoRun}]]
    /\ seen \in [Calls -> [Horizon -> Runs \union {NoRun}]]
    /\ held \in [Calls -> SUBSET Horizon]
    /\ wrote \in [Calls -> SUBSET Horizon]
    /\ lastSaved \in Runs \union {NoRun}
    /\ overlap \in [Calls -> SUBSET Runs]
    /\ misled \subseteq Calls
    /\ failures \in 0 .. MaxFailures

(* The projection shows the forecast saved last, all of its rows; a row of *)
(* another forecast stays beside them only when the two were being saved   *)
(* at the same time (_replace_latest_24h() deletes what it can see).       *)
LatestIsLastSaved ==
    \A c \in Calls, k \in Kinds :
        lastSaved = <<c, k>> =>
            \A i \in Horizon :
                \/ latest[i].run = lastSaved
                \/ i \notin Shown(c) /\ latest[i].run \in overlap[c] \union {NoRun}

(* What the response says of the saving is so: "saved" with the run, all   *)
(* points and the event stored, "unsaved" with none of them, unless the    *)
(* COMMIT was done but not confirmed.  Nor is a forecast that was made     *)
(* because the live model failed ever stored as a success, also when       *)
(* recording the fallback had failed: _result_status() decides.            *)
AnswerIsTrue ==
    \A c \in Calls :
        /\ \A k \in Kinds : status[<<c, k>>] = "SUCCESS" => ~fellBack[c]
        /\ answer[c] = "saved" =>
              /\ status[Target(c)] = Status(c)
              /\ Target(c) \in completed
              /\ points[Target(c)] = rows[c]
              /\ "FORECAST_SAVED" \in events[Target(c)]
        /\ answer[c] = "unsaved" /\ c \notin misled =>
              \A k \in Kinds :
                  /\ points[<<c, k>>] = 0
                  /\ status[<<c, k>>] # "SUCCESS"
                  /\ \A i \in Horizon : latest[i].run # <<c, k>>

(* Every call comes to its end: no transaction leaves a lock behind, and   *)
(* of those that wait for each other one is aborted (there is no other     *)
(* timeout: the connections set no lock_timeout).                          *)
CallsConclude == <>[](\A c \in Calls : pc[c] \notin Working)

-----------------------------------------------------------------------------
(* The inductive invariant *)

Saving == {"logging", "answered", "killed"}

KnownOK == \A c \in Calls : known[c] \in {NoRun, <<c, "started">>}

(* Only a COMMIT writes SUCCESS, and nothing falls back after it. *)
SuccessOK == \A c \in Calls, k \in Kinds :
    status[<<c, k>>] = "SUCCESS" => ~fellBack[c] /\ pc[c] \in Saving

StoredWhole(c) ==
    /\ status[Target(c)] = Status(c)
    /\ Target(c) \in completed
    /\ points[Target(c)] = rows[c]
    /\ "FORECAST_SAVED" \in events[Target(c)]

AnswersOK == \A c \in Calls :
    /\ pc[c] # "answered" => answer[c] = "none"
    /\ answer[c] = "saved" => StoredWhole(c)

NothingStored(c) == \A k \in Kinds :
    /\ points[<<c, k>>] = 0
    /\ status[<<c, k>>] # "SUCCESS"
    /\ \A i \in Horizon : latest[i].run # <<c, k>>

(* A call whose COMMIT was not done has left nothing. *)
UnsavedOK == \A c \in Calls :
    pc[c] # "killed" /\ answer[c] # "saved" /\ c \notin misled => NothingStored(c)

RowsOK == \A i \in Horizon : latest[i].tuple = NoRun <=> latest[i].run = NoRun

(* A row the open transaction neither deleted nor has still to delete is   *)
(* of a forecast saved meanwhile; so is one that took the place of a row   *)
(* it has still to delete.                                                 *)
Meanwhile(c, i) == latest[i].run \in overlap[c] \union {NoRun}

SnapshotOf(c) ==
    pc[c] = "replacing" =>
        \A i \in Horizon :
            /\ seen[c][i] # NoRun \/ i \in held[c] \/ Meanwhile(c, i)
            /\ seen[c][i] # NoRun /\ ~Remains(c, i) => Meanwhile(c, i)

SnapshotOK == \A c \in Calls : SnapshotOf(c)

LastOK == \A c \in Calls, k \in Kinds : lastSaved = <<c, k>> => pc[c] \in Saving

RunsInv ==
    /\ TypeOK /\ KnownOK /\ SuccessOK /\ AnswersOK /\ UnsavedOK
    /\ RowsOK /\ SnapshotOK /\ LastOK /\ LatestIsLastSaved
=============================================================================
