--------------------------- MODULE ForecastProofs ---------------------------
(***************************************************************************)
(* What the tables say of forecast calls that overlap, fail and are killed *)
(* is true, and so is what is read from and added to them meanwhile, for   *)
(* any calls, any sizes of a forecast and any number of failures; and what *)
(* a live prediction assumed is told, however the two services answer.     *)
(***************************************************************************)
EXTENDS ForecastViews, LiveForecast, FiniteSetTheorems, TLAPS

-----------------------------------------------------------------------------
(* Facts about runs *)

LEMMA RunFacts ==
    /\ \A c \in Calls, k \in Kinds : <<c, k>> \in Runs /\ <<c, k>> # NoRun
    /\ \A r \in Runs : r # NoRun /\ \E c \in Calls, k \in Kinds : r = <<c, k>>
    /\ \A c, d \in Calls, k, l \in Kinds : <<c, k>> = <<d, l>> => c = d /\ k = l
<1>1. \A c \in Calls, k \in Kinds : <<c, k>> \in Runs /\ 2 \in DOMAIN <<c, k>>
  BY DEF Runs
<1>2. 2 \notin DOMAIN NoRun
  BY DEF NoRun
<1>3. \A r \in Runs : \E c \in Calls, k \in Kinds : r = <<c, k>>
  BY DEF Runs
<1>4. \A c \in Calls, k \in Kinds : <<c, k>> # NoRun
  BY <1>1, <1>2
<1> QED BY <1>1, <1>3, <1>4

(* The run of a save is the call's own. *)
LEMMA TargetFacts ==
    ASSUME KnownOK, NEW c \in Calls
    PROVE  \E k \in Kinds : Target(c) = <<c, k>>
BY DEF KnownOK, Target, Kinds

-----------------------------------------------------------------------------
(* What a step of a call leaves alone: all that is of the other calls. *)

OthersRest(c) ==
    /\ \A d \in Calls \ {c} :
          /\ pc'[d] = pc[d] /\ known'[d] = known[d] /\ fellBack'[d] = fellBack[d]
          /\ rows'[d] = rows[d] /\ answer'[d] = answer[d]
          /\ seen'[d] = seen[d] /\ held'[d] = held[d]
    /\ \A d \in Calls \ {c}, k \in Kinds :
          /\ status'[<<d, k>>] = status[<<d, k>>] /\ points'[<<d, k>>] = points[<<d, k>>]
          /\ <<d, k>> \in completed => <<d, k>> \in completed'
          /\ events[<<d, k>>] \subseteq events'[<<d, k>>]

(* A step before the end of the call that stores no forecast. *)
Quiet(c) ==
    /\ OthersRest(c)
    /\ pc[c] \notin Over
    /\ known'[c] \in {NoRun, <<c, "started">>}
    /\ \A k \in Kinds : /\ points'[<<c, k>>] = points[<<c, k>>]
                        /\ status'[<<c, k>>] = "SUCCESS" => status[<<c, k>>] = "SUCCESS"
    /\ pc[c] \in Saving => pc'[c] \in Saving /\ fellBack'[c] = fellBack[c] /\ rows'[c] = rows[c]
    /\ pc'[c] # "answered" => answer'[c] = "none"
    /\ answer'[c] # "saved"
    /\ UNCHANGED <<latest, lastSaved, misled>>
    /\ \A d \in Calls : overlap'[d] = overlap[d] \/ (d = c /\ pc[c] = "saving")
    /\ SnapshotOf(c)'

LEMMA QuietKeeps == ASSUME RunsInv, TypeOK', NEW c \in Calls, Quiet(c) PROVE RunsInv'
<1> USE DEF RunsInv
<1>1. KnownOK'
  BY DEF Quiet, OthersRest, KnownOK
<1>2. SuccessOK'
  <2> SUFFICES ASSUME NEW d \in Calls, NEW k \in Kinds, status'[<<d, k>>] = "SUCCESS"
               PROVE  ~fellBack'[d] /\ pc'[d] \in Saving
    BY DEF SuccessOK
  <2>1. CASE d = c
    BY <2>1 DEF Quiet, SuccessOK
  <2>2. CASE d # c
    BY <2>2 DEF Quiet, OthersRest, SuccessOK
  <2> QED BY <2>1, <2>2
<1>3. AnswersOK'
  <2> SUFFICES ASSUME NEW d \in Calls
               PROVE  /\ pc'[d] # "answered" => answer'[d] = "none"
                      /\ answer'[d] = "saved" => StoredWhole(d)'
    BY DEF AnswersOK
  <2>1. CASE d = c
    BY <2>1 DEF Quiet
  <2>2. CASE d # c
    <3>1. PICK k \in Kinds : Target(d) = <<d, k>>
      BY TargetFacts
    <3>2. Target(d)' = <<d, k>> /\ Status(d)' = Status(d)
      BY <2>2, <3>1 DEF Quiet, OthersRest, Target, Status
    <3>3. /\ status'[<<d, k>>] = status[<<d, k>>] /\ points'[<<d, k>>] = points[<<d, k>>]
          /\ <<d, k>> \in completed => <<d, k>> \in completed'
          /\ events[<<d, k>>] \subseteq events'[<<d, k>>]
          /\ pc'[d] = pc[d] /\ answer'[d] = answer[d] /\ rows'[d] = rows[d]
      BY <2>2 DEF Quiet, OthersRest
    <3> QED BY <3>1, <3>2, <3>3 DEF AnswersOK, StoredWhole
  <2> QED BY <2>1, <2>2
<1>4. UnsavedOK'
  <2> SUFFICES ASSUME NEW d \in Calls, pc'[d] # "killed", answer'[d] # "saved", d \notin misled,
                      NEW k \in Kinds
               PROVE  /\ points'[<<d, k>>] = 0 /\ status'[<<d, k>>] # "SUCCESS"
                      /\ \A i \in Horizon : latest[i].run # <<d, k>>
    BY DEF UnsavedOK, NothingStored, Quiet
  <2>1. CASE d = c
    <3>1. pc[c] \notin Over /\ answer[c] = "none"
      BY DEF Quiet, AnswersOK, Over
    <3>2. NothingStored(c)
      BY <2>1, <3>1 DEF UnsavedOK, Over
    <3> QED BY <2>1, <3>2 DEF NothingStored, Quiet
  <2>2. CASE d # c
    <3>1. NothingStored(d)
      BY <2>2 DEF UnsavedOK, Quiet, OthersRest
    <3> QED BY <2>2, <3>1 DEF NothingStored, Quiet, OthersRest
  <2> QED BY <2>1, <2>2
<1>5. RowsOK'
  BY DEF RowsOK, Quiet
<1>6. SnapshotOK'
  <2> SUFFICES ASSUME NEW d \in Calls PROVE SnapshotOf(d)'
    BY DEF SnapshotOK
  <2>1. CASE d = c
    BY <2>1 DEF Quiet
  <2>2. CASE d # c
    <3>1. SnapshotOf(d)
      BY DEF SnapshotOK
    <3>2. /\ pc'[d] = pc[d] /\ seen'[d] = seen[d] /\ held'[d] = held[d] /\ overlap'[d] = overlap[d]
          /\ latest' = latest
      BY <2>2 DEF Quiet, OthersRest
    <3> QED BY <3>1, <3>2 DEF SnapshotOf, Remains, Meanwhile
  <2> QED BY <2>1, <2>2
<1>7. LastOK'
  BY DEF LastOK, Quiet, OthersRest
<1>8. LatestIsLastSaved'
  <2> SUFFICES ASSUME NEW d \in Calls, NEW k \in Kinds, lastSaved = <<d, k>>, NEW i \in Horizon
               PROVE  \/ latest[i].run = lastSaved
                      \/ i \notin Shown(d)' /\ latest[i].run \in overlap'[d] \union {NoRun}
    BY DEF LatestIsLastSaved, Quiet
  <2>1. \/ latest[i].run = lastSaved
        \/ i \notin Shown(d) /\ latest[i].run \in overlap[d] \union {NoRun}
    BY DEF LatestIsLastSaved
  <2>2. pc[d] \in Saving
    BY DEF LastOK
  <2>3. rows'[d] = rows[d] /\ overlap'[d] = overlap[d]
    BY <2>2 DEF Quiet, OthersRest, Saving
  <2> QED BY <2>1, <2>3 DEF Shown
<1> QED BY <1>1, <1>2, <1>3, <1>4, <1>5, <1>6, <1>7, <1>8

-----------------------------------------------------------------------------
(* The COMMIT of a save *)

(* The call then answers, never learns of it, or is killed. *)
Ends(c) ==
    \/ pc' = [pc EXCEPT ![c] = "answered"] /\ answer' = [answer EXCEPT ![c] = "saved"] /\ misled' = misled
    \/ pc' = [pc EXCEPT ![c] = "logging"] /\ answer' = answer /\ misled' = misled \union {c}
    \/ pc' = [pc EXCEPT ![c] = "killed"] /\ answer' = answer /\ misled' = misled

Stores(c) ==
    /\ pc[c] = "replacing" /\ Replaced(c) /\ Saved(c) /\ Release(c) /\ Ends(c)
    /\ UNCHANGED <<request, known, fellBack, rows>>

(* What a COMMIT leaves in a row. *)
LEMMA RowFacts ==
    ASSUME RunsInv, NEW c \in Calls, Stores(c), NEW i \in Horizon
    PROVE  /\ latest'[i] = Projected(c, i)
           /\ \/ i \in wrote[c] /\ latest'[i].run = Target(c)
              \/ i \notin wrote[c] /\ i \in held[c] /\ latest'[i].run = NoRun
              \/ i \notin wrote[c] /\ i \notin held[c] /\ latest'[i] = latest[i]
           /\ latest'[i].tuple = NoRun <=> latest'[i].run = NoRun
           /\ latest'[i].run \in {Target(c), NoRun} \/ latest'[i] = latest[i]
<1>1. latest'[i] = Projected(c, i)
  BY DEF Stores, Saved
<1>2. PICK k \in Kinds : Target(c) = <<c, k>>
  BY TargetFacts DEF RunsInv
<1>3. Target(c) # NoRun
  BY <1>2, RunFacts
<1>4. latest[i] = [run |-> latest[i].run, tuple |-> latest[i].tuple]
  BY DEF RunsInv, TypeOK
<1>5. latest[i].tuple = NoRun <=> latest[i].run = NoRun
  BY DEF RunsInv, RowsOK
<1>6. CASE i \in wrote[c]
  <2>1. latest'[i] = Inserted(c, i)
    BY <1>1, <1>6 DEF Projected
  <2>2. latest'[i].run = Target(c)
    BY <2>1 DEF Inserted
  <2>3. latest'[i].tuple # NoRun
    <3>1. CASE latest[i] = NoRow \/ i \in held[c]
      BY <2>1, <3>1, <1>3 DEF Inserted
    <3>2. CASE ~(latest[i] = NoRow \/ i \in held[c])
      BY <2>1, <3>2, <1>4, <1>5 DEF Inserted, NoRow
    <3> QED BY <3>1, <3>2
  <2> QED BY <1>1, <1>3, <1>6, <2>2, <2>3
<1>7. CASE i \notin wrote[c] /\ i \in held[c]
  BY <1>1, <1>7 DEF Projected, NoRow
<1>8. CASE i \notin wrote[c] /\ i \notin held[c]
  BY <1>1, <1>5, <1>8 DEF Projected
<1> QED BY <1>6, <1>7, <1>8

LEMMA StoreKeeps == ASSUME RunsInv, TypeOK', NEW c \in Calls, Stores(c) PROVE RunsInv'
<1> USE DEF RunsInv
<1>1. PICK k \in Kinds : Target(c) = <<c, k>>
  BY TargetFacts
<1>2. /\ <<c, k>> \in Runs
      /\ \A d \in Calls, l \in Kinds : <<d, l>> = <<c, k>> => d = c /\ l = k
  BY RunFacts
<1>3. /\ status' = [status EXCEPT ![<<c, k>>] = Status(c)]
      /\ completed' = completed \union {<<c, k>>}
      /\ points' = [points EXCEPT ![<<c, k>>] = rows[c]]
      /\ events' = [events EXCEPT ![<<c, k>>] = @ \union {"FORECAST_SAVED"}]
      /\ lastSaved' = <<c, k>>
      /\ overlap' = [d \in Calls |-> IF d # c /\ pc[d] = "replacing" THEN overlap[d] \union {<<c, k>>}
                                     ELSE overlap[d]]
      /\ UNCHANGED <<known, fellBack, rows>>
  BY <1>1 DEF Stores, Saved, InsertsPoints
<1>4. /\ status'[<<c, k>>] = Status(c) /\ points'[<<c, k>>] = rows[c]
      /\ "FORECAST_SAVED" \in events'[<<c, k>>]
      /\ \A d \in Calls, l \in Kinds : <<d, l>> # <<c, k>> =>
            /\ status'[<<d, l>>] = status[<<d, l>>] /\ points'[<<d, l>>] = points[<<d, l>>]
            /\ events'[<<d, l>>] = events[<<d, l>>]
  BY <1>2, <1>3, RunFacts DEF TypeOK
<1>5. /\ pc[c] = "replacing" /\ pc'[c] \in Saving
      /\ \A d \in Calls \ {c} : /\ pc'[d] = pc[d] /\ answer'[d] = answer[d]
                                /\ seen'[d] = seen[d] /\ held'[d] = held[d]
      /\ misled' \subseteq misled \union {c} /\ misled \subseteq misled'
      /\ pc'[c] # "answered" => answer'[c] = answer[c]
      /\ pc'[c] = "killed" \/ answer'[c] = "saved" \/ c \in misled'
  BY DEF Stores, Ends, Release, Saving, TypeOK
<1>6. KnownOK'
  BY <1>3 DEF KnownOK
<1>7. SuccessOK'
  <2> SUFFICES ASSUME NEW d \in Calls, NEW l \in Kinds, status'[<<d, l>>] = "SUCCESS"
               PROVE  ~fellBack'[d] /\ pc'[d] \in Saving
    BY DEF SuccessOK
  <2>1. CASE <<d, l>> = <<c, k>>
    BY <2>1, <1>2, <1>3, <1>4, <1>5 DEF Status
  <2>2. CASE <<d, l>> # <<c, k>>
    BY <2>2, <1>3, <1>4, <1>5 DEF SuccessOK
  <2> QED BY <2>1, <2>2
<1>8. AnswersOK'
  <2> SUFFICES ASSUME NEW d \in Calls
               PROVE  /\ pc'[d] # "answered" => answer'[d] = "none"
                      /\ answer'[d] = "saved" => StoredWhole(d)'
    BY DEF AnswersOK
  <2>1. PICK l \in Kinds : Target(d) = <<d, l>>
    BY TargetFacts
  <2>2. Target(d)' = <<d, l>> /\ Status(d)' = Status(d)
    BY <2>1, <1>3 DEF Target, Status
  <2>3. CASE d = c
    <3>1. l = k
      BY <1>1, <2>1, <2>3, RunFacts
    <3>2. StoredWhole(d)'
      BY <1>3, <1>4, <2>2, <2>3, <3>1 DEF StoredWhole
    <3>3. answer[c] = "none"
      BY <1>5 DEF AnswersOK
    <3> QED BY <2>3, <1>5, <3>2, <3>3
  <2>4. CASE d # c
    <3>1. <<d, l>> # <<c, k>>
      BY <1>2, <2>4
    <3> QED BY <1>3, <1>4, <1>5, <2>1, <2>2, <2>4, <3>1 DEF AnswersOK, StoredWhole
  <2> QED BY <2>3, <2>4
<1>9. UnsavedOK'
  <2> SUFFICES ASSUME NEW d \in Calls, pc'[d] # "killed", answer'[d] # "saved", d \notin misled',
                      NEW l \in Kinds
               PROVE  /\ points'[<<d, l>>] = 0 /\ status'[<<d, l>>] # "SUCCESS"
                      /\ \A i \in Horizon : latest'[i].run # <<d, l>>
    BY DEF UnsavedOK, NothingStored
  <2>1. d # c
    BY <1>5
  <2>2. NothingStored(d) /\ <<d, l>> # <<c, k>>
    BY <1>2, <1>5, <2>1 DEF UnsavedOK
  <2>3. ASSUME NEW i \in Horizon PROVE latest'[i].run # <<d, l>>
    <3>1. latest'[i].run \in {<<c, k>>, NoRun} \/ latest'[i] = latest[i]
      BY <1>1, RowFacts
    <3> QED BY <2>2, <3>1, RunFacts DEF NothingStored
  <2> QED BY <1>4, <2>2, <2>3 DEF NothingStored
<1>10. RowsOK'
  BY RowFacts DEF RowsOK
<1>11. SnapshotOK'
  <2> SUFFICES ASSUME NEW d \in Calls, pc'[d] = "replacing", NEW i \in Horizon
               PROVE  /\ seen'[d][i] # NoRun \/ i \in held'[d] \/ Meanwhile(d, i)'
                      /\ seen'[d][i] # NoRun /\ ~Remains(d, i)' => Meanwhile(d, i)'
    BY DEF SnapshotOK, SnapshotOf
  <2>1. d # c /\ pc[d] = "replacing"
    BY <1>5 DEF Saving
  <2>2. /\ seen[d][i] # NoRun \/ i \in held[d] \/ Meanwhile(d, i)
        /\ seen[d][i] # NoRun /\ ~Remains(d, i) => Meanwhile(d, i)
    BY <2>1 DEF SnapshotOK, SnapshotOf
  <2>3. overlap'[d] = overlap[d] \union {<<c, k>>} /\ seen'[d] = seen[d] /\ held'[d] = held[d]
    BY <1>3, <1>5, <2>1
  <2>4. latest'[i].run \in {<<c, k>>, NoRun} \/ latest'[i] = latest[i]
    BY <1>1, RowFacts
  <2>5. CASE latest'[i] = latest[i]
    BY <2>2, <2>3, <2>5 DEF Meanwhile, Remains
  <2>6. CASE latest'[i].run \in {<<c, k>>, NoRun}
    BY <2>3, <2>6 DEF Meanwhile
  <2> QED BY <2>4, <2>5, <2>6
<1>12. LastOK'
  BY <1>2, <1>3, <1>5 DEF LastOK
<1>13. LatestIsLastSaved'
  <2> SUFFICES ASSUME NEW d \in Calls, NEW l \in Kinds, lastSaved' = <<d, l>>, NEW i \in Horizon
               PROVE  \/ latest'[i].run = lastSaved'
                      \/ i \notin Shown(d)' /\ latest'[i].run \in overlap'[d] \union {NoRun}
    BY DEF LatestIsLastSaved
  <2>1. d = c
    BY <1>2, <1>3
  <2>2. overlap'[c] = overlap[c] /\ Shown(c)' = Shown(c) /\ wrote[c] = Shown(c) /\ seen[c][i] = NoRun
    BY <1>3 DEF Stores, Replaced, Deleting, Shown
  <2>3. i \in held[c] \/ latest[i].run \in overlap[c] \union {NoRun}
    BY <1>5, <2>2 DEF SnapshotOK, SnapshotOf, Meanwhile
  <2>4. \/ i \in wrote[c] /\ latest'[i].run = Target(c)
        \/ i \notin wrote[c] /\ i \in held[c] /\ latest'[i].run = NoRun
        \/ i \notin wrote[c] /\ i \notin held[c] /\ latest'[i] = latest[i]
    BY RowFacts
  <2> QED BY <1>1, <1>3, <2>1, <2>2, <2>3, <2>4
<1> QED BY <1>6, <1>7, <1>8, <1>9, <1>10, <1>11, <1>12, <1>13

-----------------------------------------------------------------------------
(* The steps that store nothing *)

(* The row and the events of one run are written. *)
LEMMA RunWritten ==
    ASSUME TypeOK, NEW r \in Runs, NEW s \in Statuses, NEW event \in Events,
           status' = [status EXCEPT ![r] = s], events' = [events EXCEPT ![r] = @ \union {event}]
    PROVE  /\ status' \in [Runs -> Statuses] /\ events' \in [Runs -> SUBSET Events]
           /\ status'[r] = s
           /\ \A q \in Runs : (q # r => status'[q] = status[q]) /\ events[q] \subseteq events'[q]
BY DEF TypeOK

(* Events of a run are written with nothing else, or not at all. *)
LEMMA RecordFacts ==
    ASSUME TypeOK, NEW c \in Calls, known[c] \in {NoRun, <<c, "started">>},
           NEW event \in {"RUNPOD_REQUESTED", "RUNPOD_COMPLETED", "RUNPOD_FAILED"}, TriesToRecord(c, event)
    PROVE  /\ events' \in [Runs -> SUBSET Events]
           /\ \A r \in Runs : events[r] \subseteq events'[r]
           /\ failures' \in 0 .. MaxFailures
           /\ UNCHANGED <<status, completed, points>>
<1>1. failures' \in 0 .. MaxFailures
  BY BoundsAssumption DEF TypeOK, TriesToRecord, RecordsJob, Commits, Fails
<1>2. UNCHANGED <<status, completed, points>>
  BY DEF TriesToRecord, RecordsJob, Records, runTables
<1>3. <<c, "started">> \in Runs /\ event \in Events
  BY RunFacts DEF Kinds, Events
<1>4. \/ events' = events
      \/ events' = [events EXCEPT ![<<c, "started">>] = @ \union {event}]
  BY DEF TriesToRecord, RecordsJob, Records, runTables
<1>5. /\ events' \in [Runs -> SUBSET Events]
      /\ \A r \in Runs : events[r] \subseteq events'[r]
  <2>1. CASE events' = events
    BY <2>1 DEF TypeOK
  <2>2. CASE events' = [events EXCEPT ![<<c, "started">>] = @ \union {event}]
    BY <2>2, <1>3 DEF TypeOK
  <2> QED BY <1>4, <2>1, <2>2
<1> QED BY <1>1, <1>2, <1>5

LEMMA StartKeeps == ASSUME RunsInv, NEW c \in Calls, NEW r \in Requested(c), StartRun(c, r) PROVE RunsInv'
<1> USE DEF RunsInv
<1>1. r \in Requests
  <2>1. Asked[c] \subseteq Requests
    BY CallsAssumption
  <2>2. ASSUME NEW q \in Asked[c] PROVE Scheduled(q) \in Requests
    BY <2>1 DEF Scheduled, Requests
  <2> HIDE DEF Requests
  <2> QED BY <2>1, <2>2 DEF Requested
<1>2. /\ pc[c] = "new" /\ request' = [request EXCEPT ![c] = r]
      /\ pc' = [pc EXCEPT ![c] = AfterStart(r)]
      /\ UNCHANGED <<fellBack, rows, answer, seen, held, wrote, latest, lastSaved, overlap, misled>>
  BY DEF StartRun, Goes, transaction, projection
<1>3. AfterStart(r) \in {"requesting", "raised", "predicting"}
  BY DEF AfterStart
<1>4. failures' \in 0 .. MaxFailures
  BY BoundsAssumption DEF TypeOK, StartRun, Commits, Fails
<1>5. known' = known \/ known' = [known EXCEPT ![c] = <<c, "started">>]
  BY DEF StartRun
<1>6. \/ UNCHANGED runTables
      \/ /\ status' = [status EXCEPT ![<<c, "started">>] = "PARTIAL"]
         /\ events' = [events EXCEPT ![<<c, "started">>] = @ \union {"FORECAST_REQUESTED"}]
         /\ UNCHANGED <<completed, points>>
  BY DEF StartRun, Records
<1>7. <<c, "started">> \in Runs
  BY RunFacts DEF Kinds
<1>8. "PARTIAL" \in Statuses /\ "FORECAST_REQUESTED" \in Events
  BY DEF Statuses, Events
<1>9. /\ status' \in [Runs -> Statuses] /\ events' \in [Runs -> SUBSET Events]
      /\ UNCHANGED <<completed, points>>
      /\ \A q \in Runs : (q # <<c, "started">> => status'[q] = status[q]) /\ events[q] \subseteq events'[q]
      /\ status'[<<c, "started">>] \in {status[<<c, "started">>], "PARTIAL"}
  <2>1. CASE UNCHANGED runTables
    BY <2>1 DEF TypeOK, runTables
  <2>2. CASE /\ status' = [status EXCEPT ![<<c, "started">>] = "PARTIAL"]
             /\ events' = [events EXCEPT ![<<c, "started">>] = @ \union {"FORECAST_REQUESTED"}]
             /\ UNCHANGED <<completed, points>>
    BY <2>2, <1>7, <1>8, RunWritten
  <2> QED BY <1>6, <2>1, <2>2
<1>10. TypeOK'
  <2>1. pc' \in [Calls -> {"new"} \union Working \union Over]
    BY <1>2, <1>3 DEF TypeOK, Working, Over
  <2>2. request' \in [Calls -> Requests] /\ known' \in [Calls -> Runs \union {NoRun}]
    <3>1. known' \in [Calls -> Runs \union {NoRun}]
      BY <1>5, <1>7 DEF TypeOK
    <3> HIDE DEF Requests
    <3> QED BY <1>1, <1>2, <3>1 DEF TypeOK
  <2>3. /\ status' \in [Runs -> Statuses]
        /\ completed' \subseteq Runs /\ points' \in [Runs -> 0 .. MaxRows]
        /\ events' \in [Runs -> SUBSET Events]
    BY <1>8, <1>9 DEF TypeOK
  <2> QED BY <1>2, <1>4, <2>1, <2>2, <2>3 DEF TypeOK
<1>11. /\ pc'[c] = AfterStart(r) /\ known'[c] \in {NoRun, <<c, "started">>}
       /\ \A d \in Calls \ {c} : pc'[d] = pc[d] /\ known'[d] = known[d]
  BY <1>2, <1>5 DEF TypeOK, KnownOK
<1>12. /\ points' = points /\ completed' = completed
       /\ \A d \in Calls \ {c}, k \in Kinds : status'[<<d, k>>] = status[<<d, k>>]
       /\ \A k \in Kinds : status'[<<c, k>>] = "SUCCESS" => status[<<c, k>>] = "SUCCESS"
       /\ \A q \in Runs : events[q] \subseteq events'[q]
  <2>1. ASSUME NEW d \in Calls, NEW k \in Kinds, d # c \/ k # "started"
        PROVE  status'[<<d, k>>] = status[<<d, k>>]
    <3>1. <<d, k>> \in Runs /\ <<d, k>> # <<c, "started">>
      BY <2>1, RunFacts
    <3> QED BY <3>1, <1>9
  <2>2. ASSUME NEW k \in Kinds, status'[<<c, k>>] = "SUCCESS" PROVE status[<<c, k>>] = "SUCCESS"
    <3>1. CASE k = "started"
      <4>1. status'[<<c, "started">>] \in {status[<<c, "started">>], "PARTIAL"}
        BY <1>9
      <4>2. <<c, k>> = <<c, "started">>
        BY <3>1
      <4> QED BY <2>2, <4>1, <4>2
    <3>2. CASE k # "started"
      BY <2>1, <2>2, <3>2
    <3> QED BY <3>1, <3>2
  <2> QED BY <2>1, <2>2, <1>9
<1>13. OthersRest(c)
  BY <1>2, <1>11, <1>12, RunFacts DEF OthersRest
<1>14. Quiet(c)
  BY <1>2, <1>3, <1>11, <1>12, <1>13 DEF Quiet, Over, Saving, SnapshotOf, AnswersOK
<1> QED BY <1>10, <1>14, QuietKeeps

(* The live call: asked for, answered or failed. *)
LEMMA LiveKeeps ==
    ASSUME RunsInv, NEW c \in Calls, RequestLive(c) \/ LiveAnswers(c) \/ LiveFails(c)
    PROVE  RunsInv'
<1> USE DEF RunsInv
<1>1. \E event \in {"RUNPOD_REQUESTED", "RUNPOD_COMPLETED", "RUNPOD_FAILED"} : TriesToRecord(c, event)
  BY DEF RequestLive, LiveAnswers, LiveFails
<1>2. /\ events' \in [Runs -> SUBSET Events]
      /\ \A r \in Runs : events[r] \subseteq events'[r]
      /\ failures' \in 0 .. MaxFailures
      /\ UNCHANGED <<status, completed, points>>
  <2>1. known[c] \in {NoRun, <<c, "started">>}
    BY DEF KnownOK
  <2> QED BY <1>1, <2>1, RecordFacts
<1>3. /\ pc[c] \in {"requesting", "waiting"}
      /\ \E where \in {"waiting", "predicting", "falling"} : pc' = [pc EXCEPT ![c] = where]
      /\ fellBack' = fellBack \/ fellBack' = [fellBack EXCEPT ![c] = TRUE]
      /\ UNCHANGED <<request, known, rows, answer, seen, held, wrote, latest, lastSaved, overlap, misled>>
  BY DEF RequestLive, LiveAnswers, LiveFails, Goes, transaction, projection
<1>4. TypeOK'
  BY <1>2, <1>3 DEF TypeOK, Working, Over
<1>5. /\ pc'[c] \in {"waiting", "predicting", "falling"}
      /\ \A d \in Calls \ {c} : pc'[d] = pc[d] /\ fellBack'[d] = fellBack[d]
  BY <1>3 DEF TypeOK
<1>6. OthersRest(c)
  BY <1>2, <1>3, <1>5, RunFacts DEF OthersRest
<1>7. Quiet(c)
  BY <1>2, <1>3, <1>5, <1>6 DEF Quiet, Over, Saving, SnapshotOf, AnswersOK, KnownOK
<1> QED BY <1>4, <1>7, QuietKeeps

LEMMA FallBackKeeps == ASSUME RunsInv, NEW c \in Calls, FallBack(c) PROVE RunsInv'
<1> USE DEF RunsInv
<1>1. /\ pc[c] = "falling"
      /\ \E where \in {"predicting", "raised"} : pc' = [pc EXCEPT ![c] = where]
      /\ UNCHANGED <<request, known, fellBack, rows, answer, seen, held, wrote, latest, lastSaved, overlap, misled>>
  BY DEF FallBack, Goes, transaction, projection
<1>2. failures' \in 0 .. MaxFailures
  BY BoundsAssumption DEF TypeOK, FallBack, UpdatesRun, Commits, Fails
<1>3. <<c, "started">> \in Runs /\ known[c] \in {NoRun, <<c, "started">>}
  BY RunFacts DEF Kinds, KnownOK
<1>4. \/ UNCHANGED runTables
      \/ /\ status' = [status EXCEPT ![<<c, "started">>] = "FALLBACK"]
         /\ events' = [events EXCEPT ![<<c, "started">>] = @ \union {"FORECAST_FALLBACK"}]
         /\ UNCHANGED <<completed, points>>
  BY <1>3 DEF FallBack, UpdatesRun
<1>5. /\ status' \in [Runs -> Statuses] /\ events' \in [Runs -> SUBSET Events]
      /\ completed' = completed /\ points' = points
      /\ \A q \in Runs : (q # <<c, "started">> => status'[q] = status[q]) /\ events[q] \subseteq events'[q]
      /\ status'[<<c, "started">>] \in {status[<<c, "started">>], "FALLBACK"}
  <2>1. CASE UNCHANGED runTables
    BY <2>1 DEF TypeOK, runTables
  <2>2. CASE /\ status' = [status EXCEPT ![<<c, "started">>] = "FALLBACK"]
             /\ events' = [events EXCEPT ![<<c, "started">>] = @ \union {"FORECAST_FALLBACK"}]
             /\ UNCHANGED <<completed, points>>
    <3>1. "FALLBACK" \in Statuses /\ "FORECAST_FALLBACK" \in Events
      BY DEF Statuses, Events
    <3> QED BY <2>2, <3>1, <1>3, RunWritten
  <2> QED BY <1>4, <2>1, <2>2
<1>6. TypeOK'
  BY <1>1, <1>2, <1>5 DEF TypeOK, Working, Over
<1>7. /\ pc'[c] \in {"predicting", "raised"}
      /\ \A d \in Calls \ {c} : pc'[d] = pc[d]
  BY <1>1 DEF TypeOK
<1>8. /\ \A d \in Calls \ {c}, k \in Kinds : status'[<<d, k>>] = status[<<d, k>>]
      /\ \A k \in Kinds : status'[<<c, k>>] = "SUCCESS" => status[<<c, k>>] = "SUCCESS"
  <2>1. ASSUME NEW d \in Calls, NEW k \in Kinds, d # c \/ k # "started"
        PROVE  status'[<<d, k>>] = status[<<d, k>>]
    <3>1. <<d, k>> \in Runs /\ <<d, k>> # <<c, "started">>
      BY <2>1, RunFacts DEF Kinds
    <3> QED BY <3>1, <1>5
  <2> QED BY <2>1, <1>5
<1>9. OthersRest(c)
  BY <1>1, <1>5, <1>7, <1>8, RunFacts DEF OthersRest
<1>10. Quiet(c)
  BY <1>1, <1>3, <1>5, <1>7, <1>8, <1>9 DEF Quiet, Over, Saving, SnapshotOf, AnswersOK
<1> QED BY <1>6, <1>10, QuietKeeps

LEMMA PredictKeeps ==
    ASSUME RunsInv, NEW c \in Calls, (\E n \in 0 .. MaxRows : Predict(c, n)) \/ PredictRaises(c)
    PROVE  RunsInv'
<1> USE DEF RunsInv
<1>1. /\ pc[c] = "predicting"
      /\ \E where \in {"saving", "raised"} : pc' = [pc EXCEPT ![c] = where]
      /\ rows' = rows \/ \E n \in 0 .. MaxRows : rows' = [rows EXCEPT ![c] = n]
      /\ UNCHANGED <<request, known, fellBack, answer, status, completed, points, events, seen, held, wrote,
                     latest, lastSaved, overlap, misled, failures>>
  BY DEF Predict, PredictRaises, Goes, transaction, projection, runTables
<1>2. TypeOK'
  BY <1>1 DEF TypeOK, Working, Over
<1>3. /\ pc'[c] \in {"saving", "raised"}
      /\ \A d \in Calls \ {c} : pc'[d] = pc[d] /\ rows'[d] = rows[d]
  BY <1>1 DEF TypeOK
<1>4. OthersRest(c)
  BY <1>1, <1>3 DEF OthersRest
<1>5. Quiet(c)
  BY <1>1, <1>3, <1>4 DEF Quiet, Over, Saving, SnapshotOf, AnswersOK, KnownOK
<1> QED BY <1>2, <1>5, QuietKeeps

(* Every row the DELETE is to take is one it sees. *)
LEMMA OpenKeeps == ASSUME RunsInv, NEW c \in Calls, OpenSave(c) PROVE RunsInv'
<1> USE DEF RunsInv
<1>1. /\ pc[c] = "saving" /\ pc' = [pc EXCEPT ![c] = "replacing"]
      /\ seen' = [seen EXCEPT ![c] = [i \in Horizon |-> latest[i].tuple]]
      /\ overlap' = [overlap EXCEPT ![c] = {}]
      /\ UNCHANGED <<request, known, fellBack, rows, answer, status, completed, points, events, held, wrote,
                     latest, lastSaved, misled, failures>>
  BY DEF OpenSave, Goes, runTables
<1>2. [i \in Horizon |-> latest[i].tuple] \in [Horizon -> Runs \union {NoRun}]
  BY DEF TypeOK
<1>3. TypeOK'
  BY <1>1, <1>2 DEF TypeOK, Working, Over
<1>4. /\ pc'[c] = "replacing" /\ \A i \in Horizon : seen'[c][i] = latest[i].tuple
      /\ \A d \in Calls \ {c} : pc'[d] = pc[d] /\ seen'[d] = seen[d] /\ overlap'[d] = overlap[d]
  BY <1>1, <1>2 DEF TypeOK
<1>5. SnapshotOf(c)'
  BY <1>1, <1>4 DEF SnapshotOf, Meanwhile, Remains, RowsOK
<1>6. OthersRest(c)
  BY <1>1, <1>4 DEF OthersRest
<1>7. Quiet(c)
  BY <1>1, <1>4, <1>5, <1>6 DEF Quiet, Over, Saving, AnswersOK, KnownOK
<1> QED BY <1>3, <1>7, QuietKeeps

(* A row the DELETE no longer finds was replaced meanwhile. *)
LEMMA DeleteKeeps == ASSUME RunsInv, NEW c \in Calls, NEW i \in Horizon, DeleteRow(c, i) PROVE RunsInv'
<1> USE DEF RunsInv
<1>1. /\ pc[c] = "replacing" /\ seen[c][i] # NoRun
      /\ held' = IF Remains(c, i) THEN [held EXCEPT ![c] = @ \union {i}] ELSE held
      /\ seen' = [seen EXCEPT ![c][i] = NoRun]
      /\ UNCHANGED <<pc, request, known, fellBack, rows, answer, status, completed, points, events, wrote,
                     latest, lastSaved, overlap, misled, failures>>
  BY DEF DeleteRow, calls, runTables, projection
<1>2. /\ seen'[c] = [seen[c] EXCEPT ![i] = NoRun]
      /\ \A d \in Calls \ {c} : seen'[d] = seen[d] /\ held'[d] = held[d]
      /\ held[c] \subseteq held'[c] /\ (Remains(c, i) => i \in held'[c])
      /\ held' \in [Calls -> SUBSET Horizon]
  BY <1>1 DEF TypeOK
<1>3. seen' \in [Calls -> [Horizon -> Runs \union {NoRun}]]
  BY <1>1 DEF TypeOK
<1>4. TypeOK'
  BY <1>1, <1>2, <1>3 DEF TypeOK
<1>5. SnapshotOf(c)'
  <2>1. SnapshotOf(c)
    BY DEF SnapshotOK
  <2> SUFFICES ASSUME NEW j \in Horizon
               PROVE  /\ seen'[c][j] # NoRun \/ j \in held'[c] \/ Meanwhile(c, j)
                      /\ seen'[c][j] # NoRun /\ ~(seen'[c][j] = latest[j].tuple) => Meanwhile(c, j)
    BY <1>1 DEF SnapshotOf, Meanwhile, Remains
  <2>2. seen[c] \in [Horizon -> Runs \union {NoRun}]
    BY DEF TypeOK
  <2>3. CASE j = i
    BY <1>1, <1>2, <2>1, <2>2, <2>3 DEF SnapshotOf
  <2>4. CASE j # i
    <3>1. seen'[c][j] = seen[c][j]
      BY <1>2, <2>2, <2>4
    <3> QED BY <1>1, <1>2, <2>1, <3>1 DEF SnapshotOf, Remains
  <2> QED BY <2>3, <2>4
<1>6. OthersRest(c)
  BY <1>1, <1>2 DEF OthersRest
<1>7. Quiet(c)
  BY <1>1, <1>5, <1>6 DEF Quiet, Over, Saving, AnswersOK, KnownOK
<1> QED BY <1>4, <1>7, QuietKeeps

LEMMA InsertKeeps == ASSUME RunsInv, NEW c \in Calls, NEW i \in Horizon, InsertRow(c, i) PROVE RunsInv'
<1> USE DEF RunsInv
<1>1. /\ pc[c] = "replacing"
      /\ wrote' = [wrote EXCEPT ![c] = @ \union {i}]
      /\ UNCHANGED <<pc, request, known, fellBack, rows, answer, status, completed, points, events, seen, held,
                     latest, lastSaved, overlap, misled, failures>>
  BY DEF InsertRow, calls, runTables, projection
<1>2. TypeOK'
  BY <1>1 DEF TypeOK
<1>3. SnapshotOf(c)'
  BY <1>1 DEF SnapshotOf, SnapshotOK, Meanwhile, Remains
<1>4. OthersRest(c)
  BY <1>1 DEF OthersRest
<1>5. Quiet(c)
  BY <1>1, <1>3, <1>4 DEF Quiet, Over, Saving, AnswersOK, KnownOK
<1> QED BY <1>2, <1>5, QuietKeeps

-----------------------------------------------------------------------------
(* The ends of a transaction, with or without its COMMIT *)

LEMMA ReleaseTyped ==
    ASSUME TypeOK, NEW c \in Calls, Release(c)
    PROVE  /\ seen' \in [Calls -> [Horizon -> Runs \union {NoRun}]]
           /\ held' \in [Calls -> SUBSET Horizon] /\ wrote' \in [Calls -> SUBSET Horizon]
           /\ \A d \in Calls \ {c} : seen'[d] = seen[d] /\ held'[d] = held[d]
<1>1. [i \in Horizon |-> NoRun] \in [Horizon -> Runs \union {NoRun}]
  OBVIOUS
<1> QED BY <1>1 DEF Release, TypeOK

LEMMA SavedTyped ==
    ASSUME RunsInv, NEW c \in Calls, Saved(c)
    PROVE  /\ status' \in [Runs -> Statuses]
           /\ completed' \subseteq Runs /\ points' \in [Runs -> 0 .. MaxRows]
           /\ events' \in [Runs -> SUBSET Events]
           /\ latest' \in [Horizon -> [run : Runs \union {NoRun}, tuple : Runs \union {NoRun}]]
           /\ lastSaved' \in Runs \union {NoRun} /\ overlap' \in [Calls -> SUBSET Runs]
<1> USE DEF RunsInv
<1>1. PICK r \in Runs : r = Target(c)
  BY TargetFacts, RunFacts
<1>2. /\ status' = [status EXCEPT ![r] = Status(c)]
      /\ completed' = completed \union {r}
      /\ points' = [points EXCEPT ![r] = rows[c]]
      /\ events' = [events EXCEPT ![r] = @ \union {"FORECAST_SAVED"}]
      /\ latest' = [i \in Horizon |-> Projected(c, i)]
      /\ lastSaved' = r
      /\ overlap' = [d \in Calls |-> IF d # c /\ pc[d] = "replacing" THEN overlap[d] \union {r}
                                     ELSE overlap[d]]
  BY <1>1 DEF Saved, InsertsPoints
<1>3. \A i \in Horizon : Projected(c, i) \in [run : Runs \union {NoRun}, tuple : Runs \union {NoRun}]
  BY <1>1 DEF Projected, Inserted, NoRow, TypeOK
<1>4. Status(c) \in Statuses /\ "FORECAST_SAVED" \in Events
  BY DEF Status, Statuses, Events
<1>5. status' \in [Runs -> Statuses] /\ events' \in [Runs -> SUBSET Events]
  BY <1>2, <1>4, RunWritten
<1>6. completed' \subseteq Runs /\ points' \in [Runs -> 0 .. MaxRows]
  BY <1>2 DEF TypeOK
<1>7. latest' \in [Horizon -> [run : Runs \union {NoRun}, tuple : Runs \union {NoRun}]]
  BY <1>2, <1>3
<1>8. lastSaved' \in Runs \union {NoRun} /\ overlap' \in [Calls -> SUBSET Runs]
  BY <1>2 DEF TypeOK
<1> QED BY <1>5, <1>6, <1>7, <1>8

(* With the COMMIT. *)
LEMMA StoredKeeps ==
    ASSUME RunsInv, NEW c \in Calls, Stores(c), failures' \in 0 .. MaxFailures
    PROVE  RunsInv'
<1> USE DEF RunsInv
<1>1. /\ pc' \in [Calls -> {"new"} \union Working \union Over]
      /\ answer' \in [Calls -> {"none", "saved", "unsaved"}] /\ misled' \subseteq Calls
  BY DEF Stores, Ends, TypeOK, Working, Over
<1>2. UNCHANGED <<request, known, fellBack, rows>>
  BY DEF Stores
<1>3. TypeOK'
  BY <1>1, <1>2, SavedTyped, ReleaseTyped DEF Stores, TypeOK
<1> QED BY <1>3, StoreKeeps

(* Without. *)
LEMMA DroppedKeeps ==
    ASSUME RunsInv, NEW c \in Calls, pc[c] \in Working, Release(c), failures' \in 0 .. MaxFailures,
           NEW where \in {"logging", "killed"}, pc' = [pc EXCEPT ![c] = where],
           UNCHANGED <<request, known, fellBack, rows, answer, runTables, projection, misled>>
    PROVE  RunsInv'
<1> USE DEF RunsInv
<1>1. UNCHANGED <<status, completed, points, events, latest, lastSaved, overlap>>
  BY DEF runTables, projection
<1>2. TypeOK'
  <2>1. pc' \in [Calls -> {"new"} \union Working \union Over]
    BY DEF TypeOK, Working, Over
  <2> QED BY <1>1, <2>1, ReleaseTyped DEF TypeOK
<1>3. pc'[c] = where /\ \A d \in Calls \ {c} : pc'[d] = pc[d]
  BY DEF TypeOK
<1>4. OthersRest(c)
  BY <1>1, <1>3, ReleaseTyped DEF OthersRest
<1>5. Quiet(c)
  BY <1>1, <1>3, <1>4 DEF Quiet, Over, Saving, Working, AnswersOK, KnownOK, SnapshotOf
<1> QED BY <1>2, <1>5, QuietKeeps

LEMMA CommitKeeps == ASSUME RunsInv, NEW c \in Calls, CommitSave(c) PROVE RunsInv'
<1>1. Stores(c)
  BY DEF CommitSave, Stores, Ends, Goes
<1> QED BY <1>1, StoredKeeps DEF CommitSave, RunsInv, TypeOK

LEMMA SaveFailsKeeps == ASSUME RunsInv, NEW c \in Calls, SaveFails(c) PROVE RunsInv'
<1>1. /\ failures' \in 0 .. MaxFailures /\ pc' = [pc EXCEPT ![c] = "logging"] /\ pc[c] \in Working
      /\ Release(c) /\ UNCHANGED <<request, known, fellBack, rows, answer>>
  BY BoundsAssumption DEF SaveFails, Fails, Goes, RunsInv, TypeOK, Working
<1>2. CASE UNCHANGED <<runTables, projection, misled>>
  BY <1>1, <1>2, DroppedKeeps
<1>3. CASE pc[c] = "replacing" /\ Replaced(c) /\ Saved(c) /\ misled' = misled \union {c}
  <2>1. Stores(c)
    BY <1>1, <1>3 DEF Stores, Ends
  <2> QED BY <1>1, <2>1, StoredKeeps
<1> QED BY <1>2, <1>3 DEF SaveFails

LEMMA KillKeeps == ASSUME RunsInv, NEW c \in Calls, Kill(c) PROVE RunsInv'
<1>1. /\ failures' \in 0 .. MaxFailures /\ pc' = [pc EXCEPT ![c] = "killed"] /\ pc[c] \in Working
      /\ Release(c) /\ UNCHANGED <<request, known, fellBack, rows, answer, misled>>
  BY BoundsAssumption DEF Kill, Fails, Goes, RunsInv, TypeOK
<1>2. CASE UNCHANGED <<runTables, projection>>
  BY <1>1, <1>2, DroppedKeeps
<1>3. CASE pc[c] = "replacing" /\ Replaced(c) /\ Saved(c)
  <2>1. Stores(c)
    BY <1>1, <1>3 DEF Stores, Ends
  <2> QED BY <1>1, <2>1, StoredKeeps
<1> QED BY <1>2, <1>3 DEF Kill

LEMMA VictimKeeps == ASSUME RunsInv, NEW c \in Calls, DeadlockVictim(c) PROVE RunsInv'
<1>1. pc[c] = "replacing"
  BY DEF DeadlockVictim, Stuck
<1>2. /\ pc' = [pc EXCEPT ![c] = "logging"] /\ Release(c) /\ failures' \in 0 .. MaxFailures
      /\ UNCHANGED <<request, known, fellBack, rows, answer, runTables, projection, misled>>
  BY DEF DeadlockVictim, Goes, RunsInv, TypeOK
<1> QED BY <1>1, <1>2, DroppedKeeps DEF Working

LEMMA LogKeeps == ASSUME RunsInv, NEW c \in Calls, LogFailure(c) PROVE RunsInv'
<1> USE DEF RunsInv
<1>1. /\ pc[c] = "logging" /\ pc' = [pc EXCEPT ![c] = "answered"]
      /\ answer' = [answer EXCEPT ![c] = "unsaved"]
      /\ UNCHANGED <<request, known, fellBack, rows, seen, held, wrote, latest, lastSaved, overlap, misled>>
  BY DEF LogFailure, Goes, transaction, projection
<1>2. failures' \in 0 .. MaxFailures
  BY BoundsAssumption DEF TypeOK, LogFailure, UpdatesRun, Commits, Fails
<1>3. <<c, "started">> \in Runs /\ known[c] \in {NoRun, <<c, "started">>}
  BY RunFacts DEF Kinds, KnownOK
<1>4. \/ UNCHANGED runTables
      \/ /\ status' = [status EXCEPT ![<<c, "started">>] = "FAILED"]
         /\ completed' = completed \union {<<c, "started">>}
         /\ events' = [events EXCEPT ![<<c, "started">>] = @ \union {"FORECAST_SAVE_FAILED"}]
         /\ UNCHANGED points
  BY <1>3 DEF LogFailure, UpdatesRun
<1>5. /\ status' \in [Runs -> Statuses] /\ events' \in [Runs -> SUBSET Events]
      /\ completed' \subseteq Runs /\ completed \subseteq completed' /\ points' = points
      /\ \A q \in Runs : (q # <<c, "started">> => status'[q] = status[q]) /\ events[q] \subseteq events'[q]
      /\ status'[<<c, "started">>] \in {status[<<c, "started">>], "FAILED"}
  <2>1. CASE UNCHANGED runTables
    BY <2>1 DEF TypeOK, runTables
  <2>2. CASE /\ status' = [status EXCEPT ![<<c, "started">>] = "FAILED"]
             /\ completed' = completed \union {<<c, "started">>}
             /\ events' = [events EXCEPT ![<<c, "started">>] = @ \union {"FORECAST_SAVE_FAILED"}]
             /\ UNCHANGED points
    <3>1. "FAILED" \in Statuses /\ "FORECAST_SAVE_FAILED" \in Events
      BY DEF Statuses, Events
    <3>2. completed' \subseteq Runs /\ completed \subseteq completed'
      BY <2>2, <1>3 DEF TypeOK
    <3> QED BY <2>2, <3>1, <3>2, <1>3, RunWritten
  <2> QED BY <1>4, <2>1, <2>2
<1>6. TypeOK'
  BY <1>1, <1>2, <1>5 DEF TypeOK, Working, Over
<1>7. /\ pc'[c] = "answered" /\ answer'[c] = "unsaved"
      /\ \A d \in Calls \ {c} : pc'[d] = pc[d] /\ answer'[d] = answer[d]
  BY <1>1 DEF TypeOK
<1>8. /\ \A d \in Calls \ {c}, k \in Kinds : status'[<<d, k>>] = status[<<d, k>>]
      /\ \A k \in Kinds : status'[<<c, k>>] = "SUCCESS" => status[<<c, k>>] = "SUCCESS"
  <2>1. ASSUME NEW d \in Calls, NEW k \in Kinds, d # c \/ k # "started"
        PROVE  status'[<<d, k>>] = status[<<d, k>>]
    <3>1. <<d, k>> \in Runs /\ <<d, k>> # <<c, "started">>
      BY <2>1, RunFacts DEF Kinds
    <3> QED BY <3>1, <1>5
  <2> QED BY <2>1, <1>5
<1>9. OthersRest(c)
  BY <1>1, <1>5, <1>7, <1>8, RunFacts DEF OthersRest
<1>10. Quiet(c)
  BY <1>1, <1>3, <1>5, <1>7, <1>8, <1>9 DEF Quiet, Over, Saving, SnapshotOf
<1> QED BY <1>6, <1>10, QuietKeeps

-----------------------------------------------------------------------------
LEMMA InvInit == Init => RunsInv
<1> SUFFICES ASSUME Init PROVE RunsInv
  OBVIOUS
<1>1. TypeOK
  <2>1. /\ pc \in [Calls -> {"new"} \union Working \union Over]
        /\ request \in [Calls -> Requests]
        /\ known \in [Calls -> Runs \union {NoRun}]
        /\ fellBack \in [Calls -> BOOLEAN]
        /\ answer \in [Calls -> {"none", "saved", "unsaved"}]
    BY DEF Init, Requests
  <2>2. rows \in [Calls -> 0 .. MaxRows] /\ points \in [Runs -> 0 .. MaxRows] /\ failures \in 0 .. MaxFailures
    BY BoundsAssumption DEF Init
  <2>3. /\ status \in [Runs -> Statuses]
        /\ completed \subseteq Runs
        /\ events \in [Runs -> SUBSET Events]
        /\ lastSaved \in Runs \union {NoRun} /\ overlap \in [Calls -> SUBSET Runs] /\ misled \subseteq Calls
    BY DEF Init, Statuses, Events
  <2>4. /\ latest \in [Horizon -> [run : Runs \union {NoRun}, tuple : Runs \union {NoRun}]]
        /\ seen \in [Calls -> [Horizon -> Runs \union {NoRun}]]
        /\ held \in [Calls -> SUBSET Horizon]
        /\ wrote \in [Calls -> SUBSET Horizon]
    BY DEF Init, NoLocks, NoRow
  <2> QED BY <2>1, <2>2, <2>3, <2>4 DEF TypeOK
<1>2. KnownOK /\ SuccessOK /\ AnswersOK
  BY RunFacts DEF Init, KnownOK, SuccessOK, AnswersOK
<1>3. RowsOK /\ SnapshotOK
  BY DEF Init, RowsOK, NoRow, SnapshotOK, SnapshotOf
<1>4. UnsavedOK
  BY RunFacts DEF Init, UnsavedOK, NothingStored, NoRow
<1>5. LastOK /\ LatestIsLastSaved
  BY RunFacts DEF Init, LastOK, LatestIsLastSaved
<1> QED BY <1>1, <1>2, <1>3, <1>4, <1>5 DEF RunsInv

LEMMA InvStutter == ASSUME RunsInv, UNCHANGED vars PROVE RunsInv'
<1>1. /\ UNCHANGED <<pc, request, known, fellBack, rows, answer, status, completed, points, events>>
      /\ UNCHANGED <<seen, held, wrote, latest, lastSaved, overlap, misled, failures>>
  BY DEF vars, calls, runTables, transaction, projection
<1>2. TypeOK' /\ KnownOK' /\ RowsOK' /\ LastOK'
  BY <1>1 DEF RunsInv, TypeOK, KnownOK, RowsOK, LastOK
<1>3. SuccessOK' /\ AnswersOK' /\ UnsavedOK'
  BY <1>1 DEF RunsInv, SuccessOK, AnswersOK, StoredWhole, Target, Status, UnsavedOK, NothingStored
<1>4. SnapshotOK' /\ LatestIsLastSaved'
  BY <1>1 DEF RunsInv, SnapshotOK, SnapshotOf, Remains, Meanwhile, LatestIsLastSaved, Shown
<1> QED BY <1>2, <1>3, <1>4 DEF RunsInv

LEMMA InvNext == RunsInv /\ [Next]_vars => RunsInv'
<1> SUFFICES ASSUME RunsInv, [Next]_vars PROVE RunsInv'
  OBVIOUS
<1>1. ASSUME NEW c \in Calls, Step(c) PROVE RunsInv'
  BY <1>1, LiveKeeps, FallBackKeeps, PredictKeeps, OpenKeeps, DeleteKeeps, InsertKeeps, CommitKeeps,
     VictimKeeps, SaveFailsKeeps, LogKeeps
     DEF Step
<1>2. ASSUME NEW c \in Calls, NEW r \in Requested(c), StartRun(c, r) PROVE RunsInv'
  BY <1>2, StartKeeps
<1>3. CASE Next
  BY <1>1, <1>2, <1>3, KillKeeps DEF Next
<1> QED BY <1>3, InvStutter

LEMMA InvAlways == Spec => []RunsInv
BY InvInit, InvNext, PTL DEF Spec

-----------------------------------------------------------------------------
(* The tables, the transactions and the answers keep their shape. *)
THEOREM RunsTypeCorrect == Spec => []TypeOK
<1>1. RunsInv => TypeOK
  BY DEF RunsInv
<1> QED BY <1>1, InvAlways, PTL

(* However saves overlap, fail, wait for each other or are killed at their *)
(* COMMIT: a row beside the forecast saved last is of one that was saved   *)
(* while its transaction was open                                          *)
(* (forecast_repository.py, _replace_latest_24h).                          *)
THEOREM ProjectionIsCurrent == Spec => []LatestIsLastSaved
<1>1. RunsInv => LatestIsLastSaved
  BY DEF RunsInv
<1> QED BY <1>1, InvAlways, PTL

(* A response says "saved" only of a run that is stored whole, "unsaved"   *)
(* only of one that left nothing unless its COMMIT was not confirmed, and  *)
(* a fallback is never stored as a success                                 *)
(* (forecast_service.py, _result_status).                                  *)
THEOREM AnswersAreTrue == Spec => []AnswerIsTrue
<1>1. ASSUME RunsInv PROVE AnswerIsTrue
  <2> SUFFICES ASSUME NEW c \in Calls
               PROVE  /\ \A k \in Kinds : status[<<c, k>>] = "SUCCESS" => ~fellBack[c]
                      /\ answer[c] = "saved" => StoredWhole(c)
                      /\ answer[c] = "unsaved" /\ c \notin misled => NothingStored(c)
    BY DEF AnswerIsTrue, StoredWhole, NothingStored
  <2>1. \A k \in Kinds : status[<<c, k>>] = "SUCCESS" => ~fellBack[c]
    BY <1>1 DEF RunsInv, SuccessOK
  <2>2. answer[c] = "saved" => StoredWhole(c)
    BY <1>1 DEF RunsInv, AnswersOK
  <2>3. ASSUME answer[c] = "unsaved", c \notin misled PROVE NothingStored(c)
    <3>1. pc[c] = "answered"
      BY <1>1, <2>3 DEF RunsInv, AnswersOK
    <3> QED BY <1>1, <2>3, <3>1 DEF RunsInv, UnsavedOK
  <2> QED BY <2>1, <2>2, <2>3
<1> QED BY <1>1, InvAlways, PTL

-----------------------------------------------------------------------------
(* A live prediction: the steps that leave the prediction's work *)

LiveConstants == SearchHours \in Nat /\ WeatherHours \in Nat /\ MaxTargets \in Nat /\ Deadline \in Nat /\ Near \in Nat \ {0}

LEMMA LiveConstantFacts == LiveConstants
BY LiveAssumption DEF LiveConstants

LEMMA LiveTyped ==
    ASSUME LiveInv
    PROVE  /\ remote \in BOOLEAN /\ caller \in {"off", "inline", "post", "poll", "answered", "raised"}
           /\ waited \in 0..Deadline /\ targets \in 0..MaxTargets /\ targets \in Nat
           /\ job \in {"none", "queued", "running", "completed", "failed"}
           /\ hour \in Nat /\ tried \in Nat
           /\ records \subseteq 0..SearchHours
           /\ weather \in Seq(Origins) /\ Len(weather) \in Nat /\ Len(weather) <= targets
           /\ asked \in [0..SearchHours -> {"not", "nothing", "failed", "nominal", "nearby"}]
<1>1. /\ remote \in BOOLEAN /\ caller \in {"off", "inline", "post", "poll", "answered", "raised"}
      /\ waited \in 0..Deadline /\ targets \in 0..MaxTargets
      /\ job \in {"none", "queued", "running", "completed", "failed"}
      /\ records \subseteq 0..SearchHours
      /\ asked \in [0..SearchHours -> {"not", "nothing", "failed", "nominal", "nearby"}]
  BY DEF LiveInv, LiveTypeOK
<1>2. weather \in Seq(Origins) /\ Len(weather) <= targets
  BY DEF LiveInv, LiveTypeOK
<1>3. Len(weather) \in Nat
  BY <1>2
<1>4. targets \in Nat
  <2>1. targets \in 0..MaxTargets
    BY <1>1
  <2> QED BY <2>1, LiveConstantFacts DEF LiveConstants
<1>5. hour \in Nat /\ tried \in Nat
  <2>1. hour \in 0..SearchHours \union 0..WeatherHours /\ tried \in 0..Near - 1
    BY DEF LiveInv, LiveTypeOK
  <2> QED BY <2>1, LiveConstantFacts DEF LiveConstants
<1> QED BY <1>1, <1>2, <1>3, <1>4, <1>5

(* The steps of the caller and the job's fate: the prediction stands still.*)
LEMMA StandingKeeps ==
    ASSUME LiveInv, UNCHANGED <<remote, work>>,
           caller' \in {"inline", "post", "poll", "answered", "raised"}, waited' \in 0..Deadline,
           targets' \in 0..MaxTargets, job' \in {"queued", "running", "completed", "failed"},
           job = "none" => targets' >= 1, job # "none" => targets' = targets,
           job' = "completed" => job = "completed"
    PROVE  LiveInv'
<1>1. UNCHANGED <<stage, hour, tried, records, weather, warned, asked>>
  BY DEF work
<1>2. targets' >= 1 /\ targets' >= targets
  <2>1. targets' \in Nat
    BY LiveConstantFacts DEF LiveConstants
  <2>2. job = "none" => targets = 0
    BY DEF LiveInv, StagesOK
  <2>3. job # "none" => targets >= 1
    BY DEF LiveInv, StagesOK
  <2> QED BY <2>1, <2>2, <2>3, LiveTyped
<1>3. job = "none" => stage = "grid" /\ weather = <<>>
  BY DEF LiveInv, StagesOK
<1>4. LiveTypeOK'
  <2>1. Len(weather) <= targets'
    BY <1>2, LiveTyped, LiveConstantFacts DEF LiveConstants
  <2> QED BY <1>1, <2>1 DEF LiveInv, LiveTypeOK
<1>5. StagesOK'
  <2>1. Had(hour)' <=> Had(hour)
    BY <1>1 DEF Had
  <2> QED BY <1>1, <1>2, <1>3, <2>1 DEF LiveInv, StagesOK
<1>6. RecordsOK' /\ HoursOK'
  BY <1>1 DEF LiveInv, RecordsOK, HoursOK, Had
<1>7. WeatherOK'
  BY <1>1 DEF LiveInv, WeatherOK
<1>8. CopiesOK'
  <2>1. Copies' = Copies
    BY <1>1 DEF Copies, Expected, FrameOf, Latest
  <2> QED BY <1>1, <2>1 DEF LiveInv, CopiesOK
<1> QED BY <1>4, <1>5, <1>6, <1>7, <1>8 DEF LiveInv

LEMMA BodyFacts ==
    ASSUME LiveInv, job # "none"
    PROVE  Body \in {"answered", "raised", "poll"}
BY DEF Body

LEMMA ClientKeeps == ASSUME LiveInv, Call \/ Client \/ RequestFails PROVE LiveInv'
<1>1. waited \in 0..Deadline /\ targets \in 0..MaxTargets /\ job \in {"none", "queued", "running", "completed", "failed"}
  BY DEF LiveInv, LiveTypeOK
<1>2. CASE Call
  <2>1. job = "none"
    BY <1>2 DEF Call, LiveInv, StagesOK
  <2>2. /\ caller' \in {"post", "inline"} /\ job' \in {"queued", "running"} /\ targets' \in 1..MaxTargets
        /\ UNCHANGED <<remote, waited, work>>
    BY <1>2 DEF Call
  <2> QED BY <1>1, <2>1, <2>2, StandingKeeps, LiveConstantFacts DEF LiveConstants
<1>3. CASE Client \/ RequestFails
  <2>1. caller # "off" /\ UNCHANGED <<remote, targets, job, work>>
    BY <1>3 DEF Client, PostReturns, Poll, TimesOut, InlineReturns, RequestFails
  <2>2. job # "none"
    <3>1. caller \in {"post", "poll", "inline"}
      BY <1>3 DEF Client, PostReturns, Poll, TimesOut, InlineReturns, RequestFails
    <3> QED BY <3>1 DEF LiveInv, StagesOK
  <2>3. caller' \in {"inline", "post", "poll", "answered", "raised"}
    BY <1>3, <2>2, BodyFacts DEF Client, PostReturns, Poll, TimesOut, InlineReturns, RequestFails
  <2>4. waited' \in 0..Deadline
    BY <1>1, <1>3, LiveConstantFacts
       DEF Client, PostReturns, Poll, TimesOut, InlineReturns, RequestFails, MayPoll, LiveConstants
  <2> QED BY <1>1, <2>1, <2>2, <2>3, <2>4, StandingKeeps
<1> QED BY <1>2, <1>3

(* The job starts, is lost or raises. *)
LEMMA JobKeeps ==
    ASSUME LiveInv, UNCHANGED <<call, work>>, job \in {"queued", "running"}, job' \in {"running", "failed"}
    PROVE  LiveInv'
<1>1. /\ UNCHANGED <<remote, work>> /\ caller' = caller /\ waited' = waited /\ targets' = targets
  BY DEF call
<1>2. caller \in {"off", "inline", "post", "poll", "answered", "raised"} /\ waited \in 0..Deadline /\ targets \in 0..MaxTargets
  BY DEF LiveInv, LiveTypeOK
<1>3. caller # "off"
  BY DEF LiveInv, StagesOK
<1> QED BY <1>1, <1>2, <1>3, StandingKeeps

-----------------------------------------------------------------------------
(* A live prediction: the search for frames *)

LEMMA HadFacts ==
    ASSUME LiveInv, NEW h \in 0..SearchHours
    PROVE  Had(h) <=> asked[h] \in {"nominal", "nearby"}
BY LiveTyped DEF Had

LEMMA FrameCount ==
    ASSUME LiveInv
    PROVE  /\ IsFiniteSet(records) /\ Cardinality(records) \in Nat /\ Cardinality(records) <= Frames
           /\ \A h : Cardinality(records \union {h}) \in Nat /\ Cardinality(records \union {h}) <= Cardinality(records) + 1
<1>1. IsFiniteSet(0..SearchHours)
  BY LiveConstantFacts, FS_Interval DEF LiveConstants
<1>2. IsFiniteSet(records)
  BY <1>1, LiveTyped, FS_Subset
<1>3. Cardinality(records) \in Nat
  BY <1>2, FS_CardinalityType
<1>4. ASSUME NEW h PROVE Cardinality(records \union {h}) \in Nat /\ Cardinality(records \union {h}) <= Cardinality(records) + 1
  <2>1. Cardinality(records \union {h}) = IF h \in records THEN Cardinality(records) ELSE Cardinality(records) + 1
    BY <1>2, FS_AddElement
  <2> QED BY <1>3, <2>1
<1> QED BY <1>2, <1>3, <1>4 DEF LiveInv, LiveTypeOK

(* What a step does that is done with an hour: asking came to what. *)
HourStep(what, told) ==
    /\ what \in {"nothing", "failed", "nominal", "nearby"}
    /\ asked' = [asked EXCEPT ![hour] = what]
    /\ records' = IF what \in {"nominal", "nearby"} THEN records \union {hour} ELSE records
    /\ HourDone(records', told)
    /\ what = "nothing" => <<"no data near", hour>> \in told
    /\ what = "nearby" => <<"nearest", hour>> \in told
    /\ UNCHANGED <<call, job, weather>>

LEMMA HourKeeps == ASSUME LiveInv, At("satellite"), NEW what, NEW told, HourStep(what, told) PROVE LiveInv'
<1>0. /\ what \in {"nothing", "failed", "nominal", "nearby"}
      /\ asked' = [asked EXCEPT ![hour] = what]
      /\ records' = IF what \in {"nominal", "nearby"} THEN records \union {hour} ELSE records
      /\ what = "nothing" => <<"no data near", hour>> \in told
      /\ what = "nearby" => <<"nearest", hour>> \in told
      /\ UNCHANGED <<call, job, weather>>
  BY DEF HourStep
<1>1. /\ job = "running" /\ stage = "satellite"
      /\ UNCHANGED <<remote, caller, waited, targets, job, weather>>
  BY <1>0 DEF At, call
<1>2. /\ hour \in 0..SearchHours /\ ~Had(hour) /\ Cardinality(records) < Frames /\ weather = <<>> /\ targets >= 1
      /\ \A h \in 0..SearchHours : h > hour => asked[h] = "not"
  BY <1>1 DEF LiveInv, StagesOK
<1>3. /\ SearchHours \in Nat /\ WeatherHours \in Nat /\ Near \in Nat \ {0}
      /\ hour \in Nat /\ records \subseteq Nat /\ targets \in Nat
  <2>1. SearchHours \in Nat /\ WeatherHours \in Nat /\ Near \in Nat \ {0}
    BY LiveConstantFacts DEF LiveConstants
  <2>2. hour \in Nat /\ records \subseteq 0..SearchHours /\ targets \in Nat
    BY LiveTyped
  <2> QED BY <2>1, <2>2
<1>4. /\ asked' \in [0..SearchHours -> {"not", "nothing", "failed", "nominal", "nearby"}]
      /\ asked'[hour] = what /\ \A h \in 0..SearchHours : h # hour => asked'[h] = asked[h]
  BY <1>0, <1>2, LiveTyped
<1>5. \A h : Had(h)' <=> h \in 0..SearchHours /\ asked'[h] \in {"nominal", "nearby"}
  BY <1>4 DEF Had
<1>6. records' = {h \in 0..SearchHours : Had(h)'}
  <2>1. records = {h \in 0..SearchHours : Had(h)} /\ hour \notin records
    BY <1>2 DEF LiveInv, RecordsOK
  <2>2. ASSUME NEW h \in 0..SearchHours PROVE h \in records' <=> Had(h)'
    <3>1. CASE h = hour
      BY <1>0, <1>4, <1>5, <2>1, <3>1
    <3>2. CASE h # hour
      BY <1>0, <1>4, <1>5, <2>1, <3>2, HadFacts
    <3> QED BY <3>1, <3>2
  <2>3. records' \subseteq 0..SearchHours
    BY <1>0, <1>2, LiveTyped
  <2> QED BY <2>2, <2>3
<1>7. records' # {} => \E h \in records' : \A g \in records' : h <= g
  <2>1. \A g \in records : g < hour
    BY <1>1 DEF LiveInv, RecordsOK
  <2>2. CASE records = {}
    <3>1. hour <= hour
      BY <1>3
    <3>2. records' \subseteq {hour}
      BY <1>0, <2>2
    <3> QED BY <3>1, <3>2
  <2>3. CASE records # {}
    <3>1. PICK h \in records : \A g \in records : h <= g
      BY <2>3 DEF LiveInv, RecordsOK
    <3>2. h \in Nat /\ h < hour /\ h <= hour
      BY <1>3, <2>1, <3>1
    <3>3. records \subseteq records' /\ \A g \in records' : g \in records \/ g = hour
      BY <1>0
    <3>4. h \in records' /\ \A g \in records' : h <= g
      BY <3>1, <3>2, <3>3
    <3> QED BY <3>4
  <2> QED BY <2>2, <2>3
<1>8. \A h \in records' : h < hour + 1
  <2>1. \A g \in records : g < hour
    BY <1>1 DEF LiveInv, RecordsOK
  <2>2. \A g \in records' : g \in records \/ g = hour
    BY <1>0
  <2>3. hour < hour + 1 /\ \A g \in Nat : g < hour => g < hour + 1
    BY <1>3
  <2> QED BY <1>3, <2>1, <2>2, <2>3
<1>9. Cardinality(records') \in Nat /\ Cardinality(records') <= Frames
  <2>1. records' = records \/ records' = records \union {hour}
    BY <1>0
  <2>2. /\ Cardinality(records) \in Nat /\ Cardinality(records \union {hour}) \in Nat
        /\ Cardinality(records \union {hour}) <= Cardinality(records) + 1
    BY FrameCount
  <2>3. Cardinality(records) < 3
    BY <1>2 DEF Frames
  <2>4. Cardinality(records) <= 3 /\ Cardinality(records \union {hour}) <= 3
    BY <2>2, <2>3
  <2> QED BY <2>1, <2>2, <2>4 DEF Frames
<1>10. /\ tried' = 0 /\ warned \subseteq warned' /\ told \subseteq warned'
       /\ stage' \in {"satellite", "weather"}
       /\ stage' = "weather" => hour' = 0 /\ (records' = {} => <<"all missing">> \in warned')
       /\ stage' = "satellite" => hour' = hour + 1 /\ hour # SearchHours /\ Cardinality(records') < Frames
  <2>1. CASE Cardinality(records') >= Frames \/ hour = SearchHours
    <3>1. tried' = 0 /\ stage' = "weather" /\ hour' = 0
      BY <2>1 DEF HourStep, HourDone
    <3>2. PICK more : warned' = warned \union (told \union more) /\ (records' = {} => <<"all missing">> \in more)
      BY <2>1 DEF HourStep, HourDone, Tell
    <3> QED BY <3>1, <3>2
  <2>2. CASE ~(Cardinality(records') >= Frames \/ hour = SearchHours)
    <3>1. hour' = hour + 1 /\ tried' = 0 /\ Tell(told) /\ stage' = stage
      BY <2>2 DEF HourStep, HourDone
    <3>2. warned' = warned \union told
      BY <3>1 DEF Tell
    <3>3. Cardinality(records') < Frames /\ hour # SearchHours
      BY <1>9, <2>2 DEF Frames
    <3> QED BY <1>1, <3>1, <3>2, <3>3
  <2> QED BY <2>1, <2>2
<1>11. LiveTypeOK'
  <2>1. hour' \in 0..SearchHours \union 0..WeatherHours /\ tried' \in 0..Near - 1
    <3>1. stage' = "weather" => hour' = 0
      BY <1>10
    <3>2. stage' = "satellite" => hour' \in 0..SearchHours
      BY <1>2, <1>3, <1>10
    <3>3. 0 \in 0..WeatherHours /\ 0 \in 0..Near - 1
      BY <1>3
    <3> QED BY <1>10, <3>1, <3>2, <3>3
  <2>2. records' \subseteq 0..SearchHours
    BY <1>6
  <2> QED BY <1>1, <1>4, <1>9, <1>10, <2>1, <2>2, LiveTyped DEF LiveTypeOK
<1>12. StagesOK'
  <2>1. Len(weather') = 0
    <3>1. Len(<<>>) = 0 /\ weather' = <<>>
      BY <1>1, <1>2
    <3> QED BY <3>1
  <2>2. stage' = "satellite" => /\ hour' \in 0..SearchHours /\ ~Had(hour)'
                                /\ \A h \in 0..SearchHours : h > hour' => asked'[h] = "not"
    <3> SUFFICES ASSUME stage' = "satellite"
                 PROVE  /\ hour' \in 0..SearchHours /\ ~Had(hour)'
                        /\ \A h \in 0..SearchHours : h > hour' => asked'[h] = "not"
      OBVIOUS
    <3>1. hour' = hour + 1 /\ hour + 1 \in 0..SearchHours
      BY <1>2, <1>3, <1>10
    <3>2. \A h \in 0..SearchHours : h > hour => asked'[h] = "not"
      BY <1>2, <1>3, <1>4
    <3>3. \A h \in 0..SearchHours : h > hour' => h > hour
      BY <1>3, <3>1
    <3>4. hour' > hour
      BY <1>3, <3>1
    <3>5. asked'[hour'] = "not"
      BY <3>1, <3>2, <3>4
    <3>6. ~Had(hour)'
      BY <3>5 DEF Had
    <3> QED BY <3>1, <3>2, <3>3, <3>6
  <2>3. stage' = "weather" => hour' \in 0..WeatherHours /\ Len(weather') < targets'
    <3>1. 0 \in 0..WeatherHours /\ 0 < targets
      BY <1>2, <1>3
    <3>2. targets' = targets
      BY <1>1
    <3> QED BY <1>10, <2>1, <3>1, <3>2
  <2>4. caller' # "off"
    BY <1>1 DEF LiveInv, StagesOK
  <2> QED BY <1>1, <1>2, <1>10, <2>2, <2>3, <2>4 DEF StagesOK
<1>13. RecordsOK'
  BY <1>6, <1>7, <1>8, <1>10 DEF RecordsOK
<1>14. HoursOK'
  <2>1. ASSUME NEW h \in 0..SearchHours, h < hour' \/ stage' \notin {"grid", "satellite"}
        PROVE  /\ asked'[h] = "nothing" => <<"no data near", h>> \in warned'
               /\ asked'[h] = "nearby" => <<"nearest", h>> \in warned'
    <3>1. CASE h = hour
      BY <1>0, <1>4, <1>10, <3>1
    <3>2. CASE h < hour
      <4>1. asked'[h] = asked[h]
        BY <1>3, <1>4, <3>2
      <4>2. /\ asked[h] = "nothing" => <<"no data near", h>> \in warned
            /\ asked[h] = "nearby" => <<"nearest", h>> \in warned
        BY <3>2 DEF LiveInv, HoursOK
      <4> QED BY <1>10, <4>1, <4>2
    <3>3. CASE h > hour
      <4>1. asked'[h] = asked[h] /\ asked[h] = "not"
        BY <1>2, <1>3, <1>4, <3>3
      <4> QED BY <4>1
    <3>4. h < hour \/ h = hour \/ h > hour
      BY <1>3
    <3> QED BY <3>1, <3>2, <3>3, <3>4
  <2> QED BY <1>10, <2>1 DEF HoursOK
<1>15. WeatherOK' /\ CopiesOK'
  <2>1. 1..Len(weather') = {}
    <3>1. Len(<<>>) = 0 /\ weather' = <<>>
      BY <1>1, <1>2
    <3>2. 1..0 = {}
      OBVIOUS
    <3> QED BY <3>1, <3>2
  <2> QED BY <1>10, <2>1 DEF WeatherOK, CopiesOK
<1> QED BY <1>11, <1>12, <1>13, <1>14, <1>15 DEF LiveInv

(* Another time around the hour is left to ask for. *)
LEMMA MissKeeps ==
    ASSUME LiveInv, At("satellite"), NEW what \in {"nothing", "failed"}, tried + 1 < Near,
           asked' = [asked EXCEPT ![hour] = what], tried' = tried + 1, warned \subseteq warned',
           UNCHANGED <<call, job, stage, hour, records, weather>>
    PROVE  LiveInv'
<1>1. job = "running" /\ stage = "satellite" /\ UNCHANGED <<remote, caller, waited, targets, job, stage, hour, records, weather>>
  BY DEF At, call
<1>2. /\ hour \in 0..SearchHours /\ ~Had(hour)
      /\ \A h \in 0..SearchHours : h > hour => asked[h] = "not"
  BY <1>1 DEF LiveInv, StagesOK
<1>3. /\ asked' \in [0..SearchHours -> {"not", "nothing", "failed", "nominal", "nearby"}]
      /\ asked'[hour] = what /\ \A h \in 0..SearchHours : h # hour => asked'[h] = asked[h]
  BY <1>2, LiveTyped
<1>4. \A h : Had(h)' <=> Had(h)
  <2>1. \A h : Had(h)' <=> h \in 0..SearchHours /\ asked'[h] \in {"nominal", "nearby"}
    BY <1>3 DEF Had
  <2>2. \A h : Had(h) <=> h \in 0..SearchHours /\ asked[h] \in {"nominal", "nearby"}
    BY LiveTyped DEF Had
  <2> QED BY <1>2, <1>3, <2>1, <2>2
<1>5. SearchHours \in Nat /\ hour \in Nat /\ tried \in Nat /\ Near \in Nat
  BY LiveTyped, LiveConstantFacts DEF LiveConstants
<1>6. \A h \in 0..SearchHours : h > hour \/ h < hour => h # hour
  BY <1>5
<1>7. LiveTypeOK'
  <2>1. tried' \in 0..Near - 1
    BY <1>5
  <2> QED BY <1>1, <1>3, <2>1 DEF LiveInv, LiveTypeOK
<1>8. StagesOK'
  <2>1. ~Had(hour)'
    <3>1. Had(hour)' <=> hour \in 0..SearchHours /\ asked'[hour] \in {"nominal", "nearby"}
      BY <1>1, <1>3 DEF Had
    <3> QED BY <1>3, <3>1
  <2>2. \A h \in 0..SearchHours : h > hour => asked'[h] = "not"
    BY <1>2, <1>3, <1>6
  <2> QED BY <1>1, <2>1, <2>2 DEF LiveInv, StagesOK
<1>9. RecordsOK'
  BY <1>1, <1>4 DEF LiveInv, RecordsOK
<1>10. HoursOK'
  <2>1. \A h \in 0..SearchHours : h < hour => asked'[h] = asked[h]
    BY <1>3, <1>6
  <2> QED BY <1>1, <2>1 DEF LiveInv, HoursOK
<1>11. WeatherOK' /\ CopiesOK'
  BY <1>1 DEF LiveInv, WeatherOK, CopiesOK
<1> QED BY <1>7, <1>8, <1>9, <1>10, <1>11 DEF LiveInv

(* What a miss does: with another time to ask for, or done with the hour. *)
Missed(what, told) ==
    /\ what \in {"nothing", "failed"}
    /\ asked' = [asked EXCEPT ![hour] = what]
    /\ IF tried + 1 < Near THEN tried' = tried + 1 /\ Tell(told) /\ UNCHANGED <<stage, hour>>
       ELSE HourDone(records, told \union IF what = "failed" THEN {} ELSE {<<"no data near", hour>>})

LEMMA SearchKeeps == ASSUME LiveInv, ResolveGrid \/ TimeMatches \/ TimeMisses PROVE LiveInv'
<1>1. CASE ResolveGrid
  <2>1. CASE stage' = "satellite" /\ UNCHANGED <<call, job, hour, tried, records, weather, warned, asked>>
    <3>1. stage = "grid" /\ job = "running" /\ UNCHANGED <<remote, caller, waited, targets, job, hour, tried, records, weather, warned, asked>>
      BY <1>1, <2>1 DEF ResolveGrid, At, call
    <3>2. LiveTypeOK' /\ RecordsOK' /\ HoursOK' /\ WeatherOK' /\ CopiesOK'
      BY <2>1, <3>1 DEF LiveInv, LiveTypeOK, RecordsOK, HoursOK, WeatherOK, CopiesOK, Had
    <3>3. StagesOK'
      <4>1. Had(hour)' <=> Had(hour)
        BY <3>1 DEF Had
      <4> QED BY <2>1, <3>1, <4>1 DEF LiveInv, StagesOK
    <3> QED BY <3>2, <3>3 DEF LiveInv
  <2>2. CASE Raise
    BY <1>1, <2>2, JobKeeps DEF ResolveGrid, At, Raise
  <2> QED BY <1>1, <2>1, <2>2 DEF ResolveGrid
<1>2. CASE TimeMatches
  <2>1. At("satellite")
    BY <1>2 DEF TimeMatches
  <2>2. CASE tried = 0
    <3>1. HourStep("nominal", {})
      BY <1>2, <2>2 DEF TimeMatches, HourStep
    <3> QED BY <2>1, <3>1, HourKeeps
  <2>3. CASE tried # 0
    <3>1. HourStep("nearby", {<<"nearest", hour>>})
      BY <1>2, <2>3 DEF TimeMatches, HourStep
    <3> QED BY <2>1, <3>1, HourKeeps
  <2> QED BY <2>2, <2>3
<1>3. CASE TimeMisses
  <2>1. At("satellite") /\ UNCHANGED <<call, job, records, weather>>
    BY <1>3 DEF TimeMisses
  <2>2. PICK what, told : Missed(what, told)
    <3>1. PICK fails \in BOOLEAN :
            LET failed == fails \/ asked[hour] = "failed"
                told == IF fails THEN {<<"request failed", hour>>} ELSE {} IN
            /\ asked' = [asked EXCEPT ![hour] = IF failed THEN "failed" ELSE "nothing"]
            /\ IF tried + 1 < Near THEN tried' = tried + 1 /\ Tell(told) /\ UNCHANGED <<stage, hour>>
               ELSE HourDone(records, told \union IF failed THEN {} ELSE {<<"no data near", hour>>})
      BY <1>3 DEF TimeMisses
    <3>2. CASE fails \/ asked[hour] = "failed"
      <4>1. Missed("failed", IF fails THEN {<<"request failed", hour>>} ELSE {})
        BY <3>1, <3>2 DEF Missed
      <4> QED BY <4>1
    <3>3. CASE ~(fails \/ asked[hour] = "failed")
      <4>1. Missed("nothing", IF fails THEN {<<"request failed", hour>>} ELSE {})
        BY <3>1, <3>3 DEF Missed
      <4> QED BY <4>1
    <3> QED BY <3>2, <3>3
  <2>3. CASE tried + 1 < Near
    <3>1. tried' = tried + 1 /\ UNCHANGED <<stage, hour>> /\ warned \subseteq warned'
      BY <2>2, <2>3 DEF Missed, Tell
    <3> QED BY <2>1, <2>2, <2>3, <3>1, MissKeeps DEF Missed
  <2>4. CASE ~(tried + 1 < Near)
    <3> DEFINE all == told \union IF what = "failed" THEN {} ELSE {<<"no data near", hour>>}
    <3>1. records' = records
      BY <2>1
    <3>2. HourDone(records', all)
      BY <2>2, <2>4, <3>1 DEF Missed
    <3>3. what = "nothing" => <<"no data near", hour>> \in all
      OBVIOUS
    <3> HIDE DEF all
    <3>4. HourStep(what, all)
      BY <2>1, <2>2, <3>1, <3>2, <3>3 DEF HourStep, Missed
    <3> QED BY <2>1, <3>4, HourKeeps
  <2> QED BY <2>3, <2>4
<1> QED BY <1>1, <1>2, <1>3

-----------------------------------------------------------------------------
(* A live prediction: the weather and the answer *)

LEMMA WeatherStepKeeps ==
    ASSUME LiveInv, job = "running", stage \in {"weather", "nowcast"}, stage' \in {"weather", "nowcast", "predict"},
           hour' \in 0..WeatherHours, weather' \in Seq(Origins), Len(weather') <= targets,
           stage' \in {"weather", "nowcast"} => Len(weather') < targets,
           stage' = "predict" => Len(weather') = targets, WeatherOK',
           warned \subseteq warned', UNCHANGED <<call, job, tried, records, asked>>
    PROVE  LiveInv'
<1>1. UNCHANGED <<remote, caller, waited, targets, job, tried, records, asked>>
  BY DEF call
<1>2. LiveTypeOK'
  BY <1>1 DEF LiveInv, LiveTypeOK
<1>3. StagesOK'
  BY <1>1 DEF LiveInv, StagesOK
<1>4. RecordsOK'
  BY <1>1 DEF LiveInv, RecordsOK, Had
<1>5. HoursOK'
  BY <1>1 DEF LiveInv, HoursOK
<1>6. CopiesOK'
  BY DEF CopiesOK
<1> QED BY <1>2, <1>3, <1>4, <1>5, <1>6 DEF LiveInv

LEMMA Appended ==
    ASSUME NEW S, NEW s \in Seq(S), NEW x \in S
    PROVE  /\ Append(s, x) \in Seq(S) /\ Len(Append(s, x)) = Len(s) + 1 /\ Len(s) \in Nat
           /\ Append(s, x)[Len(s) + 1] = x /\ \A t \in 1..Len(s) : Append(s, x)[t] = s[t]
           /\ \A t \in 1..Len(s) + 1 : t \in 1..Len(s) \/ t = Len(s) + 1
OBVIOUS

(* What a step does that has the weather of the target at hand. *)
TargetStep(snapshot, told) ==
    /\ job = "running" /\ stage \in {"weather", "nowcast"}
    /\ snapshot \in Origins
    /\ NextTarget(snapshot, told)
    /\ snapshot = "nowcast" => <<"nowcast">> \in told
    /\ snapshot = "in part" => \E h \in 0..WeatherHours : <<"partial", h>> \in told
    /\ UNCHANGED <<call, job, tried, records, asked>>

LEMMA TargetKeeps == ASSUME LiveInv, NEW snapshot, NEW told, TargetStep(snapshot, told) PROVE LiveInv'
<1>1. weather \in Seq(Origins) /\ Len(weather) \in Nat /\ targets \in Nat
  BY LiveTyped
<1>2. Len(weather) < targets
  BY DEF TargetStep, LiveInv, StagesOK
<1>3. weather' = Append(weather, snapshot) /\ snapshot \in Origins
  BY DEF TargetStep, NextTarget
<1>4. /\ weather' \in Seq(Origins) /\ Len(weather') = Len(weather) + 1
      /\ weather'[Len(weather) + 1] = snapshot /\ \A t \in 1..Len(weather) : weather'[t] = weather[t]
  BY <1>1, <1>3, Appended
<1>5. hour' = 0 /\ warned' = warned \union told
      /\ stage' = IF Len(weather') = targets THEN "predict" ELSE "weather"
  BY DEF TargetStep, NextTarget, Tell
<1>6. /\ Len(weather') <= targets /\ stage' \in {"weather", "predict"} /\ 0 \in 0..WeatherHours
      /\ stage' = "weather" => Len(weather') < targets
      /\ stage' = "predict" => Len(weather') = targets
  <2>1. 0 \in 0..WeatherHours
    BY LiveConstantFacts DEF LiveConstants
  <2>2. Len(weather') \in Nat /\ Len(weather') <= targets
    BY <1>1, <1>2, <1>4
  <2>3. Len(weather') # targets => Len(weather') < targets
    BY <1>1, <2>2
  <2> QED BY <1>5, <2>1, <2>2, <2>3
<1>7. WeatherOK'
  <2>1. ASSUME NEW t \in 1..Len(weather')
        PROVE  /\ weather'[t] = "nowcast" => <<"nowcast">> \in warned'
               /\ weather'[t] = "in part" => \E h \in 0..WeatherHours : <<"partial", h>> \in warned'
    <3>1. t \in 1..Len(weather) \/ t = Len(weather) + 1
      BY <1>1, <1>3, <1>4, Appended
    <3>2. CASE t \in 1..Len(weather)
      <4>1. weather'[t] = weather[t]
        BY <1>4, <3>2
      <4>2. /\ weather[t] = "nowcast" => <<"nowcast">> \in warned
            /\ weather[t] = "in part" => \E h \in 0..WeatherHours : <<"partial", h>> \in warned
        BY <3>2 DEF LiveInv, WeatherOK
      <4> QED BY <1>5, <4>1, <4>2
    <3>3. CASE t = Len(weather) + 1
      <4>1. /\ snapshot = "nowcast" => <<"nowcast">> \in told
            /\ snapshot = "in part" => \E h \in 0..WeatherHours : <<"partial", h>> \in told
        BY DEF TargetStep
      <4> QED BY <1>4, <1>5, <3>3, <4>1
    <3> QED BY <3>1, <3>2, <3>3
  <2> QED BY <2>1 DEF WeatherOK
<1> QED BY <1>4, <1>5, <1>6, <1>7, WeatherStepKeeps DEF TargetStep

LEMMA WeatherKeeps == ASSUME LiveInv, IssueServes \/ IssueLacks \/ ReadNowcast PROVE LiveInv'
<1>1. CASE IssueServes
  <2>1. job = "running" /\ stage = "weather" /\ UNCHANGED <<call, job, tried, records, asked>>
    BY <1>1 DEF IssueServes, At
  <2>2. hour \in 0..WeatherHours
    BY <2>1 DEF LiveInv, StagesOK
  <2>3. NextTarget("in part", {<<"partial", hour>>}) \/ NextTarget("forecast", {})
    BY <1>1 DEF IssueServes
  <2>4. "in part" \in Origins /\ "forecast" \in Origins
    BY DEF Origins
  <2>5. CASE NextTarget("in part", {<<"partial", hour>>})
    <3>1. TargetStep("in part", {<<"partial", hour>>})
      BY <2>1, <2>2, <2>4, <2>5 DEF TargetStep
    <3> QED BY <3>1, TargetKeeps
  <2>6. CASE NextTarget("forecast", {})
    <3>1. TargetStep("forecast", {})
      BY <2>1, <2>4, <2>6 DEF TargetStep
    <3> QED BY <3>1, TargetKeeps
  <2> QED BY <2>3, <2>5, <2>6
<1>2. CASE IssueLacks
  <2>1. /\ job = "running" /\ stage = "weather" /\ warned \subseteq warned'
        /\ UNCHANGED <<call, job, tried, records, weather, asked>>
    BY <1>2 DEF IssueLacks, At, Tell
  <2>2. hour \in 0..WeatherHours /\ Len(weather) < targets
    BY <2>1 DEF LiveInv, StagesOK
  <2>3. stage' \in {"weather", "nowcast"} /\ hour' \in 0..WeatherHours
    <3>1. IF hour = WeatherHours THEN hour' = 0 /\ stage' = "nowcast"
          ELSE hour' = hour + 1 /\ stage' = stage
      BY <1>2 DEF IssueLacks
    <3>2. WeatherHours \in Nat
      BY LiveConstantFacts DEF LiveConstants
    <3>3. 0 \in 0..WeatherHours /\ (hour # WeatherHours => hour + 1 \in 0..WeatherHours)
      BY <2>2, <3>2
    <3> QED BY <2>1, <3>1, <3>3
  <2>4. WeatherOK'
    BY <2>1 DEF LiveInv, WeatherOK
  <2>5. weather' \in Seq(Origins) /\ Len(weather') <= targets /\ Len(weather') < targets
    BY <2>1, <2>2, LiveTyped
  <2>6. UNCHANGED <<call, job, tried, records, asked>>
    BY <2>1
  <2> QED BY <2>1, <2>3, <2>4, <2>5, <2>6, WeatherStepKeeps
<1>3. CASE ReadNowcast
  <2>1. /\ job = "running" /\ stage = "nowcast" /\ NextTarget("nowcast", {<<"nowcast">>})
        /\ UNCHANGED <<call, job, tried, records, asked>>
    BY <1>3 DEF ReadNowcast, At
  <2>2. "nowcast" \in Origins
    BY DEF Origins
  <2>3. TargetStep("nowcast", {<<"nowcast">>})
    BY <2>1, <2>2 DEF TargetStep
  <2> QED BY <2>3, TargetKeeps
<1> QED BY <1>1, <1>2, <1>3

LEMMA RunModelKeeps == ASSUME LiveInv, RunModel PROVE LiveInv'
<1>1. CASE Raise
  BY <1>1, JobKeeps DEF RunModel, At, Raise
<1>2. CASE /\ job' = "completed" /\ stage' = "done" /\ Tell({<<"duplicated", h>> : h \in Copies})
           /\ UNCHANGED <<call, hour, tried, records, weather, asked>>
  <2>1. /\ stage = "predict" /\ job = "running"
        /\ UNCHANGED <<remote, caller, waited, targets, hour, tried, records, weather, asked>>
    BY <1>2 DEF RunModel, At, call
  <2>2. warned' = warned \union {<<"duplicated", h>> : h \in Copies}
    BY <1>2 DEF Tell
  <2>3. warned \subseteq warned'
    BY <2>2
  <2>4. LiveTypeOK'
    BY <1>2, <2>1 DEF LiveInv, LiveTypeOK
  <2>5. StagesOK'
    BY <1>2, <2>1 DEF LiveInv, StagesOK
  <2>6. RecordsOK'
    BY <1>2, <2>1 DEF LiveInv, RecordsOK, Had
  <2>7. HoursOK'
    BY <1>2, <2>1, <2>3 DEF LiveInv, HoursOK
  <2>8. WeatherOK'
    BY <2>1, <2>3 DEF LiveInv, WeatherOK
  <2>9. CopiesOK'
    <3>1. Copies' = Copies
      BY <2>1 DEF Copies, Expected, FrameOf, Latest
    <3> QED BY <2>2, <3>1 DEF CopiesOK
  <2> QED BY <2>4, <2>5, <2>6, <2>7, <2>8, <2>9 DEF LiveInv
<1> QED BY <1>1, <1>2 DEF RunModel

LEMMA LiveInvInit == LiveInit => LiveInv
<1> SUFFICES ASSUME LiveInit PROVE LiveInv
  OBVIOUS
<1>1. /\ Len(weather) = 0 /\ weather = <<>>
  <2>1. Len(<<>>) = 0
    OBVIOUS
  <2> QED BY <2>1 DEF LiveInit
<1>2. Cardinality(records) = 0 /\ records = {}
  BY FS_EmptySet DEF LiveInit
<1>3. SearchHours \in Nat /\ WeatherHours \in Nat /\ MaxTargets \in Nat /\ Deadline \in Nat /\ Near \in Nat \ {0}
  BY LiveConstantFacts DEF LiveConstants
<1>4. 0 \in 0..SearchHours /\ 0 \in 0..Near - 1 /\ 0 \in 0..MaxTargets /\ 0 \in 0..Deadline
  BY <1>3
<1>5. \A h : ~Had(h)
  BY DEF LiveInit, Had
<1>6. LiveTypeOK
  <2>1. weather \in Seq(Origins)
    BY <1>1
  <2>2. Cardinality(records) <= Frames
    BY <1>2 DEF Frames
  <2> QED BY <1>1, <1>2, <1>4, <2>1, <2>2 DEF LiveInit, LiveTypeOK
<1>7. StagesOK
  <2>1. Cardinality(records) < Frames
    BY <1>2 DEF Frames
  <2> QED BY <1>1, <1>4, <1>5, <2>1 DEF LiveInit, StagesOK
<1>8. RecordsOK /\ HoursOK /\ CopiesOK
  BY <1>2, <1>5 DEF LiveInit, RecordsOK, HoursOK, CopiesOK
<1>9. WeatherOK
  <2>1. 1..0 = {}
    OBVIOUS
  <2> QED BY <1>1, <2>1 DEF WeatherOK
<1> QED BY <1>6, <1>7, <1>8, <1>9 DEF LiveInv

LEMMA LiveInvNext == ASSUME LiveInv, [LiveNext]_liveVars PROVE LiveInv'
<1>1. CASE Call \/ Client \/ RequestFails
  BY <1>1, ClientKeeps
<1>2. CASE JobStarts \/ JobLost
  BY <1>2, JobKeeps DEF JobStarts, JobLost
<1>3. CASE ResolveGrid \/ TimeMatches \/ TimeMisses
  BY <1>3, SearchKeeps
<1>4. CASE IssueServes \/ IssueLacks \/ ReadNowcast
  BY <1>4, WeatherKeeps
<1>5. CASE RunModel
  BY <1>5, RunModelKeeps
<1>6. CASE UNCHANGED liveVars
  <2>1. UNCHANGED <<remote, caller, waited, targets, job, stage, hour, tried, records, weather, warned, asked>>
    BY <1>6 DEF liveVars, call, work
  <2>2. LiveTypeOK' /\ WeatherOK'
    BY <2>1 DEF LiveInv, LiveTypeOK, WeatherOK
  <2>5. RecordsOK' /\ HoursOK'
    BY <2>1 DEF LiveInv, RecordsOK, HoursOK, Had
  <2>3. StagesOK'
    <3>1. Had(hour)' <=> Had(hour)
      BY <2>1 DEF Had
    <3> QED BY <2>1, <3>1 DEF LiveInv, StagesOK
  <2>4. CopiesOK'
    <3>1. Copies' = Copies
      BY <2>1 DEF Copies, Expected, FrameOf, Latest
    <3> QED BY <2>1, <3>1 DEF LiveInv, CopiesOK
  <2> QED BY <2>2, <2>3, <2>4, <2>5 DEF LiveInv
<1> QED BY <1>1, <1>2, <1>3, <1>4, <1>5, <1>6 DEF LiveNext, Job

LEMMA LiveInvAlways == LiveSpec => []LiveInv
<1>1. LiveInv /\ [LiveNext]_liveVars => LiveInv'
  BY LiveInvNext
<1> QED BY <1>1, LiveInvInit, PTL DEF LiveSpec

LEMMA InvTellsAll == LiveInv => AssumedIsTold
<1> SUFFICES ASSUME LiveInv, job = "completed" PROVE AssumedIsTold
  BY DEF AssumedIsTold
<1>1. stage = "done" /\ Len(weather) = targets
  BY DEF LiveInv, StagesOK
<1>2. /\ SearchHours \in Nat /\ records = {h \in 0..SearchHours : Had(h)} /\ records \subseteq 0..SearchHours
      /\ \A h : Had(h) => h \in 0..SearchHours
  <2>1. \A h : Had(h) => h \in 0..SearchHours
    BY LiveTyped DEF Had
  <2> QED BY <2>1, LiveConstantFacts DEF LiveConstants, LiveInv, RecordsOK
<1>3. CASE \E h \in 0..SearchHours : Had(h)
  <2>1. records # {}
    BY <1>2, <1>3
  <2>2. Latest \in records /\ \A g \in records : Latest <= g
    <3>1. \E h \in records : \A g \in records : h <= g
      BY <2>1 DEF LiveInv, RecordsOK
    <3> QED BY <3>1 DEF Latest
  <2>3. Latest \in 0..SearchHours /\ Had(Latest)
    BY <1>2, <2>2
  <2>4. ASSUME NEW h \in 0..Latest - 1 PROVE ~Had(h)
    <3>1. h \in 0..SearchHours /\ ~(Latest <= h)
      BY <1>2, <2>3
    <3> QED BY <1>2, <2>2, <3>1
  <2>5. ASSUME NEW h \in Expected
        PROVE  IF Had(h) THEN FrameOf(h) = h ELSE FrameOf(h) = Latest /\ <<"duplicated", h>> \in warned
    <3>1. CASE Had(h)
      BY <1>2, <3>1 DEF FrameOf
    <3>2. CASE ~Had(h)
      <4>1. h \notin records
        BY <1>2, <3>2
      <4>2. FrameOf(h) = Latest /\ Latest # h
        BY <2>2, <4>1 DEF FrameOf
      <4>3. h \in Copies
        BY <2>1, <4>2 DEF Copies
      <4> QED BY <1>1, <3>2, <4>2, <4>3 DEF LiveInv, CopiesOK
    <3> QED BY <3>1, <3>2
  <2>6. ASSUME NEW h \in 0..Latest, asked[h] \in {"nothing", "nearby"}
        PROVE  \E what \in {"no data near", "nearest"} : <<what, h>> \in warned
    <3>1. h \in 0..SearchHours
      BY <1>2, <2>3
    <3>2. <<"no data near", h>> \in warned \/ <<"nearest", h>> \in warned
      BY <1>1, <2>6, <3>1 DEF LiveInv, HoursOK
    <3> QED BY <3>2
  <2>7. FramesAreTold
    BY <1>3, <2>3, <2>4, <2>5, <2>6 DEF FramesAreTold
  <2> QED BY <1>1, <2>7 DEF AssumedIsTold, WeatherIsTold, LiveInv, WeatherOK
<1>4. CASE ~\E h \in 0..SearchHours : Had(h)
  <2>1. records = {}
    BY <1>2, <1>4
  <2>2. FramesAreTold
    BY <1>1, <1>4, <2>1 DEF FramesAreTold, LiveInv, HoursOK
  <2> QED BY <1>1, <2>2 DEF AssumedIsTold, WeatherIsTold, LiveInv, WeatherOK
<1> QED BY <1>3, <1>4

-----------------------------------------------------------------------------
(***************************************************************************)
(* An image of a finished prediction is the hour's own, or a copy the      *)
(* answer tells of; and a search without a frame, the weather of now and a *)
(* forecast with a failed request are told (live_satellite_service.py:     *)
(* 491-701) - in whatever order the two services fail, for any number of   *)
(* hours searched and of hours predicted.                                  *)
(***************************************************************************)
THEOREM WarningsTellAll == LiveSpec => []AssumedIsTold
<1>1. LiveInv => AssumedIsTold
  BY InvTellsAll
<1> QED BY <1>1, LiveInvAlways, PTL

-----------------------------------------------------------------------------
(* The readers beside the calls *)

(* A step of a call other than a COMMIT of its save. *)
Rests(c) ==
    /\ pc[c] \notin Over
    /\ UNCHANGED <<points, latest, lastSaved>>
    /\ \A d \in Calls \ {c} : /\ pc'[d] = pc[d] /\ known'[d] = known[d] /\ fellBack'[d] = fellBack[d]
                              /\ rows'[d] = rows[d]
    /\ pc[c] \in Saving =>
          pc'[c] \in Saving /\ known'[c] = known[c] /\ fellBack'[c] = fellBack[c] /\ rows'[c] = rows[c]
    /\ \/ UNCHANGED <<status, completed>>
       \/ /\ pc[c] \notin Saving /\ completed' = completed
          /\ \E s \in {"PARTIAL", "FALLBACK"} : status' = [status EXCEPT ![<<c, "started">>] = s]
       \/ /\ pc[c] \in Saving
          /\ status' = [status EXCEPT ![<<c, "started">>] = "FAILED"]
          /\ completed' = completed \union {<<c, "started">>}
    /\ \A r \in Runs : HasSaved(r)' <=> HasSaved(r)
    /\ IF pc[c] = "saving" /\ pc'[c] = "replacing" THEN overlap' = [overlap EXCEPT ![c] = {}]
                                                   ELSE overlap' = overlap
    /\ pc'[c] = "replacing" => pc[c] \in {"saving", "replacing"}

(* Another event of a run does not make it a saved one. *)
LEMMA EventFacts ==
    ASSUME TypeOK, NEW q \in Runs, NEW event, event # "FORECAST_SAVED",
           events' = [events EXCEPT ![q] = @ \union {event}] \/ events' = events
    PROVE  \A r \in Runs : HasSaved(r)' <=> HasSaved(r)
<1>1. CASE events' = events
  BY <1>1 DEF HasSaved
<1>2. CASE events' = [events EXCEPT ![q] = @ \union {event}]
  <2>1. \A r \in Runs : events'[r] = IF r = q THEN events[r] \union {event} ELSE events[r]
    BY <1>2 DEF TypeOK
  <2> QED BY <2>1 DEF HasSaved
<1> QED BY <1>1, <1>2

LEMMA StartRests ==
    ASSUME RunsInv, NEW c \in Calls, NEW r \in Requested(c), StartRun(c, r)
    PROVE  Rests(c) /\ pc[c] = "new" /\ pc'[c] # "replacing"
<1> USE DEF RunsInv
<1>1. /\ pc[c] = "new" /\ pc' = [pc EXCEPT ![c] = AfterStart(r)]
      /\ UNCHANGED <<fellBack, rows, latest, lastSaved, overlap>>
  BY DEF StartRun, Goes, projection
<1>2. AfterStart(r) \in {"requesting", "raised", "predicting"}
  BY DEF AfterStart
<1>3. \/ UNCHANGED <<status, completed, points, events>>
      \/ /\ status' = [status EXCEPT ![<<c, "started">>] = "PARTIAL"]
         /\ events' = [events EXCEPT ![<<c, "started">>] = @ \union {"FORECAST_REQUESTED"}]
         /\ UNCHANGED <<completed, points>>
  BY DEF StartRun, Records, runTables
<1>4. known' = known \/ known' = [known EXCEPT ![c] = <<c, "started">>]
  BY DEF StartRun
<1>5. <<c, "started">> \in Runs
  BY RunFacts DEF Kinds
<1>6. \A q \in Runs : HasSaved(q)' <=> HasSaved(q)
  BY <1>3, <1>5, EventFacts
<1>7. /\ pc'[c] = AfterStart(r)
      /\ \A d \in Calls \ {c} : pc'[d] = pc[d] /\ known'[d] = known[d]
  BY <1>1, <1>4 DEF TypeOK
<1>8. /\ points' = points
      /\ \/ UNCHANGED <<status, completed>>
         \/ completed' = completed /\ status' = [status EXCEPT ![<<c, "started">>] = "PARTIAL"]
  BY <1>3
<1> QED BY <1>1, <1>2, <1>6, <1>7, <1>8 DEF Rests, Over, Saving

LEMMA LiveRests ==
    ASSUME RunsInv, NEW c \in Calls, RequestLive(c) \/ LiveAnswers(c) \/ LiveFails(c)
    PROVE  Rests(c)
<1> USE DEF RunsInv
<1>1. \E event \in {"RUNPOD_REQUESTED", "RUNPOD_COMPLETED", "RUNPOD_FAILED"} :
          events' = [events EXCEPT ![<<c, "started">>] = @ \union {event}] \/ events' = events
  BY DEF RequestLive, LiveAnswers, LiveFails, TriesToRecord, RecordsJob, Records, runTables, KnownOK
<1>2. UNCHANGED <<status, completed, points>>
  BY DEF RequestLive, LiveAnswers, LiveFails, TriesToRecord, RecordsJob, Records, runTables
<1>3. <<c, "started">> \in Runs
  BY RunFacts DEF Kinds
<1>4. \A q \in Runs : HasSaved(q)' <=> HasSaved(q)
  BY <1>1, <1>3, EventFacts
<1>5. /\ pc[c] \in {"requesting", "waiting"}
      /\ \E where \in {"waiting", "predicting", "falling"} : pc' = [pc EXCEPT ![c] = where]
      /\ fellBack' = fellBack \/ fellBack' = [fellBack EXCEPT ![c] = TRUE]
      /\ UNCHANGED <<known, rows, latest, lastSaved, overlap>>
  BY DEF RequestLive, LiveAnswers, LiveFails, Goes, projection
<1>6. /\ pc'[c] \in {"waiting", "predicting", "falling"}
      /\ \A d \in Calls \ {c} : pc'[d] = pc[d] /\ fellBack'[d] = fellBack[d]
  BY <1>5 DEF TypeOK
<1> QED BY <1>2, <1>4, <1>5, <1>6 DEF Rests, Over, Saving

LEMMA UpdateRests ==
    ASSUME RunsInv, NEW c \in Calls, FallBack(c) \/ LogFailure(c)
    PROVE  Rests(c)
<1> USE DEF RunsInv
<1>1. <<c, "started">> \in Runs /\ known[c] \in {NoRun, <<c, "started">>}
  BY RunFacts DEF Kinds, KnownOK
<1>2. CASE FallBack(c)
  <2>1. /\ pc[c] = "falling"
        /\ \E where \in {"predicting", "raised"} : pc' = [pc EXCEPT ![c] = where]
        /\ UNCHANGED <<known, fellBack, rows, latest, lastSaved, overlap>>
    BY <1>2 DEF FallBack, Goes, projection
  <2>2. \/ UNCHANGED <<status, completed, points, events>>
        \/ /\ status' = [status EXCEPT ![<<c, "started">>] = "FALLBACK"]
           /\ events' = [events EXCEPT ![<<c, "started">>] = @ \union {"FORECAST_FALLBACK"}]
           /\ UNCHANGED <<completed, points>>
    BY <1>1, <1>2 DEF FallBack, UpdatesRun, runTables
  <2>3. \A q \in Runs : HasSaved(q)' <=> HasSaved(q)
    BY <1>1, <2>2, EventFacts
  <2>4. /\ pc'[c] \in {"predicting", "raised"}
        /\ \A d \in Calls \ {c} : pc'[d] = pc[d]
    BY <2>1 DEF TypeOK
  <2>5. /\ points' = points
        /\ \/ UNCHANGED <<status, completed>>
           \/ completed' = completed /\ status' = [status EXCEPT ![<<c, "started">>] = "FALLBACK"]
    BY <2>2
  <2> QED BY <2>1, <2>3, <2>4, <2>5 DEF Rests, Over, Saving
<1>3. CASE LogFailure(c)
  <2>1. /\ pc[c] = "logging" /\ pc' = [pc EXCEPT ![c] = "answered"]
        /\ UNCHANGED <<known, fellBack, rows, latest, lastSaved, overlap>>
    BY <1>3 DEF LogFailure, Goes, projection
  <2>2. \/ UNCHANGED <<status, completed, points, events>>
        \/ /\ status' = [status EXCEPT ![<<c, "started">>] = "FAILED"]
           /\ completed' = completed \union {<<c, "started">>}
           /\ events' = [events EXCEPT ![<<c, "started">>] = @ \union {"FORECAST_SAVE_FAILED"}]
           /\ UNCHANGED points
    BY <1>1, <1>3 DEF LogFailure, UpdatesRun, runTables
  <2>3. \A q \in Runs : HasSaved(q)' <=> HasSaved(q)
    BY <1>1, <2>2, EventFacts
  <2>4. /\ pc'[c] = "answered"
        /\ \A d \in Calls \ {c} : pc'[d] = pc[d]
    BY <2>1 DEF TypeOK
  <2>5. /\ points' = points
        /\ \/ UNCHANGED <<status, completed>>
           \/ /\ status' = [status EXCEPT ![<<c, "started">>] = "FAILED"]
              /\ completed' = completed \union {<<c, "started">>}
    BY <2>2
  <2> QED BY <2>1, <2>3, <2>4, <2>5 DEF Rests, Over, Saving
<1> QED BY <1>2, <1>3

(* The steps that write to no table of runs. *)
LEMMA PlainRests ==
    ASSUME RunsInv, NEW c \in Calls, UNCHANGED <<runTables, latest, lastSaved, known, fellBack>>,
           pc[c] \notin Over, NEW where, pc' = [pc EXCEPT ![c] = where],
           \A d \in Calls \ {c} : rows'[d] = rows[d],
           pc[c] \in Saving => where \in Saving /\ rows' = rows,
           IF pc[c] = "saving" /\ where = "replacing" THEN overlap' = [overlap EXCEPT ![c] = {}]
                                                      ELSE overlap' = overlap,
           where = "replacing" => pc[c] \in {"saving", "replacing"}
    PROVE  Rests(c)
<1>1. pc'[c] = where /\ \A d \in Calls \ {c} : pc'[d] = pc[d]
  BY DEF RunsInv, TypeOK
<1>2. UNCHANGED <<status, completed, points, events>>
  BY DEF runTables
<1> QED BY <1>1, <1>2 DEF Rests, HasSaved

LEMMA MoveRests ==
    ASSUME RunsInv, NEW c \in Calls,
           \/ \E n \in 0 .. MaxRows : Predict(c, n)
           \/ PredictRaises(c) \/ OpenSave(c)
           \/ \E i \in Horizon : DeleteRow(c, i) \/ InsertRow(c, i)
    PROVE  Rests(c)
<1>1. CASE \E n \in 0 .. MaxRows : Predict(c, n)
  BY <1>1, PlainRests DEF Predict, Goes, projection, Over, Saving, RunsInv, TypeOK
<1>2. CASE PredictRaises(c)
  BY <1>2, PlainRests DEF PredictRaises, Goes, projection, Over, Saving
<1>3. CASE OpenSave(c)
  BY <1>3, PlainRests DEF OpenSave, Goes, Over, Saving
<1>4. CASE \E i \in Horizon : DeleteRow(c, i) \/ InsertRow(c, i)
  <2>1. pc[c] = "replacing" /\ UNCHANGED <<pc, known, fellBack, rows, runTables, latest, lastSaved, overlap>>
    BY <1>4 DEF DeleteRow, InsertRow, calls, projection
  <2>2. pc' = [pc EXCEPT ![c] = "replacing"]
    BY <2>1 DEF RunsInv, TypeOK
  <2> QED BY <2>1, <2>2, PlainRests DEF Over, Saving
<1> QED BY <1>1, <1>2, <1>3, <1>4

(* The ends of a save *)
LEMMA EndRests ==
    ASSUME RunsInv, NEW c \in Calls, CommitSave(c) \/ DeadlockVictim(c) \/ SaveFails(c) \/ Kill(c)
    PROVE  Stores(c) \/ Rests(c)
<1>1. CASE CommitSave(c)
  BY <1>1 DEF CommitSave, Stores, Ends, Goes
<1>2. CASE DeadlockVictim(c)
  BY <1>2, PlainRests DEF DeadlockVictim, Stuck, Goes, projection, Over, Saving
<1>3. CASE SaveFails(c)
  <2>1. CASE UNCHANGED <<runTables, projection, misled>>
    BY <1>3, <2>1, PlainRests DEF SaveFails, Goes, projection, Over, Saving
  <2>2. CASE pc[c] = "replacing" /\ Replaced(c) /\ Saved(c) /\ misled' = misled \union {c}
    BY <1>3, <2>2 DEF SaveFails, Stores, Ends, Goes
  <2> QED BY <1>3, <2>1, <2>2 DEF SaveFails
<1>4. CASE Kill(c)
  <2>1. CASE UNCHANGED <<runTables, projection>>
    BY <1>4, <2>1, PlainRests DEF Kill, Goes, projection, Over, Working, Saving
  <2>2. CASE pc[c] = "replacing" /\ Replaced(c) /\ Saved(c)
    BY <1>4, <2>2 DEF Kill, Stores, Ends, Goes
  <2> QED BY <1>4, <2>1, <2>2 DEF Kill
<1> QED BY <1>1, <1>2, <1>3, <1>4

LEMMA StepRests ==
    ASSUME RunsInv, NEW c \in Calls, Step(c) \/ Kill(c)
    PROVE  Stores(c) \/ Rests(c)
BY LiveRests, UpdateRests, MoveRests, EndRests DEF Step

-----------------------------------------------------------------------------
(* What a COMMIT does to the history of saves. *)
LEMMA StoreFacts ==
    ASSUME RunsInv, NEW c \in Calls, Stores(c)
    PROVE  \E k \in Kinds :
              /\ Target(c) = <<c, k>> /\ lastSaved' = <<c, k>>
              /\ pc[c] = "replacing" /\ pc'[c] \in Saving
              /\ \A d \in Calls \ {c} : pc'[d] = pc[d]
              /\ UNCHANGED <<request, known, fellBack, rows>>
              /\ completed' = completed \union {<<c, k>>}
              /\ points'[<<c, k>>] = rows[c] /\ status'[<<c, k>>] = Status(c) /\ HasSaved(<<c, k>>)'
              /\ \A r \in Runs \ {<<c, k>>} : /\ points'[r] = points[r] /\ status'[r] = status[r]
                                              /\ HasSaved(r)' <=> HasSaved(r)
              /\ overlap' = [d \in Calls |-> IF d # c /\ pc[d] = "replacing" THEN overlap[d] \union {<<c, k>>}
                                             ELSE overlap[d]]
<1> USE DEF RunsInv
<1>1. PICK k \in Kinds : Target(c) = <<c, k>>
  BY TargetFacts
<1>2. <<c, k>> \in Runs
  BY RunFacts
<1>3. /\ status' = [status EXCEPT ![<<c, k>>] = Status(c)]
      /\ completed' = completed \union {<<c, k>>}
      /\ points' = [points EXCEPT ![<<c, k>>] = rows[c]]
      /\ events' = [events EXCEPT ![<<c, k>>] = @ \union {"FORECAST_SAVED"}]
      /\ lastSaved' = <<c, k>>
      /\ overlap' = [d \in Calls |-> IF d # c /\ pc[d] = "replacing" THEN overlap[d] \union {<<c, k>>}
                                     ELSE overlap[d]]
      /\ UNCHANGED <<request, known, fellBack, rows>>
  BY <1>1 DEF Stores, Saved, InsertsPoints
<1>4. /\ pc[c] = "replacing" /\ pc'[c] \in Saving
      /\ \A d \in Calls \ {c} : pc'[d] = pc[d]
  BY DEF Stores, Ends, Saving, TypeOK
<1>5. /\ points'[<<c, k>>] = rows[c] /\ status'[<<c, k>>] = Status(c)
      /\ \A r \in Runs \ {<<c, k>>} : points'[r] = points[r] /\ status'[r] = status[r]
  BY <1>2, <1>3 DEF TypeOK
<1>6. /\ HasSaved(<<c, k>>)'
      /\ \A r \in Runs \ {<<c, k>>} : HasSaved(r)' <=> HasSaved(r)
  BY <1>2, <1>3 DEF TypeOK, HasSaved
<1> QED BY <1>1, <1>3, <1>4, <1>5, <1>6

(* The times of a step: only the one that opens a transaction has a new one. *)
Passes(c) ==
    /\ \A d \in Calls \ {c} : began'[d].save = began[d].save
    /\ clock' \in Nat /\ clock <= clock'
    /\ IF pc[c] = "saving" /\ pc'[c] = "replacing" THEN began'[c].save = clock + 1 /\ clock' = clock + 1
                                                  ELSE began'[c].save = began[c].save
    /\ began' \in [Calls -> [first : Nat, save : Nat]]

LEMMA BeginsPasses ==
    ASSUME ViewTypeOK, NEW c \in Calls, NEW which \in {"first", "save"}, Begins(c, which)
    PROVE  /\ clock' = clock + 1 /\ clock' \in Nat /\ clock <= clock'
           /\ began' \in [Calls -> [first : Nat, save : Nat]]
           /\ \A d \in Calls \ {c} : began'[d] = began[d]
           /\ began'[c].save = IF which = "save" THEN clock + 1 ELSE began[c].save
<1>1. began[c] \in [first : Nat, save : Nat] /\ clock + 1 \in Nat
  BY DEF ViewTypeOK
<1>2. [began[c] EXCEPT ![which] = clock + 1] \in [first : Nat, save : Nat]
  BY <1>1
<1>3. began' = [began EXCEPT ![c] = [began[c] EXCEPT ![which] = clock + 1]]
  BY DEF Begins
<1>4. clock' = clock + 1 /\ clock <= clock'
  BY DEF Begins, ViewTypeOK
<1>5. began' \in [Calls -> [first : Nat, save : Nat]] /\ \A d \in Calls \ {c} : began'[d] = began[d]
  BY <1>2, <1>3 DEF ViewTypeOK
<1>6. began'[c] = [began[c] EXCEPT ![which] = clock + 1]
  BY <1>3 DEF ViewTypeOK
<1>7. began'[c].save = IF which = "save" THEN clock + 1 ELSE began[c].save
  BY <1>1, <1>6
<1> QED BY <1>1, <1>4, <1>5, <1>7

(* Every step of a call that the readers see. *)
CallStep(c) ==
    \/ \E r \in Requested(c) :
          /\ StartRun(c, r)
          /\ IF r.horizon THEN Begins(c, "first") ELSE UNCHANGED times
    \/ (Step(c) \/ Kill(c)) /\ Timed(c)

LEMMA CallStepKinds ==
    ASSUME RunsInv, ViewTypeOK, NEW c \in Calls, CallStep(c)
    PROVE  Passes(c) /\ (Stores(c) \/ Rests(c)) /\ RunsInv'
<1>1. CASE \E r \in Requested(c) : StartRun(c, r) /\ IF r.horizon THEN Begins(c, "first") ELSE UNCHANGED times
  <2>1. PICK r \in Requested(c) : StartRun(c, r) /\ IF r.horizon THEN Begins(c, "first") ELSE UNCHANGED times
    BY <1>1
  <2>2. Rests(c) /\ pc[c] = "new" /\ pc'[c] # "replacing"
    BY <2>1, StartRests
  <2>3. Begins(c, "first") => Passes(c)
    BY <2>2, BeginsPasses DEF Passes
  <2>4. UNCHANGED times => Passes(c)
    BY <2>2 DEF Passes, times, ViewTypeOK
  <2>5. RunsInv'
    BY <2>1, StartKeeps
  <2> QED BY <2>1, <2>2, <2>3, <2>4, <2>5
<1>2. CASE (Step(c) \/ Kill(c)) /\ Timed(c)
  <2>1. Stores(c) \/ Rests(c)
    BY <1>2, StepRests
  <2>2. ASSUME pc[c] = "saving", pc'[c] = "replacing" PROVE Passes(c)
    <3>1. Begins(c, "save")
      BY <1>2, <2>2 DEF Timed
    <3> QED BY <2>2, <3>1, BeginsPasses DEF Passes
  <2>3. ASSUME ~(pc[c] = "saving" /\ pc'[c] = "replacing") PROVE Passes(c)
    <3>1. UNCHANGED times
      BY <1>2, <2>3 DEF Timed
    <3> QED BY <2>3, <3>1 DEF Passes, times, ViewTypeOK
  <2>4. RunsInv'
    <3>1. [Next]_vars
      BY <1>2 DEF Next
    <3> QED BY <3>1, InvNext
  <2> QED BY <1>2, <2>1, <2>2, <2>3, <2>4
<1> QED BY <1>1, <1>2 DEF CallStep

(* A call with a run row has rows to save. *)
LEMMA StartedKeeps ==
    ASSUME RunsInv, StartedOK, NEW c \in Calls, CallStep(c)
    PROVE  StartedOK'
<1> USE DEF RunsInv
<1> SUFFICES ASSUME NEW d \in Calls
             PROVE  /\ pc'[d] = "new" => known'[d] = NoRun
                    /\ known'[d] # NoRun => request'[d].horizon
                    /\ pc'[d] \in {"saving", "replacing"} /\ request'[d].horizon => rows'[d] > 0
  BY DEF StartedOK
<1>1. ASSUME NEW r \in Requested(c), StartRun(c, r)
      PROVE  /\ pc'[d] = "new" => known'[d] = NoRun
             /\ known'[d] # NoRun => request'[d].horizon
             /\ pc'[d] \in {"saving", "replacing"} /\ request'[d].horizon => rows'[d] > 0
  <2>1. /\ pc[c] = "new" /\ pc' = [pc EXCEPT ![c] = AfterStart(r)] /\ request' = [request EXCEPT ![c] = r]
        /\ UNCHANGED rows /\ AfterStart(r) \in {"requesting", "raised", "predicting"}
    BY <1>1 DEF StartRun, Goes, AfterStart
  <2>2. known' = known \/ (r.horizon /\ known' = [known EXCEPT ![c] = <<c, "started">>])
    BY <1>1 DEF StartRun
  <2>3. CASE d = c
    <3>1. pc'[c] \in {"requesting", "raised", "predicting"} /\ request'[c] = r /\ known[c] = NoRun
      BY <2>1 DEF TypeOK, StartedOK
    <3> QED BY <2>2, <2>3, <3>1
  <2>4. CASE d # c
    <3>1. pc'[d] = pc[d] /\ request'[d] = request[d] /\ rows'[d] = rows[d] /\ known'[d] = known[d]
      BY <2>1, <2>2, <2>4 DEF TypeOK
    <3> QED BY <3>1 DEF StartedOK
  <2> QED BY <2>3, <2>4
<1>2. ASSUME Step(c) \/ Kill(c)
      PROVE  /\ pc'[d] = "new" => known'[d] = NoRun
             /\ known'[d] # NoRun => request'[d].horizon
             /\ pc'[d] \in {"saving", "replacing"} /\ request'[d].horizon => rows'[d] > 0
  <2>1. UNCHANGED <<request, known>>
    BY <1>2 DEF Step, Kill, RequestLive, LiveAnswers, LiveFails, FallBack, Predict, PredictRaises, OpenSave, DeleteRow,
       InsertRow, CommitSave, DeadlockVictim, SaveFails, LogFailure, calls
  <2>2. \/ \E where \in {"waiting", "falling", "predicting", "raised", "answered", "logging", "killed"} :
                pc' = [pc EXCEPT ![c] = where] /\ rows' = rows
        \/ pc[c] = "saving" /\ pc' = [pc EXCEPT ![c] = "replacing"] /\ rows' = rows
        \/ UNCHANGED <<pc, rows>>
        \/ \E n \in 0 .. MaxRows : Predict(c, n)
    BY <1>2 DEF Step, Kill, RequestLive, LiveAnswers, LiveFails, FallBack, PredictRaises, OpenSave, DeleteRow,
       InsertRow, CommitSave, DeadlockVictim, SaveFails, LogFailure, calls, Goes
  <2>3. CASE \E n \in 0 .. MaxRows : Predict(c, n)
    <3>1. PICK n \in 0 .. MaxRows : Predict(c, n)
      BY <2>3
    <3>2. /\ request[c].horizon => n > 0
          /\ rows' = [rows EXCEPT ![c] = n] /\ pc' = [pc EXCEPT ![c] = "saving"]
      BY <3>1 DEF Predict, Goes
    <3>3. /\ pc'[c] = "saving" /\ rows'[c] = n
          /\ d # c => pc'[d] = pc[d] /\ rows'[d] = rows[d]
      BY <3>2 DEF TypeOK
    <3>4. CASE d = c
      BY <2>1, <3>2, <3>3, <3>4 DEF StartedOK
    <3>5. CASE d # c
      BY <2>1, <3>3, <3>5 DEF StartedOK
    <3> QED BY <3>4, <3>5
  <2>4. CASE ~\E n \in 0 .. MaxRows : Predict(c, n)
    <3>1. rows'[d] = rows[d]
      BY <2>2, <2>4
    <3>2. pc'[d] \notin {"new", "saving", "replacing"} \/ pc'[d] = pc[d] \/ (pc[d] = "saving" /\ pc'[d] = "replacing")
      BY <2>2, <2>4 DEF TypeOK
    <3> QED BY <2>1, <3>1, <3>2 DEF StartedOK
  <2> QED BY <2>2, <2>3, <2>4
<1> QED BY <1>1, <1>2 DEF CallStep

(* Whether a forecast is saved, and what is then kept of it, is decided by *)
(* the COMMIT of its call alone.                                           *)
LEMMA SavesKeep ==
    ASSUME RunsInv, SavesOK, StartedOK, NEW c \in Calls, Stores(c) \/ Rests(c)
    PROVE  SavesOK'
<1> USE DEF RunsInv
<1> SUFFICES ASSUME NEW d \in Calls, NEW k \in Kinds
             PROVE  IF HasSaved(<<d, k>>)' THEN SavedRun(d, k)' ELSE OtherRun(d, k)'
  BY DEF SavesOK
<1>1. <<d, k>> \in Runs /\ \A e \in Calls, l \in Kinds : <<d, k>> = <<e, l>> => d = e /\ k = l
  BY RunFacts
<1>2. IF HasSaved(<<d, k>>) THEN SavedRun(d, k) ELSE OtherRun(d, k)
  BY DEF SavesOK
<1>3. CASE Stores(c)
  <2>1. PICK l \in Kinds :
              /\ Target(c) = <<c, l>> /\ lastSaved' = <<c, l>>
              /\ pc[c] = "replacing" /\ pc'[c] \in Saving
              /\ \A e \in Calls \ {c} : pc'[e] = pc[e]
              /\ UNCHANGED <<request, known, fellBack, rows>>
              /\ completed' = completed \union {<<c, l>>}
              /\ points'[<<c, l>>] = rows[c] /\ status'[<<c, l>>] = Status(c) /\ HasSaved(<<c, l>>)'
              /\ \A r \in Runs \ {<<c, l>>} : /\ points'[r] = points[r] /\ status'[r] = status[r]
                                              /\ HasSaved(r)' <=> HasSaved(r)
    BY <1>3, StoreFacts
  <2>2. CASE <<d, k>> = <<c, l>>
    <3>1. d = c /\ k = l
      BY <2>2, <1>1
    <3>2. Target(c)' = Target(c) /\ Status(c) \in {"SUCCESS", "FALLBACK"}
      BY <2>1 DEF Target, Status
    <3>3. l = "started" => rows[c] > 0
      <4>1. ASSUME l = "started" PROVE known[c] # NoRun
        BY <4>1, <2>1, <1>1, <3>1 DEF Target, Kinds
      <4> QED BY <4>1, <2>1 DEF StartedOK
    <3>4. SavedRun(c, l)'
      BY <2>1, <3>2, <3>3 DEF SavedRun, Ended
    <3> QED BY <3>1, <3>4, <2>1
  <2>3. CASE <<d, k>> # <<c, l>>
    <3>1. /\ points'[<<d, k>>] = points[<<d, k>>] /\ status'[<<d, k>>] = status[<<d, k>>]
          /\ HasSaved(<<d, k>>)' <=> HasSaved(<<d, k>>)
          /\ <<d, k>> \in completed' <=> <<d, k>> \in completed
      BY <1>1, <2>1, <2>3
    <3>2. Target(d)' = Target(d) /\ rows'[d] = rows[d] /\ (pc[d] \in Saving => pc'[d] \in Saving)
      BY <2>1 DEF Target
    <3> QED BY <1>2, <3>1, <3>2 DEF SavedRun, OtherRun, Ended
  <2> QED BY <2>2, <2>3
<1>4. CASE Rests(c)
  <2>1. /\ points' = points /\ (HasSaved(<<d, k>>)' <=> HasSaved(<<d, k>>))
        /\ pc[d] \in Saving => pc'[d] \in Saving /\ Target(d)' = Target(d) /\ rows'[d] = rows[d]
    BY <1>1, <1>4 DEF Rests, Target
  <2>2. CASE pc[c] \in Saving /\ <<d, k>> = <<c, "started">> /\ status'[<<d, k>>] = "FAILED"
    <3>1. d = c /\ k = "started"
      BY <1>1, <2>2 DEF Kinds
    <3>2. <<d, k>> \in completed => <<d, k>> \in completed'
      BY <1>4 DEF Rests
    <3> QED BY <1>2, <2>1, <2>2, <3>1, <3>2 DEF SavedRun, OtherRun
  <2>3. CASE status'[<<d, k>>] = status[<<d, k>>] /\ (<<d, k>> \in completed' <=> <<d, k>> \in completed)
    BY <1>2, <2>1, <2>3 DEF SavedRun, OtherRun, Ended
  <2>4. CASE pc[c] \notin Saving /\ d = c /\ completed' = completed
    BY <1>2, <2>1, <2>4 DEF SavedRun, OtherRun
  <2>5. \/ status'[<<d, k>>] = status[<<d, k>>] /\ (<<d, k>> \in completed' <=> <<d, k>> \in completed)
        \/ pc[c] \notin Saving /\ d = c /\ completed' = completed
        \/ pc[c] \in Saving /\ <<d, k>> = <<c, "started">> /\ status'[<<d, k>>] = "FAILED"
    <3>1. CASE <<d, k>> = <<c, "started">>
      <4>1. d = c
        BY <1>1, <3>1 DEF Kinds
      <4>2. CASE UNCHANGED <<status, completed>>
        BY <4>2
      <4>3. CASE pc[c] \notin Saving /\ completed' = completed
        BY <4>1, <4>3
      <4>4. CASE pc[c] \in Saving /\ status' = [status EXCEPT ![<<c, "started">>] = "FAILED"]
        BY <1>1, <3>1, <4>4 DEF TypeOK
      <4> QED BY <1>4, <4>2, <4>3, <4>4 DEF Rests
    <3>2. CASE <<d, k>> # <<c, "started">>
      BY <1>1, <1>4, <3>2 DEF Rests, TypeOK
    <3> QED BY <3>1, <3>2
  <2> QED BY <2>2, <2>3, <2>4, <2>5
<1> QED BY <1>3, <1>4

LEMMA SavedLastKeeps ==
    ASSUME RunsInv, SavedLastOK, NEW c \in Calls, Stores(c) \/ Rests(c)
    PROVE  SavedLastOK'
<1>1. CASE Stores(c)
  <2>1. \E k \in Kinds : lastSaved' = <<c, k>> /\ HasSaved(<<c, k>>)'
    BY <1>1, StoreFacts
  <2>2. lastSaved' # NoRun /\ HasSaved(lastSaved)'
    BY <2>1, RunFacts
  <2> QED BY <2>2 DEF SavedLastOK
<1>2. CASE Rests(c)
  BY <1>2 DEF Rests, SavedLastOK, RunsInv, TypeOK
<1> QED BY <1>1, <1>2

LEMMA OverlapKeeps ==
    ASSUME CallsInv, ViewTypeOK, NEW c \in Calls, Stores(c) \/ Rests(c), Passes(c)
    PROVE  OverlapOK' /\ ClockOK'
<1> USE DEF CallsInv
<1>1. ClockOK'
  BY DEF ClockOK, Passes, ViewTypeOK
<1>2. ASSUME NEW d \in Calls, NEW r \in Runs
      PROVE  /\ pc'[d] = "replacing" /\ HasSaved(r)' /\ CompletedAt(r)' >= began'[d].save => r \in overlap'[d]
             /\ HasSaved(r)' /\ lastSaved' \in {d} \X Kinds =>
                   r = lastSaved' \/ CompletedAt(r)' < CompletedAt(lastSaved)' \/ r \in overlap'[d]
  <2>1. PICK e \in Calls, l \in Kinds : r = <<e, l>>
    BY RunFacts
  <2>2. /\ CompletedAt(r) = began[e].save /\ CompletedAt(r)' = began'[e].save
        /\ began[e].save \in Nat /\ began[d].save \in Nat /\ clock \in Nat
        /\ began[e].save <= clock /\ began[d].save <= clock
    BY <2>1 DEF CompletedAt, ViewTypeOK, ClockOK
  <2>3. HasSaved(r) => pc[e] \in Saving
    BY <2>1 DEF SavesOK, SavedRun
  <2>4. /\ pc[d] = "replacing" /\ HasSaved(r) /\ CompletedAt(r) >= began[d].save => r \in overlap[d]
        /\ HasSaved(r) /\ lastSaved \in {d} \X Kinds =>
              r = lastSaved \/ CompletedAt(r) < CompletedAt(lastSaved) \/ r \in overlap[d]
    BY DEF OverlapOK
  <2>5. CASE Rests(c)
    <3>1. (HasSaved(r)' <=> HasSaved(r)) /\ lastSaved' = lastSaved
      BY <2>5 DEF Rests
    <3>2. HasSaved(r) => began'[e].save = began[e].save
      BY <2>3 DEF Passes, Saving
    <3>3. CASE d = c /\ pc[c] = "saving" /\ pc'[c] = "replacing"
      <4>1. began'[d].save = clock + 1 /\ (HasSaved(r) => began'[e].save <= clock)
        BY <3>2, <3>3, <2>2 DEF Passes
      <4>2. lastSaved \notin {d} \X Kinds
        BY <3>3 DEF RunsInv, LastOK, Saving
      <4> QED BY <2>2, <3>1, <3>2, <4>1, <4>2
    <3>4. CASE ~(d = c /\ pc[c] = "saving" /\ pc'[c] = "replacing")
      <4>1. overlap'[d] = overlap[d] /\ (pc'[d] = "replacing" => pc[d] = "replacing") /\ began'[d].save = began[d].save
        BY <2>5, <3>4 DEF Rests, Passes, RunsInv, TypeOK
      <4>2. lastSaved \in {d} \X Kinds => CompletedAt(lastSaved) = began[d].save /\ CompletedAt(lastSaved)' = began'[d].save
        BY <3>1 DEF CompletedAt
      <4> QED BY <2>2, <2>4, <3>1, <3>2, <4>1, <4>2
    <3> QED BY <3>3, <3>4
  <2>6. CASE Stores(c)
    <3>1. PICK k \in Kinds :
              /\ lastSaved' = <<c, k>>
              /\ pc[c] = "replacing" /\ pc'[c] \in Saving
              /\ \A f \in Calls \ {c} : pc'[f] = pc[f]
              /\ \A s \in Runs \ {<<c, k>>} : HasSaved(s)' <=> HasSaved(s)
              /\ overlap' = [f \in Calls |-> IF f # c /\ pc[f] = "replacing" THEN overlap[f] \union {<<c, k>>}
                                             ELSE overlap[f]]
      BY <2>6, StoreFacts
    <3>2. \A f \in Calls : began'[f].save = began[f].save
      BY <3>1 DEF Passes
    <3>3. ASSUME pc'[d] = "replacing", HasSaved(r)', CompletedAt(r)' >= began'[d].save
          PROVE  r \in overlap'[d]
      <4>1. d # c /\ pc[d] = "replacing"
        BY <3>1, <3>3 DEF Saving
      <4>2. overlap'[d] = overlap[d] \union {<<c, k>>}
        BY <3>1, <4>1
      <4> QED BY <2>2, <2>4, <3>1, <3>2, <3>3, <4>1, <4>2
    <3>4. ASSUME HasSaved(r)', lastSaved' \in {d} \X Kinds, r # lastSaved'
          PROVE  CompletedAt(r)' < CompletedAt(lastSaved)' \/ r \in overlap'[d]
      <4>1. d = c /\ HasSaved(r)
        BY <3>1, <3>4
      <4>2. overlap'[c] = overlap[c] /\ CompletedAt(lastSaved)' = began[c].save
        BY <3>1, <3>2 DEF CompletedAt
      <4> QED BY <2>2, <2>4, <3>1, <3>2, <4>1, <4>2
    <3> QED BY <3>3, <3>4
  <2> QED BY <2>5, <2>6
<1> QED BY <1>1, <1>2 DEF OverlapOK

LEMMA CallsInvKeeps ==
    ASSUME CallsInv, ViewTypeOK, NEW c \in Calls, CallStep(c)
    PROVE  CallsInv' /\ Passes(c) /\ (Stores(c) \/ Rests(c))
BY CallStepKinds, StartedKeeps, SavesKeep, SavedLastKeeps, OverlapKeeps DEF CallsInv

-----------------------------------------------------------------------------
(* A saved forecast stays as it is. *)
LEMMA SavedStays ==
    ASSUME CallsInv, ViewTypeOK, NEW c \in Calls, Stores(c) \/ Rests(c), Passes(c), NEW r \in Runs, HasSaved(r)
    PROVE  /\ r[1] \in Calls /\ HasSaved(r)' /\ points'[r] = points[r] /\ points[r] = rows[r[1]]
           /\ rows'[r[1]] = rows[r[1]] /\ overlap'[r[1]] = overlap[r[1]]
           /\ CompletedAt(r)' = CompletedAt(r)
<1> USE DEF CallsInv
<1>1. PICK d \in Calls, k \in Kinds : r = <<d, k>>
  BY RunFacts
<1>2. r[1] = d /\ pc[d] \in Saving /\ points[r] = rows[d]
  BY <1>1 DEF SavesOK, SavedRun
<1>3. began'[d].save = began[d].save
  BY <1>2 DEF Passes, Saving
<1>4. CASE Stores(c)
  <2>1. PICK l \in Kinds :
            /\ pc[c] = "replacing" /\ UNCHANGED rows /\ HasSaved(<<c, l>>)'
            /\ \A q \in Runs \ {<<c, l>>} : points'[q] = points[q] /\ (HasSaved(q)' <=> HasSaved(q))
            /\ overlap' = [f \in Calls |-> IF f # c /\ pc[f] = "replacing" THEN overlap[f] \union {<<c, l>>}
                                           ELSE overlap[f]]
    BY <1>4, StoreFacts
  <2>2. d # c /\ pc[d] # "replacing"
    BY <1>2, <2>1 DEF Saving
  <2>3. r # <<c, l>> /\ overlap'[d] = overlap[d]
    BY <1>1, <2>1, <2>2, RunFacts
  <2> QED BY <1>1, <1>2, <1>3, <2>1, <2>3 DEF CompletedAt
<1>5. CASE Rests(c)
  <2>1. points' = points /\ HasSaved(r)' /\ rows'[d] = rows[d]
    BY <1>2, <1>5 DEF Rests
  <2>2. overlap'[d] = overlap[d]
    BY <1>2, <1>5 DEF Rests, Saving, RunsInv, TypeOK
  <2> QED BY <1>1, <1>2, <1>3, <2>1, <2>2 DEF CompletedAt
<1> QED BY <1>4, <1>5

(* The only new one is the last. *)
LEMMA NewlySaved ==
    ASSUME RunsInv, NEW c \in Calls, Stores(c) \/ Rests(c), NEW r \in Runs, HasSaved(r)', ~HasSaved(r)
    PROVE  lastSaved' = r
<1>1. CASE Stores(c)
  BY <1>1, StoreFacts
<1>2. CASE Rests(c)
  BY <1>2 DEF Rests
<1> QED BY <1>1, <1>2

LEMMA ShowsStays ==
    ASSUME CallsInv, ViewTypeOK, Shows, NEW c \in Calls, Stores(c) \/ Rests(c), Passes(c),
           asOf \subseteq asOf', UNCHANGED view
    PROVE  Shows'
<1>1. PICK r \in asOf : (r = NoRun /\ ShowsNothing) \/ (r # NoRun /\ HasSaved(r) /\ ShowsForecast(r))
  BY DEF Shows
<1>2. CASE r = NoRun /\ ShowsNothing
  BY <1>2 DEF Shows, ShowsNothing
<1>3. CASE r # NoRun /\ HasSaved(r) /\ ShowsForecast(r)
  <2>1. r \in Runs
    BY <1>3 DEF ViewTypeOK
  <2>2. HasSaved(r)' /\ rows'[r[1]] = rows[r[1]] /\ overlap'[r[1]] = overlap[r[1]]
    BY <1>3, <2>1, SavedStays
  <2>3. ShowsForecast(r)'
    BY <1>3, <2>2 DEF ShowsForecast, Shown
  <2> QED BY <1>3, <2>2, <2>3 DEF Shows
<1> QED BY <1>1, <1>2, <1>3

(* The readers find their way whatever the calls do meanwhile. *)
LEMMA ViewStays ==
    ASSUME CallsInv, ViewTypeOK, ViewOK, NEW c \in Calls, Stores(c) \/ Rests(c), Passes(c),
           asOf' = IF Listing THEN asOf \union {lastSaved'} ELSE asOf, UNCHANGED view
    PROVE  ViewOK'
<1>1. asOf \subseteq asOf'
  OBVIOUS
<1>2. view'.at \in {"naming", "answered"} => Shows'
  BY <1>1, ShowsStays DEF ViewOK
<1>3. ASSUME view.at = "choosing" PROVE ShowsNothing' /\ \E r \in asOf' : SavedBefore(r)'
  <2>1. PICK r \in asOf : SavedBefore(r)
    BY <1>3 DEF ViewOK
  <2>2. lastSaved' \in asOf'
    BY <1>3 DEF Listing
  <2>3. CASE r = NoRun /\ \A s \in Runs : HasSaved(s) => s \in asOf
    <3>1. ASSUME NEW s \in Runs, HasSaved(s)' PROVE s \in asOf'
      BY <1>1, <2>2, <2>3, <3>1, NewlySaved DEF CallsInv
    <3>2. SavedBefore(r)'
      BY <2>3, <3>1 DEF SavedBefore
    <3> QED BY <1>1, <3>2, <1>3 DEF ViewOK, ShowsNothing
  <2>4. CASE /\ r # NoRun /\ HasSaved(r) /\ rows[r[1]] = 0
             /\ \A s \in Runs : HasSaved(s) =>
                   s \in asOf \/ CompletedAt(s) < CompletedAt(r) \/ s \in overlap[r[1]]
    <3>1. r \in Runs
      BY <2>4 DEF ViewTypeOK
    <3>2. HasSaved(r)' /\ rows'[r[1]] = 0 /\ overlap'[r[1]] = overlap[r[1]] /\ CompletedAt(r)' = CompletedAt(r)
      BY <2>4, <3>1, SavedStays
    <3>3. ASSUME NEW s \in Runs, HasSaved(s)'
          PROVE  s \in asOf' \/ CompletedAt(s)' < CompletedAt(r)' \/ s \in overlap'[r[1]]
      <4>1. CASE HasSaved(s)
        <5>1. CompletedAt(s)' = CompletedAt(s)
          BY <4>1, SavedStays
        <5> QED BY <1>1, <2>4, <3>2, <4>1, <5>1
      <4>2. CASE ~HasSaved(s)
        BY <2>2, <3>3, <4>2, NewlySaved DEF CallsInv
      <4> QED BY <4>1, <4>2
    <3>4. SavedBefore(r)'
      BY <2>4, <3>2, <3>3 DEF SavedBefore
    <3> QED BY <1>1, <3>4, <1>3 DEF ViewOK, ShowsNothing
  <2> QED BY <2>1, <2>3, <2>4 DEF SavedBefore
<1>4. ASSUME view.at = "fetching" PROVE ChosenOK'
  <2>1. ChosenOK /\ lastSaved' \in asOf'
    BY <1>4 DEF ViewOK, Listing
  <2>2. view.run \in Runs
    BY <2>1 DEF ChosenOK, ViewTypeOK
  <2>3. CASE HasSaved(view.run)
    <3>1. PICK r \in asOf \ {NoRun} : HasSaved(r) /\ view.run \in {r} \union overlap[r[1]]
      BY <2>1, <2>3 DEF ChosenOK
    <3>2. r \in Runs
      BY DEF ViewTypeOK
    <3>3. HasSaved(view.run)' /\ HasSaved(r)' /\ overlap'[r[1]] = overlap[r[1]]
      BY <2>2, <2>3, <3>1, <3>2, SavedStays
    <3> QED BY <1>1, <2>1, <3>1, <3>3 DEF ChosenOK
  <2>4. CASE ~HasSaved(view.run) /\ HasSaved(view.run)'
    <3>1. lastSaved' = view.run
      BY <2>2, <2>4, NewlySaved DEF CallsInv
    <3> QED BY <2>1, <2>4, <3>1 DEF ChosenOK
  <2>5. CASE ~HasSaved(view.run) /\ ~HasSaved(view.run)'
    BY <1>1, <2>1, <2>5 DEF ChosenOK
  <2> QED BY <2>3, <2>4, <2>5
<1>5. ASSUME view.status = "SUCCESS"
      PROVE  view.run # NoRun /\ ~fellBack'[view.run[1]] /\ pc'[view.run[1]] \in Saving
  <2>1. view.run # NoRun /\ ~fellBack[view.run[1]] /\ pc[view.run[1]] \in Saving
    BY <1>5 DEF ViewOK
  <2>2. PICK d \in Calls : view.run[1] = d
    BY <2>1, RunFacts DEF ViewTypeOK
  <2>3. CASE Stores(c)
    BY <2>1, <2>2, <2>3, StoreFacts DEF CallsInv, Saving
  <2>4. CASE Rests(c)
    BY <2>1, <2>2, <2>4 DEF Rests
  <2> QED BY <2>3, <2>4
<1> QED BY <1>2, <1>3, <1>4, <1>5 DEF ViewOK

-----------------------------------------------------------------------------
(* GET latest *)

LEMMA CallsStutter == ASSUME CallsInv, UNCHANGED <<vars, times>> PROVE CallsInv'
<1>1. /\ UNCHANGED <<pc, request, known, fellBack, rows, answer, status, completed, points, events>>
      /\ UNCHANGED <<seen, held, wrote, latest, lastSaved, overlap, misled, failures, clock, began>>
  BY DEF vars, calls, runTables, transaction, projection, times
<1>2. RunsInv'
  BY InvStutter DEF CallsInv
<1>3. SavesOK' /\ StartedOK'
  BY <1>1 DEF CallsInv, SavesOK, HasSaved, SavedRun, OtherRun, Target, Ended, StartedOK
<1>4. OverlapOK' /\ ClockOK' /\ SavedLastOK'
  BY <1>1 DEF CallsInv, OverlapOK, HasSaved, CompletedAt, ClockOK, SavedLastOK
<1> QED BY <1>2, <1>3, <1>4 DEF CallsInv

(* What the projection holds is the forecast saved last. *)
LEMMA ListShows ==
    ASSUME CallsInv, ViewTypeOK, ViewOK, ListLatest
    PROVE  ViewOK'
<1> USE DEF CallsInv, RunsInv
<1>1. /\ UNCHANGED <<pc, fellBack, rows, completed, points, events, overlap, lastSaved, began, latest>>
      /\ asOf' = {lastSaved}
  BY DEF ListLatest, vars, calls, runTables, projection, times
<1>2. \/ Listed = {} /\ Lists("choosing", NoRun)
      \/ \E i \in Listed : Lists("naming", Projection[i])
  BY DEF ListLatest
<1>3. CASE Listed = {} /\ Lists("choosing", NoRun)
  <2>1. view'.at = "choosing" /\ view'.rows = Projection /\ view'.status = "none"
    BY <1>3 DEF Lists
  <2>2. \A i \in Horizon : latest[i].run = NoRun /\ view'.rows[i] = NoRun
    BY <1>3, <2>1 DEF Listed, Projection
  <2>3. CASE lastSaved = NoRun
    <3>1. \A s \in Runs : ~HasSaved(s)
      BY <2>3 DEF SavedLastOK
    <3>2. SavedBefore(lastSaved)'
      BY <1>1, <2>3, <3>1 DEF SavedBefore, HasSaved
    <3> QED BY <1>1, <2>1, <2>2, <3>2 DEF ViewOK, ShowsNothing
  <2>4. CASE lastSaved # NoRun
    <3>1. PICK d \in Calls, k \in Kinds : lastSaved = <<d, k>> /\ lastSaved \in Runs
      BY <2>4, RunFacts DEF TypeOK
    <3>2. HasSaved(lastSaved)
      BY <2>4 DEF SavedLastOK
    <3>3. rows[d] = 0
      <4>1. 0 \in Horizon /\ rows[d] \in Nat
        BY LatestAssumption, BoundsAssumption DEF Horizon, TypeOK
      <4>2. 0 \notin Shown(d)
        BY <2>2, <2>4, <3>1, <4>1 DEF LatestIsLastSaved
      <4> QED BY <4>1, <4>2 DEF Shown
    <3>4. ASSUME NEW s \in Runs, HasSaved(s)
          PROVE  s \in {lastSaved} \/ CompletedAt(s) < CompletedAt(lastSaved) \/ s \in overlap[d]
      BY <3>1, <3>4 DEF OverlapOK
    <3>5. SavedBefore(lastSaved)'
      BY <1>1, <2>4, <3>1, <3>2, <3>3, <3>4 DEF SavedBefore, HasSaved, CompletedAt
    <3> QED BY <1>1, <2>1, <2>2, <3>5 DEF ViewOK, ShowsNothing
  <2> QED BY <2>3, <2>4
<1>4. CASE \E i \in Listed : Lists("naming", Projection[i])
  <2>1. PICK i \in Listed : Lists("naming", Projection[i])
    BY <1>4
  <2>2. /\ view'.at = "naming" /\ view'.rows = Projection /\ view'.status = "none"
        /\ view'.run = latest[i].run /\ i \in Horizon /\ latest[i].run # NoRun
    BY <2>1 DEF Lists, Listed, Projection
  <2>3. lastSaved # NoRun
    BY <2>2 DEF SavedLastOK
  <2>4. PICK d \in Calls, k \in Kinds : lastSaved = <<d, k>>
    BY <2>3, RunFacts DEF TypeOK
  <2>5. HasSaved(lastSaved)'
    BY <1>1, <2>3 DEF SavedLastOK, HasSaved
  <2>6. \A j \in Horizon :
            \/ latest[j].run = lastSaved
            \/ j \notin Shown(d) /\ latest[j].run \in overlap[d] \union {NoRun}
    BY <2>4 DEF LatestIsLastSaved
  <2>7. \A j \in Horizon : view'.rows[j] = latest[j].run
    BY <2>2 DEF Projection
  <2>8. lastSaved[1] = d /\ Shown(d) \subseteq Horizon
    BY <2>4 DEF Shown
  <2>9. ShowsForecast(lastSaved)'
    <3>1. Shown(d)' = Shown(d)
      BY <1>1 DEF Shown
    <3> QED BY <1>1, <2>2, <2>6, <2>7, <2>8, <3>1 DEF ShowsForecast
  <2>10. Shows'
    BY <1>1, <2>3, <2>5, <2>9 DEF Shows
  <2> QED BY <2>2, <2>10 DEF ViewOK
<1> QED BY <1>2, <1>3, <1>4

(* Without a projection the run completed last is the one to show. *)
LEMMA ChooseShows ==
    ASSUME CallsInv, ViewTypeOK, ViewOK, ChooseRun
    PROVE  ViewOK'
<1> USE DEF CallsInv, RunsInv
<1>1. /\ UNCHANGED <<pc, fellBack, rows, completed, points, events, overlap, lastSaved, began, latest>>
      /\ asOf' = asOf /\ view.at = "choosing" /\ ShowsNothing
  BY DEF ChooseRun, vars, calls, runTables, projection, times, ViewOK
<1>2. PICK x \in asOf : SavedBefore(x)
  BY <1>1 DEF ViewOK
<1>3. x # NoRun => x \in Runs /\ HasSaved(x) /\ Ended(x) /\ x \in completed
  <2>1. ASSUME x # NoRun PROVE x \in Runs /\ HasSaved(x) /\ Ended(x) /\ x \in completed
    <3>1. PICK d \in Calls, k \in Kinds : x = <<d, k>>
      BY <2>1, RunFacts DEF ViewTypeOK
    <3>2. HasSaved(x) /\ rows[d] = 0
      BY <1>2, <2>1, <3>1 DEF SavedBefore
    <3>3. SavedRun(d, k)
      BY <3>1, <3>2 DEF SavesOK
    <3>4. k = "inserted"
      BY <3>2, <3>3 DEF SavedRun, Kinds
    <3> QED BY <2>1, <3>1, <3>2, <3>3, <3>4 DEF SavedRun, ViewTypeOK
  <2> QED BY <2>1
<1>4. CASE (\A r \in Runs : ~Ended(r)) /\ view' = [view EXCEPT !.at = "answered"]
  <2>1. x = NoRun
    BY <1>3, <1>4
  <2>2. view'.at = "answered" /\ view'.rows = view.rows /\ view'.status = view.status /\ view'.run = view.run
    BY <1>4 DEF ViewTypeOK
  <2>3. ShowsNothing'
    BY <1>1, <2>2 DEF ShowsNothing
  <2> QED BY <1>1, <2>1, <2>2, <2>3 DEF ViewOK, Shows
<1>5. CASE \E r \in Runs :
             /\ Ended(r)
             /\ \A s \in Runs : Ended(s) => NoLater(r, s)
             /\ view' = [view EXCEPT !.at = "fetching", !.run = r, !.status = status[r]]
  <2>1. PICK r \in Runs :
             /\ Ended(r)
             /\ \A s \in Runs : Ended(s) => NoLater(r, s)
             /\ view' = [view EXCEPT !.at = "fetching", !.run = r, !.status = status[r]]
    BY <1>5
  <2>2. view'.at = "fetching" /\ view'.run = r /\ view'.status = status[r]
    BY <2>1 DEF ViewTypeOK
  <2>3. PICK d \in Calls, k \in Kinds : r = <<d, k>>
    BY RunFacts
  <2>4. r # NoRun /\ HasSaved(r)' = HasSaved(r)
    BY <1>1, RunFacts DEF HasSaved
  <2>5. status[r] = "SUCCESS" => ~fellBack[d] /\ pc[d] \in Saving
    BY <2>3 DEF SuccessOK
  <2>6. ASSUME HasSaved(r) PROVE ChosenOK'
    <3>1. CASE r \in asOf
      BY <1>1, <2>2, <2>4, <2>6, <3>1 DEF ChosenOK, HasSaved
    <3>2. CASE r \notin asOf
      <4>1. x # NoRun /\ (CompletedAt(r) < CompletedAt(x) \/ r \in overlap[x[1]])
        BY <1>2, <2>6, <3>2 DEF SavedBefore
      <4>2. CompletedAt(r) >= CompletedAt(x)
        <5>1. NoLater(r, x)
          BY <1>3, <2>1, <4>1
        <5> QED BY <1>3, <4>1, <5>1 DEF NoLater
      <4>3. CompletedAt(r) \in Nat /\ CompletedAt(x) \in Nat
        BY <1>3, <4>1 DEF CompletedAt, ViewTypeOK, Runs
      <4>4. r \in overlap[x[1]]
        BY <4>1, <4>2, <4>3
      <4> QED BY <1>1, <1>3, <2>2, <2>4, <2>6, <4>1, <4>4 DEF ChosenOK, HasSaved
    <3> QED BY <3>1, <3>2
  <2>7. ASSUME ~HasSaved(r) PROVE ChosenOK'
    <3>1. r \notin completed
      BY <2>1, <2>3, <2>7 DEF SavesOK, OtherRun, Ended
    <3>2. x = NoRun
      BY <1>3, <2>1, <3>1 DEF NoLater
    <3> QED BY <1>1, <2>2, <2>4, <2>7, <3>2 DEF ChosenOK
  <2>8. ChosenOK'
    BY <2>6, <2>7
  <2> QED BY <1>1, <2>2, <2>3, <2>4, <2>5, <2>8 DEF ViewOK
<1> QED BY <1>4, <1>5 DEF ChooseRun

LEMMA FetchShows ==
    ASSUME CallsInv, ViewTypeOK, ViewOK, FetchPoints
    PROVE  ViewOK'
<1> USE DEF CallsInv
<1>1. /\ UNCHANGED <<pc, fellBack, rows, completed, points, events, overlap>>
      /\ asOf' = asOf /\ ChosenOK /\ view.run \in Runs
  BY DEF FetchPoints, vars, calls, runTables, projection, ViewOK, ChosenOK, ViewTypeOK
<1>2. PICK d \in Calls, k \in Kinds : view.run = <<d, k>>
  BY <1>1, RunFacts
<1>3. /\ view'.at = "answered" /\ view'.run = view.run /\ view'.status = view.status
      /\ \A i \in Horizon : view'.rows[i] = IF i < points[view.run] THEN view.run ELSE NoRun
  BY DEF FetchPoints, HasPoint, ViewTypeOK
<1>4. CASE HasSaved(view.run)
  <2>1. PICK r \in asOf \ {NoRun} : HasSaved(r) /\ view.run \in {r} \union overlap[r[1]]
    BY <1>1, <1>4 DEF ChosenOK
  <2>2. points[view.run] = rows[d]
    BY <1>2, <1>4 DEF SavesOK, SavedRun
  <2>3. ShowsForecast(r)'
    <3>1. view'.run \in {r} \union overlap'[r[1]]
      BY <1>1, <1>3, <2>1
    <3>2. \A i \in Horizon : view'.rows[i] \in {r, NoRun} \union overlap'[r[1]]
      BY <1>1, <1>3, <2>1
    <3>3. view'.run = r => \A i \in Shown(r[1])' : view'.rows[i] = r
      BY <1>1, <1>2, <1>3, <2>2 DEF Shown
    <3> QED BY <3>1, <3>2, <3>3 DEF ShowsForecast
  <2>4. Shows'
    BY <1>1, <2>1, <2>3 DEF Shows, HasSaved
  <2> QED BY <1>1, <1>3, <2>4 DEF ViewOK
<1>5. CASE ~HasSaved(view.run)
  <2>1. points[view.run] = 0
    BY <1>2, <1>5 DEF SavesOK, OtherRun
  <2>2. ShowsNothing'
    BY <1>3, <2>1 DEF ShowsNothing, Horizon
  <2>3. Shows'
    BY <1>1, <1>5, <2>2 DEF Shows, ChosenOK
  <2> QED BY <1>1, <1>3, <2>3 DEF ViewOK
<1> QED BY <1>4, <1>5

LEMMA ViewRests == ASSUME ViewOK, UNCHANGED <<vars, times, reading>> PROVE ViewOK'
<1>1. UNCHANGED <<pc, fellBack, rows, completed, points, events, overlap, began, view, asOf>>
  BY DEF vars, calls, runTables, projection, times, reading
<1>2. Shows' = Shows /\ ShowsNothing' = ShowsNothing
  BY <1>1 DEF Shows, ShowsNothing, HasSaved, ShowsForecast, Shown
<1>3. (\A r \in asOf : SavedBefore(r)' = SavedBefore(r)) /\ ChosenOK' = ChosenOK
  BY <1>1 DEF SavedBefore, HasSaved, CompletedAt, ChosenOK
<1> QED BY <1>1, <1>2, <1>3 DEF ViewOK

LEMMA NameShows ==
    ASSUME CallsInv, ViewTypeOK, ViewOK, NameRun
    PROVE  ViewOK'
<1>1. /\ UNCHANGED <<pc, fellBack, rows, events, overlap, asOf>>
      /\ view.at = "naming" /\ view.run # NoRun /\ Shows
  BY DEF NameRun, vars, calls, runTables, projection, ViewOK
<1>2. PICK d \in Calls, k \in Kinds : view.run = <<d, k>>
  BY <1>1, RunFacts DEF ViewTypeOK
<1>3. /\ view'.at = "answered" /\ view'.run = view.run /\ view'.status = status[view.run]
      /\ view'.rows = view.rows
  BY DEF NameRun, ViewTypeOK
<1>4. status[view.run] = "SUCCESS" => ~fellBack[d] /\ pc[d] \in Saving
  BY <1>2 DEF CallsInv, RunsInv, SuccessOK
<1>5. Shows'
  BY <1>1, <1>3 DEF Shows, ShowsNothing, HasSaved, ShowsForecast, Shown
<1> QED BY <1>1, <1>2, <1>3, <1>4, <1>5 DEF ViewOK

-----------------------------------------------------------------------------
(* POST actuals *)

LEMMA PointFacts ==
    /\ \A q \in Points : q # NoPoint /\ q[1] \in Runs /\ q[2] \in Horizon
    /\ IsFiniteSet(Points)
<1>1. \A q \in Points : q # NoPoint /\ q[1] \in Runs /\ q[2] \in Horizon
  BY RunFacts DEF Points, NoPoint
<1>2. IsFiniteSet(Kinds)
  <2>1. Kinds = ({} \union {"started"}) \union {"inserted"}
    BY DEF Kinds
  <2>2. IsFiniteSet({} \union {"started"})
    BY FS_EmptySet, FS_AddElement
  <2> QED BY <2>1, <2>2, FS_AddElement
<1>3. IsFiniteSet(Runs)
  BY <1>2, CallsAssumption, FS_Product DEF Runs
<1>4. IsFiniteSet(Horizon)
  BY BoundsAssumption, FS_Interval DEF Horizon
<1>5. IsFiniteSet(Points)
  BY <1>3, <1>4, FS_Product DEF Points
<1> QED BY <1>1, <1>5

LEMMA PairsCount ==
    ASSUME NEW S, IsFiniteSet(S), NEW x
    PROVE  Cardinality({<<x, q>> : q \in S}) = Cardinality(S)
<1> DEFINE T == {<<x, q>> : q \in S}
           f == [q \in S |-> <<x, q>>]
<1>1. f \in Bijection(S, T)
  BY DEF Bijection, Injection, Surjection, IsInjective
<1>2. ExistsBijection(S, T)
  BY <1>1 DEF ExistsBijection
<1> QED BY <1>2, FS_Bijection

(* A point stays, and so does the row of its run. *)
LEMMA PointsStay ==
    ASSUME CallsInv, ViewTypeOK, NEW c \in Calls, Stores(c) \/ Rests(c), Passes(c), CallsInv',
           NEW q \in Points, HasPoint(q)
    PROVE  HasPoint(q)' /\ status'[q[1]] # "none"
<1>1. PICK d \in Calls, k \in Kinds : q[1] = <<d, k>> /\ q[1] \in Runs
  BY PointFacts, RunFacts
<1>2. HasSaved(q[1])
  <2>1. points[q[1]] # 0
    BY PointFacts DEF HasPoint, Horizon
  <2> QED BY <1>1, <2>1 DEF CallsInv, SavesOK, OtherRun
<1>3. HasSaved(q[1])' /\ points'[q[1]] = points[q[1]]
  BY <1>1, <1>2, SavedStays
<1>4. SavedRun(d, k)'
  BY <1>1, <1>3 DEF CallsInv, SavesOK
<1> QED BY <1>1, <1>3, <1>4 DEF HasPoint, SavedRun

LEMMA PointHasRun ==
    ASSUME CallsInv, NEW q \in Points, HasPoint(q)
    PROVE  status[q[1]] # "none"
<1>1. PICK d \in Calls, k \in Kinds : q[1] = <<d, k>>
  BY PointFacts, RunFacts
<1>2. points[q[1]] # 0
  BY PointFacts DEF HasPoint, Horizon
<1> QED BY <1>1, <1>2 DEF CallsInv, SavesOK, OtherRun, SavedRun

LEMMA PostsRest ==
    ASSUME CallsInv, ViewTypeOK, PostsOK, ActualsAreReported, UNCHANGED <<posting, measured>>,
           \A q \in Points : HasPoint(q) => HasPoint(q)' /\ status'[q[1]] # "none"
    PROVE  PostsOK' /\ ActualsAreReported'
<1>1. UNCHANGED <<post, body, left, found, mine, said, actual, matches>>
  BY DEF posting, measured
<1>2. PostsOK'
  <2> SUFFICES ASSUME NEW p \in Posts
               PROVE  /\ found'[p] # NoPoint => HasPoint(found[p])'
                      /\ \A q \in mine'[p] : HasPoint(q)'
                      /\ (found'[p] # NoPoint \/ mine'[p] # {} \/ left'[p] # {}) => Open(p)'
    BY DEF PostsOK
  <2>1. found[p] \in Points \union {NoPoint} /\ mine[p] \subseteq Points
    BY DEF ViewTypeOK
  <2>2. ASSUME found[p] # NoPoint PROVE found[p][2] < points'[found[p][1]]
    <3>1. found[p] \in Points /\ HasPoint(found[p])
      BY <2>1, <2>2 DEF PostsOK
    <3>2. PICK q \in Points : q = found[p] /\ HasPoint(q)
      BY <3>1
    <3>3. HasPoint(q)'
      BY <3>2
    <3> QED BY <3>1, <3>2, <3>3 DEF HasPoint
  <2>3. \A q \in mine[p] : HasPoint(q)'
    BY <2>1 DEF PostsOK
  <2> QED BY <1>1, <2>2, <2>3 DEF PostsOK, Open, HasPoint
<1>3. ActualsAreReported'
  <2>1. \A m \in matches : m[2] \in Compared'
    <3> SUFFICES ASSUME NEW m \in matches PROVE m[2] \in Compared'
      OBVIOUS
    <3>1. m[2] \in Points /\ actual[m[2]] # NotMeasured /\ HasPoint(m[2])
      BY DEF ActualsAreReported, Compared
    <3>2. HasPoint(m[2])' /\ status'[m[2][1]] # "none"
      BY <3>1
    <3> QED BY <1>1, <3>1, <3>2 DEF Compared
  <2> QED BY <1>1, <2>1 DEF ActualsAreReported
<1> QED BY <1>2, <1>3

(* A step of a post that stores nothing: it opens, looks, writes or fails. *)
LEMMA PostWorks ==
    ASSUME CallsInv, ViewTypeOK, PostsOK, ActualsAreReported, NEW p \in Posts,
           UNCHANGED <<vars, said, actual, matches>>,
           post[p] \in {"new", "open"},
           NEW how \in {"open", "failed"}, post' = [post EXCEPT ![p] = how],
           \A o \in Posts \ {p} : /\ found'[o] = found[o] /\ mine'[o] = mine[o] /\ left'[o] = left[o]
                                  /\ body'[o] = body[o],
           found'[p] # NoPoint => found'[p] \in Points /\ HasPoint(found'[p]),
           \A q \in mine'[p] : HasPoint(q),
           how = "failed" => found'[p] = NoPoint /\ mine'[p] = {} /\ left'[p] = {}
    PROVE  PostsOK' /\ ActualsAreReported'
<1>1. UNCHANGED <<points, status>>
  BY DEF vars, runTables
<1>2. post'[p] = how /\ \A o \in Posts \ {p} : post'[o] = post[o]
  BY DEF ViewTypeOK
<1>3. PostsOK'
  BY <1>1, <1>2 DEF PostsOK, HasPoint, Open
<1>4. \A m \in matches : m[1] \in Posts \ {p}
  BY DEF ActualsAreReported, ViewTypeOK
<1>5. \A q \in Points : actual[q] # NotMeasured => actual[q].by \in Posts \ {p}
  <2> SUFFICES ASSUME NEW q \in Points, actual[q] # NotMeasured PROVE actual[q].by \in Posts \ {p}
    OBVIOUS
  <2>1. <<actual[q].by, q>> \in matches
    BY DEF ActualsAreReported
  <2> QED BY <1>4, <2>1
<1>6. Compared' = Compared
  BY <1>1 DEF Compared, HasPoint
<1>7. post'[p] # "answered"
  BY <1>2
<1> QED BY <1>2, <1>3, <1>4, <1>5, <1>6, <1>7 DEF ActualsAreReported

(* The COMMIT of a post *)
LEMMA PostStores ==
    ASSUME CallsInv, ViewTypeOK, PostsOK, ActualsAreReported, NEW p \in Posts, Open(p), Stored(p),
           NEW how \in {"answered", "unsure"}, PostEnds(p, how),
           \/ how = "answered" /\ said' = [said EXCEPT ![p] = Cardinality(mine[p])]
           \/ how = "unsure" /\ said' = said
    PROVE  PostsOK' /\ ActualsAreReported'
<1>1. UNCHANGED <<points, status, body>>
  BY DEF PostEnds, vars, runTables
<1>2. /\ post'[p] = how /\ left'[p] = {} /\ found'[p] = NoPoint /\ mine'[p] = {}
      /\ \A o \in Posts \ {p} : /\ post'[o] = post[o] /\ left'[o] = left[o]
                                 /\ found'[o] = found[o] /\ mine'[o] = mine[o]
  BY DEF PostEnds, ViewTypeOK
<1>3. PostsOK'
  BY <1>1, <1>2 DEF PostsOK, HasPoint, Open
<1>4. /\ \A q \in Points : actual'[q] = IF q \in mine[p] THEN ActualOf(p, q) ELSE actual[q]
      /\ matches' = matches \union {<<p, q>> : q \in mine[p]}
      /\ mine[p] \subseteq Points
  BY DEF Stored, ViewTypeOK
<1>5. \A m \in matches : m[1] \in Posts \ {p}
  BY DEF ActualsAreReported, ViewTypeOK, Open
<1>6. ASSUME NEW q \in Points, actual'[q] # NotMeasured
      PROVE  /\ <<actual'[q].by, q>> \in matches'
             /\ actual'[q].has = WithNet(body'[actual'[q].by].has)
  <2>1. CASE q \in mine[p]
    BY <1>1, <1>4, <2>1 DEF ActualOf
  <2>2. CASE q \notin mine[p]
    BY <1>1, <1>4, <1>6, <2>2 DEF ActualsAreReported
  <2> QED BY <2>1, <2>2
<1>7. ASSUME NEW m \in matches' PROVE m[2] \in Compared' /\ post'[m[1]] \in {"answered", "unsure"}
  <2>1. CASE m \in matches
    <3>1. m[2] \in Compared /\ post[m[1]] \in {"answered", "unsure"} /\ m[2] \in Points
      BY <2>1 DEF ActualsAreReported, ViewTypeOK
    <3>2. actual'[m[2]] # NotMeasured
      <4>1. ActualOf(p, m[2]) # NotMeasured
        BY NoPostAssumption DEF ActualOf, NotMeasured
      <4> QED BY <1>4, <3>1, <4>1 DEF Compared
    <3> QED BY <1>1, <1>2, <1>5, <2>1, <3>1, <3>2 DEF Compared, HasPoint
  <2>2. CASE m \in {<<p, q>> : q \in mine[p]}
    <3>1. PICK q \in mine[p] : m = <<p, q>>
      BY <2>2
    <3>2. HasPoint(q) /\ status[q[1]] # "none" /\ q \in Points
      BY <1>4, PointHasRun DEF PostsOK
    <3>3. actual'[q] # NotMeasured
      BY <1>4, <3>2, NoPostAssumption DEF ActualOf, NotMeasured
    <3> QED BY <1>1, <1>2, <3>1, <3>2, <3>3 DEF Compared, HasPoint
  <2> QED BY <1>4, <2>1, <2>2
<1>8. ASSUME NEW o \in Posts, post'[o] = "answered"
      PROVE  said'[o] = Cardinality({m \in matches' : m[1] = o})
  <2>1. CASE o = p
    <3>1. {m \in matches' : m[1] = p} = {<<p, q>> : q \in mine[p]}
      BY <1>4, <1>5
    <3>2. IsFiniteSet(mine[p])
      BY <1>4, PointFacts, FS_Subset
    <3>3. said'[p] = Cardinality(mine[p])
      BY <1>2, <1>8, <2>1 DEF ViewTypeOK
    <3>4. Cardinality({<<p, q>> : q \in mine[p]}) = Cardinality(mine[p])
      BY <3>2, PairsCount
    <3> QED BY <2>1, <3>1, <3>3, <3>4
  <2>2. CASE o # p
    <3>1. {m \in matches' : m[1] = o} = {m \in matches : m[1] = o}
      BY <1>4, <2>2
    <3>2. said'[o] = said[o] /\ post[o] = "answered"
      BY <1>2, <1>8, <2>2 DEF ViewTypeOK
    <3> QED BY <3>1, <3>2 DEF ActualsAreReported
  <2> QED BY <2>1, <2>2
<1>9. ActualsAreReported'
  BY <1>6, <1>7, <1>8 DEF ActualsAreReported
<1> QED BY <1>3, <1>9

LEMMA PostKeeps ==
    ASSUME CallsInv, ViewTypeOK, PostsOK, ActualsAreReported, NEW p \in Posts, PostStep(p)
    PROVE  PostsOK' /\ ActualsAreReported'
<1>1. CASE \E b \in Bodies[p] : OpenPost(p, b)
  <2>1. PICK b \in Bodies[p] : OpenPost(p, b)
    BY <1>1
  <2>2. /\ post[p] = "new" /\ post' = [post EXCEPT ![p] = "open"]
        /\ UNCHANGED <<vars, said, actual, matches, found, mine>>
        /\ \A o \in Posts \ {p} : left'[o] = left[o] /\ body'[o] = body[o]
    BY <2>1 DEF OpenPost, measured, ViewTypeOK
  <2>3. found[p] \in Points \union {NoPoint}
    BY DEF ViewTypeOK
  <2> QED BY <2>2, <2>3, PostWorks DEF PostsOK
<1>2. CASE (\E i \in Horizon : FindPoint(p, i)) \/ UpsertActual(p)
  <2>1. /\ post[p] = "open" /\ UNCHANGED <<vars, post, body, said, actual, matches>>
        /\ post' = [post EXCEPT ![p] = "open"]
    BY <1>2 DEF FindPoint, UpsertActual, Open, measured, ViewTypeOK
  <2>2. /\ \A o \in Posts \ {p} : found'[o] = found[o] /\ mine'[o] = mine[o] /\ left'[o] = left[o]
        /\ found'[p] # NoPoint => found'[p] \in Points /\ HasPoint(found'[p])
        /\ \A q \in mine'[p] : HasPoint(q)
    <3>1. CASE \E i \in Horizon : FindPoint(p, i)
      BY <3>1 DEF FindPoint, Candidates, ViewTypeOK, PostsOK
    <3>2. CASE UpsertActual(p)
      BY <3>2 DEF UpsertActual, ViewTypeOK, PostsOK
    <3> QED BY <1>2, <3>1, <3>2
  <2> QED BY <2>1, <2>2, PostWorks
<1>3. CASE CommitPost(p)
  BY <1>3, PostStores DEF CommitPost
<1>4. CASE PostFails(p)
  <2>1. CASE PostEnds(p, "failed") /\ UNCHANGED measured
    <3>1. /\ post[p] = "open" /\ UNCHANGED <<vars, body, said, actual, matches>>
          /\ post' = [post EXCEPT ![p] = "failed"]
      BY <1>4, <2>1 DEF PostFails, Open, PostEnds, measured
    <3>2. /\ \A o \in Posts \ {p} : found'[o] = found[o] /\ mine'[o] = mine[o] /\ left'[o] = left[o]
          /\ found'[p] = NoPoint /\ mine'[p] = {} /\ left'[p] = {}
      BY <2>1 DEF PostEnds, ViewTypeOK
    <3> QED BY <3>1, <3>2, PostWorks
  <2>2. CASE PostEnds(p, "unsure") /\ Stored(p)
    BY <1>4, <2>2, PostStores DEF PostFails
  <2> QED BY <1>4, <2>1, <2>2 DEF PostFails
<1> QED BY <1>1, <1>2, <1>3, <1>4 DEF PostStep

-----------------------------------------------------------------------------
(* Types *)

LEMMA GetTyped ==
    ASSUME ViewTypeOK, ViewOK, TypeOK, Get
    PROVE  ViewTypeOK'
<1>1. UNCHANGED <<times, posting, measured>>
  BY DEF Get, ListLatest, NameRun, ChooseRun, FetchPoints
<1>2. gets' \in 0 .. MaxGets /\ asOf' \subseteq Runs \union {NoRun}
  <2>1. CASE ListLatest
    BY <2>1, GetsAssumption DEF ListLatest, ViewTypeOK, TypeOK
  <2>2. CASE NameRun \/ ChooseRun \/ FetchPoints
    BY <2>2 DEF NameRun, ChooseRun, FetchPoints, ViewTypeOK
  <2> QED BY <2>1, <2>2 DEF Get
<1>3. view' \in [at : {"idle", "naming", "choosing", "fetching", "answered"}, run : Runs \union {NoRun},
                  rows : [Horizon -> Runs \union {NoRun}], status : Statuses]
  <2>1. CASE ListLatest
    <3>1. Projection \in [Horizon -> Runs \union {NoRun}]
      BY DEF Projection, TypeOK
    <3>2. "none" \in Statuses /\ \A i \in Listed : Projection[i] \in Runs \union {NoRun}
      BY <3>1 DEF Statuses, Listed
    <3> QED BY <2>1, <3>1, <3>2 DEF ListLatest, Lists
  <2>2. CASE NameRun
    <3>1. view.run \in Runs
      BY <2>2 DEF NameRun, ViewOK, ViewTypeOK
    <3>2. status[view.run] \in Statuses
      BY <3>1 DEF TypeOK
    <3> QED BY <2>2, <3>2 DEF NameRun, ViewTypeOK
  <2>3. CASE ChooseRun
    <3>1. \A r \in Runs : status[r] \in Statuses
      BY DEF TypeOK
    <3> QED BY <2>3, <3>1 DEF ChooseRun, ViewTypeOK
  <2>4. CASE FetchPoints
    <3>1. [i \in Horizon |-> IF HasPoint(<<view.run, i>>) THEN view.run ELSE NoRun]
              \in [Horizon -> Runs \union {NoRun}]
      BY DEF ViewTypeOK
    <3> QED BY <2>4, <3>1 DEF FetchPoints, ViewTypeOK
  <2> QED BY <2>1, <2>2, <2>3, <2>4 DEF Get
<1> QED BY <1>1, <1>2, <1>3 DEF ViewTypeOK, times, posting, measured

LEMMA PostTyped ==
    ASSUME ViewTypeOK, NEW p \in Posts, PostStep(p)
    PROVE  ViewTypeOK'
<1>1. UNCHANGED <<times, reading>>
  BY DEF PostStep, OpenPost, FindPoint, UpsertActual, CommitPost, PostFails, PostEnds
<1>2. CASE \E b \in Bodies[p] : OpenPost(p, b)
  <2>1. PICK b \in BodiesAllowed : OpenPost(p, b)
    BY <1>2, PostsAssumption
  <2>2. b.hours \in SUBSET Horizon
    BY DEF BodiesAllowed
  <2> HIDE DEF BodiesAllowed
  <2> QED BY <1>1, <2>1, <2>2 DEF OpenPost, ViewTypeOK, measured, times, reading
<1>3. CASE \E i \in Horizon : FindPoint(p, i)
  BY <1>1, <1>3 DEF FindPoint, Candidates, ViewTypeOK, measured, times, reading
<1>4. CASE UpsertActual(p)
  BY <1>1, <1>4 DEF UpsertActual, ViewTypeOK, measured, times, reading
<1>5. CASE CommitPost(p) \/ PostFails(p)
  <2>1. /\ post' \in [Posts -> {"new", "open", "answered", "failed", "unsure"}]
        /\ left' \in [Posts -> SUBSET Horizon] /\ found' \in [Posts -> Points \union {NoPoint}]
        /\ mine' \in [Posts -> SUBSET Points] /\ body' = body
    BY <1>5 DEF CommitPost, PostFails, PostEnds, ViewTypeOK
  <2>2. said' \in [Posts -> Nat]
    <3>1. Cardinality(mine[p]) \in Nat
      BY PointFacts, FS_Subset, FS_CardinalityType DEF ViewTypeOK
    <3> QED BY <1>5, <3>1 DEF CommitPost, PostFails, ViewTypeOK
  <2>3. actual' \in [Points -> [by : Posts \union {NoPost}, has : Kinded]] /\ matches' \subseteq Posts \X Points
    <3>1. CASE Stored(p)
      <4>1. WithNet(body[p].has) \in Kinded
        <5>1. body[p].has \in Kinded
          BY DEF ViewTypeOK, BodiesAllowed
        <5> QED BY <5>1 DEF WithNet, Kinded
      <4> HIDE DEF Kinded
      <4>2. \A q \in Points : ActualOf(p, q) \in [by : Posts \union {NoPost}, has : Kinded]
        BY <4>1 DEF ActualOf
      <4> QED BY <3>1, <4>2 DEF Stored, ViewTypeOK
    <3>2. CASE UNCHANGED measured
      BY <3>2 DEF measured, ViewTypeOK
    <3> QED BY <1>5, <3>1, <3>2 DEF CommitPost, PostFails
  <2> QED BY <1>1, <2>1, <2>2, <2>3 DEF ViewTypeOK, times, reading
<1> QED BY <1>2, <1>3, <1>4, <1>5 DEF PostStep

-----------------------------------------------------------------------------
LEMMA ViewsInvInit == ViewInit => ViewsInv
<1> SUFFICES ASSUME ViewInit PROVE ViewsInv
  OBVIOUS
<1>1. RunsInv
  BY InvInit DEF ViewInit
<1>2. \A r \in Runs : ~HasSaved(r)
  BY DEF ViewInit, Init, HasSaved
<1>3. SavesOK /\ StartedOK
  BY <1>2, RunFacts DEF ViewInit, Init, SavesOK, OtherRun, StartedOK
<1>4. OverlapOK /\ ClockOK /\ SavedLastOK
  BY <1>2 DEF ViewInit, Init, OverlapOK, ClockOK, SavedLastOK, NoRow
<1>5. ViewTypeOK
  <2>1. /\ clock \in Nat /\ began \in [Calls -> [first : Nat, save : Nat]]
        /\ gets \in 0 .. MaxGets /\ asOf \subseteq Runs \union {NoRun}
    BY GetsAssumption DEF ViewInit
  <2>2. view \in [at : {"idle", "naming", "choosing", "fetching", "answered"}, run : Runs \union {NoRun},
                   rows : [Horizon -> Runs \union {NoRun}], status : Statuses]
    BY DEF ViewInit, Statuses
  <2>3. /\ body \in [Posts -> BodiesAllowed]
        /\ actual \in [Points -> [by : Posts \union {NoPost}, has : Kinded]]
    BY DEF ViewInit, NoBody, BodiesAllowed, Kinded, NotMeasured
  <2>4. /\ post \in [Posts -> {"new", "open", "answered", "failed", "unsure"}]
        /\ left \in [Posts -> SUBSET Horizon]
        /\ found \in [Posts -> Points \union {NoPoint}]
        /\ mine \in [Posts -> SUBSET Points]
        /\ said \in [Posts -> Nat]
        /\ matches \subseteq Posts \X Points
    BY DEF ViewInit
  <2> QED BY <2>1, <2>2, <2>3, <2>4 DEF ViewTypeOK
<1>6. ViewOK /\ PostsOK /\ ActualsAreReported
  BY DEF ViewInit, ViewOK, PostsOK, ActualsAreReported
<1> QED BY <1>1, <1>3, <1>4, <1>5, <1>6 DEF ViewsInv, CallsInv

LEMMA ViewsInvNext == ASSUME ViewsInv, [ViewNext]_viewVars PROVE ViewsInv'
<1> USE DEF ViewsInv
<1>1. CASE CallSteps
  <2>1. PICK c \in Calls : CallStep(c)
    BY <1>1 DEF CallSteps, CallStep
  <2>2. /\ asOf' = IF Listing THEN asOf \union {lastSaved'} ELSE asOf
        /\ UNCHANGED <<view, gets, posting, measured>>
    BY <1>1 DEF CallSteps
  <2>3. CallsInv' /\ Passes(c) /\ (Stores(c) \/ Rests(c))
    BY <2>1, CallsInvKeeps
  <2>4. ViewTypeOK'
    <3>1. lastSaved' \in Runs \union {NoRun}
      BY <2>3 DEF CallsInv, RunsInv, TypeOK
    <3>2. clock' \in Nat /\ began' \in [Calls -> [first : Nat, save : Nat]]
      BY <2>3 DEF Passes
    <3>3. asOf' \subseteq Runs \union {NoRun}
      BY <2>2, <3>1 DEF ViewTypeOK
    <3> QED BY <2>2, <3>2, <3>3 DEF ViewTypeOK, posting, measured
  <2>5. ViewOK'
    BY <2>2, <2>3, ViewStays
  <2>6. \A q \in Points : HasPoint(q) => HasPoint(q)' /\ status'[q[1]] # "none"
    BY <2>3, PointsStay
  <2>7. PostsOK' /\ ActualsAreReported'
    BY <2>2, <2>6, PostsRest
  <2> QED BY <2>3, <2>4, <2>5, <2>7
<1>2. CASE Get
  <2>1. UNCHANGED <<vars, times, posting, measured>>
    BY <1>2 DEF Get, ListLatest, NameRun, ChooseRun, FetchPoints
  <2>2. CallsInv'
    BY <2>1, CallsStutter
  <2>3. ViewTypeOK'
    BY <1>2, GetTyped DEF CallsInv, RunsInv
  <2>4. ViewOK'
    BY <1>2, ListShows, NameShows, ChooseShows, FetchShows DEF Get
  <2>5. \A q \in Points : HasPoint(q) => HasPoint(q)' /\ status'[q[1]] # "none"
    BY <2>1, PointHasRun DEF HasPoint, vars, runTables
  <2>6. PostsOK' /\ ActualsAreReported'
    BY <2>1, <2>5, PostsRest
  <2> QED BY <2>2, <2>3, <2>4, <2>6
<1>3. CASE \E p \in Posts : PostStep(p)
  <2>1. PICK p \in Posts : PostStep(p)
    BY <1>3
  <2>2. UNCHANGED <<vars, times, reading>>
    BY <2>1 DEF PostStep, OpenPost, FindPoint, UpsertActual, CommitPost, PostFails, PostEnds
  <2>3. CallsInv'
    BY <2>2, CallsStutter
  <2>4. ViewOK'
    BY <2>2, ViewRests
  <2> QED BY <2>1, <2>3, <2>4, PostTyped, PostKeeps
<1>4. CASE UNCHANGED viewVars
  <2>1. UNCHANGED <<vars, times, reading, posting, measured>>
    BY <1>4 DEF viewVars
  <2>2. CallsInv' /\ ViewOK'
    BY <2>1, CallsStutter, ViewRests
  <2>3. ViewTypeOK'
    BY <2>1 DEF ViewTypeOK, times, reading, posting, measured
  <2>4. \A q \in Points : HasPoint(q) => HasPoint(q)' /\ status'[q[1]] # "none"
    BY <2>1, PointHasRun DEF HasPoint, vars, runTables
  <2>5. PostsOK' /\ ActualsAreReported'
    BY <2>1, <2>4, PostsRest
  <2> QED BY <2>2, <2>3, <2>5
<1> QED BY <1>1, <1>2, <1>3, <1>4 DEF ViewNext

LEMMA ViewsInvAlways == ViewSpec => []ViewsInv
<1>1. ViewsInv /\ [ViewNext]_viewVars => ViewsInv'
  BY ViewsInvNext
<1> QED BY <1>1, ViewsInvInit, PTL DEF ViewSpec

(* Beside calls that replace the projection, and with statements of its    *)
(* own for rows, run and points, GET latest answers with one forecast that *)
(* was the last one while it read (forecast_repository.py                  *)
(* latest_forecast()), for any calls, failures and number of rows.         *)
THEOREM LatestAnswersAreOfTheirMoment == ViewSpec => []LatestIsOfItsMoment
<1>1. ViewsInv => LatestIsOfItsMoment
  <2> SUFFICES ASSUME ViewsInv, view.at = "answered"
               PROVE  /\ \E r \in asOf : (r = NoRun /\ ShowsNothing) \/ (r # NoRun /\ ShowsForecast(r))
                      /\ view.run # NoRun /\ view.status = "SUCCESS" => ~fellBack[view.run[1]]
    BY DEF LatestIsOfItsMoment
  <2> QED BY DEF ViewsInv, ViewOK, Shows
<1> QED BY <1>1, ViewsInvAlways, PTL

(* What accuracy compares is what posts reported, each value as the last   *)
(* post of its point sent it, and none of a post that failed on the way    *)
(* (save_actuals()), for any posts beside any calls.                       *)
THEOREM ActualsAreAsReported == ViewSpec => []ActualsAreReported
BY ViewsInvAlways, PTL DEF ViewsInv
=============================================================================
