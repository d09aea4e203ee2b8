--------------------------- MODULE ForecastViews ---------------------------
(***************************************************************************)
(* What is read from and added to the forecast tables beside the calls     *)
(* that fill them: GET /api/ai/forecast/latest, POST /forecast/actuals,    *)
(* which attaches measured values to forecast points, and the rows that    *)
(* GET /forecast/accuracy compares.                                        *)
(*                                                                         *)
(* PostgreSQL's READ COMMITTED level gives each statement a snapshot of    *)
(* its own, so an action is one statement.  now() is the time at which its *)
(* transaction began.  All forecasts are of one site and begin at the same *)
(* hour; a measurement is the kinds of values it has.                      *)
(***************************************************************************)
EXTENDS ForecastRuns

CONSTANTS
    Posts,  \* the calls of POST /forecast/actuals
    Bodies, \* per post: the bodies it may have
    MaxGets \* bound: calls of GET /forecast/latest, one after the other

Kinded        == SUBSET {"solar", "load", "net"}
BodiesAllowed == [hours : SUBSET Horizon, run : Runs \union {NoRun}, has : Kinded]
NoBody        == [hours |-> {}, run |-> NoRun, has |-> {}]

ASSUME PostsAssumption == IsFiniteSet(Posts) /\ Bodies \in [Posts -> SUBSET BodiesAllowed]

Points  == Runs \X Horizon
NoPoint == <<NoRun, 0>>
NoPost  == "no post"
NotMeasured == [by |-> NoPost, has |-> {}]

ASSUME NoPostAssumption == NoPost \notin Posts
ASSUME GetsAssumption == MaxGets \in Nat
ASSUME LatestAssumption == LatestRows > 0

VARIABLES
    clock,   \* transactions of calls begun so far
    began,   \* per call: when its first transaction and its save began
    view,    \* GET latest: where it is, the run it names, its rows, the status it says
    gets,    \* calls of GET latest so far
    asOf,    \* history: the runs saved last while it read
    post,    \* per post: new, open, answered, failed, or failed after a COMMIT
    body,    \* per post: its body
    left,    \* per post: hours it has still to look for
    found,   \* per post: the point it is about to write
    mine,    \* per post: the points its transaction has written
    said,    \* per post: the number of matches it answered
    actual,  \* ai_forecast_actual: per point: the post that wrote it last, what it has
    matches  \* ACTUAL_MATCHED events: the post and the point

times    == <<clock, began>>
reading  == <<view, gets, asOf>>
posting  == <<post, body, left, found, mine, said>>
measured == <<actual, matches>>
viewVars == <<vars, times, reading, posting, measured>>

ViewInit ==
    /\ Init
    /\ clock = 0
    /\ began = [c \in Calls |-> [first |-> 0, save |-> 0]]
    /\ view = [at |-> "idle", run |-> NoRun, rows |-> [i \in Horizon |-> NoRun], status |-> "none"]
    /\ gets = 0
    /\ asOf = {}
    /\ post = [p \in Posts |-> "new"]
    /\ body = [p \in Posts |-> NoBody]
    /\ left = [p \in Posts |-> {}]
    /\ found = [p \in Posts |-> NoPoint]
    /\ mine = [p \in Posts |-> {}]
    /\ said = [p \in Posts |-> 0]
    /\ actual = [q \in Points |-> NotMeasured]
    /\ matches = {}

-----------------------------------------------------------------------------
(* The calls, with the times of their rows *)

Begins(c, which) ==
    /\ clock' = clock + 1
    /\ began' = [began EXCEPT ![c][which] = clock + 1]

(* created_at and completed_at have now() as their value *)
CreatedAt(r)   == IF r[2] = "started" THEN began[r[1]].first ELSE began[r[1]].save
CompletedAt(r) == began[r[1]].save

Timed(c) == IF pc[c] = "saving" /\ pc'[c] = "replacing" THEN Begins(c, "save") ELSE UNCHANGED times

Listing == view.at \in {"naming", "choosing", "fetching"}

(* A step of a call; a GET that reads meanwhile sees what it commits. *)
CallSteps ==
    /\ \E c \in Calls :
          \/ \E r \in Requested(c) :
                /\ StartRun(c, r)
                /\ IF r.horizon THEN Begins(c, "first") ELSE UNCHANGED times
          \/ (Step(c) \/ Kill(c)) /\ Timed(c)
    /\ asOf' = IF Listing THEN asOf \union {lastSaved'} ELSE asOf
    /\ UNCHANGED <<view, gets, posting, measured>>

-----------------------------------------------------------------------------
(* GET /forecast/latest: latest_forecast() *)

Projection == [i \in Horizon |-> latest[i].run]
Listed     == {i \in Horizon : Projection[i] # NoRun}

Lists(at, run) == view' = [at |-> at, run |-> run, rows |-> Projection, status |-> "none"]

(* The first row of the projection names the run; without rows one is      *)
(* looked for.                                                             *)
ListLatest ==
    /\ ~Listing
    /\ gets < MaxGets
    /\ gets' = gets + 1
    /\ asOf' = {lastSaved}
    /\ \/ Listed = {} /\ Lists("choosing", NoRun)
       \/ \E i \in Listed : (\A j \in Listed : i <= j) /\ Lists("naming", Projection[i])
    /\ UNCHANGED <<vars, times, posting, measured>>

(* _select_run(): what the answer says of the run is as of now. *)
NameRun ==
    /\ view.at = "naming"
    /\ view' = [view EXCEPT !.at = "answered", !.status = status[view.run]]
    /\ UNCHANGED <<vars, times, gets, asOf, posting, measured>>

Ended(r) == status[r] \in {"SUCCESS", "FALLBACK"}

(* Mutant: without NULLS LAST a run that is not completed comes first. *)
NullsFirst(r, s) ==
    \/ r \notin completed
    \/ s \in completed /\ CompletedAt(r) >= CompletedAt(s)

(* ORDER BY completed_at DESC NULLS LAST, created_at DESC *)
NoLater(r, s) ==
    \/ r \in completed /\ s \notin completed
    \/ r \in completed /\ s \in completed /\ CompletedAt(r) >= CompletedAt(s)
    \/ r \notin completed /\ s \notin completed /\ CreatedAt(r) >= CreatedAt(s)

(* _select_latest_run() *)
ChooseRun ==
    /\ view.at = "choosing"
    /\ \/ /\ \A r \in Runs : ~Ended(r)
          /\ view' = [view EXCEPT !.at = "answered"]
       \/ \E r \in Runs :
             /\ Ended(r)
             /\ \A s \in Runs : Ended(s) => NoLater(r, s)
             /\ view' = [view EXCEPT !.at = "fetching", !.run = r, !.status = status[r]]
    /\ UNCHANGED <<vars, times, gets, asOf, posting, measured>>

HasPoint(q) == q[2] < points[q[1]]

FetchPoints ==
    /\ view.at = "fetching"
    /\ view' = [view EXCEPT !.at = "answered",
                            !.rows = [i \in Horizon |-> IF HasPoint(<<view.run, i>>) THEN view.run ELSE NoRun]]
    /\ UNCHANGED <<vars, times, gets, asOf, posting, measured>>

-----------------------------------------------------------------------------
(* POST /forecast/actuals: save_actuals(), one transaction *)

Open(p) == post[p] = "open"

OpenPost(p, b) ==
    /\ post[p] = "new"
    /\ post' = [post EXCEPT ![p] = "open"]
    /\ body' = [body EXCEPT ![p] = b]
    /\ left' = [left EXCEPT ![p] = b.hours]
    /\ UNCHANGED <<vars, times, reading, found, mine, said, measured>>

Candidates(p, i) == {q \in Points : q[2] = i /\ HasPoint(q) /\ body[p].run \in {NoRun, q[1]}}

(* _find_forecast_point(): of the run created last, or of the one asked    *)
(* for; an hour without a point is skipped.                                *)
FindPoint(p, i) ==
    /\ Open(p)
    /\ found[p] = NoPoint
    /\ i \in left[p]
    /\ left' = [left EXCEPT ![p] = @ \ {i}]
    /\ \/ Candidates(p, i) = {} /\ UNCHANGED found
       \/ \E q \in Candidates(p, i) :
             /\ \A s \in Candidates(p, i) : CreatedAt(q[1]) >= CreatedAt(s[1])
             /\ found' = [found EXCEPT ![p] = q]
    /\ UNCHANGED <<vars, times, reading, post, body, mine, said, measured>>

WaitsForPost(p) == {o \in Posts \ {p} : found[p] \in mine[o]}

(* The INSERT waits for a transaction that has written the same point. *)
UpsertActual(p) ==
    /\ Open(p)
    /\ found[p] # NoPoint
    /\ WaitsForPost(p) = {}
    /\ mine' = [mine EXCEPT ![p] = @ \union {found[p]}]
    /\ found' = [found EXCEPT ![p] = NoPoint]
    /\ UNCHANGED <<vars, times, reading, post, body, left, said, measured>>

(* _actual_net_load() *)
WithNet(has) == IF {"solar", "load"} \subseteq has THEN has \union {"net"} ELSE has

(* ON CONFLICT DO UPDATE sets every column, also to NULL. *)
ActualOf(p, q) == [by |-> p, has |-> WithNet(body[p].has)]

Stored(p) ==
    /\ actual' = [q \in Points |-> IF q \in mine[p] THEN ActualOf(p, q) ELSE actual[q]]
    /\ matches' = matches \union {<<p, q>> : q \in mine[p]}

PostEnds(p, how) ==
    /\ post' = [post EXCEPT ![p] = how]
    /\ left' = [left EXCEPT ![p] = {}]
    /\ found' = [found EXCEPT ![p] = NoPoint]
    /\ mine' = [mine EXCEPT ![p] = {}]
    /\ UNCHANGED <<vars, times, reading, body>>

CommitPost(p) ==
    /\ Open(p)
    /\ left[p] = {} /\ found[p] = NoPoint
    /\ PostEnds(p, "answered")
    /\ Stored(p)
    /\ said' = [said EXCEPT ![p] = Cardinality(mine[p])]

(* Mutant: every row is committed by itself. *)
FailsInPart(p) ==
    /\ Open(p)
    /\ PostEnds(p, "failed")
    /\ Stored(p)
    /\ UNCHANGED said

(* Nothing is caught: a statement, a deadlock or the connection ends the   *)
(* request, or the worker is killed; the server rolls the transaction      *)
(* back, unless the COMMIT was on its way.                                 *)
PostFails(p) ==
    /\ Open(p)
    /\ UNCHANGED said
    /\ \/ PostEnds(p, "failed") /\ UNCHANGED measured
       \/ /\ left[p] = {} /\ found[p] = NoPoint
          /\ PostEnds(p, "unsure")
          /\ Stored(p)

-----------------------------------------------------------------------------
(* GET /forecast/accuracy: forecast_accuracy() joins the actual values,    *)
(* their points and the runs of these; its filters and the limit leave out *)
(* rows.                                                                   *)
Compared == {q \in Points : actual[q] # NotMeasured /\ HasPoint(q) /\ status[q[1]] # "none"}

-----------------------------------------------------------------------------
Get == ListLatest \/ NameRun \/ ChooseRun \/ FetchPoints

PostStep(p) ==
    \/ \E b \in Bodies[p] : OpenPost(p, b)
    \/ \E i \in Horizon : FindPoint(p, i)
    \/ UpsertActual(p) \/ CommitPost(p) \/ PostFails(p)

ViewNext == CallSteps \/ Get \/ \E p \in Posts : PostStep(p)

ViewSpec == ViewInit /\ [][ViewNext]_viewVars

-----------------------------------------------------------------------------
(* Properties *)

ViewTypeOK ==
    /\ clock \in Nat
    /\ began \in [Calls -> [first : Nat, save : Nat]]
    /\ view \in [at : {"idle", "naming", "choosing", "fetching", "answered"}, run : Runs \union {NoRun},
                 rows : [Horizon -> Runs \union {NoRun}], status : Statuses]
    /\ gets \in 0 .. MaxGets
    /\ asOf \subseteq Runs \union {NoRun}
    /\ post \in [Posts -> {"new", "open", "answered", "failed", "unsure"}]
    /\ body \in [Posts -> BodiesAllowed]
    /\ left \in [Posts -> SUBSET Horizon]
    /\ found \in [Posts -> Points \union {NoPoint}]
    /\ mine \in [Posts -> SUBSET Points]
    /\ said \in [Posts -> Nat]
    /\ actual \in [Points -> [by : Posts \union {NoPost}, has : Kinded]]
    /\ matches \subseteq Posts \X Points

(* The answer shows the forecast r: its run, all of its rows, and beside   *)
(* or instead of them only what was being saved at the same time.          *)
ShowsForecast(r) ==
    LET c == r[1] IN
    /\ view.run \in {r} \union overlap[c]
    /\ \A i \in Horizon : view.rows[i] \in {r, NoRun} \union overlap[c]
    /\ view.run = r => \A i \in Shown(c) : view.rows[i] = r

ShowsNothing == \A i \in Horizon : view.rows[i] = NoRun

(* What GET latest answers is a forecast that was the last one at some     *)
(* moment while it read, although it reads rows, run and points by         *)
(* statements of their own beside calls that replace them, and never a run *)
(* that has fallen back and is still being computed while a finished one   *)
(* is there.  A forecast made because the live model failed is not called  *)
(* a success.                                                              *)
LatestIsOfItsMoment ==
    view.at = "answered" =>
        /\ \E r \in asOf :
              \/ r = NoRun /\ ShowsNothing
              \/ r # NoRun /\ ShowsForecast(r)
        /\ view.run # NoRun /\ view.status = "SUCCESS" => ~fellBack[view.run[1]]

(* Everything a post reported as matched is what accuracy compares, with   *)
(* the event of its run, and accuracy compares nothing else: each value as *)
(* the last post of its point sent it, none of a post that failed on the   *)
(* way, none without its point.                                            *)
ActualsAreReported ==
    /\ \A q \in Points : actual[q] # NotMeasured =>
          /\ <<actual[q].by, q>> \in matches
          /\ actual[q].has = WithNet(body[actual[q].by].has)
    /\ \A m \in matches : m[2] \in Compared /\ post[m[1]] \in {"answered", "unsure"}
    /\ \A p \in Posts : post[p] = "answered" => said[p] = Cardinality({m \in matches : m[1] = p})

-----------------------------------------------------------------------------
(* The inductive invariant *)

HasSaved(r) == "FORECAST_SAVED" \in events[r]

(* A run with a saved forecast has it whole and for good; the others have  *)
(* no points, and are completed only by a failure.                         *)
SavedRun(c, k) ==
    /\ pc[c] \in Saving
    /\ Target(c) = <<c, k>>
    /\ <<c, k>> \in completed
    /\ points[<<c, k>>] = rows[c]
    /\ status[<<c, k>>] # "none"
    /\ k = "inserted" => Ended(<<c, k>>)
    /\ k = "started" => rows[c] > 0

OtherRun(c, k) ==
    /\ points[<<c, k>>] = 0
    /\ <<c, k>> \in completed => pc[c] \in Saving /\ status[<<c, k>>] = "FAILED"

SavesOK == \A c \in Calls, k \in Kinds :
    IF HasSaved(<<c, k>>) THEN SavedRun(c, k) ELSE OtherRun(c, k)

(* A call that has a run row has rows to save. *)
StartedOK == \A c \in Calls :
    /\ pc[c] = "new" => known[c] = NoRun
    /\ known[c] # NoRun => request[c].horizon
    /\ pc[c] \in {"saving", "replacing"} /\ request[c].horizon => rows[c] > 0

(* The run saved last is the one completed last, but for those that were   *)
(* being saved at the same time.                                           *)
OverlapOK == \A c \in Calls, r \in Runs :
    /\ pc[c] = "replacing" /\ HasSaved(r) /\ CompletedAt(r) >= began[c].save => r \in overlap[c]
    /\ HasSaved(r) /\ lastSaved \in {c} \X Kinds =>
          r = lastSaved \/ CompletedAt(r) < CompletedAt(lastSaved) \/ r \in overlap[c]

ClockOK == \A c \in Calls : began[c].save <= clock

SavedLastOK ==
    /\ lastSaved # NoRun => HasSaved(lastSaved)
    /\ lastSaved = NoRun => /\ \A r \in Runs : ~HasSaved(r)
                            /\ \A i \in Horizon : latest[i].run = NoRun

CallsInv == RunsInv /\ SavesOK /\ StartedOK /\ OverlapOK /\ ClockOK /\ SavedLastOK

(* The forecast an answer shows was saved last while it read. *)
Shows == \E r \in asOf :
    \/ r = NoRun /\ ShowsNothing
    \/ r # NoRun /\ HasSaved(r) /\ ShowsForecast(r)

(* With an empty projection it has no rows, and is the completed run a     *)
(* choice must come after.                                                 *)
SavedBefore(r) ==
    \/ r = NoRun /\ \A s \in Runs : HasSaved(s) => s \in asOf
    \/ /\ r # NoRun /\ HasSaved(r) /\ rows[r[1]] = 0
       /\ \A s \in Runs : HasSaved(s) =>
             s \in asOf \/ CompletedAt(s) < CompletedAt(r) \/ s \in overlap[r[1]]

ChosenOK ==
    /\ view.run # NoRun
    /\ IF HasSaved(view.run)
       THEN \E r \in asOf \ {NoRun} : HasSaved(r) /\ view.run \in {r} \union overlap[r[1]]
       ELSE NoRun \in asOf

ViewOK ==
    /\ view.at \in {"naming", "answered"} => Shows
    /\ view.at = "naming" => view.run # NoRun
    /\ view.at = "choosing" => ShowsNothing /\ \E r \in asOf : SavedBefore(r)
    /\ view.at = "fetching" => ChosenOK
    /\ view.status = "SUCCESS" => view.run # NoRun /\ ~fellBack[view.run[1]] /\ pc[view.run[1]] \in Saving

PostsOK == \A p \in Posts :
    /\ found[p] # NoPoint => HasPoint(found[p])
    /\ \A q \in mine[p] : HasPoint(q)
    /\ (found[p] # NoPoint \/ mine[p] # {} \/ left[p] # {}) => Open(p)

ViewsInv == CallsInv /\ ViewTypeOK /\ ViewOK /\ PostsOK /\ ActualsAreReported
=============================================================================
