---------------------------- MODULE LiveForecast ----------------------------
(***************************************************************************)
(* A live prediction: what the sky looks like now is asked of the          *)
(* satellite's area service, what the weather will be of the forecast      *)
(* grids, and the model predicts from what came.  Neither service need     *)
(* answer, and a hole is filled - with another hour's frame, with the      *)
(* weather of now, with a default - so the answer carries warnings that    *)
(* say what was assumed.                                                   *)
(*                                                                         *)
(* The same code runs in the service or, with RunPod enabled, in a job of  *)
(* a serverless worker the service posts and polls: the caller waits on    *)
(* the one or on the other.  RunPod and the two services of the weather    *)
(* administration are external, and answer as they please.                 *)
(***************************************************************************)
EXTENDS Integers, Sequences, FiniteSets

CONSTANTS
    SearchHours,  \* hours back that the satellite's frames are looked for
    WeatherHours, \* hours back that an issue of the forecast is looked for
    Near,         \* times asked for around each hour, the hour itself first
    MaxTargets,   \* bound: hours to predict
    Deadline      \* polls of two seconds until the call times out

ASSUME LiveAssumption ==
    /\ SearchHours \in Nat /\ WeatherHours \in Nat
    /\ {Near, MaxTargets, Deadline} \subseteq Nat \ {0}

VARIABLES
    remote,   \* RunPod is enabled
    caller,   \* what the caller of predict waits for
    waited,   \* time the caller has polled
    job,      \* the status of the job of the prediction
    stage,    \* what the prediction is at
    targets,  \* hours to predict
    hour,     \* hours back the search has come
    tried,    \* times asked for around that hour
    records,  \* hours of which the satellite had a frame: at most three
    weather,  \* per target read: where its weather is from
    warned,   \* the warnings
    asked     \* history: what asking for each hour came to

call == <<remote, caller, waited, targets>>
work == <<stage, hour, tried, records, weather, warned, asked>>
liveVars == <<call, job, work>>

Frames  == 3
Origins == {"forecast", "in part", "nowcast"}

LiveTypeOK ==
    /\ remote \in BOOLEAN
    /\ caller \in {"off", "inline", "post", "poll", "answered", "raised"}
    /\ waited \in 0..Deadline /\ targets \in 0..MaxTargets
    /\ job \in {"none", "queued", "running", "completed", "failed"}
    /\ stage \in {"grid", "satellite", "weather", "nowcast", "predict", "done"}
    /\ hour \in 0..SearchHours \union 0..WeatherHours /\ tried \in 0..Near - 1
    /\ records \subseteq 0..SearchHours /\ Cardinality(records) <= Frames
    /\ weather \in Seq(Origins) /\ Len(weather) <= targets
    /\ asked \in [0..SearchHours -> {"not", "nothing", "failed", "nominal", "nearby"}]

LiveInit ==
    /\ remote \in BOOLEAN
    /\ caller = "off" /\ waited = 0 /\ job = "none" /\ targets = 0
    /\ stage = "grid" /\ hour = 0 /\ tried = 0
    /\ records = {} /\ weather = <<>> /\ warned = {}
    /\ asked = [h \in 0..SearchHours |-> "not"]

-----------------------------------------------------------------------------
(* The caller: predict, run_sync, _wait_for_job *)

Call ==
    /\ caller = "off"
    /\ targets' \in 1..MaxTargets
    /\ IF remote THEN caller' = "post" /\ job' = "queued"
       ELSE caller' = "inline" /\ job' = "running"
    /\ UNCHANGED <<remote, waited, work>>

\* What the service answers a post or a poll.
Body ==
    CASE job = "completed" -> "answered"
      [] job = "failed"    -> "raised"
      [] OTHER                -> "poll"

PostReturns ==
    /\ caller = "post"
    /\ caller' = Body
    /\ UNCHANGED <<remote, waited, targets, job, work>>

\* As if it polled for as long as the job goes on.
WaitsForEnd == job \in {"queued", "running"} \/ waited < Deadline

MayPoll == waited < Deadline

\* It sleeps, then asks: both take their time.
Poll ==
    /\ caller = "poll" /\ MayPoll
    /\ waited' = IF waited = Deadline THEN Deadline ELSE waited + 1
    /\ caller' = Body
    /\ UNCHANGED <<remote, targets, job, work>>

TimesOut ==
    /\ caller = "poll" /\ ~MayPoll
    /\ caller' = "raised"
    /\ UNCHANGED <<remote, waited, targets, job, work>>

\* A post that times out, a poll that fails.  The job goes on.
RequestFails ==
    /\ caller \in {"post", "poll"}
    /\ caller = "poll" => MayPoll
    /\ caller' = "raised"
    /\ UNCHANGED <<remote, waited, targets, job, work>>

InlineReturns ==
    /\ caller = "inline" /\ job \in {"completed", "failed"}
    /\ caller' = Body
    /\ UNCHANGED <<remote, waited, targets, job, work>>

JobStarts ==
    /\ job = "queued"
    /\ job' = "running"
    /\ UNCHANGED <<call, work>>

\* The worker is lost, or RunPod ends the job.
JobLost ==
    /\ remote /\ job \in {"queued", "running"}
    /\ job' = "failed"
    /\ UNCHANGED <<call, work>>

-----------------------------------------------------------------------------
(* The satellite: _resolve_grid, _fetch_satellite_sequence *)

At(s) == job = "running" /\ stage = s

Raise == job' = "failed" /\ UNCHANGED <<call, work>>

ResolveGrid ==
    /\ At("grid")
    /\ \/ stage' = "satellite" /\ UNCHANGED <<call, job, hour, tried, records, weather, warned, asked>>
       \/ Raise

Tell(what) == warned' = warned \union what

\* The hour is asked for: the search goes on, or has the frames it wants or
\* nowhere left to look.
HourDone(kept, told) ==
    /\ tried' = 0
    /\ IF Cardinality(kept) >= Frames \/ hour = SearchHours
       THEN /\ stage' = "weather" /\ hour' = 0
            /\ Tell(told \union IF kept = {} THEN {<<"all missing">>}
                               ELSE IF Cardinality(kept) < Frames THEN {<<"only", Cardinality(kept)>>}
                               ELSE {})
       ELSE hour' = hour + 1 /\ Tell(told) /\ UNCHANGED stage

\* A time of which one of the two products has a value ends the hour.
TimeMatches ==
    /\ At("satellite")
    /\ asked' = [asked EXCEPT ![hour] = IF tried = 0 THEN "nominal" ELSE "nearby"]
    /\ records' = records \union {hour}
    /\ HourDone(records', IF tried = 0 THEN {} ELSE {<<"nearest", hour>>})
    /\ UNCHANGED <<call, job, weather>>

\* A time of which neither has one, or whose request fails.
TimeMisses ==
    /\ At("satellite")
    /\ \E fails \in BOOLEAN :
           LET failed == fails \/ asked[hour] = "failed"
               told == IF fails THEN {<<"request failed", hour>>} ELSE {} IN
           /\ asked' = [asked EXCEPT ![hour] = IF failed THEN "failed" ELSE "nothing"]
           /\ IF tried + 1 < Near
              THEN tried' = tried + 1 /\ Tell(told) /\ UNCHANGED <<stage, hour>>
              ELSE HourDone(records, told \union IF failed THEN {} ELSE {<<"no data near", hour>>})
    /\ UNCHANGED <<call, job, records, weather>>

-----------------------------------------------------------------------------
(* The weather of a target: _fetch_weather *)

NextTarget(snapshot, told) ==
    /\ weather' = Append(weather, snapshot)
    /\ hour' = 0
    /\ stage' = IF Len(weather') = targets THEN "predict" ELSE "weather"
    /\ Tell(told)

\* An issue that has the wind at the site serves.  The requests of other
\* variables may fail; a value that stands for a missing one is no failure.
IssueServes ==
    /\ At("weather")
    /\ \E fails \in BOOLEAN :
           IF fails THEN NextTarget("in part", {<<"partial", hour>>}) ELSE NextTarget("forecast", {})
    /\ UNCHANGED <<call, job, tried, records, asked>>

IssueLacks ==
    /\ At("weather")
    /\ Tell({<<"no issue", hour>>})
    /\ IF hour = WeatherHours THEN hour' = 0 /\ stage' = "nowcast"
       ELSE hour' = hour + 1 /\ UNCHANGED stage
    /\ UNCHANGED <<call, job, tried, records, weather, asked>>

\* The weather of now serves whatever came of it: a calm for a missing wind.
ReadNowcast ==
    /\ At("nowcast")
    /\ NextTarget("nowcast", {<<"nowcast">>})
    /\ UNCHANGED <<call, job, tried, records, asked>>

-----------------------------------------------------------------------------
(* The images and the prediction: _build_proxy_images, predict *)

Latest == CHOOSE h \in records : \A g \in records : h <= g

\* As if the frames were the records in their order, whatever hours they are of.
FrameInOrder(h) ==
    LET inOrder == {r \in records : Cardinality({g \in records : g < r}) = h - Latest} IN
    IF inOrder = {} THEN Latest ELSE CHOOSE r \in inOrder : TRUE

\* A frame for the newest hour there is and each of the two before it: the
\* record of the hour, or the newest again.
Expected == {Latest + n : n \in 0..Frames - 1}

FrameOf(h) == IF h \in records THEN h ELSE Latest

Copies == IF records = {} THEN {} ELSE {h \in Expected : FrameOf(h) # h}

\* The model is run on the features of all targets, or raises.
RunModel ==
    /\ At("predict")
    /\ \/ /\ job' = "completed"
          /\ stage' = "done"
          /\ Tell({<<"duplicated", h>> : h \in Copies})
          /\ UNCHANGED <<call, hour, tried, records, weather, asked>>
       \/ Raise

Job == JobStarts \/ ResolveGrid \/ TimeMatches \/ TimeMisses \/ IssueServes \/ IssueLacks \/ ReadNowcast \/ RunModel
Client == PostReturns \/ Poll \/ TimesOut \/ InlineReturns

LiveNext == Call \/ Client \/ RequestFails \/ Job \/ JobLost

LiveSpec == LiveInit /\ [][LiveNext]_liveVars

\* A request ends in its timeout.  RunPod need not run a job; the service runs
\* its own.
LiveFairSpec == LiveSpec /\ WF_liveVars(Client) /\ WF_liveVars(~remote /\ Job)

-----------------------------------------------------------------------------
\* The answer says what was assumed (live_satellite_service.py:491-701).  Of the
\* newest hour the satellite had a frame of and the two before it, an image is the
\* hour's own or a copy the answer tells of - and it is the hour's own whenever
\* the service had it, in the hours searched.  A search without any frame, and the
\* weather of now used as that of the hour to predict, are told, and so is a
\* forecast with a request that failed.  What the code does not tell: a value
\* missing from a grid, a product missing from a frame.
Had(h) == h \in DOMAIN asked /\ asked[h] \in {"nominal", "nearby"}

FramesAreTold ==
    IF \E h \in 0..SearchHours : Had(h)
    THEN /\ Had(Latest) /\ \A h \in 0..Latest - 1 : ~Had(h)
         /\ \A h \in Expected :
                IF Had(h) THEN FrameOf(h) = h
                ELSE FrameOf(h) = Latest /\ <<"duplicated", h>> \in warned
         /\ \A h \in 0..Latest : asked[h] \in {"nothing", "nearby"} =>
                \E what \in {"no data near", "nearest"} : <<what, h>> \in warned
    ELSE <<"all missing">> \in warned

WeatherIsTold ==
    \A t \in 1..targets :
        /\ weather[t] = "nowcast" => <<"nowcast">> \in warned
        /\ weather[t] = "in part" => \E h \in 0..WeatherHours : <<"partial", h>> \in warned

AssumedIsTold == job = "completed" => Len(weather) = targets /\ FramesAreTold /\ WeatherIsTold

\* Whoever asks for a prediction is answered or told it failed, though RunPod
\* never run the job (runpod_client.py:58-75).
CallerIsReleased == caller # "off" ~> caller \in {"answered", "raised"}

-----------------------------------------------------------------------------
(* The inductive invariant *)

StagesOK ==
    /\ job = "none" => targets = 0 /\ stage = "grid" /\ caller = "off"
    /\ job # "none" => targets >= 1 /\ caller # "off"
    /\ job = "completed" => stage = "done"
    /\ stage = "grid" => hour = 0
    /\ stage \in {"grid", "satellite"} =>
          /\ hour \in 0..SearchHours /\ ~Had(hour) /\ Cardinality(records) < Frames
          /\ \A h \in 0..SearchHours : h > hour => asked[h] = "not"
          /\ weather = <<>>
    /\ stage = "weather" => hour \in 0..WeatherHours
    /\ stage \in {"weather", "nowcast"} => Len(weather) < targets
    /\ stage \in {"predict", "done"} => Len(weather) = targets

\* The hours are searched from the newest on.
RecordsOK ==
    /\ records = {h \in 0..SearchHours : Had(h)}
    /\ records # {} => \E h \in records : \A g \in records : h <= g
    /\ stage \in {"grid", "satellite"} => \A h \in records : h < hour

\* An hour that was searched to its end is told of.
HoursOK ==
    /\ \A h \in 0..SearchHours :
           h < hour \/ stage \notin {"grid", "satellite"} =>
              /\ asked[h] = "nothing" => <<"no data near", h>> \in warned
              /\ asked[h] = "nearby" => <<"nearest", h>> \in warned
    /\ stage \notin {"grid", "satellite"} /\ records = {} => <<"all missing">> \in warned

WeatherOK ==
    \A t \in 1..Len(weather) :
        /\ weather[t] = "nowcast" => <<"nowcast">> \in warned
        /\ weather[t] = "in part" => \E h \in 0..WeatherHours : <<"partial", h>> \in warned

CopiesOK == stage = "done" => \A h \in Copies : <<"duplicated", h>> \in warned

LiveInv == LiveTypeOK /\ StagesOK /\ RecordsOK /\ HoursOK /\ WeatherOK /\ CopiesOK
=============================================================================
