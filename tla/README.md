# AIEMS in TLA+

Specifications, model-checking configurations and machine-checked proofs for the
energy management system in `src/`. Every definition is translated from the
code; `PROJECT.json` (`map`) names the lines each one stands for, `hazards` what
in this code is hard to test and which property watches it.

## 1. The system

AIEMS controls a microgrid: solar panels, batteries (ESS), diesel generators,
loads and switches, simulated behind an MQTT broker. Its services are Python
processes around Redis; an AI service forecasts solar power and load, and a set
of scripts collects what its models are trained on.

```
 devices --MQTT--> ingestion --mg:sensor:data--> state-processor --mg:state:result--> db-writer --> TimescaleDB
    ^   \              \                               | state:* keys     \             ^   ^
    |    ack            +-- ems:topology:<site> --+    v                  GET topology  |   |
    +--- control <-------------------------- states, topology <-----------+             |   |
            |  ^                                                mg:db:write ------------+   |
            |  +-- HTTP POST /operator-commands                 mg:emergency:event ---------+
            +----- desired:*, alert keys, curtailment, diesel start (Redis)

 operator --HTTP--> AI service (gunicorn workers) --> PostgreSQL: forecasts, site metadata, load profiles
                        |   \-- RunPod job, or the same code inline --> satellite and weather services
                        +-- GET states of the panels (state-processor)

 collectors --files--> archive drive --> shards of training data --> bundles --> training
```

| Component | State it keeps | Hard behaviour | Correct when |
|---|---|---|---|
| **control: command delivery** (`mqtt_commander.py`, `api.py`) | `_pending_acks`, `_retry_counts`, `_pending_verify`, cooldowns | four coroutines and real HTTP threads over shared dicts; lost, late, duplicated ACKs; retries under new ids | one verdict per command; an answer ends the retries; failure only after all attempts; every command ends |
| **control: verification and history** (`mqtt_commander.py`, `db_writer.py`, db-writer) | verification tasks, `control_history` rows | sleeping tasks, entries that fail, the stale clean-up beside the updates | one result per accepted command; a row never says what did not happen |
| **control: rules** (`domain/rules`) | keys in Redis, dicts in memory | noted before sent: an exception in between drops the rest; modes lag behind devices | what is noted was told unless its batch was dropped; engines run their minimum; a deficit is answered |
| **control, ingestion, state-processor: topology** | cached document, switch states, graph | two ways of one fact, overtaking each other, over keys that expire | an answer shows the plant as last told, and follows it |
| **ingestion, state-processor, db-writer: telemetry** | windows, consumer groups, buffers | failed publications put back, entries read but not acknowledged, restarts | in order, counted at most once, acknowledged is lost in three ways only |
| **AI service: forecasts** (`forecast_service.py`, `forecast_repository.py`) | runs, points, events, the latest projection | overlapping transactions, fallbacks, killed workers, a COMMIT without confirmation | the projection is of the last save; a response says what is stored |
| **AI service: live forecast** (`live_satellite_service.py`, `runpod_client.py`) | frames, weather, warnings, the job | two services that fail hour by hour, a job that may be lost | what was assumed is told; the caller is released |
| **AI service: site data** | metadata and profile rows | read, ask elsewhere, write the whole row | what an operator chose and no panel reports stays, unless a call overlaps the save; a profile is of its prompt |
| **control: list of commands** (`api.py`) | `control_history` as a reader pages through it | rows added late, dropped, page sizes cut | no command is passed over, none taken for another |
| **AI data: archive, collectors, training data** | files and manifests on one drive | stopped at any step, skipped by later runs | what is kept is whole, what is missing is listed, an image is its row's |
| **AI training jobs** (`train.py`, `checkpoint.py`, `handler.py`) | checkpoints, models, metrics, a warm worker's disk | stopped at any step, resumed, files of earlier jobs | an answer is of its own job, `best.pt` is the best saved |
| frontend, gateway, infrastructure, models | | views, configuration, numerical code | outside this project (section 7) |

## 2. What is modelled

| Module | Stands for | Built on |
|---|---|---|
| `CommandDelivery` | what a command is promised: attempts, one outcome (abstract) | |
| `MqttCommander` | rule loop, commander, operator threads, devices, restart | implements `CommandDelivery` |
| `ClosedLoop` | the verification tasks the ACK listener spawns | `MqttCommander` |
| `ControlHistory` | `mg:db:write` entries about commands and the rows made of them | `ClosedLoop` |
| `Topology` | the graph: lines that carry power, what reaches a load | |
| `Dispatch` | ESS and diesel rules with the devices they drive | `Topology` |
| `RuleMemory` | what the safety, isolation, load and solar rules remember | |
| `TopologyFeed` | topology messages, switch reports, the answer of `GET topology` | `Topology` |
| `Telemetry` | coalescer, state-processor worker, db-writer buffer | |
| `ForecastRuns` | forecast calls and the tables they share | |
| `ForecastViews` | `GET latest` beside the calls, the posts of measured values, what accuracy compares | `ForecastRuns` |
| `LiveForecast` | one live prediction, in the service or in a RunPod job | |
| `SiteData` | site metadata and load profiles | |
| `Archive`, `Collectors`, `TrainingData` | the drive: satellite archive, all collectors, shards and bundles | each extends the one before |
| `TrainingJobs` | jobs of a RunPod worker and trainings of a server, with their files | |
| `CommandListing` | the pages of `GET /api/control/commands` | |

The modules `MC...` give the instances whose constants are functions or sets of records; the theorems
are in `CommandProofs`, `DispatchProofs`, `RuleMemoryProofs`, `TopologyFeedProofs`,
`TelemetryProofs`, `ForecastProofs`, `SiteDataProofs` and `DriveProofs`.

**How actions are cut.** Services on one event loop switch only at an await, so an
action is the code between two of them; the operator's HTTP threads are real
threads and get one action per statement that touches shared state; a gunicorn
worker gets one action per statement of the database or request to another
service; a script one per file it writes. Time is abstract: what may run out may
do so at any moment, and where a count of cycles matters (`MinRun`, `Hold`) it is a
bounded counter. A call that raises may have taken effect before it raised.

**MqttCommander.** `pending`, `tracked`, `verify`, `cooldown` are the dicts. `cmd` says
what each id is, and its `fate` (a history variable) is `open` until the listener
takes the ACK, the checker gives it up or the process restarts. The operator's
threads can break an iteration of another thread (`OperatorBreaksChecker`,
`OperatorBreaksLoop`). Abstract: what the rules want, the comparison with the
reported mode (`LoopSkip` may refuse any command), topics and payloads.

**CommandDelivery** knows of no message, dict, task or clock: a command is entitled
to some attempts, makes them while unanswered, and ends once. The mapping takes the
chain of ids that are attempts of one command to that command.

**ControlHistory.** `writes` is the stream per command, `row` the table row, `taken` how
far the db-writer has read. An entry that fails stays in the pending list of the
consumer group, which no code reads.

**Dispatch.** Every cycle reads the modes last reported and the topology last fetched,
evaluates the rules and sends at most one order per device. The devices are not
in the repository; they are what the rules suppose of them. `ran` and `offSeen`
are history variables: how long the engine really ran, and that a cycle saw it off.

**RuleMemory.** A cycle judges the alerts one by one, decides on the loads and the
curtailment, sends its command and publishes its events; it may be ended anywhere
by an exception. `told`, `dropped`, `forgotten` are history variables.

**TopologyFeed.** `inbox` are topology messages under way, `cache` the document,
`telemetry` and `state` the reports of the switches and their keys, `known` and
`graph` what control dispatches by. `cachedAt` and `disturbed` are history: which
snapshot no loss or overtaking came after. Both modes are modelled, with
LOCAL_SIM_TOPOLOGY_MQTT_ENABLED and without.

**Telemetry.** A window is its latest sample and the set of samples counted in it; the
two streams have a consumer group each. A sample is its number.

**ForecastRuns.** The save is one transaction at READ COMMITTED: the DELETE sees what is
committed when it starts, waits for rows that others hold and skips those that are
gone; the INSERTs update in place. A worker may be killed at any point.

**ForecastViews.** An action is one statement, because each has a snapshot of its own:
`view` is where `GET latest` has come, `asOf` the runs that were saved last at some moment
while it read. A post of measured values writes its points one by one in a transaction;
`mine` is what it wrote, `said` the number of matches it answered.

**LiveForecast.** The search goes back hour by hour and time by time; each request may
have a frame, lack it or fail. `asked` is history.

**SiteData.** A row is told apart by the panels it was computed from and its kept
fields. `choice`, `overtook` and `stale` are history: what an operator saved last,
and whether a call that had read before wrote after it.

**Archive, Collectors, TrainingData.** A file is whole, torn (or cut) or absent; a behaviour
follows one script over many runs, each of which may be stopped at any step.
Nothing but the drive remembers.

**TrainingJobs.** A process opens its files one by one, which empties them, and closes them
whole. `tried` (history) are the errors of the epochs saved since the start, or since the
resume with the one resumed from; `spoilt` says that a kill came between `latest.pt` and
`best.pt` of an epoch and no better one was saved since.

**CommandListing.** Commands are numbered by their timestamps, which differ. An operator's is
taken at the POST, and its row is written at any later time or never; a rule's command brings
none, and the db-writer stamps its row at the INSERT (`timescale_writer.py:20-23`). The oldest
go. `StoredAs` and `RuleOrders` are what the two send, `ActionFromDb` is the way back. The
reader takes page after page until one is empty; `start` (history) is what matched when it
began.

## 3. What the runs check

| Run | Properties | Instance | Distinct states |
|---|---|---|---|
| `cmd_operator` | `OneVerdictPerCommand` | a rule and an operator command of one device, a retry, late answers, failing calls | 4.2 million |
| `cmd_liveness` | `AtMostTwoLiveAttempts`, `CommandConcludes` | two rule commands with a retry each, a restart, no answer after its timeout was noticed | 475 thousand |
| `cmd_checker_dies` (violation) | `CommandConcludes` | the same with late answers: the checker dies | |
| `history_rows` | `NoRuleAckOrphaned`, `VerifiedOnceWhenAccepted`, `AnswerRowsAreTrue`, `AnswerIsFinal`, `DeliversAsPromised` | a rule command and its retry with everything that can go wrong: duplicated and late answers, slow and failing calls, lost entries, a restart, the clean-up | 675 thousand |
| `telemetry` | `ShownInOrder`, `CountedOnce`, `AckedIsKept`, `DeviceGetsThrough` | two samples of two devices, a failing call, two restarts, buffers of one | 180 thousand |
| `control_rules` | `RunsItsMinimum`, `DeficitAnswered`, `SurplusStopsEngine` | `Dispatch`: a load with battery and sun beside it, an engine over a switch and on the battery | 111 thousand |
| | `NotedIsTold`, `LimitIsKnown`, `PublishedOnce`, `BadIsTold`, `ShortIsShed` | `RuleMemory`: one alert of each kind, two loads, three changes, a failure | 137 thousand |
| `topology_feed` | `AnswerIsPlant`, `GraphFollowsPlant` | two lines, one with a switch, two changes, two messages under way, two faults | 658 thousand |
| `forecasts` | `LatestIsLastSaved`, `AnswerIsTrue`, `CallsConclude` | `ForecastRuns`: three overlapping calls of all kinds, up to two rows, a failure or a kill | 447 thousand |
| | `AssumedIsTold`, `CallerIsReleased` | `LiveForecast`: up to two hours to predict, four searched, two times asked for around each | 504 thousand |
| `site_data` | `ChoiceKept`, `ProfileOfItsPrompt`, `SettlesOnPanels` | two panels, two calls, two prompts, a save, a fault | 566 thousand |
| `ai_data` | `RowsAreTheirImages`, `KeptIsOneAnswer`, `EndedIsTold`, `ArchiveComesHome`, `RangeComesHome` | ten scripts over two items, two months and two configurations, two faults | 376 thousand |
| `answers` | `LatestIsOfItsMoment` | `ForecastViews`: two calls, two failures, a reader between their statements | 1.06 million |
| | `ActualsAreReported` | `ForecastViews`: two calls, two overlapping posts, one for any run and one for a run it names | 710 thousand |
| | `AnswerIsOfItsJob`, `BestIsOfItsRun` | `TrainingJobs`: two jobs of three epochs with three errors, packages with and without the data of a stage, warm or new workers, resumes, kills | 922 thousand |
| | `ListingIsWhole` | `CommandListing`: four commands, an operator's and those of two rules, pages of one or, cut from three, of two, any filter | 575 thousand |
| `training_resume` (violation) | `ResumeContinues` | the same: a kill while `latest.pt` is written | |

Three runs check modules that share no state with each other (`MCControlRules`,
`MCForecasts`, `MCAnswers`). A behaviour of theirs is one of one module, chosen at the
beginning, while the state of the others rests; the states of the run are then the sum of
the modules' and not their product, and what each module does is all of its `Next`, under
its own fairness.

`PROJECT.json` has a mutant for each property: a plausible bug in the code the
module stands for, which the property finds in the same run.

**Why the bounds are enough to be of use.** One retry instead of three gives an attempt
that is not the first and one that is the last. One device, because every check
of the commander is per device; two commands are what interferes. Two devices in
`Telemetry`, for a flush that fails for one of them; two samples against a buffer of
one, for a full buffer and for a sample that overtakes. Three forecast calls, for
a transaction that waits for one while another commits. Two messages under way,
for one overtaking the other. Two months of two slots, for a month that is full
and one that is not. Three epochs with three errors, for a best one that is neither the first
nor the last, and a resume after it. Four commands and pages of two, for a row that moves from
one page to the next while another is dropped. Where a safety property has a theorem (section 4) the bounds
do not matter; `MaxChanges`, `MaxFaults`, `MaxCrashes` and the like bound behaviours
and nothing else. `CHECK_DEADLOCK FALSE` is said where all there is to do may be done.

**Fairness.**

* Commands: weak fairness of the checker's scan while something is pending, of its
  next step and of the loop's next step inside `send()`: the event loop runs what
  can run, every await in question ends, a timeout does come. Nothing is assumed
  of devices or network.
* Telemetry: weak fairness of ingestion's flush, whose sleep and XADD end.
* Dispatch: the loop runs, time passes, devices report, an order is answered or
  given up. Rule memory: the loop runs, the plant answers, and a key that is set
  again and again also expires again and again (strong: Redis has the TTL).
* Topology: the plant sends snapshots (strong: it may be busy with other
  messages), switches sample, the services handle what came, control asks.
* Forecasts: a worker that is not killed goes on; PostgreSQL grants a lock when
  its holder is gone. Live forecast: a request ends in its timeout; only the
  service's own work is fair, RunPod's is not.
* Site data: requests have timeouts, forecasts keep being asked for (strong).
* Archive and collectors: a script runs to its end, the operator comes back to
  each configuration (strong).

## 4. What is proved

TLAPS proves, for every value of the constants that satisfies the modules'
assumptions (sets finite where the code has a finite list, bounds natural
numbers, switches belonging to lines), and so for any number of devices, commands,
messages, calls, files and failures:

| Theorem | Property |
|---|---|
| **`CommandProofs`** `TypeCorrect` | `Spec => []TypeOK` |
| `TwoLiveAttemptsAtMost`, `AckEndsTheRetries`, `RuleAcksAwaited` | `AtMostTwoLiveAttempts`, `AckEndsRetries`, `NoRuleAckOrphaned` |
| `OneVerdict`, `FailureIsExhausted` | `OneVerdictPerCommand`, `FailureMeansExhausted` |
| `ImplementsDelivery` | `Spec => DeliversAsPromised`: every step is one of `CommandDelivery` or none of its business |
| `VerifiedOnce` | `LoopSpec => []VerifiedOnceWhenAccepted` |
| `RowsAreTrue`, `AnswersStay` | `HistorySpec => []AnswerRowsAreTrue`, `HistorySpec => AnswerIsFinal` |
| `PathKeepsItsPromises`, `WholeDeliversAsPromised` | the above of the whole: path, verification and db-writer |
| **`DispatchProofs`** `DispatchTypeCorrect`, `EnginesRunTheirMinimum` | `[]TypeOK`, `RunsItsMinimum` |
| **`RuleMemoryProofs`** `TypeCorrect`, `NotesAreTold`, `LimitsAreKnown`, `PublicationsTakeTurns` | `[]MemoryTypeOK`, `NotedIsTold`, `LimitIsKnown`, `PublishedOnce` |
| **`TopologyFeedProofs`** `FeedTypeCorrect`, `AnswersFollowPlant` | `[]TypeOK`, `AnswerIsPlant` |
| **`TelemetryProofs`** `TypeCorrect`, `OrderIsKept`, `CountsAreTrue`, `AckedIsNotLost` | `[]TypeOK`, `ShownInOrder`, `CountedOnce`, `AckedIsKept` |
| **`ForecastProofs`** `RunsTypeCorrect`, `ProjectionIsCurrent`, `AnswersAreTrue` | `[]TypeOK`, `LatestIsLastSaved`, `AnswerIsTrue` |
| `LatestAnswersAreOfTheirMoment`, `ActualsAreAsReported`, `WarningsTellAll` | `LatestIsOfItsMoment`, `ActualsAreReported`, `AssumedIsTold` |
| **`SiteDataProofs`** `SiteTypeCorrect`, `OperatorsChoiceIsKept`, `ProfilesAreTrue` | `[]TypeOK`, `ChoiceKept`, `ProfileOfItsPrompt` |
| `ListInvariant`, `ListingsAreWhole`, `NumberedPagesGoOn` | `[]ListInv`, `ListingIsWhole`, `PagesGoOn` |
| **`DriveProofs`** `ArchiveServes`, `IndexListsGaps`, `KeptIsWhole`, `EndTellsAll`, `BundlesAreTrue` | `ServedInFull`, `GapsAreListed`, `KeptIsOneAnswer`, `EndedIsTold`, `RowsAreTheirImages` |
| `JobsInvariant`, `AnswersAreOfTheirJobs`, `BestIsTheBest` | `[]JobInv`, `AnswerIsOfItsJob`, `BestIsOfItsRun` |

Every safety property and every action property that a passing run checks is so proved, and
some that no run needs any more: `TypeOK` of each module, `AckEndsRetries`,
`FailureMeansExhausted`, `ServedInFull`, `GapsAreListed`. Hardly any is inductive; what each
needs:

* *Commands.* `Typed` adds to `TypeOK` that a task in the middle of a command holds its
  id and a retry has retries left. `IInv`: ids are handed out in order,
  `_pending_acks` is exactly the open commands and `_retry_counts` its rule
  commands, a pending command is the latest of its chain, and so is the one in the
  checker's hands, unanswered. `VerdictInv`: no verdict is written of an open
  command, nor of one whose verdict someone is about to write. `FailureInv`: every
  attempt before the current one timed out. `ChainInv`: nothing follows the
  attempt that used up the retries, and only such a one is given up; the refinement needs it.
* *History.* `LogInv`: a task waits for a command that was accepted and has no result,
  entries of a command come as ACCEPTED, result. `RowInv`: an answer in a row is that of
  an entry taken, and only an accepted row is verified.
* *Dispatch.* `RunIsCounted`: since a cycle found the engine off, what is reported as
  running runs, and the key in Redis is no older than the run. The topology, the
  power flow and the battery are not needed: the theorem holds on any site.
* *Rule memory.* What is noted and not yet told is an event of this cycle still to be
  published, or was dropped with it by an exception or a restart: that this is the only way
  to lose one is what `NotesAreTold` says, and that it is told in the end is `BadIsTold`.
* *Topology.* `FeedOK`: from a snapshot on that nothing disturbed, the messages under
  way, merged in order into the document, make it what the plant is; `ReportsOK`: a
  report since the last change is how the switch is.
* *Telemetry.* Per service what it has in hand against the stream it reads: windows and
  envelopes are disjoint, entries read are those up to a number, copies are true and
  in order, a row is of entries nobody else holds.
* *Forecasts.* `SnapshotOK`: a row that a transaction neither deleted nor has still to
  delete is of a forecast saved meanwhile, and so is one that took the place of a row it
  has still to delete. `UnsavedOK`: a call whose COMMIT was not done has left nothing.
* *Forecast views.* `ViewsInv`: what was saved stays whole, since points are never deleted; the
  run completed last is the run saved last, except for saves that overlap it; the projection is
  empty only when the forecast saved last has no rows. A reader whose run was replaced between
  two statements finds its points all the same. A post holds the points it wrote until its
  COMMIT, so the events beside a value are those of its own post.
* *Live forecast.* The frames are exactly the hours that had one, the hours searched to
  their end are told of, the weather so far is told of.
* *Site data.* `KeepOK`: the row, and the rows in the hands of the calls that read theirs
  after the save, have the fields the operator chose.
* *Drive.* `ArchiveInv`, `CollectorsInv`, `DataInv`: what each script has written, what it
  remembers and what it has told, step by step.
* *Training jobs.* `StepInv`: files are opened one at a time and in the order of their writing.
  `OwnInv`: what a stage that runs or is completed has closed is whole and of this job, and so
  is what it read of the package; nobody else writes while it does. `ResultInv`: what was
  asked for is left, running or has a result. `BestInv`: the best value in memory is at most
  every error in `tried` and is the one in `best.pt`, but for the epoch being saved (`Saved`
  says whether that epoch is in `tried` already, which `latest.pt` is before `best.pt`).
* *List of commands.* `ListInv`: a matching row that was not told of has at least as many newer
  ones before it as the pages so far skip. Writing, late or in order, adds to them, dropping
  takes older rows only, and a page that did not tell it lies before it. That an empty page is the last needs
  a lemma on ranks: when some row has enough before it, one has just that many.

Each proof has the same layout: facts about the constants and the operators, a lemma
per action (what it does to the parts of the invariant it can disturb), a lemma that
`Next` keeps the invariant, the theorem. TLC checked each invariant on a small instance
first. One attempt failed for a good reason: `AnswerIsPlant` was not provable because
`TopologyFeed` let a switch that was deleted and put back keep an interlock which no
message had told of; the model now puts it back free, as the code that adds a switch to the
document takes it unless the message says otherwise (`mqtt_subscriber.py:219-225`).

**Only model-checked**, because liveness under fairness is out of this prover's reach:
`CommandConcludes`, `DeviceGetsThrough`, `DeficitAnswered`, `SurplusStopsEngine`,
`BadIsTold`, `ShortIsShed`, `GraphFollowsPlant`, `CallsConclude`, `CallerIsReleased`,
`SettlesOnPanels`, `ArchiveComesHome`, `RangeComesHome`. What the searches of `Topology`
compute for a graph of any size is an induction over data, which it cannot do either;
no theorem depends on it.

## 5. Assumptions about what is not in the repository

Devices and the simulator (MQTT): answer late, twice or never; a deleted switch that is put
back is free of interlocks; a publisher sends snapshots now and then. Redis: a consumer
group delivers an entry once; keys expire. PostgreSQL: READ COMMITTED as documented.
RunPod, the weather administration and the other data services answer as they please,
within their timeouts. TimescaleDB drops what is older than its retention. Timestamps of two
commands differ. `map` marks these definitions as external.

## 6. Where the code disagrees with its documents, or with itself

Two runs expect a violation, of what a document says:

* `cmd_checker_dies`: `mqtt_commander.py:309` pops expired ids without a default; an answer that
  comes while the checker works through its list ends the task with a KeyError, and commands
  then wait for ever, against `src/11-api/control-api.md:299`.
* `training_resume`: `checkpoint.py:27` writes `latest.pt` in place; a training killed meanwhile
  cannot be resumed, against `src/ems/ai/docs/jira/train.md:60`.

The rest was met while modelling; the models do what the code does:

* *Commands.* A retry's id has no row in `control_history` (`mqtt_commander.py:316`,
  `control-api.md:310`). Superseding does not reach a verification task that sleeps
  (`mqtt_commander.py:134`). An operator's command is published before it is registered. An
  ACK during `send()` releases a cooldown that starts afterwards (`api.py:255`). The key
  `verify:<device>:timeout` is never cleared by a success (`mqtt_commander.py:337`).
* *List of commands.* `control-api.md:151-152` pages by `limit` and `offset`, which
  `api.py:583-585` does not read: every page asked for this way is the first. Orders of the
  rules that no operator has are listed as `LOAD_CONTROL`, `CURTAILMENT` and `CLEAR_CURTAILMENT`
  (`api.py:444`), which are none of `CommandAction` (`control-api.md:106`).
* *Rules.* A battery at SOC_LOW is not dispatchable, so nothing stops its discharge
  (`power_flow.py:36`, `infra/init_postgres.sh:144`), and nothing charges it again. The zone
  deficit leaves out the engine's own power and an engine that feeds indirectly never
  stops (`diesel.py:17-34`). The curtailment key is deleted before the order that lifts it is
  sent (`solar.py:37`). Alert keys are set before the event is published (`api.py:254`). The run
  key survives a fault of the engine (`diesel.py:73-75`). A load noted as shed hides the zone
  rule, and no restore follows a restart (`load.py:144`). The fail-safe cannot fire: a state key
  expires after 30 s, STATE_TTL is 60 (`safety.py:275`).
* *Telemetry.* An envelope put back replaces newer samples of its window
  (`telemetry_coalescer.py:83`, `docs/telemetry-coalescing.md:80`). `xreadgroup` outside the
  try ends the only state worker.
* *Topology.* A switch's own event overwrites its state with UNKNOWN
  (`stream_consumer.py:56`). A partial message adds an unknown switch as CLOSED
  (`mqtt_subscriber.py:219`). Sequences of snapshots are not compared (`:164`). Without a row in
  the database a line is never energized, against `topology_graph.py:118`.
* *Forecasts.* gunicorn's timeout is 60 s, RunPod's 900 s (`docker-compose.yml:108`,
  `config.py:38`): such a run stays PARTIAL. An operator's save of site metadata is lost to a
  synchronization that read before. A site without live panels silently uses the stored row.
* *Data.* The months' runner counts files of both configurations and passes over a month that
  is full only of the other's (`run_gk2a_le2_archive_monthly.py:74-83`). A small file is
  listed but never repaired. A collector whose downloads all failed returns 0. Files written in
  place and cut by a kill stay: a cut KPX csv makes every later merge raise, a cut ASOS parquet
  every later run. A forced build of shards stopped half-way leaves new images under old
  tables. A village forecast answered 200 with an error text counts as completed.
* *Training.* A resume takes the error of the latest epoch for the best so far
  (`train.py:141`): `best.pt` may be replaced by a worse epoch. After a kill between the two
  saves it may stay behind, for the resumed run waits for a better one still.

## 7. Not modelled

The web frontend (views over the HTTP APIs), gateway, infrastructure and monitoring
(configuration); the models and the notebooks (numerical code and one-shot scripts); the alarm list with its acknowledgement (two statements on `event_log`) and the
other queries of the dashboard API; averages, `comms_health_log` and `device_meta` of the
db-writer; the sharing of a curtailment among plants; the use of profiles in a forecast; several
collectors on one drive at the same time; MQTT reconnects (messages missed meanwhile are lost
messages); the routes of the policies and of a single command. The map covers 30 % of the
implementation's lines, most of what holds state.

Considered and dropped as hazards, being plain defects of a line that no property of several
steps says more about: `xreadgroup` outside the try, the unreachable fail-safe, the timeout
key that is not cleared, the cooldown that starts late (all in section 6).

## 8. What could come next

The alarm list with the stores of the frontend, several collectors on one drive; an abstract specification of the
telemetry path (a log with two readers) that `Telemetry` implements.
