----------------------------- MODULE Telemetry -----------------------------
(***************************************************************************)
(* The way of a measurement: the ingestion service coalesces the samples   *)
(* of a device into one envelope per window and publishes it to            *)
(* mg:sensor:data; the state-processor turns each envelope into a          *)
(* snapshot, stores it under the device's state key and publishes it to    *)
(* mg:state:result; the db-writer buffers the snapshots and inserts one    *)
(* row per device and second into sensor_data.                             *)
(*                                                                         *)
(* Each service is one event loop; an action is the code between two await *)
(* points.  A sample is its number in the order of arrival; what it        *)
(* measures is left out.  Both streams are read by a consumer group: an    *)
(* entry is delivered once, and stays in the group's pending list until it *)
(* is acknowledged.                                                        *)
(***************************************************************************)
EXTENDS Integers, Sequences, FiniteSets

CONSTANTS
    Devices,      \* devices that send telemetry
    MaxSamples,   \* bound: samples of all devices
    SensorBatch,  \* entries the state-processor reads at once (100)
    ResultBatch,  \* entries the db-writer reads at once (50)
    BufferSize,   \* _MAX_BUFFER_SIZE
    MaxFaults,    \* bound: calls to Redis or the database that raise
    MaxCrashes    \* bound: restarts of a service

ASSUME DevicesAssumption == Devices # {} /\ IsFiniteSet(Devices)
ASSUME SizesAssumption == {SensorBatch, ResultBatch, BufferSize} \subseteq Nat \ {0}
ASSUME LimitsAssumption == {MaxSamples, MaxFaults, MaxCrashes} \subseteq Nat

Samples  == 1 .. MaxSamples
NoSample == 0

VARIABLES
    taken,       \* samples received so far
    window,      \* per device: its window's latest sample and the samples counted in it
    flush,       \* the flush under way: envelopes, devices still to publish, devices that failed
    sensor,      \* mg:sensor:data
    sensorRead,  \* number of its entries delivered to the group
    unacked,     \* those not acknowledged
    worker,      \* the state-processor: where it awaits, the entries left of its batch
    state,       \* per device: the sample under its state key
    result,      \* mg:state:result
    resultRead,  \* number of its entries delivered to the group
    unconfirmed, \* those not acknowledged
    writer,      \* the db-writer's consumer: where it awaits, the entries left of its batch
    buffer,      \* per device: entries of mg:state:result in the aggregator
    inserting,   \* per device: entries in the row being inserted
    sensorData,  \* the batches of rows inserted, oldest first
    lost,        \* history: entries dropped by a full buffer, a failed INSERT or a restart
    faults,      \* calls that raised so far
    crashes      \* restarts so far

ingestion == <<taken, window, flush>>
group     == <<sensorRead, unacked>>
processor == <<group, worker, state>>
tables    == <<buffer, inserting, sensorData, lost>>
dbWriter  == <<resultRead, unconfirmed, writer, tables>>
limits    == <<faults, crashes>>
vars      == <<ingestion, sensor, processor, result, dbWriter, limits>>

-----------------------------------------------------------------------------
(* Helpers *)

EmptyWindow == [latest |-> NoSample, over |-> {}]
Windows     == [latest : Samples \union {NoSample}, over : SUBSET Samples]

IdleFlush == [items |-> [d \in Devices |-> EmptyWindow], todo |-> {}, failed |-> {}]
Reading   == [at |-> "read", batch |-> <<>>]
NoRows    == [d \in Devices |-> <<>>]

Members(s) == {s[i] : i \in DOMAIN s}

(* Mutant: the last delivered entry comes again. *)
EntriesFromDone(stream, done, n) ==
    [i \in 1 .. (IF Len(stream) - done < n THEN Len(stream) - done ELSE n) |-> done + i - 1]

(* What XREADGROUP hands out next: at most n entries of those behind done. *)
NextEntries(stream, done, n) ==
    [i \in 1 .. (IF Len(stream) - done < n THEN Len(stream) - done ELSE n) |-> done + i]

(* On to the next entry of the batch, at the given point. *)
Advance(consumer, first) ==
    [at |-> IF Len(consumer.batch) = 1 THEN "read" ELSE first, batch |-> Tail(consumer.batch)]

Fault   == faults < MaxFaults /\ faults' = faults + 1 /\ UNCHANGED crashes
Restart == crashes < MaxCrashes /\ crashes' = crashes + 1 /\ UNCHANGED faults

-----------------------------------------------------------------------------
Init ==
    /\ taken = 0
    /\ window = [d \in Devices |-> EmptyWindow]
    /\ flush = IdleFlush
    /\ sensor = <<>> /\ sensorRead = 0 /\ unacked = {}
    /\ worker = Reading
    /\ state = [d \in Devices |-> NoSample]
    /\ result = <<>> /\ resultRead = 0 /\ unconfirmed = {}
    /\ writer = Reading
    /\ buffer = NoRows /\ inserting = NoRows
    /\ sensorData = <<>> /\ lost = {}
    /\ faults = 0 /\ crashes = 0

-----------------------------------------------------------------------------
(* Ingestion: TelemetryCoalescer. *)

(* _TelemetryWindow.add: what comes last is the latest. *)
Add(w, sample) == [latest |-> sample, over |-> w.over \union {sample}]

SampleArrives(d) ==
    /\ taken < MaxSamples
    /\ taken' = taken + 1
    /\ window' = [window EXCEPT ![d] = Add(@, taken + 1)]
    /\ UNCHANGED <<flush, sensor, processor, result, dbWriter, limits>>

(* Mutant: the windows are kept. *)
KeptWindows == window

NewWindows == [d \in Devices |-> EmptyWindow]

(* Every second: the windows become envelopes, new windows are begun. *)
FlushBegin ==
    /\ flush.todo = {}
    /\ \E d \in Devices : window[d] # EmptyWindow
    /\ flush' = [items  |-> window,
                 todo   |-> {d \in Devices : window[d] # EmptyWindow},
                 failed |-> {}]
    /\ window' = NewWindows
    /\ UNCHANGED <<taken, sensor, processor, result, dbWriter, limits>>

FlushNothing ==
    /\ flush.todo = {}
    /\ \A d \in Devices : window[d] = EmptyWindow
    /\ UNCHANGED vars

(* Mutant: what could not be published is dropped. *)
Dropped(failed) == window

(* _restore_pending: an envelope that could not be published is added to   *)
(* the window its device has by now, as one more sample.                   *)
Restored(failed) ==
    [d \in Devices |-> IF d \in failed THEN Add(window[d], flush.items[d].latest) ELSE window[d]]

Envelope(d) == [dev |-> d, sample |-> flush.items[d].latest, over |-> flush.items[d].over]

(* publish() returned, or raised, for device d: on to the next envelope,   *)
(* after the last one those that failed are put back.                      *)
FlushGoesOn(d, failed) ==
    LET left == flush.todo \ {d} IN
    /\ d \in flush.todo
    /\ flush' = IF left = {} THEN IdleFlush ELSE [flush EXCEPT !.todo = left, !.failed = failed]
    /\ window' = IF left = {} THEN Restored(failed) ELSE window
    /\ UNCHANGED <<taken, processor, result, dbWriter>>

PublishEnvelope(d) ==
    /\ FlushGoesOn(d, flush.failed)
    /\ sensor' = Append(sensor, Envelope(d))
    /\ UNCHANGED limits

(* XADD raises: nothing was added, or only the reply was lost. *)
PublishFails(d, added) ==
    /\ FlushGoesOn(d, flush.failed \union {d})
    /\ sensor' = IF added THEN Append(sensor, Envelope(d)) ELSE sensor
    /\ Fault

IngestionRestarts ==
    /\ Restart
    /\ window' = [d \in Devices |-> EmptyWindow]
    /\ flush' = IdleFlush
    /\ UNCHANGED <<taken, sensor, processor, result, dbWriter>>

-----------------------------------------------------------------------------
(* State-processor: _consume_normal and StatePublisher.publish. *)

WorkerRead ==
    /\ worker.at = "read"
    /\ sensorRead < Len(sensor)
    /\ LET batch == NextEntries(sensor, sensorRead, SensorBatch) IN
          /\ worker' = [at |-> "set", batch |-> batch]
          /\ sensorRead' = sensorRead + Len(batch)
          /\ unacked' = unacked \union Members(batch)
    /\ UNCHANGED <<ingestion, sensor, state, result, dbWriter, limits>>

(* XREADGROUP is outside any try block: the worker's thread ends. *)
WorkerReadFails ==
    /\ worker.at = "read"
    /\ Fault
    /\ worker' = [at |-> "dead", batch |-> <<>>]
    /\ UNCHANGED <<ingestion, sensor, group, state, result, dbWriter>>

Current == Head(worker.batch)

(* The device's desired state has been read; the state key is written. *)
WorkerSet ==
    /\ worker.at = "set"
    /\ state' = [state EXCEPT ![sensor[Current].dev] = sensor[Current].sample]
    /\ worker' = [worker EXCEPT !.at = "publish"]
    /\ UNCHANGED <<ingestion, sensor, group, result, dbWriter, limits>>

Snapshot == [dev |-> sensor[Current].dev, sample |-> sensor[Current].sample, entry |-> Current]

(* The snapshot goes to mg:state:result and to the dashboards. *)
WorkerPublish ==
    /\ worker.at = "publish"
    /\ result' = Append(result, Snapshot)
    /\ worker' = [worker EXCEPT !.at = "ack"]
    /\ UNCHANGED <<ingestion, sensor, group, state, dbWriter, limits>>

WorkerAck ==
    /\ worker.at = "ack"
    /\ unacked' = unacked \ {Current}
    /\ worker' = Advance(worker, "set")
    /\ UNCHANGED <<ingestion, sensor, sensorRead, state, result, dbWriter, limits>>

(* Mutant: an entry that failed is acknowledged as well. *)
AlwaysAcknowledged(entry) == unacked \ {entry}

StaysPending(entry) == unacked

(* A call raised: the entry is left unacknowledged, the next one is taken. *)
WorkerFails(added) ==
    /\ worker.at \in {"set", "publish", "ack"}
    /\ added => worker.at = "publish"
    /\ Fault
    /\ result' = IF added THEN Append(result, Snapshot) ELSE result
    /\ unacked' = StaysPending(Current)
    /\ worker' = Advance(worker, "set")
    /\ UNCHANGED <<ingestion, sensor, sensorRead, state, dbWriter>>

(* Mutant: what is still pending is processed again. *)
PendingAgain ==
    LET first == CHOOSE e \in unacked : \A f \in unacked : e <= f IN
    IF unacked = {} THEN Reading ELSE [at |-> "set", batch |-> <<first>>]

(* Only new entries are read after a restart. *)
StartWorker == Reading

WorkerRestarts ==
    /\ Restart
    /\ worker' = StartWorker
    /\ UNCHANGED <<ingestion, sensor, group, state, result, dbWriter>>

-----------------------------------------------------------------------------
(* Db-writer: _handle_state_result and WindowAggregator, _batch_flush. *)

WriterRead ==
    /\ writer.at = "read"
    /\ resultRead < Len(result)
    /\ LET batch == NextEntries(result, resultRead, ResultBatch) IN
          /\ writer' = [at |-> "add", batch |-> batch]
          /\ resultRead' = resultRead + Len(batch)
          /\ unconfirmed' = unconfirmed \union Members(batch)
    /\ UNCHANGED <<ingestion, sensor, processor, result, tables, limits>>

InHand == Head(writer.batch)

(* aggregator.add: a full buffer gives up its oldest snapshot. *)
WriterAdd ==
    LET old == buffer[result[InHand].dev]
        full == Len(old) >= BufferSize
    IN  /\ writer.at = "add"
        /\ buffer' = [buffer EXCEPT ![result[InHand].dev] =
                         Append(IF full THEN Tail(old) ELSE old, InHand)]
        /\ lost' = IF full THEN lost \union {Head(old)} ELSE lost
        /\ writer' = [writer EXCEPT !.at = "upsert"]
        /\ UNCHANGED <<ingestion, sensor, processor, result, resultRead, unconfirmed,
                       inserting, sensorData, limits>>

(* device_meta has been updated: the entry is acknowledged. *)
WriterAck ==
    /\ writer.at = "upsert"
    /\ unconfirmed' = unconfirmed \ {InHand}
    /\ writer' = Advance(writer, "add")
    /\ UNCHANGED <<ingestion, sensor, processor, result, resultRead, tables, limits>>

(* The upsert or XACK raises: the entry stays buffered and unacknowledged. *)
WriterFails ==
    /\ writer.at = "upsert"
    /\ Fault
    /\ writer' = Advance(writer, "add")
    /\ UNCHANGED <<ingestion, sensor, processor, result, resultRead, unconfirmed, tables>>

(* Mutant: the buffers are emptied once their rows are stored. *)
NotYetEmptied == buffer

Emptied == NoRows

(* Every second: the buffers are swapped for empty ones. *)
BatchFlush ==
    /\ inserting = NoRows
    /\ buffer # NoRows
    /\ inserting' = buffer
    /\ buffer' = Emptied
    /\ UNCHANGED <<ingestion, sensor, processor, result, resultRead, unconfirmed, writer,
                   sensorData, lost, limits>>

(* Mutant: the buffers are emptied after the INSERT. *)
InsertThenEmpty ==
    /\ inserting # NoRows
    /\ sensorData' = Append(sensorData, inserting)
    /\ inserting' = NoRows
    /\ buffer' = NoRows
    /\ UNCHANGED <<ingestion, sensor, processor, result, resultRead, unconfirmed, writer,
                   lost, limits>>

InsertRows ==
    /\ inserting # NoRows
    /\ sensorData' = Append(sensorData, inserting)
    /\ inserting' = NoRows
    /\ UNCHANGED <<ingestion, sensor, processor, result, resultRead, unconfirmed, writer,
                   buffer, lost, limits>>

InRows(rows) == UNION {Members(rows[d]) : d \in Devices}

(* The rows of a failed INSERT are gone. *)
InsertFails ==
    /\ inserting # NoRows
    /\ Fault
    /\ lost' = lost \union InRows(inserting)
    /\ inserting' = NoRows
    /\ UNCHANGED <<ingestion, sensor, processor, result, resultRead, unconfirmed, writer,
                   buffer, sensorData>>

WriterRestarts ==
    /\ Restart
    /\ lost' = lost \union InRows(buffer) \union InRows(inserting)
    /\ buffer' = NoRows /\ inserting' = NoRows
    /\ writer' = Reading
    /\ UNCHANGED <<ingestion, sensor, processor, result, resultRead, unconfirmed, sensorData>>

-----------------------------------------------------------------------------
Coalesce ==
    \/ \E d \in Devices : SampleArrives(d) \/ PublishEnvelope(d)
    \/ \E d \in Devices, added \in BOOLEAN : PublishFails(d, added)
    \/ FlushBegin \/ FlushNothing \/ IngestionRestarts

Process ==
    \/ WorkerRead \/ WorkerReadFails \/ WorkerSet \/ WorkerPublish \/ WorkerAck
    \/ \E added \in BOOLEAN : WorkerFails(added)
    \/ WorkerRestarts

Store ==
    \/ WriterRead \/ WriterAdd \/ WriterAck \/ WriterFails
    \/ BatchFlush \/ InsertRows \/ InsertFails \/ WriterRestarts

Next == Coalesce \/ Process \/ Store

Spec == Init /\ [][Next]_vars

-----------------------------------------------------------------------------
(* Properties *)

(* Every part of the state has the shape the code gives it. *)
TypeOK ==
    /\ taken \in 0 .. MaxSamples
    /\ window \in [Devices -> Windows]
    /\ flush \in [items : [Devices -> Windows], todo : SUBSET Devices, failed : SUBSET Devices]
    /\ sensor \in Seq([dev : Devices, sample : Samples, over : SUBSET Samples])
    /\ sensorRead \in 0 .. Len(sensor) /\ unacked \subseteq 1 .. sensorRead
    /\ worker \in [at : {"read", "set", "publish", "ack", "dead"}, batch : Seq(1 .. sensorRead)]
    /\ worker.at \in {"set", "publish", "ack"} <=> worker.batch # <<>>
    /\ state \in [Devices -> Samples \union {NoSample}]
    /\ result \in Seq([dev : Devices, sample : Samples, entry : 1 .. sensorRead])
    /\ resultRead \in 0 .. Len(result) /\ unconfirmed \subseteq 1 .. resultRead
    /\ writer \in [at : {"read", "add", "upsert"}, batch : Seq(1 .. resultRead)]
    /\ writer.at \in {"add", "upsert"} <=> writer.batch # <<>>
    /\ buffer \in [Devices -> Seq(1 .. resultRead)]
    /\ inserting \in [Devices -> Seq(1 .. resultRead)]
    /\ sensorData \in Seq([Devices -> Seq(1 .. resultRead)])
    /\ lost \subseteq 1 .. resultRead
    /\ faults \in 0 .. MaxFaults /\ crashes \in 0 .. MaxCrashes

Before(i, j, stream) == i < j /\ stream[i].dev = stream[j].dev

(* Whatever fails or restarts, no consumer sees a device's measurements go *)
(* back in time: mg:state:result holds them in the order of their arrival. *)
ShownInOrder ==
    \A i, j \in DOMAIN result : Before(i, j, result) => result[i].sample <= result[j].sample

(* What was counted is counted once: the windows of a device partition its *)
(* samples, except for an envelope whose publication raised although it    *)
(* was added (its own sample comes again); a snapshot is in at most one    *)
(* row of sensor_data.                                                     *)
CountedOnce ==
    /\ \A i, j \in DOMAIN sensor : Before(i, j, sensor) =>
           sensor[i].over \intersect sensor[j].over \subseteq {sensor[i].sample}
    /\ \A i, j \in DOMAIN sensorData : \A d \in Devices :
           \A p \in DOMAIN sensorData[i][d], q \in DOMAIN sensorData[j][d] :
               sensorData[i][d][p] = sensorData[j][d][q] => i = j /\ p = q

(* What was acknowledged is not lost: an envelope has been passed on to    *)
(* mg:state:result; a snapshot is in the buffer, in a row being inserted   *)
(* or in the table, unless the buffer was full, an INSERT failed or the    *)
(* db-writer restarted.                                                    *)
AckedIsKept ==
    /\ \A e \in (1 .. sensorRead) \ unacked : \E r \in DOMAIN result : result[r].entry = e
    /\ (1 .. resultRead) \ unconfirmed \subseteq
           lost \union InRows(buffer) \union InRows(inserting)
                \union UNION {InRows(sensorData[i]) : i \in DOMAIN sensorData}

(* The flush task of ingestion goes on when its sleep or its XADD ends. *)
FairSpec == Spec /\ WF_vars(FlushBegin) /\ WF_vars(\E d \in Devices : PublishEnvelope(d))

Published(d) == Cardinality({i \in DOMAIN sensor : sensor[i].dev = d})

(* Failing calls delay a device's telemetry and never silence it: once the *)
(* last restart is over, a window that holds something leads to one more   *)
(* envelope of its device.                                                 *)
DeviceGetsThrough ==
    \A d \in Devices : \A n \in 0 .. MaxSamples :
        (window[d] # EmptyWindow /\ Published(d) = n /\ crashes = MaxCrashes)
            ~> Published(d) > n

-----------------------------------------------------------------------------
(* The inductive invariant behind the safety properties. *)

(* Envelopes of the flush under way that may still be published or put     *)
(* back.                                                                   *)
InFlight == flush.todo \union flush.failed

(* A window counts its latest sample, and nothing before it arrived; while *)
(* an envelope is in flight its device's new window holds later samples.   *)
WindowsOK ==
    /\ flush.todo = {} => flush.failed = {}
    /\ \A d \in Devices :
        /\ window[d].over \subseteq 1 .. taken
        /\ window[d] # EmptyWindow => window[d].latest \in window[d].over
    /\ \A d \in InFlight :
        /\ flush.items[d].over \subseteq 1 .. taken
        /\ flush.items[d].latest \in flush.items[d].over
        /\ flush.items[d].over \intersect window[d].over = {}
        /\ window[d] # EmptyWindow => flush.items[d].latest <= window[d].latest

(* What of a device was published is no later than what is still to come,  *)
(* and the two count no sample twice but an envelope's own.                *)
PublishedBefore(e, w) == e.sample <= w.latest /\ e.over \intersect w.over \subseteq {e.sample}
PutBackAfter(e, w)    == e.sample <= w.latest /\ (w.latest \in e.over => w.latest = e.sample)

EntryOK(e) ==
    /\ e.sample \in 1 .. taken /\ e.over \subseteq 1 .. taken
    /\ window[e.dev] # EmptyWindow => PublishedBefore(e, window[e.dev])
    /\ e.dev \in flush.todo => PublishedBefore(e, flush.items[e.dev])
    /\ e.dev \in flush.failed => PutBackAfter(e, flush.items[e.dev])

SensorOK ==
    /\ \A i \in DOMAIN sensor : EntryOK(sensor[i])
    /\ \A i, j \in DOMAIN sensor : Before(i, j, sensor) =>
        /\ sensor[i].sample <= sensor[j].sample
        /\ sensor[i].over \intersect sensor[j].over \subseteq {sensor[i].sample}

(* A consumer has finished what it was handed but for its batch, which is  *)
(* the latest it was handed, in order; it is at work on the next entry.    *)
Behind(read, consumer) == read - Len(consumer.batch)

InStep(read, consumer) ==
    \A k \in DOMAIN consumer.batch : consumer.batch[k] = Behind(read, consumer) + k

(* The entries the state-processor has passed on. *)
Passed == Behind(sensorRead, worker) + (IF worker.at = "ack" THEN 1 ELSE 0)

ProcessorOK ==
    /\ InStep(sensorRead, worker)
    /\ \A e \in 1 .. sensorRead : e > Behind(sensorRead, worker) => e \in unacked
    /\ \A e \in 1 .. sensorRead : e \in unacked \/ \E r \in DOMAIN result : result[r].entry = e
    /\ worker.at = "ack" => \E r \in DOMAIN result : result[r].entry = Passed
    /\ \A r \in DOMAIN result :
        /\ result[r].entry <= Passed
        /\ result[r].dev = sensor[result[r].entry].dev
        /\ result[r].sample = sensor[result[r].entry].sample
    /\ \A i, j \in DOMAIN result : i < j => result[i].entry < result[j].entry

(* The snapshots the db-writer has put into its buffers. *)
Buffered == Behind(resultRead, writer) + (IF writer.at = "upsert" THEN 1 ELSE 0)

InTable == UNION {InRows(sensorData[i]) : i \in DOMAIN sensorData}
Kept    == lost \union InRows(buffer) \union InRows(inserting) \union InTable

WriterOK ==
    /\ InStep(resultRead, writer)
    /\ \A e \in 1 .. resultRead : e > Behind(resultRead, writer) => e \in unconfirmed
    /\ (1 .. resultRead) \ unconfirmed \subseteq Kept
    /\ writer.at = "upsert" => Buffered \in Kept

(* A snapshot is in one place. *)
Distinct(s) == \A p, q \in DOMAIN s : s[p] = s[q] => p = q

RowsOnce ==
    \A d \in Devices :
        /\ Distinct(buffer[d]) /\ Distinct(inserting[d])
        /\ Members(buffer[d]) \intersect Members(inserting[d]) = {}
        /\ Members(buffer[d]) \union Members(inserting[d]) \subseteq 1 .. Buffered
        /\ \A i \in DOMAIN sensorData :
            /\ Distinct(sensorData[i][d])
            /\ Members(sensorData[i][d]) \intersect (Members(buffer[d]) \union Members(inserting[d])) = {}
            /\ Members(sensorData[i][d]) \subseteq 1 .. Buffered
            /\ \A j \in DOMAIN sensorData :
                  i # j => Members(sensorData[i][d]) \intersect Members(sensorData[j][d]) = {}

IInv == WindowsOK /\ SensorOK /\ ProcessorOK /\ WriterOK /\ RowsOnce
=============================================================================
