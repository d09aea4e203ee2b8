----------------------------- MODULE DriveProofs -----------------------------
(***************************************************************************)
(* What is kept on the drive is right: theorems about the archive, the     *)
(* collectors and the training data, for every number of months, files,    *)
(* items, attempts, faults and stopped runs; and about the training jobs,  *)
(* for every set of orders and every number of epochs and trainings.       *)
(***************************************************************************)
EXTENDS TrainingData, TrainingJobs, TLAPS

-----------------------------------------------------------------------------
(* The archive *)

LEMMA ArchiveInit == Init => ArchiveInv
BY DEF Init, ArchiveInv, Contents, GapsAreListed

(* Steps that leave the drive, the index and what is being written alone,  *)
(* and do not come to the retries.                                         *)
LEMMA ArchiveElsewhere ==
    ASSUME ArchiveInv, UNCHANGED <<disk, index, minute>>,
           streaming' => streaming /\ todo' = todo, todo' # <<>> => running',
           stage' \in {"retry", "retryRun"} => stage \in {"retry", "retryRun"}
    PROVE  ArchiveInv'
BY DEF ArchiveInv, GapsAreListed

LEMMA ArchiveNext == ArchiveInv /\ Next => ArchiveInv'
<1> SUFFICES ASSUME ArchiveInv, Next PROVE ArchiveInv'
  OBVIOUS
<1>1. ASSUME NEW o \in Minutes, RunMonths(o) PROVE ArchiveInv'
  <2>1. stage' = "monthRun" /\ UNCHANGED <<disk, streaming, todo, running>>
    BY <1>1 DEF RunMonths, collector
  <2> QED BY <2>1 DEF ArchiveInv, GapsAreListed
<1>2. CASE PassMonth
  BY <1>2, ArchiveElsewhere DEF PassMonth, collector, ArchiveInv
<1>3. CASE StartCollector
  <2>1. ~streaming
    BY <1>3 DEF StartCollector, ArchiveInv
  <2> QED BY <1>3, <2>1, ArchiveElsewhere DEF StartCollector
<1>4. CASE EndRun
  BY <1>4, ArchiveElsewhere DEF EndRun, collector, ArchiveInv
<1>5. CASE SkipFile
  BY <1>5, ArchiveElsewhere DEF SkipFile, Recorded, ArchiveInv
<1>6. CASE Answered
  BY <1>6 DEF Answered, Begins, Exists, ArchiveInv, GapsAreListed
<1>7. CASE Arrived
  <2>1. PICK body \in {"whole", "short"} : disk' = [disk EXCEPT ![Head(todo)] = body]
    BY <1>7 DEF Arrived
  <2>2. ~streaming' /\ UNCHANGED <<stage, minute, index>>
    BY <1>7 DEF Arrived, Recorded
  <2>3. disk' \in [Files -> Contents \ {"torn"}]
    BY <2>1 DEF ArchiveInv, Contents
  <2>4. disk[Head(todo)] = "none"
    BY <1>7 DEF Arrived, ArchiveInv
  <2>5. GapsAreListed'
    <3>1. ASSUME stage \in {"retry", "retryRun"}, NEW f \in Files, f[2] = minute
          PROVE  disk'[f] = "whole" \/ index[f] # "none"
      <4>1. disk[f] = "whole" \/ index[f] # "none"
        BY <3>1 DEF ArchiveInv, GapsAreListed
      <4>2. f # Head(todo) => disk'[f] = disk[f]
        BY <2>1 DEF ArchiveInv
      <4> QED BY <2>4, <4>1, <4>2
    <3> QED BY <2>2, <3>1 DEF GapsAreListed
  <2>6. running'
    BY <1>7 DEF Arrived, ArchiveInv
  <2> QED BY <2>2, <2>3, <2>5, <2>6 DEF ArchiveInv
<1>8. CASE Failed
  <2>1. UNCHANGED <<disk, stage, minute, running, index>> /\ ~streaming' /\ running
    BY <1>8 DEF Failed, Recorded, ArchiveInv
  <2> QED BY <2>1, ArchiveElsewhere
<1>9. CASE EndCollector
  <2>1. ~streaming /\ todo' = <<>>
    BY <1>9 DEF EndCollector, ArchiveInv
  <2> QED BY <1>9, <2>1, ArchiveElsewhere DEF EndCollector
<1>10. CASE BuildIndex
  <2>1. /\ stage' = "retry" /\ UNCHANGED <<disk, minute, todo, running, streaming>>
        /\ index' = [f \in Files |-> IF f[2] = minute THEN Reason(f) ELSE "none"]
    BY <1>10 DEF BuildIndex, collector
  <2>2. \A f \in Files : disk[f] # "whole" => Reason(f) # "none"
    BY DEF Reason, Rejected
  <2> QED BY <2>1, <2>2 DEF ArchiveInv, GapsAreListed
<1>11. CASE RunRetry
  <2>1. /\ stage = "retry" /\ stage' = "retryRun"
        /\ UNCHANGED <<disk, minute, index, todo, running, streaming>>
    BY <1>11 DEF RunRetry, collector
  <2> QED BY <2>1, ArchiveElsewhere DEF ArchiveInv
<1>12. CASE CollectorStops
  BY <1>12, ArchiveElsewhere DEF CollectorStops
<1>13. CASE Stopped
  BY <1>13, ArchiveElsewhere DEF Stopped
<1> QED BY <1>1, <1>2, <1>3, <1>4, <1>5, <1>6, <1>7, <1>8, <1>9, <1>10, <1>11, <1>12, <1>13
        DEF Next, Scripts

LEMMA ArchiveFramed == ArchiveInv /\ UNCHANGED archive => ArchiveInv'
BY DEF ArchiveInv, archive, collector, GapsAreListed

-----------------------------------------------------------------------------
(* The collectors: what each script has written, remembers and has told. *)

CollectorsStep == Start \/ Steps \/ ProductFills \/ Failures

(* A file of the item the run is at is replaced. *)
LEMMA FileReplaced ==
    ASSUME RowsOK, item \in 1..Items, NEW k \in Kinds, NEW a, file' = [file EXCEPT ![item][k] = a]
    PROVE  \A i \in 1..Items : \A x \in Kinds :
               file'[i][x] = IF i = item /\ x = k THEN a ELSE file[i][x]
<1>1. file' = [file EXCEPT ![item] = [file[item] EXCEPT ![k] = a]]
  OBVIOUS
<1>2. \A i \in 1..Items : file'[i] = IF i = item THEN [file[item] EXCEPT ![k] = a] ELSE file[i]
  BY <1>1 DEF RowsOK
<1> QED BY <1>2 DEF RowsOK

LEMMA StepsKept == StepsOK /\ RowsOK /\ CollectorsStep => StepsOK'
<1> SUFFICES ASSUME StepsOK, RowsOK, CollectorsStep PROVE StepsOK'
  OBVIOUS
<1> USE ArchiveAssumption, ItemsAssumption, SourcesAssumption DEF StepsOK, Writing, Goes, GoesOn, Remembers, Receives, Dies, drive, memory, Answers
<1>1. CASE Start
  BY <1>1 DEF Start
<1>2. CASE Opens
  BY <1>2 DEF Opens
<1>3. CASE Closes
  BY <1>3 DEF Closes
<1>4. CASE Ends
  BY <1>4 DEF Ends, Products
<1>5. CASE ProductCloses
  BY <1>5 DEF ProductCloses
<1>6. CASE ProductFills
  BY <1>6 DEF ProductFills
<1>7. CASE Combine
  BY <1>7 DEF Combine
<1>8. CASE KpxPass
  BY <1>8 DEF KpxPass, Runs, KpxReads
<1>9. CASE KpxRequest
  BY <1>9 DEF KpxRequest, Runs
<1>10. CASE KpxKeep
  BY <1>10 DEF KpxKeep, Written
<1>11. CASE KpxStop
  BY <1>11 DEF KpxStop, Runs
<1>12. CASE KpxMerge
  BY <1>12 DEF KpxMerge, KpxRowsOf
<1>13. CASE WestPass
  BY <1>13 DEF WestPass, Runs
<1>14. CASE WestPage
  BY <1>14 DEF WestPage, Runs, LastPage
<1>15. CASE WestNothing
  BY <1>15 DEF WestNothing, Runs
<1>16. CASE MonthKept
  BY <1>16 DEF MonthKept, Written
<1>17. CASE AsosPass
  BY <1>17 DEF AsosPass, Runs
<1>18. CASE AsosRequest
  BY <1>18 DEF AsosRequest, Runs
<1>19. CASE AsosKeep
  BY <1>19 DEF AsosKeep, Written
<1>20. CASE StationRequest
  BY <1>20 DEF StationRequest, Runs
<1>21. CASE KasiRequest
  BY <1>21 DEF KasiRequest, Runs
<1>22. CASE ValueRequest
  BY <1>22 DEF ValueRequest, Runs
<1>23. CASE ValueKept
  BY <1>23 DEF ValueKept, Written
<1>24. CASE VillageNothing
  BY <1>24 DEF VillageNothing
<1>25. CASE NasaPass
  BY <1>25 DEF NasaPass, Runs, NasaReloads
<1>26. CASE NasaRequestS3
  BY <1>26 DEF NasaRequestS3, Runs, S3Unavailable
<1>27. CASE NasaRequestApi
  BY <1>27 DEF NasaRequestApi
<1>28. CASE NasaWritten
  BY <1>28 DEF NasaWritten, Written
<1>29. CASE NasaLoad
  BY <1>29 DEF NasaLoad, Load, NasaFrame
<1>30. CASE NasaLoadFails
  BY <1>30 DEF NasaLoadFails, Load, NasaFrame, LoadCaught
<1>31. CASE NasaWriteFails
  BY <1>31 DEF NasaWriteFails, LoadCaught
<1>32. CASE ValueFails
  BY <1>32 DEF ValueFails, Runs
<1>33. CASE KpxMergeFails \/ VillageReadFails \/ NasaReadFails \/ RunStopped
  BY <1>33 DEF KpxMergeFails, VillageReadFails, NasaReadFails, RunStopped
<1>34. CASE KpxFails \/ WestFails \/ AsosFails \/ StationFails \/ KasiFails \/ PointFails \/ NasaFails
  BY <1>34 DEF KpxFails, WestFails, AsosFails, StationFails, KasiFails, PointFails, NasaFails, RequestFails
<1> QED BY <1>1, <1>2, <1>3, <1>4, <1>5, <1>6, <1>7, <1>8, <1>9, <1>10, <1>11, <1>12, <1>13, <1>14, <1>15, <1>16, <1>17, <1>18, <1>19, <1>20, <1>21, <1>22, <1>23, <1>24, <1>25, <1>26, <1>27, <1>28, <1>29, <1>30, <1>31, <1>32, <1>33, <1>34
        DEF CollectorsStep, Steps, Failures

LEMMA RowsKept == StepsOK /\ RowsOK /\ CollectorsStep => RowsOK'
<1> SUFFICES ASSUME StepsOK, RowsOK, CollectorsStep PROVE RowsOK'
  OBVIOUS
<1> USE ArchiveAssumption, ItemsAssumption DEF StepsOK, RowsOK, Writing, Goes, GoesOn, Remembers, Receives, Dies, drive, memory, Answers, Holdings
<1>1. CASE Start
  BY <1>1 DEF Start
<1>2. CASE Opens
  BY <1>2 DEF Opens
<1>3. CASE Closes
  BY <1>3 DEF Closes
<1>4. CASE Ends
  BY <1>4 DEF Ends, Products
<1>5. CASE ProductCloses
  BY <1>5 DEF ProductCloses
<1>6. CASE ProductFills
  BY <1>6 DEF ProductFills
<1>7. CASE Combine
  BY <1>7 DEF Combine
<1>8. CASE KpxPass
  BY <1>8 DEF KpxPass, Runs, KpxReads
<1>9. CASE KpxRequest
  BY <1>9 DEF KpxRequest, Runs
<1>10. CASE KpxKeep
  BY <1>10 DEF KpxKeep, Written
<1>11. CASE KpxStop
  BY <1>11 DEF KpxStop, Runs
<1>12. CASE KpxMerge
  BY <1>12 DEF KpxMerge, KpxRowsOf
<1>13. CASE WestPass
  BY <1>13 DEF WestPass, Runs
<1>14. CASE WestPage
  BY <1>14 DEF WestPage, Runs, LastPage
<1>15. CASE WestNothing
  BY <1>15 DEF WestNothing, Runs
<1>16. CASE MonthKept
  BY <1>16 DEF MonthKept, Written
<1>17. CASE AsosPass
  <2>1. frames' \subseteq 1..Items
    <3>1. frames' \in {frames, frames \union {item}} /\ item \in 1..Items
      BY <1>17 DEF AsosPass, Runs
    <3> QED BY <3>1
  <2> QED BY <1>17, <2>1 DEF AsosPass
<1>18. CASE AsosRequest
  BY <1>18 DEF AsosRequest, Runs
<1>19. CASE AsosKeep
  <2>1. frames' \subseteq 1..Items
    <3>1. frames' \in {frames, frames \union {item}} /\ item \in 1..Items
      BY <1>19 DEF AsosKeep, Written
    <3> QED BY <3>1
  <2> QED BY <1>19, <2>1 DEF AsosKeep
<1>20. CASE StationRequest
  BY <1>20 DEF StationRequest, Runs
<1>21. CASE KasiRequest
  BY <1>21 DEF KasiRequest, Runs
<1>22. CASE ValueRequest
  BY <1>22 DEF ValueRequest, Runs
<1>23. CASE ValueKept
  BY <1>23 DEF ValueKept, Written
<1>24. CASE VillageNothing
  BY <1>24 DEF VillageNothing
<1>25. CASE NasaPass
  BY <1>25 DEF NasaPass, Runs, NasaReloads
<1>26. CASE NasaRequestS3
  BY <1>26 DEF NasaRequestS3, Runs, S3Unavailable
<1>27. CASE NasaRequestApi
  BY <1>27 DEF NasaRequestApi
<1>28. CASE NasaWritten
  BY <1>28 DEF NasaWritten, Written
<1>29. CASE NasaLoad
  BY <1>29 DEF NasaLoad, Load, NasaFrame, Kinds
<1>30. CASE NasaLoadFails
  BY <1>30 DEF NasaLoadFails, Load, NasaFrame, LoadCaught, Kinds
<1>31. CASE NasaWriteFails
  BY <1>31 DEF NasaWriteFails, LoadCaught
<1>32. CASE ValueFails
  BY <1>32 DEF ValueFails, Runs
<1>33. CASE KpxMergeFails \/ VillageReadFails \/ NasaReadFails \/ RunStopped
  BY <1>33 DEF KpxMergeFails, VillageReadFails, NasaReadFails, RunStopped
<1>34. CASE KpxFails \/ WestFails \/ AsosFails \/ StationFails \/ KasiFails \/ PointFails \/ NasaFails
  BY <1>34 DEF KpxFails, WestFails, AsosFails, StationFails, KasiFails, PointFails, NasaFails, RequestFails
<1> QED BY <1>1, <1>2, <1>3, <1>4, <1>5, <1>6, <1>7, <1>8, <1>9, <1>10, <1>11, <1>12, <1>13, <1>14, <1>15, <1>16, <1>17, <1>18, <1>19, <1>20, <1>21, <1>22, <1>23, <1>24, <1>25, <1>26, <1>27, <1>28, <1>29, <1>30, <1>31, <1>32, <1>33, <1>34
        DEF CollectorsStep, Steps, Failures
(* A run ends half-way, on an exception or from outside. *)
Quits == pc' = "off" /\ UNCHANGED <<script, drive, memory>>

LEMMA ScriptStays == CollectorsStep => script' = script
<1> USE DEF Goes, GoesOn, Dies, RequestFails
<1>1. Start \/ ProductFills => script' = script
  BY DEF Start, ProductFills
<1>2. Failures => script' = script
  BY DEF Failures, KpxFails, WestFails, AsosFails, StationFails, KasiFails, ValueFails, PointFails,
         NasaFails, NasaLoadFails, NasaWriteFails, RunStopped
<1>3. Steps => script' = script
  BY DEF Steps, Opens, Closes, Ends, ProductCloses, Combine,
         KpxPass, KpxRequest, KpxKeep, KpxStop, KpxMerge, KpxMergeFails,
         WestPass, WestPage, WestNothing, MonthKept, AsosPass, AsosRequest, AsosKeep,
         StationRequest, KasiRequest, ValueRequest, ValueKept, VillageReadFails, VillageNothing,
         NasaPass, NasaRequestS3, NasaRequestApi, NasaWritten, NasaLoad, NasaReadFails
<1> QED BY <1>1, <1>2, <1>3 DEF CollectorsStep

LEMMA QuitsAre ==
    KpxMergeFails \/ VillageReadFails \/ NasaReadFails \/ RunStopped
    \/ KpxFails \/ WestFails \/ AsosFails \/ StationFails \/ KasiFails \/ PointFails \/ NasaFails => Quits
BY DEF KpxMergeFails, VillageReadFails, NasaReadFails, RunStopped, KpxFails, WestFails, AsosFails, StationFails,
       KasiFails, PointFails, NasaFails, RequestFails, Dies, Goes, Quits

(* The steps that are of one script only. *)
LEMMA OwnSteps ==
    ASSUME StepsOK, CollectorsStep
    PROVE  \/ Start \/ Opens \/ Closes \/ Ends \/ ProductCloses \/ ProductFills \/ Quits
           \/ /\ script \in {"asos", "kasi", "cloud", "village"}
              /\ Combine
           \/ /\ script = "kpx"
              /\ KpxPass \/ KpxRequest \/ KpxKeep \/ KpxStop \/ KpxMerge
           \/ /\ script = "west"
              /\ WestPass \/ WestPage \/ WestNothing \/ MonthKept
           \/ /\ script = "asos"
              /\ AsosPass \/ AsosRequest \/ AsosKeep
           \/ /\ script = "station"
              /\ StationRequest \/ MonthKept
           \/ /\ script \in {"kasi", "cloud", "village"}
              /\ KasiRequest \/ ValueRequest \/ ValueKept \/ ValueFails \/ VillageNothing
           \/ /\ script = "nasa"
              /\ \/ NasaPass \/ NasaRequestS3 \/ NasaRequestApi \/ NasaWritten \/ NasaLoad
                 \/ NasaLoadFails \/ NasaWriteFails
<1> USE DEF Runs, Written
<1>1. KpxPass \/ KpxRequest \/ KpxKeep \/ KpxStop \/ KpxMerge => script = "kpx"
  BY DEF KpxPass, KpxRequest, KpxKeep, KpxStop, KpxMerge
<1>2. /\ WestPass \/ WestPage \/ WestNothing => script = "west"
      /\ StationRequest => script = "station"
      /\ MonthKept => script \in {"west", "station"}
  BY DEF WestPass, WestPage, WestNothing, MonthKept, StationRequest
<1>3. AsosPass \/ AsosRequest \/ AsosKeep => script = "asos"
  BY DEF AsosPass, AsosRequest, AsosKeep
<1>4. KasiRequest \/ ValueRequest \/ ValueKept \/ ValueFails \/ VillageNothing => script \in {"kasi", "cloud", "village"}
  BY DEF KasiRequest, ValueRequest, ValueKept, ValueFails, VillageNothing
<1>5. NasaPass \/ NasaRequestS3 \/ NasaRequestApi \/ NasaWritten \/ NasaLoad \/ NasaLoadFails \/ NasaWriteFails
      => script = "nasa"
  BY DEF StepsOK, Writing, NasaPass, NasaRequestS3, NasaRequestApi, NasaWritten, NasaLoad, NasaLoadFails, NasaWriteFails
<1>6. Combine => script \in {"asos", "kasi", "cloud", "village"}
  BY DEF Combine
<1> QED BY <1>1, <1>2, <1>3, <1>4, <1>5, <1>6, QuitsAre DEF CollectorsStep, Steps, Failures
-----------------------------------------------------------------------------
(* KPX *)

LEMMA KpxKept == StepsOK /\ RowsOK /\ KpxOK /\ CollectorsStep => KpxOK'
<1> SUFFICES ASSUME StepsOK, RowsOK, KpxOK, CollectorsStep, script = "kpx", script' = "kpx" PROVE KpxOK'
  BY ScriptStays DEF KpxOK
<1> USE ArchiveAssumption, ItemsAssumption DEF StepsOK, RowsOK, KpxOK, Begun, Writing, Goes, GoesOn, Dies, drive, memory, KpxCollected
<1>1. CASE Start
  BY <1>1 DEF Start, Has, Awaited, InOrder
<1>2. CASE Quits
  BY <1>2 DEF Quits, InOrder
<1>3. CASE Opens
  <2>1. PICK k \in {"raw", "csv"} : k = Head(toWrite) /\ toWrite \in {<<"raw", "csv">>, <<"csv">>}
                 /\ (k = "raw" <=> toWrite = <<"raw", "csv">>)
    BY <1>3 DEF Opens
  <2>2. item \in 1..Items /\ k \in Kinds
    BY <1>3 DEF Opens, Kinds
  <2>3. \A i \in 1..Items : \A x \in Kinds :
            file'[i][x] = IF i = item /\ x = k THEN "cut" ELSE file[i][x]
    BY <1>3, <2>1, <2>2, FileReplaced DEF Opens
  <2>4. pc = "write" /\ pc' = "open" /\ UNCHANGED <<item, toWrite, got, frames, product, held, merged>>
    BY <1>3 DEF Opens
  <2>5. \A i \in 1..Items : InOrder(i, "raw", "csv")'
    BY <2>1, <2>2, <2>3, <2>4 DEF Kinds, Has, Awaited, InOrder, Whole
  <2>6. /\ \A i \in 1..Items : KpxCollected(i) => KpxCollected(i)'
        /\ \A i \in 1..Items : file'[i]["raw"] # "none" => file[i]["raw"] # "none" \/ i = item
    BY <2>1, <2>2, <2>3, <2>4 DEF Kinds
  <2>7. \A i \in 1..Items : \A j \in 1..i - 1 : file'[i]["raw"] # "none" => KpxCollected(j)'
    <3> SUFFICES ASSUME NEW i \in 1..Items, NEW j \in 1..i - 1, file'[i]["raw"] # "none" PROVE KpxCollected(j)'
      OBVIOUS
    <3>1. j \in 1..Items
      OBVIOUS
    <3>2. KpxCollected(j)
      BY <2>4, <2>6
    <3> QED BY <2>6, <3>1, <3>2
  <2>8. \A j \in 1..item - 1 : KpxCollected(j)' /\ (file'[j]["csv"] = "rows" => j \in frames)
    <3>1. \A j \in 1..item - 1 : j \in 1..Items /\ j # item /\ "csv" \in Kinds
      BY <2>2 DEF Kinds
    <3> QED BY <2>3, <2>4, <2>6, <3>1
  <2>9. \/ toWrite = <<"raw", "csv">> /\ file'[item]["csv"] = "none"
        \/ toWrite = <<"csv">> /\ file'[item]["raw"] = got /\ file'[item]["csv"] = "cut"
    BY <2>1, <2>2, <2>3, <2>4 DEF Kinds, Has
  <2> QED BY <2>4, <2>5, <2>7, <2>8, <2>9 DEF Has, Awaited
<1>4. CASE Closes
  <2>1. PICK k \in {"raw", "csv"} : k = Head(toWrite) /\ toWrite \in {<<"raw", "csv">>, <<"csv">>}
                 /\ (k = "raw" => toWrite' = <<"csv">>) /\ (k = "csv" => toWrite' = <<>>)
                 /\ (k = "raw" <=> toWrite = <<"raw", "csv">>)
    <3>1. toWrite \in {<<"raw", "csv">>, <<"csv">>} /\ toWrite' = Tail(toWrite)
      BY <1>4 DEF Closes
    <3>2. CASE toWrite = <<"raw", "csv">>
      BY <3>1, <3>2
    <3>3. CASE toWrite = <<"csv">>
      BY <3>1, <3>3
    <3> QED BY <3>1, <3>2, <3>3
  <2>2. item \in 1..Items /\ k \in Kinds
    BY <1>4 DEF Closes, Kinds
  <2>3. \A i \in 1..Items : \A x \in Kinds :
            file'[i][x] = IF i = item /\ x = k THEN got ELSE file[i][x]
    BY <1>4, <2>1, <2>2, FileReplaced DEF Closes
  <2>4. pc = "open" /\ pc' = "write" /\ UNCHANGED <<item, got, frames, product, held, merged>>
    BY <1>4 DEF Closes
  <2>5. \A i \in 1..Items : InOrder(i, "raw", "csv")'
    BY <2>1, <2>2, <2>3, <2>4 DEF Kinds, Has, Awaited, InOrder, Whole
  <2>6. /\ \A i \in 1..Items : KpxCollected(i) => KpxCollected(i)'
        /\ \A i \in 1..Items : file'[i]["raw"] # "none" => file[i]["raw"] # "none" \/ i = item
    BY <2>1, <2>2, <2>3, <2>4 DEF Kinds
  <2>7. \A i \in 1..Items : \A j \in 1..i - 1 : file'[i]["raw"] # "none" => KpxCollected(j)'
    <3> SUFFICES ASSUME NEW i \in 1..Items, NEW j \in 1..i - 1, file'[i]["raw"] # "none" PROVE KpxCollected(j)'
      OBVIOUS
    <3>1. j \in 1..Items
      OBVIOUS
    <3>2. KpxCollected(j)
      BY <2>4, <2>6
    <3> QED BY <2>6, <3>1, <3>2
  <2>8. \A j \in 1..item - 1 : KpxCollected(j)' /\ (file'[j]["csv"] = "rows" => j \in frames)
    <3>1. \A j \in 1..item - 1 : j \in 1..Items /\ j # item /\ "csv" \in Kinds
      BY <2>2 DEF Kinds
    <3> QED BY <2>3, <2>4, <2>6, <3>1
  <2>9. \/ toWrite' = <<"csv">> /\ file'[item]["raw"] = got /\ file'[item]["csv"] = "none"
        \/ toWrite' = <<>> /\ file'[item]["raw"] = got /\ file'[item]["csv"] = got
    BY <2>1, <2>2, <2>3, <2>4 DEF Kinds, Has
  <2> QED BY <2>4, <2>5, <2>7, <2>8, <2>9 DEF Has, Awaited
<1>5. CASE Ends
  <2>1. CASE pc = "item" /\ item > Items
    <3>1. pc' = "merge" /\ UNCHANGED <<item, file, product, frames, held>>
      BY <1>5, <2>1 DEF Ends
    <3> QED BY <2>1, <3>1 DEF InOrder
  <2>2. CASE pc = "merge" /\ product > Products
    <3>1. pc' = "ended" /\ UNCHANGED <<item, file, product, frames, held>> /\ product = Months + 1
      BY <1>5, <2>2 DEF Ends, Products
    <3>2. ASSUME NEW i \in 1..Items, KpxCollected(i), file[i]["csv"] = "rows", NEW m \in MonthsOf[i]
          PROVE  i \in held[m]
      <4>1. m \in 1..Months /\ m \in 1..product - 1
        BY <3>1
      <4>2. i \in 1..item - 1 /\ i \in frames
        BY <2>2, <3>2
      <4> QED BY <2>2, <4>1, <4>2 DEF KpxRowsOf
    <3> QED BY <2>2, <3>1, <3>2 DEF InOrder, Told
  <2> QED BY <1>5, <2>1, <2>2 DEF Ends
<1>6. CASE ProductFills
  BY <1>6 DEF ProductFills, InOrder, KpxRowsOf
<1>7. CASE ProductCloses
  BY <1>7 DEF ProductCloses, InOrder, KpxRowsOf
<1>8. CASE KpxPass
  BY <1>8 DEF KpxPass, Runs, Remembers, KpxReads, InOrder
<1>9. CASE KpxRequest
  <2>1. /\ pc = "item" /\ pc' = "write" /\ item <= Items /\ ~KpxCollected(item) /\ toWrite' = <<"raw", "csv">>
        /\ got' \in {"rows", "noRows"} /\ UNCHANGED <<item, file, held, frames, product>>
    BY <1>9 DEF KpxRequest, Runs, Receives, KpxFiles
  <2>2. item \in 1..Items /\ file[item]["csv"] = "none"
    BY <2>1 DEF InOrder, Whole
  <2> QED BY <2>1, <2>2 DEF InOrder
<1>10. CASE KpxKeep
  BY <1>10 DEF KpxKeep, Written, Remembers, InOrder, Has
<1>11. CASE KpxStop
  BY <1>11 DEF KpxStop, Runs, InOrder
<1>12. CASE KpxMerge
  <2>1. CASE KpxRowsOf(product) = {}
    <3>1. pc = "merge" /\ pc' = "merge" /\ product' = product + 1 /\ UNCHANGED <<item, file, frames, held>>
      BY <1>12, <2>1 DEF KpxMerge
    <3>2. \A m \in 1..product' - 1 : m \in 1..product - 1 \/ m = product
      BY <3>1
    <3> QED BY <2>1, <3>1, <3>2 DEF InOrder, KpxRowsOf
  <2>2. CASE pc' = "off"
    BY <1>12, <2>2 DEF KpxMerge, InOrder
  <2>3. CASE KpxRowsOf(product) # {} /\ pc' # "off"
    <3>1. /\ pc = "merge" /\ product <= Months /\ pc' = "opened" /\ UNCHANGED <<item, file, frames, product>>
          /\ held' = [held EXCEPT ![product] = {}] /\ merged' = held[product] \union KpxRowsOf(product)
      BY <1>12, <2>3 DEF KpxMerge
    <3>2. \A m \in 1..product - 1 : m \in 1..Months /\ held'[m] = held[m]
      BY <3>1
    <3> QED BY <3>1, <3>2 DEF InOrder, KpxRowsOf
  <2> QED BY <2>1, <2>2, <2>3
<1> QED BY <1>1, <1>2, <1>3, <1>4, <1>5, <1>6, <1>7, <1>8, <1>9, <1>10, <1>11, <1>12, OwnSteps
-----------------------------------------------------------------------------
(* West Power *)

LEMMA WestKept == StepsOK /\ RowsOK /\ WestOK /\ CollectorsStep => WestOK'
<1> SUFFICES ASSUME StepsOK, RowsOK, WestOK, CollectorsStep, script = "west", script' = "west" PROVE WestOK'
  BY ScriptStays DEF WestOK
<1> USE RequestsAssumption DEF StepsOK, RowsOK, WestOK, Writing, Goes, GoesOn, Dies, drive, memory, WestCollected
<1>1. CASE Start
  BY <1>1 DEF Start, InOrder
<1>2. CASE Quits
  BY <1>2 DEF Quits, InOrder
<1>3. CASE Opens
  <2>1. PICK k \in {"raw", "daily", "hourly"} :
           /\ k = Head(toWrite)
           /\ \/ k = "raw" /\ toWrite = <<"raw", "daily", "hourly">>
              \/ k = "daily" /\ toWrite = <<"daily", "hourly">>
              \/ k = "hourly" /\ toWrite = <<"hourly">>
    BY <1>3 DEF Opens
  <2>2. item \in 1..Items /\ k \in Kinds
    BY <1>3 DEF Opens, Kinds
  <2>3. \A i \in 1..Items : \A x \in Kinds :
            file'[i][x] = IF i = item /\ x = k THEN "cut" ELSE file[i][x]
    BY <1>3, <2>1, <2>2, FileReplaced DEF Opens
  <2>4. pc = "write" /\ pc' = "open" /\ UNCHANGED <<item, toWrite, got>>
    BY <1>3 DEF Opens
  <2>5. \A i \in 1..Items : InOrder(i, "raw", "hourly")' /\ InOrder(i, "daily", "hourly")'
    BY <2>1, <2>2, <2>3, <2>4 DEF Kinds, Has, Awaited, InOrder, Whole
  <2>6. \/ toWrite = <<"raw", "daily", "hourly">> /\ file'[item]["hourly"] = "none"
        \/ /\ toWrite = <<"daily", "hourly">>
           /\ Has(item, {"raw"}, got)' /\ file'[item]["hourly"] = "none"
        \/ toWrite = <<"hourly">> /\ Has(item, {"raw", "daily"}, got)' /\ file'[item]["hourly"] = "cut"
    BY <2>1, <2>2, <2>3, <2>4 DEF Kinds, Has
  <2> QED BY <2>4, <2>5, <2>6 DEF Awaited
<1>4. CASE Closes
  <2>1. PICK k \in {"raw", "daily", "hourly"} :
           /\ k = Head(toWrite)
           /\ \/ k = "raw" /\ toWrite = <<"raw", "daily", "hourly">> /\ toWrite' = <<"daily", "hourly">>
              \/ k = "daily" /\ toWrite = <<"daily", "hourly">> /\ toWrite' = <<"hourly">>
              \/ k = "hourly" /\ toWrite = <<"hourly">> /\ toWrite' = <<>>
    <3>1. toWrite' = Tail(toWrite)
      BY <1>4 DEF Closes
    <3>2. CASE toWrite = <<"raw", "daily", "hourly">>
      BY <3>1, <3>2
    <3>3. CASE toWrite = <<"daily", "hourly">>
      BY <3>1, <3>3
    <3>4. CASE toWrite = <<"hourly">>
      BY <3>1, <3>4
    <3> QED BY <1>4, <3>2, <3>3, <3>4 DEF Closes
  <2>2. item \in 1..Items /\ k \in Kinds
    BY <1>4 DEF Closes, Kinds
  <2>3. \A i \in 1..Items : \A x \in Kinds :
            file'[i][x] = IF i = item /\ x = k THEN got ELSE file[i][x]
    BY <1>4, <2>1, <2>2, FileReplaced DEF Closes
  <2>4. pc = "open" /\ pc' = "write" /\ UNCHANGED <<item, got>>
    BY <1>4 DEF Closes
  <2>5. \A i \in 1..Items : InOrder(i, "raw", "hourly")' /\ InOrder(i, "daily", "hourly")'
    BY <2>1, <2>2, <2>3, <2>4 DEF Kinds, Has, Awaited, InOrder, Whole
  <2>6. \/ toWrite' = <<"daily", "hourly">> /\ Has(item, {"raw"}, got)' /\ file'[item]["hourly"] = "none"
        \/ toWrite' = <<"hourly">> /\ Has(item, {"raw", "daily"}, got)' /\ file'[item]["hourly"] = "none"
        \/ toWrite' = <<>> /\ Has(item, {"raw", "daily", "hourly"}, got)'
    BY <2>1, <2>2, <2>3, <2>4 DEF Kinds, Has, Awaited
  <2> QED BY <2>4, <2>5, <2>6 DEF Awaited
<1>5. CASE Ends \/ ProductFills \/ ProductCloses
  BY <1>5 DEF Ends, ProductFills, ProductCloses, InOrder
<1>6. CASE WestPass
  BY <1>6 DEF WestPass, Runs, InOrder
<1>7. CASE WestPage
  <2>1. /\ pc = "item" /\ item \in 1..Items /\ ~WestCollected(item) /\ page' = page + 1 /\ UNCHANGED <<item, file>>
        /\ IF page + 1 = Pages
           THEN got' = "rows" /\ toWrite' = <<"raw", "daily", "hourly">> /\ pc' = "write"
           ELSE pc' = "item"
    BY <1>7 DEF WestPage, Runs, LastPage, Receives, WestFiles
  <2>2. file[item]["hourly"] = "none"
    BY <2>1 DEF InOrder, Whole
  <2> QED BY <2>1, <2>2 DEF InOrder
<1>8. CASE WestNothing
  <2>1. /\ pc = "item" /\ item \in 1..Items /\ ~WestCollected(item) /\ UNCHANGED <<item, file>>
        /\ got' = "noRows" /\ toWrite' = <<"raw", "daily", "hourly">> /\ pc' = "write"
    BY <1>8 DEF WestNothing, Runs, Receives, WestFiles
  <2>2. file[item]["hourly"] = "none"
    BY <2>1 DEF InOrder, Whole
  <2> QED BY <2>1, <2>2 DEF InOrder
<1>9. CASE MonthKept
  BY <1>9 DEF MonthKept, Remembers, InOrder
<1> QED BY <1>1, <1>2, <1>3, <1>4, <1>5, <1>6, <1>7, <1>8, <1>9, OwnSteps
-----------------------------------------------------------------------------
(* KMA stations *)

LEMMA AsosKept == StepsOK /\ RowsOK /\ AsosOK /\ CollectorsStep => AsosOK'
<1> SUFFICES ASSUME StepsOK, RowsOK, AsosOK, CollectorsStep, script = "asos", script' = "asos" PROVE AsosOK'
  BY ScriptStays DEF AsosOK
<1> USE DEF StepsOK, RowsOK, AsosOK, Writing, Goes, GoesOn, Dies, drive, memory, AsosCached
<1>1. CASE Start
  BY <1>1 DEF Start, InOrder
<1>2. CASE Quits
  BY <1>2 DEF Quits, InOrder
<1>3. CASE Opens
  <2>1. PICK k \in {"raw", "csv", "parquet"} :
           /\ k = Head(toWrite)
           /\ \/ k = "raw" /\ toWrite = <<"raw">>
              \/ k = "raw" /\ toWrite = <<"raw", "csv", "parquet">>
              \/ k = "csv" /\ toWrite = <<"csv", "parquet">>
              \/ k = "parquet" /\ toWrite = <<"parquet">>
    BY <1>3 DEF Opens
  <2>2. item \in 1..Items /\ k \in Kinds
    BY <1>3 DEF Opens, Kinds
  <2>3. \A i \in 1..Items : \A x \in Kinds :
            file'[i][x] = IF i = item /\ x = k THEN "cut" ELSE file[i][x]
    BY <1>3, <2>1, <2>2, FileReplaced DEF Opens
  <2>4. pc = "write" /\ pc' = "open" /\ UNCHANGED <<item, toWrite, got>>
    BY <1>3 DEF Opens
  <2> QED BY <2>1, <2>2, <2>3, <2>4 DEF Kinds, Has, Awaited, InOrder, Whole
<1>4. CASE Closes
  <2>1. PICK k \in {"raw", "csv", "parquet"} :
           /\ k = Head(toWrite)
           /\ \/ k = "raw" /\ toWrite = <<"raw">> /\ toWrite' = <<>>
              \/ k = "raw" /\ toWrite = <<"raw", "csv", "parquet">> /\ toWrite' = <<"csv", "parquet">>
              \/ k = "csv" /\ toWrite = <<"csv", "parquet">> /\ toWrite' = <<"parquet">>
              \/ k = "parquet" /\ toWrite = <<"parquet">> /\ toWrite' = <<>>
    <3>1. toWrite' = Tail(toWrite)
      BY <1>4 DEF Closes
    <3>2. CASE toWrite = <<"raw", "csv", "parquet">>
      BY <3>1, <3>2
    <3>3. CASE toWrite = <<"csv", "parquet">>
      BY <3>1, <3>3
    <3>4. CASE toWrite = <<"parquet">>
      BY <3>1, <3>4
    <3>5. CASE toWrite = <<"raw">>
      BY <3>1, <3>5
    <3> QED BY <1>4, <3>2, <3>3, <3>4, <3>5 DEF Closes
  <2>2. item \in 1..Items /\ k \in Kinds
    BY <1>4 DEF Closes, Kinds
  <2>3. \A i \in 1..Items : \A x \in Kinds :
            file'[i][x] = IF i = item /\ x = k THEN got ELSE file[i][x]
    BY <1>4, <2>1, <2>2, FileReplaced DEF Closes
  <2>4. pc = "open" /\ pc' = "write" /\ UNCHANGED <<item, got>>
    BY <1>4 DEF Closes
  <2>5. CASE got = "noRows"
    <3>1. k = "raw" /\ toWrite' = <<>>
      BY <2>1, <2>4, <2>5
    <3> QED BY <2>2, <2>3, <2>4, <2>5, <3>1 DEF Kinds, InOrder
  <2>6. CASE got = "rows"
    <3>1. toWrite # <<"raw">>
      BY <2>4, <2>6
    <3> QED BY <2>1, <2>2, <2>3, <2>4, <2>6, <3>1 DEF Kinds, Has, Awaited, InOrder, Whole
  <2> QED BY <2>4, <2>5, <2>6
<1>5. CASE Ends \/ ProductFills \/ ProductCloses \/ Combine
  BY <1>5 DEF Ends, ProductFills, ProductCloses, Combine, InOrder
<1>6. CASE AsosPass
  <2>1. pc' \in {"off", "item"} /\ UNCHANGED file
    BY <1>6 DEF AsosPass
  <2> QED BY <2>1 DEF InOrder
<1>7. CASE AsosRequest
  <2>1. /\ item \in 1..Items /\ ~AsosCached(item) /\ UNCHANGED <<item, file>> /\ pc' = "write"
        /\ \/ got' = "rows" /\ toWrite' = <<"raw", "csv", "parquet">>
           \/ got' = "noRows" /\ toWrite' = <<"raw">>
    BY <1>7 DEF AsosRequest, Runs, Receives, AsosFiles
  <2> QED BY <2>1 DEF InOrder
<1>8. CASE AsosKeep
  <2>1. pc' \in {"off", "item"} /\ UNCHANGED file
    BY <1>8 DEF AsosKeep
  <2> QED BY <2>1 DEF InOrder
<1> QED BY <1>1, <1>2, <1>3, <1>4, <1>5, <1>6, <1>7, <1>8, OwnSteps
-----------------------------------------------------------------------------
(* One station *)

LEMMA StationKept == StepsOK /\ RowsOK /\ StationOK /\ CollectorsStep => StationOK'
<1> SUFFICES ASSUME StepsOK, RowsOK, StationOK, CollectorsStep, script = "station", script' = "station"
             PROVE  StationOK'
  BY ScriptStays DEF StationOK
<1> USE ItemsAssumption DEF StepsOK, RowsOK, StationOK, Begun, Writing, Goes, GoesOn, Dies, drive, memory
<1>1. CASE Start
  BY <1>1 DEF Start
<1>2. CASE Quits
  BY <1>2 DEF Quits
<1>3. CASE Opens
  <2>1. PICK k \in {"raw", "csv"} : /\ k = Head(toWrite)
                                    /\ \/ k = "raw" /\ toWrite = <<"raw", "csv">>
                                       \/ k = "csv" /\ toWrite = <<"csv">>
    BY <1>3 DEF Opens
  <2>2. item \in 1..Items /\ k \in Kinds
    BY <1>3 DEF Opens, Kinds
  <2>3. \A i \in 1..Items : \A x \in Kinds :
            file'[i][x] = IF i = item /\ x = k THEN "cut" ELSE file[i][x]
    BY <1>3, <2>1, <2>2, FileReplaced DEF Opens
  <2>4. pc = "write" /\ pc' = "open" /\ UNCHANGED <<item, toWrite, got>>
    BY <1>3 DEF Opens
  <2> QED BY <2>1, <2>2, <2>3, <2>4 DEF Kinds, Has
<1>4. CASE Closes
  <2>1. PICK k \in {"raw", "csv"} : /\ k = Head(toWrite)
                                    /\ \/ k = "raw" /\ toWrite = <<"raw", "csv">> /\ toWrite' = <<"csv">>
                                       \/ k = "csv" /\ toWrite = <<"csv">> /\ toWrite' = <<>>
    <3>1. toWrite' = Tail(toWrite)
      BY <1>4 DEF Closes
    <3>2. CASE toWrite = <<"raw", "csv">>
      BY <3>1, <3>2
    <3>3. CASE toWrite = <<"csv">>
      BY <3>1, <3>3
    <3> QED BY <1>4, <3>2, <3>3 DEF Closes
  <2>2. item \in 1..Items /\ k \in Kinds
    BY <1>4 DEF Closes, Kinds
  <2>3. \A i \in 1..Items : \A x \in Kinds :
            file'[i][x] = IF i = item /\ x = k THEN got ELSE file[i][x]
    BY <1>4, <2>1, <2>2, FileReplaced DEF Closes
  <2>4. pc = "open" /\ pc' = "write" /\ UNCHANGED <<item, got>>
    BY <1>4 DEF Closes
  <2> QED BY <2>1, <2>2, <2>3, <2>4 DEF Kinds, Has
<1>5. CASE Ends
  <2>1. pc = "item" /\ item = Items + 1 /\ pc' = "ended" /\ UNCHANGED file
    BY <1>5 DEF Ends
  <2> QED BY <2>1 DEF Has, Told
<1>6. CASE ProductFills \/ ProductCloses
  BY <1>6 DEF ProductFills, ProductCloses
<1>7. CASE StationRequest
  BY <1>7 DEF StationRequest, Runs, Receives, StationFiles, Has
<1>8. CASE MonthKept
  <2>1. pc = "write" /\ toWrite = <<>> /\ pc' = "item" /\ item' = item + 1 /\ UNCHANGED file
    BY <1>8 DEF MonthKept, Written
  <2> QED BY <2>1 DEF Has
<1> QED BY <1>1, <1>2, <1>3, <1>4, <1>5, <1>6, <1>7, <1>8, OwnSteps
-----------------------------------------------------------------------------
(* Calendar, values of a satellite time, values of a forecast *)

LEMMA ValuesKept == StepsOK /\ RowsOK /\ ValuesOK /\ CollectorsStep => ValuesOK'
<1> SUFFICES ASSUME StepsOK, RowsOK, ValuesOK, CollectorsStep, script \in {"kasi", "cloud", "village"}, script' = script
             PROVE  ValuesOK'
  BY ScriptStays DEF ValuesOK
<1> USE ItemsAssumption DEF StepsOK, RowsOK, ValuesOK, Begun, Writing, Goes, GoesOn, Dies, drive, memory
<1>1. CASE Start
  BY <1>1 DEF Start
<1>2. CASE Quits
  BY <1>2 DEF Quits
<1>3. CASE Opens
  <2>1. toWrite = <<"raw">> /\ item \in 1..Items /\ "raw" \in Kinds
    BY <1>3 DEF Opens, Kinds
  <2>2. \A i \in 1..Items : \A x \in Kinds :
            file'[i][x] = IF i = item /\ x = "raw" THEN "cut" ELSE file[i][x]
    BY <1>3, <2>1, FileReplaced DEF Opens
  <2>3. pc = "write" /\ pc' = "open" /\ UNCHANGED <<item, toWrite, got>>
    BY <1>3 DEF Opens
  <2> QED BY <2>1, <2>2, <2>3 DEF Has
<1>4. CASE Closes
  <2>1. toWrite = <<"raw">> /\ item \in 1..Items /\ "raw" \in Kinds
    BY <1>4 DEF Closes, Kinds
  <2>2. \A i \in 1..Items : \A x \in Kinds :
            file'[i][x] = IF i = item /\ x = "raw" THEN got ELSE file[i][x]
    BY <1>4, <2>1, FileReplaced DEF Closes
  <2>3. pc = "open" /\ pc' = "write" /\ toWrite' = <<>> /\ UNCHANGED <<item, got>>
    BY <1>4, <2>1 DEF Closes
  <2> QED BY <2>1, <2>2, <2>3 DEF Has
<1>5. CASE Ends \/ ProductFills \/ ProductCloses \/ Combine
  BY <1>5 DEF Ends, ProductFills, ProductCloses, Combine, Has
<1>6. CASE KasiRequest \/ ValueRequest
  <2>1. /\ pc = "item" /\ pc' = "write" /\ toWrite' = <<"raw">> /\ got' \in {"rows", "noRows"}
        /\ (script = "kasi" => got' = "rows") /\ UNCHANGED <<item, file>>
    BY <1>6 DEF KasiRequest, ValueRequest, Runs, Receives
  <2> QED BY <2>1 DEF Has
<1>7. CASE ValueKept
  <2>1. pc = "write" /\ toWrite = <<>> /\ pc' = "item" /\ item' = item + 1 /\ UNCHANGED file
    BY <1>7 DEF ValueKept, Written
  <2> QED BY <2>1 DEF Has
<1>8. CASE ValueFails
  BY <1>8 DEF ValueFails, Runs
<1>9. CASE VillageNothing
  BY <1>9 DEF VillageNothing
<1> QED BY <1>1, <1>2, <1>3, <1>4, <1>5, <1>6, <1>7, <1>8, <1>9, OwnSteps

LEMMA CombinedKept == StepsOK /\ RowsOK /\ CombinedOK /\ CollectorsStep => CombinedOK'
<1> SUFFICES ASSUME StepsOK, RowsOK, CombinedOK, CollectorsStep,
                    script \in {"asos", "kasi", "cloud", "village"}, script' = script
             PROVE  CombinedOK'
  BY ScriptStays DEF CombinedOK
<1> USE ArchiveAssumption, ItemsAssumption
    DEF StepsOK, RowsOK, CombinedOK, Begun, Writing, Goes, GoesOn, Dies, drive, memory, Remembers
<1>1. CASE Start
  BY <1>1 DEF Start
<1>2. CASE Quits
  BY <1>2 DEF Quits
<1>3. CASE Opens \/ Closes
  BY <1>3 DEF Opens, Closes
<1>4. CASE Ends
  BY <1>4 DEF Ends, Products
<1>5. CASE ProductFills
  BY <1>5 DEF ProductFills
<1>6. CASE ProductCloses
  BY <1>6 DEF ProductCloses
<1>7. CASE Combine
  BY <1>7 DEF Combine
<1>8. CASE AsosPass \/ AsosRequest \/ AsosKeep
  BY <1>8 DEF AsosPass, AsosRequest, AsosKeep, Runs, Written
<1>9. CASE KasiRequest \/ ValueRequest \/ ValueKept
  BY <1>9 DEF KasiRequest, ValueRequest, ValueKept, Runs, Written
<1>10. CASE ValueFails
  BY <1>10 DEF ValueFails, Runs
<1>11. CASE VillageNothing
  BY <1>11 DEF VillageNothing
<1> QED BY <1>1, <1>2, <1>3, <1>4, <1>5, <1>6, <1>7, <1>8, <1>9, <1>10, <1>11, OwnSteps
-----------------------------------------------------------------------------
(* NASA POWER *)

LEMMA NasaKept == StepsOK /\ RowsOK /\ NasaOK /\ CollectorsStep => NasaOK'
<1> SUFFICES ASSUME StepsOK, RowsOK, NasaOK, CollectorsStep, script = "nasa", script' = "nasa" PROVE NasaOK'
  BY ScriptStays DEF NasaOK
<1>0. /\ \A i : Told(i) <=> (file[i]["csv"] # "cut" => db[i] = file[i]["csv"])
      /\ \A i : Told(i)' <=> (file'[i]["csv"] # "cut" => db'[i] = file'[i]["csv"])
  BY DEF Told
<1> USE ItemsAssumption DEF StepsOK, RowsOK, NasaOK, Begun, Writing, Goes, GoesOn, Dies, drive, memory
<1>1. CASE Start
  BY <1>0, <1>1 DEF Start
<1>2. CASE Quits
  BY <1>0, <1>2 DEF Quits
<1>3. CASE Opens
  <2>1. PICK k \in {"raw", "csv", "metadata"} :
           /\ k = Head(toWrite)
           /\ \/ k = "raw" /\ toWrite = <<"raw", "csv", "metadata">>
              \/ k = "csv" /\ toWrite = <<"csv", "metadata">>
              \/ k = "metadata" /\ toWrite = <<"metadata">>
    BY <1>3 DEF Opens
  <2>2. item \in 1..Items /\ k \in Kinds /\ "csv" \in Kinds /\ "raw" \in Kinds
    BY <1>3 DEF Opens, Kinds
  <2>3. \A i \in 1..Items : \A x \in Kinds :
            file'[i][x] = IF i = item /\ x = k THEN "cut" ELSE file[i][x]
    BY <1>3, <2>1, <2>2, FileReplaced DEF Opens
  <2>4. pc = "write" /\ pc' = "open" /\ UNCHANGED <<item, toWrite, got, db>>
    BY <1>3 DEF Opens
  <2>5. \A j \in 1..item - 1 : Told(j)'
    <3>1. \A j \in 1..item - 1 : j \in 1..Items /\ j # item /\ file'[j]["csv"] = file[j]["csv"] /\ Told(j)
      BY <2>2, <2>3, <2>4
    <3> QED BY <1>0, <2>4, <3>1
  <2>6. \A i \in 1..Items : file'[i]["csv"] = "api" => file'[i]["raw"] = "api"
    BY <2>1, <2>2, <2>3, <2>4
  <2> QED BY <2>1, <2>2, <2>3, <2>4, <2>5, <2>6
<1>4. CASE Closes
  <2>1. PICK k \in {"raw", "csv", "metadata"} :
           /\ k = Head(toWrite)
           /\ \/ k = "raw" /\ toWrite = <<"raw", "csv", "metadata">> /\ toWrite' = <<"csv", "metadata">>
              \/ k = "csv" /\ toWrite = <<"csv", "metadata">> /\ toWrite' = <<"metadata">>
              \/ k = "metadata" /\ toWrite = <<"metadata">> /\ toWrite' = <<>>
    <3>1. toWrite' = Tail(toWrite)
      BY <1>4 DEF Closes
    <3>2. CASE toWrite = <<"raw", "csv", "metadata">>
      BY <3>1, <3>2
    <3>3. CASE toWrite = <<"csv", "metadata">>
      BY <3>1, <3>3
    <3>4. CASE toWrite = <<"metadata">>
      BY <3>1, <3>4
    <3> QED BY <1>4, <3>2, <3>3, <3>4 DEF Closes
  <2>2. item \in 1..Items /\ k \in Kinds /\ "csv" \in Kinds /\ "raw" \in Kinds
    BY <1>4 DEF Closes, Kinds
  <2>3. \A i \in 1..Items : \A x \in Kinds :
            file'[i][x] = IF i = item /\ x = k THEN got ELSE file[i][x]
    BY <1>4, <2>1, <2>2, FileReplaced DEF Closes
  <2>4. pc = "open" /\ pc' = "write" /\ UNCHANGED <<item, got, db>>
    BY <1>4 DEF Closes
  <2>5. \A j \in 1..item - 1 : Told(j)'
    <3>1. \A j \in 1..item - 1 : j \in 1..Items /\ j # item /\ file'[j]["csv"] = file[j]["csv"] /\ Told(j)
      BY <2>2, <2>3, <2>4
    <3> QED BY <1>0, <2>4, <3>1
  <2>6. \A i \in 1..Items : file'[i]["csv"] = "api" => file'[i]["raw"] = "api"
    BY <2>1, <2>2, <2>3, <2>4
  <2> QED BY <2>1, <2>2, <2>3, <2>4, <2>5, <2>6
<1>5. CASE Ends
  BY <1>0, <1>5 DEF Ends
<1>6. CASE ProductFills \/ ProductCloses
  BY <1>6 DEF ProductFills, ProductCloses
<1>7. CASE NasaPass
  BY <1>0, <1>7 DEF NasaPass, NasaReloads, Runs
<1>8. CASE NasaRequestS3
  <2>1. /\ pc = "item" /\ item \in 1..Items /\ file[item]["csv"] = "none" /\ UNCHANGED <<item, file, db>>
        /\ \/ pc' = "write" /\ got' = "s3" /\ toWrite' = <<"csv", "metadata">>
           \/ pc' = "api"
    BY <1>8 DEF NasaRequestS3, Runs, NasaCached, Receives, S3Unavailable
  <2> QED BY <1>0, <2>1
<1>9. CASE NasaRequestApi
  <2>1. /\ pc = "api" /\ pc' = "write" /\ UNCHANGED <<item, file, db>>
        /\ got' = "api" /\ toWrite' = <<"raw", "csv", "metadata">>
    BY <1>9 DEF NasaRequestApi, Receives
  <2> QED BY <1>0, <2>1
<1>10. CASE NasaWritten
  <2>1. pc = "write" /\ toWrite = <<>> /\ pc' = "load" /\ UNCHANGED <<item, file, db, got>>
    BY <1>10 DEF NasaWritten, Written
  <2> QED BY <1>0, <2>1
<1>11. CASE NasaLoad
  <2>1. /\ pc = "load" /\ pc' = "item" /\ item' = item + 1 /\ UNCHANGED file
        /\ db' = [db EXCEPT ![item] = NasaFrame]
    BY <1>11 DEF NasaLoad, Load
  <2>2. file[item]["csv"] # "cut" => NasaFrame = file[item]["csv"]
    BY <2>1 DEF NasaFrame
  <2> HIDE DEF NasaFrame
  <2>3. \A j \in 1..item : file[j]["csv"] # "cut" => db'[j] = file[j]["csv"]
    <3>1. /\ \A j \in 1..item : j \in 1..item - 1 \/ j = item
          /\ \A j \in 1..item - 1 : j \in 1..Items /\ db'[j] = db[j] /\ Told(j)
          /\ db'[item] = NasaFrame
      BY <2>1
    <3> QED BY <1>0, <2>2, <3>1
  <2>4. \A j \in 1..item : Told(j)'
    BY <1>0, <2>1, <2>3
  <2>5. 1..item' - 1 = 1..item
    BY <2>1
  <2> QED BY <2>1, <2>4, <2>5
<1>12. CASE NasaLoadFails
  <2>1. /\ pc = "load" /\ pc' = (IF got = "s3" THEN "api" ELSE "off") /\ UNCHANGED <<item, file>>
        /\ db' \in {db, [db EXCEPT ![item] = NasaFrame]}
    BY <1>12 DEF NasaLoadFails, Load, LoadCaught
  <2>2. \A j \in 1..item - 1 : db'[j] = db[j]
    BY <2>1
  <2> QED BY <1>0, <2>1, <2>2
<1>13. CASE NasaWriteFails
  <2>1. /\ Writing /\ got = "s3" /\ pc' = "api" /\ UNCHANGED <<item, file, db>>
    BY <1>13 DEF NasaWriteFails, LoadCaught
  <2> QED BY <1>0, <2>1
<1> QED BY <1>1, <1>2, <1>3, <1>4, <1>5, <1>6, <1>7, <1>8, <1>9, <1>10, <1>11, <1>12, <1>13, OwnSteps
-----------------------------------------------------------------------------
(* All scripts *)

LEMMA CollectorsInitial == CollectorsInit => CollectorsInv
<1> SUFFICES ASSUME CollectorsInit PROVE CollectorsInv
  OBVIOUS
<1>1. /\ script \in Sources /\ pc = "off" /\ item = 1 /\ product = 1 /\ frames = {} /\ merged = {}
      /\ \A i \in 1..Items : \A k \in Kinds : file[i][k] = "none"
      /\ file \in [1..Items -> [Kinds -> Holdings]] /\ held \in [1..Months -> SUBSET (1..Items)]
      /\ db \in [1..Items -> Holdings]
      /\ Items \in Nat \ {0} /\ Months \in Nat \ {0}
  BY ArchiveAssumption, ItemsAssumption DEF CollectorsInit, Holdings
<1>2. \A i \in 1..Items : file[i]["raw"] = "none" /\ file[i]["csv"] = "none" /\ file[i]["hourly"] = "none"
                         /\ file[i]["parquet"] = "none"
  BY <1>1 DEF Kinds
<1> USE DEF Begun, Writing
<1>3. StepsOK /\ RowsOK
  BY <1>1 DEF StepsOK, RowsOK
<1>4. KpxOK /\ WestOK /\ AsosOK
  BY <1>1, <1>2 DEF KpxOK, WestOK, AsosOK, InOrder
<1>5. StationOK /\ ValuesOK /\ CombinedOK /\ NasaOK
  BY <1>1, <1>2 DEF StationOK, ValuesOK, CombinedOK, NasaOK
<1> QED BY <1>3, <1>4, <1>5 DEF CollectorsInv

LEMMA CollectorsKept == CollectorsInv /\ CollectorsStep => CollectorsInv'
BY StepsKept, RowsKept, KpxKept, WestKept, AsosKept, StationKept, ValuesKept, CombinedKept, NasaKept DEF CollectorsInv

LEMMA CollectorsFramed ==
    CollectorsInv /\ UNCHANGED <<script, drive, pc, item, memory>> => CollectorsInv'
<1> SUFFICES ASSUME CollectorsInv, UNCHANGED <<script, drive, pc, item, memory>> PROVE CollectorsInv'
  OBVIOUS
<1> USE DEF drive, memory, CollectorsInv, Begun, Writing, InOrder, Has, Awaited, KpxCollected, KpxRowsOf
<1>1. StepsOK' /\ RowsOK'
  BY DEF StepsOK, RowsOK
<1>2. \A i : Told(i)' = Told(i)
  BY DEF Told
<1>3. KpxOK'
  BY <1>2 DEF KpxOK
<1>4. WestOK' /\ AsosOK'
  BY DEF WestOK, AsosOK
<1>5. StationOK' /\ ValuesOK'
  BY <1>2 DEF StationOK, ValuesOK
<1>6. CombinedOK' /\ NasaOK'
  BY <1>2 DEF CombinedOK, NasaOK
<1> QED BY <1>1, <1>3, <1>4, <1>5, <1>6

LEMMA OneAnswerIsKept == CollectorsInv => KeptIsOneAnswer
<1> SUFFICES ASSUME CollectorsInv, NEW i \in 1..Items, Collected(i), script \in {"kpx", "west", "asos", "nasa"}
             PROVE  IF script = "nasa" THEN file[i]["csv"] = "api" => file[i]["raw"] = "api"
                    ELSE LET kinds == FilesOf(script)
                             last  == file[i][kinds[Len(kinds)]]
                         IN  \A n \in 1..Len(kinds) - 1 :
                                 file[i][kinds[n]] \in (IF last = "cut" THEN Whole ELSE Whole \intersect {last})
  BY DEF KeptIsOneAnswer
<1>1. CASE script = "nasa"
  BY <1>1 DEF CollectorsInv, NasaOK
<1>2. CASE script = "kpx"
  <2>1. FilesOf(script) = <<"raw", "csv">>
    BY <1>2 DEF FilesOf, KpxFiles
  <2>2. KpxCollected(i) /\ InOrder(i, "raw", "csv")
    BY <1>2 DEF Collected, CollectorsInv, KpxOK
  <2>3. \A n \in 1..Len(<<"raw", "csv">>) - 1 : n = 1
    OBVIOUS
  <2> QED BY <1>2, <2>1, <2>2, <2>3 DEF KpxCollected, InOrder
<1>3. CASE script = "west"
  <2>1. FilesOf(script) = <<"raw", "daily", "hourly">>
    BY <1>3 DEF FilesOf, WestFiles
  <2>2. WestCollected(i) /\ InOrder(i, "raw", "hourly") /\ InOrder(i, "daily", "hourly")
    BY <1>3 DEF Collected, CollectorsInv, WestOK
  <2>3. \A n \in 1..Len(<<"raw", "daily", "hourly">>) - 1 : n \in {1, 2}
    OBVIOUS
  <2> QED BY <1>3, <2>1, <2>2, <2>3 DEF WestCollected, InOrder
<1>4. CASE script = "asos"
  <2>1. FilesOf(script) = <<"raw", "csv", "parquet">>
    BY <1>4 DEF FilesOf, AsosFiles
  <2>2. AsosCached(i) /\ InOrder(i, "raw", "parquet") /\ InOrder(i, "csv", "parquet")
    BY <1>4 DEF Collected, CollectorsInv, AsosOK
  <2>3. \A n \in 1..Len(<<"raw", "csv", "parquet">>) - 1 : n \in {1, 2}
    OBVIOUS
  <2>4. /\ <<"raw", "csv", "parquet">>[Len(<<"raw", "csv", "parquet">>)] = "parquet"
        /\ <<"raw", "csv", "parquet">>[1] = "raw" /\ <<"raw", "csv", "parquet">>[2] = "csv"
    OBVIOUS
  <2>5. file[i]["parquet"] # "none"
    BY <2>2 DEF AsosCached
  <2>6. \A k \in {"raw", "csv"} : file[i][k] \in Whole /\ file[i]["parquet"] \in {"cut", file[i][k]}
    BY <2>2, <2>5 DEF InOrder
  <2>7. \A n \in {1, 2} : <<"raw", "csv", "parquet">>[n] \in {"raw", "csv"}
    BY <2>4
  <2> QED BY <1>4, <2>1, <2>3, <2>4, <2>6, <2>7
<1> QED BY <1>1, <1>2, <1>3, <1>4

LEMMA AllIsTold == CollectorsInv => EndedIsTold
<1> SUFFICES ASSUME CollectorsInv, pc = "ended", NEW i \in 1..Items, Collected(i) PROVE Told(i)
  BY DEF EndedIsTold
<1>1. script \in {"gk2a", "kpx", "west", "asos", "station", "kasi", "cloud", "village", "nasa", "shards"}
  BY SourcesAssumption DEF CollectorsInv, StepsOK
<1>2. CASE script = "kpx"
  BY <1>2 DEF Collected, CollectorsInv, KpxOK
<1>3. CASE script \in {"station", "nasa"}
  BY <1>3 DEF CollectorsInv, StationOK, NasaOK
<1>4. CASE script \in {"gk2a", "shards", "west"}
  BY <1>4 DEF Told
<1>5. CASE script \in {"asos", "kasi"}
  <2>1. i \in held[1] /\ i \in 1..item - 1
    BY <1>5, ItemsAssumption DEF CollectorsInv, CombinedOK, StepsOK
  <2>2. script = "kasi" => file[i]["raw"] = "rows"
    BY <1>5, <2>1 DEF CollectorsInv, ValuesOK, Has
  <2> QED BY <1>5, <2>1, <2>2 DEF Told
<1>6. CASE script \in {"cloud", "village"}
  <2>1. i \in frames
    BY <1>6 DEF Collected
  <2> QED BY <1>6, <2>1 DEF Told, CollectorsInv, CombinedOK
<1> QED BY <1>1, <1>2, <1>3, <1>4, <1>5, <1>6

-----------------------------------------------------------------------------
(* The training data: what a row says of its month. *)

LEMMA PartFacts ==
    /\ None.is = "none" /\ None.rows = {} /\ Cut.is = "cut" /\ Cut.rows = {}
    /\ \A rows : Table(rows).is = "whole" /\ Table(rows).rows = rows
BY DEF None, Cut, Table

LEMMA MonthFacts ==
    /\ \A m : OfMonth(m) \subseteq 1..Hours /\ Sequences(m) \subseteq OfMonth(m)
    /\ \A m : \A h \in OfMonth(m) : MonthOfHour(h) = m
    /\ \A rows : Samples(rows) \subseteq rows
BY DEF OfMonth, Sequences, Samples

LEMMA TableFacts ==
    \A t \in Tables : /\ t.is \in {"none", "cut", "whole"} /\ t.rows \subseteq 1..Hours
                      /\ t.is # "whole" => t.rows = {}
                      /\ t.is = "whole" => t = Table(t.rows)
<1> TAKE t \in Tables
<1>1. CASE t \in {None, Cut}
  BY <1>1, PartFacts
<1>2. CASE t \notin {None, Cut}
  <2>1. PICK rows \in SUBSET (1..Hours) : t = Table(rows)
    BY <1>2 DEF Tables
  <2>2. t.is = "whole" /\ t.rows = rows
    BY <2>1, PartFacts
  <2> QED BY <2>1, <2>2
<1> QED BY <1>1, <1>2

LEMMA TablesHave ==
    /\ None \in Tables /\ Cut \in Tables
    /\ \A rows \in SUBSET (1..Hours) : Table(rows) \in Tables
BY DEF Tables

(* A file of the shard of one month is replaced. *)
LEMMA Replaced ==
    ASSUME shard \in [1..Months -> [Parts -> Tables]], NEW i \in 1..Months, NEW k \in Parts,
           NEW t \in Tables, shard' = [shard EXCEPT ![i][k] = t]
    PROVE  /\ shard' \in [1..Months -> [Parts -> Tables]]
           /\ \A m \in 1..Months : \A p \in Parts :
                 shard'[m][p] = IF m = i /\ p = k THEN t ELSE shard[m][p]
<1>1. shard' = [shard EXCEPT ![i] = [shard[i] EXCEPT ![k] = t]]
  OBVIOUS
<1>2. [shard[i] EXCEPT ![k] = t] \in [Parts -> Tables]
  OBVIOUS
<1>3. shard' \in [1..Months -> [Parts -> Tables]]
  BY <1>1, <1>2
<1>4. \A m \in 1..Months : shard'[m] = IF m = i THEN [shard[i] EXCEPT ![k] = t] ELSE shard[m]
  BY <1>1
<1> QED BY <1>3, <1>4

(* Steps that leave the tables and the copy alone. *)
LEMMA DataElsewhere ==
    ASSUME DataInv, UNCHANGED <<shard, whole, copied>>, Settled' => Settled,
           packer' = "read" => packer = "read"
    PROVE  MonthsOK' /\ TablesOK' /\ CopiedOK'
BY DEF DataInv, MonthsOK, OneBuild, TablesOK, CopiedOK, Read, SameImages

LEMMA ShardsElsewhere ==
    ASSUME ShardsOK, shard' = shard, targeted' \in 1..Months, seen'[2] \in 0..targeted',
           seen[2] <= seen'[2]
    PROVE  ShardsOK'
BY DEF ShardsOK

LEMMA BuilderElsewhere ==
    ASSUME BuilderOK, UNCHANGED <<build, loose>>
    PROVE  BuilderOK' /\ Settled' = Settled
BY DEF BuilderOK, build, Working, Settled, At, OneBuild, Sequences, CompleteSequenceAvailable

LEMMA DataInitial == DataInit => DataInv
<1> SUFFICES ASSUME DataInit PROVE DataInv
  OBVIOUS
<1>1. /\ shard = [m \in 1..Months |-> [p \in Parts |-> None]]
      /\ whole = [p \in {"sequences", "samples"} |-> None]
      /\ builder = <<"off", "before">> /\ month = 1 /\ seen[2] = 1 /\ targeted = 1
      /\ packer = "off" /\ copied = [m \in 1..Months |-> {}]
      /\ Months \in Nat \ {0}
  BY ArchiveAssumption DEF DataInit, At
<1>2. ShardsOK
  BY <1>1, TablesHave, PartFacts DEF ShardsOK
<1>3. BuilderOK
  BY <1>1 DEF BuilderOK, Working, At
<1>4. MonthsOK /\ TablesOK /\ CopiedOK
  BY <1>1, TablesHave, PartFacts DEF MonthsOK, TablesOK, CopiedOK, Parts
<1> QED BY <1>2, <1>3, <1>4 DEF DataInv

LEMMA SeenFacts ==
    ASSUME ShardsOK, BuilderOK
    PROVE  /\ Months \in Nat \ {0} /\ targeted \in 1..Months /\ seen[2] \in Nat /\ seen[2] <= targeted
           /\ month \in 1..Months + 1
           /\ month <= seen[2] => month \in 1..Months /\ month \in 1..seen[2]
BY ArchiveAssumption DEF ShardsOK, BuilderOK

LEMMA StartsBuild == DataInv /\ StartBuild => DataInv'
<1> SUFFICES ASSUME DataInv, StartBuild PROVE DataInv'
  OBVIOUS
<1>1. /\ At("off") /\ builder' = <<"month", "before">> /\ month' = 1 /\ seen' = <<have, targeted>>
      /\ loose' = (loose \/ force') /\ UNCHANGED <<targeted, shard, whole, packer, copied>>
  BY DEF StartBuild, source, packing
<1>2. /\ Months \in Nat \ {0} /\ targeted \in 1..Months /\ seen[2] \in Nat /\ seen[2] <= targeted
      /\ seen'[2] = targeted /\ targeted \in 0..targeted
  BY <1>1, SeenFacts DEF DataInv
<1>3. Settled' => Settled
  BY <1>1 DEF Settled, At
<1>4. MonthsOK' /\ TablesOK' /\ CopiedOK'
  BY <1>1, <1>3, DataElsewhere
<1>5. ShardsOK'
  BY <1>1, <1>2, ShardsElsewhere DEF DataInv
<1>6. BuilderOK'
  <2>1. builder'[1] = "month" /\ builder'[2] = "before" /\ month' \in 1..Months + 1
    BY <1>1, <1>2
  <2>2. force' /\ Working' => loose'
    BY <1>1
  <2>3. \A m \in 1..seen'[2] : ~(m < month')
    BY <1>1, <1>2
  <2> QED BY <2>1, <2>2, <2>3 DEF BuilderOK
<1> QED BY <1>4, <1>5, <1>6 DEF DataInv

LEMMA LoadsShard == DataInv /\ LoadShard => DataInv'
<1> SUFFICES ASSUME DataInv, LoadShard PROVE DataInv'
  OBVIOUS
<1>1. /\ At("month") /\ month <= seen[2] /\ ~force /\ builder' \in {builder, <<"off", "before">>}
      /\ month' \in {month, month + 1}
      /\ UNCHANGED <<targeted, shard, whole, force, seen, packer, copied, loose>>
  BY DEF LoadShard, source, packing
<1>2. /\ Months \in Nat \ {0} /\ targeted \in 1..Months /\ seen[2] \in 0..targeted /\ seen[2] \in Nat
      /\ month \in 1..Months /\ month' \in 1..Months + 1
  BY <1>1, SeenFacts DEF DataInv, ShardsOK
<1>3. Settled' => Settled
  BY <1>1 DEF Settled
<1>4. MonthsOK' /\ TablesOK' /\ CopiedOK'
  BY <1>1, <1>3, DataElsewhere
<1>5. ShardsOK'
  BY <1>1, <1>2, ShardsElsewhere DEF DataInv
<1>6. BuilderOK'
  <2>1. builder'[1] \in {"month", "off"} /\ builder'[2] = "before"
    BY <1>1 DEF At
  <2> QED BY <1>1, <1>2, <2>1 DEF BuilderOK
<1> QED BY <1>4, <1>5, <1>6 DEF DataInv

LEMMA BuildsImages == DataInv /\ BuildImages => DataInv'
<1> SUFFICES ASSUME DataInv, BuildImages PROVE DataInv'
  OBVIOUS
<1>1. /\ At("month") /\ month <= seen[2] /\ (~ShardExists(month) \/ force)
      /\ shard' = [shard EXCEPT ![month]["images"] = Table(Sequences(month))]
      /\ builder' = <<"sequences", "before">>
      /\ UNCHANGED <<targeted, whole, month, force, seen, packer, copied, loose>>
  BY DEF BuildImages, source, packing
<1>2. /\ month \in 1..Months /\ month \in 1..seen[2] /\ seen[2] \in Nat
      /\ "images" \in Parts /\ "sequences" \in Parts /\ "samples" \in Parts
      /\ Table(Sequences(month)) \in Tables
      /\ shard \in [1..Months -> [Parts -> Tables]]
  BY <1>1, SeenFacts, MonthFacts, TablesHave DEF DataInv, ShardsOK, Parts
<1>3. /\ shard' \in [1..Months -> [Parts -> Tables]]
      /\ \A m \in 1..Months : \A p \in Parts :
            shard'[m][p] = IF m = month /\ p = "images" THEN Table(Sequences(month)) ELSE shard[m][p]
  BY <1>1, <1>2, Replaced
<1>4. Sequences(month)' = Sequences(month)
  BY <1>1 DEF Sequences, CompleteSequenceAvailable
<1>5. Settled' => Settled /\ ~loose
  BY <1>1 DEF Settled, At
<1>6. Settled' => shard[month]["samples"].is = "none"
  <2>1. ASSUME Settled', shard[month]["samples"].is # "none" PROVE FALSE
    <3>1. OneBuild(month) /\ ~force
      BY <1>1, <1>2, <1>5, <2>1 DEF DataInv, MonthsOK, BuilderOK, Working, At
    <3> QED BY <1>1, <2>1, <3>1 DEF OneBuild, ShardExists
  <2> QED BY <2>1
<1>7. ShardsOK'
  BY <1>1, <1>2, <1>3, PartFacts, MonthFacts DEF DataInv, ShardsOK
<1>8. MonthsOK'
  BY <1>2, <1>3, <1>5, <1>6 DEF DataInv, MonthsOK, OneBuild
<1>9. TablesOK'
  <2>1. Read' => Read
    BY <1>1, <1>5 DEF Read
  <2>2. ASSUME Read', NEW h \in whole["samples"].rows
        PROVE  shard'[MonthOfHour(h)]["images"] = shard[MonthOfHour(h)]["images"]
    <3>1. MonthOfHour(h) \in 1..Months /\ MonthOfHour(h) # month
      BY <1>6, <2>2 DEF DataInv, TablesOK, Read
    <3> QED BY <1>2, <1>3, <3>1
  <2>3. \A h \in whole["samples"].rows :
           MonthOfHour(h) \in 1..Months /\ shard'[MonthOfHour(h)]["samples"] = shard[MonthOfHour(h)]["samples"]
    BY <1>2, <1>3 DEF DataInv, TablesOK
  <2> QED BY <1>1, <2>1, <2>2, <2>3 DEF DataInv, TablesOK, SameImages
<1>10. CopiedOK'
  BY <1>1, <1>5 DEF DataInv, CopiedOK, Read, SameImages
<1>11. BuilderOK'
  <2>1. builder'[1] = "sequences" /\ builder[1] = "month" /\ Working
    BY <1>1 DEF At, Working
  <2>2. force => \A m \in 1..seen[2] : m < month => OneBuild(m)
    BY <2>1 DEF DataInv, BuilderOK
  <2>3. ASSUME NEW m \in 1..seen[2], m < month PROVE m \in 1..Months /\ OneBuild(m)' = OneBuild(m)
    <3>1. m \in 1..Months
      BY <1>2, SeenFacts DEF DataInv
    <3> QED BY <1>2, <1>3, <2>3, <3>1 DEF OneBuild
  <2>4. shard'[month]["images"] = Table(Sequences(month)) /\ shard'[month]["samples"] = shard[month]["samples"]
    BY <1>2, <1>3
  <2>5. force => loose
    BY <2>1 DEF DataInv, BuilderOK
  <2> QED BY <1>1, <1>2, <1>4, <1>6, <2>1, <2>2, <2>3, <2>4, <2>5 DEF DataInv, BuilderOK
<1> QED BY <1>7, <1>8, <1>9, <1>10, <1>11 DEF DataInv
LEMMA OpensShardTable == DataInv /\ OpenTable /\ builder[1] = Part => DataInv'
<1> SUFFICES ASSUME DataInv, OpenTable, builder[1] = Part PROVE DataInv'
  OBVIOUS
<1>1. /\ builder[1] \in {"sequences", "samples"} /\ Part \in Parts
      /\ builder' = <<builder[1], "open">> /\ builder[2] = "before"
      /\ shard' = [shard EXCEPT ![month][Part] = Cut]
      /\ UNCHANGED <<targeted, whole, month, force, seen, packer, copied, loose>>
  BY DEF OpenTable, Part, Parts, source, packing
<1>2. /\ month \in 1..seen[2] /\ month \in 1..Months /\ seen[2] \in Nat
      /\ shard \in [1..Months -> [Parts -> Tables]] /\ Cut \in Tables
      /\ \A m \in 1..seen[2] : m \in 1..Months
      /\ "images" \in Parts /\ "sequences" \in Parts /\ "samples" \in Parts
  BY <1>1, SeenFacts, TablesHave DEF DataInv, ShardsOK, BuilderOK, Parts
<1>3. /\ shard' \in [1..Months -> [Parts -> Tables]]
      /\ \A m \in 1..Months : \A p \in Parts :
            shard'[m][p] = IF m = month /\ p = Part THEN Cut ELSE shard[m][p]
  BY <1>1, <1>2, Replaced
<1>4. builder'[1] = builder[1] /\ builder'[2] = "open" /\ Working
  BY <1>1 DEF Working, At
<1>5. (Settled' => Settled) /\ Sequences(month)' = Sequences(month) /\ (Read' => Read)
  BY <1>1 DEF Settled, At, Sequences, CompleteSequenceAvailable, Read
<1>6. shard'[month]["images"] = Table(Sequences(month))
  BY <1>1, <1>2, <1>3 DEF DataInv, BuilderOK
<1>7. ShardsOK'
  BY <1>1, <1>2, <1>3, PartFacts DEF DataInv, ShardsOK
<1>8. MonthsOK'
  <2>1. ASSUME Settled', NEW m \in 1..Months, shard'[m]["samples"].is # "none" PROVE OneBuild(m)'
    <3>1. CASE m # month
      BY <1>2, <1>3, <1>5, <2>1, <3>1 DEF DataInv, MonthsOK, OneBuild
    <3>2. CASE m = month /\ builder[1] = "samples"
      <4>1. shard[month]["sequences"] = Table(Sequences(month)) /\ shard[month]["images"] = Table(Sequences(month))
        BY <1>1, <3>2 DEF DataInv, BuilderOK
      <4>2. shard'[month]["sequences"] = shard[month]["sequences"] /\ shard'[month]["images"] = shard[month]["images"]
        BY <1>1, <1>2, <1>3, <3>2
      <4> QED BY <1>5, <3>2, <4>1, <4>2, PartFacts DEF OneBuild
    <3>3. CASE m = month /\ builder[1] = "sequences"
      <4>1. shard'[month]["samples"] = shard[month]["samples"]
        BY <1>1, <1>2, <1>3, <3>3
      <4> QED BY <1>1, <1>5, <2>1, <3>3, <4>1 DEF DataInv, BuilderOK
    <3> QED BY <1>1, <3>1, <3>2, <3>3
  <2> QED BY <2>1 DEF MonthsOK
<1>9. TablesOK' /\ CopiedOK'
  <2>1. \A m \in 1..Months : shard'[m]["images"] = shard[m]["images"]
    BY <1>1, <1>2, <1>3
  <2>2. \A m \in 1..Months : shard[m]["samples"].is # "none" => shard'[m]["samples"].is # "none"
    BY <1>2, <1>3, PartFacts
  <2> QED BY <1>1, <1>5, <2>1, <2>2 DEF DataInv, TablesOK, CopiedOK, SameImages
<1>10. BuilderOK'
  <2>1. force => loose /\ \A m \in 1..seen[2] : m < month => OneBuild(m)
    BY <1>4 DEF DataInv, BuilderOK
  <2>2. ASSUME NEW m \in 1..seen[2], m < month PROVE OneBuild(m)' = OneBuild(m)
    BY <1>2, <1>3, <2>2 DEF OneBuild
  <2>3. builder[1] = "samples" => shard'[month]["sequences"] = shard'[month]["images"]
    BY <1>1, <1>2, <1>3 DEF DataInv, BuilderOK
  <2>4. Settled' /\ builder[1] = "sequences" => shard'[month]["samples"].is = "none"
    BY <1>1, <1>2, <1>3, <1>5 DEF DataInv, BuilderOK
  <2> QED BY <1>1, <1>2, <1>4, <1>5, <1>6, <2>1, <2>2, <2>3, <2>4 DEF DataInv, BuilderOK
<1> QED BY <1>7, <1>8, <1>9, <1>10 DEF DataInv

(* A step of the builder on the tables of all months. *)
LEMMA WholeReplaced ==
    ASSUME whole \in [{"sequences", "samples"} -> Tables], NEW k \in {"sequences", "samples"},
           NEW t \in Tables, whole' = [whole EXCEPT ![k] = t]
    PROVE  /\ whole' \in [{"sequences", "samples"} -> Tables]
           /\ \A p \in {"sequences", "samples"} : whole'[p] = IF p = k THEN t ELSE whole[p]
OBVIOUS

LEMMA OpensWholeTable == DataInv /\ OpenTable /\ builder[1] # Part => DataInv'
<1> SUFFICES ASSUME DataInv, OpenTable, builder[1] # Part PROVE DataInv'
  OBVIOUS
<1>1. /\ Part \in {"sequences", "samples"}
      /\ builder' = <<builder[1], "open">> /\ builder[2] = "before" /\ builder[1] \notin {"off", "month", "manifest"}
      /\ whole' = [whole EXCEPT ![Part] = Cut]
      /\ UNCHANGED <<targeted, shard, month, force, seen, packer, copied, loose>>
  BY DEF OpenTable, Part, source, packing
<1>2. builder[1] \notin {"sequences", "samples"} /\ (builder[1] = "allSamples" => Part = "samples")
  BY <1>1 DEF Part
<1>3. /\ whole' \in [{"sequences", "samples"} -> Tables]
      /\ \A p \in {"sequences", "samples"} : whole'[p] = IF p = Part THEN Cut ELSE whole[p]
  BY <1>1, TablesHave, WholeReplaced DEF DataInv, TablesOK
<1>4. builder'[1] = builder[1] /\ Working /\ (Settled' => Settled) /\ ~Read'
  BY <1>1, <1>3, PartFacts DEF Settled, Working, At, Read
<1>5. ShardsOK' /\ MonthsOK'
  BY <1>1, <1>4 DEF DataInv, ShardsOK, MonthsOK, OneBuild
<1>6. TablesOK' /\ CopiedOK'
  BY <1>1, <1>3, <1>4, PartFacts DEF DataInv, TablesOK, CopiedOK
<1>7. BuilderOK'
  <2>1. builder[1] = "allSamples" => whole'["sequences"] = whole["sequences"]
    BY <1>2, <1>3
  <2> QED BY <1>1, <1>2, <1>4, <2>1 DEF DataInv, BuilderOK, OneBuild
<1> QED BY <1>5, <1>6, <1>7 DEF DataInv

LEMMA WritesTable == DataInv /\ WriteTable => DataInv'
<1> SUFFICES ASSUME DataInv, WriteTable PROVE DataInv'
  OBVIOUS
<1> DEFINE rows == IF Part = "sequences" THEN Sequences(month) ELSE Samples(Sequences(month))
<1>1. /\ builder[1] \in {"sequences", "samples"} /\ Part = builder[1] /\ Part \in Parts
      /\ shard' = [shard EXCEPT ![month][Part] = Table(rows)]
      /\ UNCHANGED <<targeted, whole, force, seen, packer, copied, loose>>
  BY DEF WriteTable, Part, Parts, source, packing
<1>2. /\ builder[1] = "sequences" => builder' = <<"samples", "before">> /\ month' = month
      /\ builder[1] = "samples" => builder' = <<"month", "before">> /\ month' = month + 1
  BY <1>1 DEF WriteTable
<1>3. rows \subseteq OfMonth(month) /\ Table(rows) \in Tables
  BY MonthFacts, TablesHave
<1> HIDE DEF rows
<1>4. /\ month \in 1..seen[2] /\ month \in 1..Months /\ seen[2] \in Nat /\ Months \in Nat
      /\ shard \in [1..Months -> [Parts -> Tables]]
      /\ \A m \in 1..seen[2] : m \in 1..Months
      /\ "images" \in Parts /\ "sequences" \in Parts /\ "samples" \in Parts
  BY <1>1, SeenFacts DEF DataInv, ShardsOK, BuilderOK, Parts
<1>5. /\ shard' \in [1..Months -> [Parts -> Tables]]
      /\ \A m \in 1..Months : \A p \in Parts :
            shard'[m][p] = IF m = month /\ p = Part THEN Table(rows) ELSE shard[m][p]
  BY <1>1, <1>3, <1>4, Replaced
<1>6. /\ Working /\ (Settled' => Settled /\ ~loose) /\ (Read' => Read)
      /\ \A m : Sequences(m)' = Sequences(m)
  BY <1>1, <1>2 DEF Working, Settled, At, Sequences, CompleteSequenceAvailable, Read
<1>7. /\ shard[month]["images"] = Table(Sequences(month))
      /\ builder[1] = "samples" => shard[month]["sequences"] = Table(Sequences(month))
      /\ builder[1] = "sequences" /\ Settled => shard[month]["samples"].is = "none"
  BY <1>1 DEF DataInv, BuilderOK
<1>8. /\ shard'[month]["images"] = Table(Sequences(month))
      /\ shard'[month]["sequences"] = Table(Sequences(month))
      /\ builder[1] = "sequences" => shard'[month]["samples"] = shard[month]["samples"]
  BY <1>1, <1>4, <1>5, <1>7 DEF rows
<1>9. \A m : m = month => OneBuild(m)'
  BY <1>8, PartFacts DEF OneBuild
<1>10. ShardsOK'
  BY <1>1, <1>3, <1>4, <1>5, PartFacts DEF DataInv, ShardsOK
<1>12. TablesOK' /\ CopiedOK'
  <2>1. \A m \in 1..Months : shard'[m]["images"] = shard[m]["images"]
    BY <1>1, <1>4, <1>5
  <2>2. \A m \in 1..Months : shard[m]["samples"].is # "none" => shard'[m]["samples"].is # "none"
    BY <1>4, <1>5, PartFacts
  <2> QED BY <1>1, <1>6, <2>1, <2>2 DEF DataInv, TablesOK, CopiedOK, SameImages
<1>11. MonthsOK'
  <2>1. ASSUME Settled', NEW m \in 1..Months, shard'[m]["samples"].is # "none" PROVE OneBuild(m)'
    <3>1. CASE m = month
      BY <1>9, <3>1
    <3>2. CASE m # month
      BY <1>4, <1>5, <1>6, <2>1, <3>2 DEF DataInv, MonthsOK, OneBuild
    <3> QED BY <3>1, <3>2
  <2> QED BY <2>1 DEF MonthsOK
<1>13. force => loose /\ \A m \in 1..seen[2] : m < month => OneBuild(m)
  BY <1>6 DEF DataInv, BuilderOK
<1>14. ASSUME force, NEW m \in 1..seen[2], m < month \/ m = month PROVE OneBuild(m)'
  <2>1. CASE m = month
    BY <1>9, <2>1
  <2>2. CASE m < month
    BY <1>4, <1>5, <1>13, <1>14, <2>2 DEF OneBuild
  <2> QED BY <1>14, <2>1, <2>2
<1>15. BuilderOK'
  <2>1. CASE builder[1] = "sequences"
    <3>1. builder'[1] = "samples" /\ month' = month
      BY <1>2, <2>1
    <3>2. shard'[month]["images"] = Table(Sequences(month)) /\ shard'[month]["sequences"] = shard'[month]["images"]
      BY <1>8
    <3>4. Sequences(month)' = Sequences(month)
      BY <1>1, <3>1 DEF Sequences, CompleteSequenceAvailable
    <3>3. Settled' => shard'[month]["samples"].is = "none"
      BY <1>6, <1>7, <1>8, <2>1
    <3> QED BY <1>1, <1>4, <1>13, <1>14, <3>1, <3>2, <3>3, <3>4 DEF BuilderOK
  <2>2. CASE builder[1] = "samples"
    <3>1. builder'[1] = "month" /\ builder'[2] = "before" /\ month' = month + 1 /\ month' \in 1..Months + 1
      BY <1>2, <1>4, <2>2
    <3>2. \A m \in 1..seen[2] : m < month' => m < month \/ m = month
      BY <1>4, <3>1
    <3> QED BY <1>1, <1>13, <1>14, <3>1, <3>2 DEF BuilderOK
  <2> QED BY <1>1, <2>1, <2>2
<1> QED BY <1>10, <1>11, <1>12, <1>15 DEF DataInv

LEMMA AllMonthsDone == DataInv /\ AllMonths => DataInv'
<1> SUFFICES ASSUME DataInv, AllMonths PROVE DataInv'
  OBVIOUS
<1>1. /\ At("month") /\ month > seen[2] /\ builder' = <<"allSequences", "before">>
      /\ UNCHANGED <<targeted, shard, whole, month, force, seen, packer, copied, loose>>
  BY DEF AllMonths, source, packing
<1>2. Working /\ builder'[1] = "allSequences" /\ (Settled' => Settled)
  BY <1>1 DEF Working, At, Settled
<1>3. MonthsOK' /\ TablesOK' /\ CopiedOK'
  BY <1>1, <1>2, DataElsewhere
<1>4. ShardsOK'
  BY <1>1 DEF DataInv, ShardsOK
<1>5. BuilderOK'
  BY <1>1, <1>2 DEF DataInv, BuilderOK, OneBuild
<1> QED BY <1>3, <1>4, <1>5 DEF DataInv

(* The rows of a month, in the table of all months. *)
LEMMA RowsOfMonth ==
    ASSUME ShardsOK, NEW k \in Parts, NEW m \in 1..Months, NEW h \in shard[m][k].rows
    PROVE  MonthOfHour(h) = m /\ h \in 1..Hours /\ shard[m][k].is = "whole"
<1>1. h \in OfMonth(m) /\ shard[m][k] \in Tables
  BY DEF ShardsOK
<1> QED BY <1>1, MonthFacts, TableFacts

LEMMA AllRows ==
    ASSUME ShardsOK, NEW m \in 1..seen[2], OneBuild(m),
           NEW all, all = UNION {shard[k]["sequences"].rows : k \in 1..seen[2]}
    PROVE  SameImages(all, shard[m]["images"].rows, m)
<1>1. /\ \A k \in 1..seen[2] : k \in 1..Months
      /\ "sequences" \in Parts
  BY ArchiveAssumption DEF ShardsOK, Parts
<1>2. SUFFICES ASSUME NEW h \in 1..Hours, MonthOfHour(h) = m
               PROVE  h \in all <=> h \in shard[m]["sequences"].rows
  BY DEF SameImages, OneBuild
<1>3. ASSUME h \in all PROVE h \in shard[m]["sequences"].rows
  <2>1. PICK k \in 1..seen[2] : h \in shard[k]["sequences"].rows
    BY <1>3
  <2>2. k = m
    BY <1>1, <1>2, <2>1, RowsOfMonth
  <2> QED BY <2>1, <2>2
<1> QED BY <1>3
LEMMA WritesAll == DataInv /\ WriteAll => DataInv'
<1> SUFFICES ASSUME DataInv, WriteAll PROVE DataInv'
  OBVIOUS
<1> DEFINE all(k) == UNION {shard[m][k].rows : m \in 1..seen[2]}
<1>1. /\ builder[1] # Part /\ builder[2] = "open" /\ Part \in {"sequences", "samples"}
      /\ whole' = [whole EXCEPT ![Part] = Table(all(Part))]
      /\ builder' = <<IF Part = "sequences" THEN "allSamples" ELSE "manifest", "before">>
      /\ packer' # "read"
      /\ UNCHANGED <<targeted, shard, month, force, seen, copied, loose>>
  BY DEF WriteAll, Part, source
<1>2. /\ \A k \in 1..seen[2] : k \in 1..Months
      /\ "images" \in Parts /\ "sequences" \in Parts /\ "samples" \in Parts
      /\ shard \in [1..Months -> [Parts -> Tables]]
      /\ seen[2] \in Nat /\ Months \in Nat
  BY ArchiveAssumption DEF DataInv, ShardsOK, Parts
<1>3. /\ \A k \in {"sequences", "samples"} : Table(all(k)) \in Tables
      /\ \A h \in all("samples") : /\ MonthOfHour(h) \in 1..Months
                                   /\ shard[MonthOfHour(h)]["samples"].is # "none"
  <2>1. ASSUME NEW k \in {"sequences", "samples"}, NEW h \in all(k)
        PROVE  h \in 1..Hours /\ MonthOfHour(h) \in 1..Months /\ shard[MonthOfHour(h)][k].is # "none"
    <3>1. PICK m \in 1..seen[2] : h \in shard[m][k].rows
      BY <2>1
    <3>2. m \in 1..Months /\ k \in Parts
      BY <1>2
    <3>3. MonthOfHour(h) = m /\ h \in 1..Hours /\ shard[m][k].is = "whole"
      BY <3>1, <3>2, RowsOfMonth DEF DataInv
    <3> QED BY <3>2, <3>3
  <2> HIDE DEF all
  <2>2. \A k \in {"sequences", "samples"} : all(k) \subseteq 1..Hours
    BY <2>1
  <2> QED BY <2>1, <2>2, TablesHave
<1>4. ASSUME NEW m \in 1..Months, shard[m]["samples"].is # "none", OneBuild(m)
      PROVE  SameImages(all("sequences"), shard[m]["images"].rows, m)
  <2>1. m \in 1..seen[2]
    BY <1>2, <1>4 DEF DataInv, ShardsOK
  <2> QED BY <1>4, <2>1, AllRows DEF DataInv
<1>5. all("sequences") = UNION {shard[m]["sequences"].rows : m \in 1..seen[2]}
  OBVIOUS
<1> HIDE DEF all
<1>6. /\ whole' \in [{"sequences", "samples"} -> Tables]
      /\ \A p \in {"sequences", "samples"} : whole'[p] = IF p = Part THEN Table(all(Part)) ELSE whole[p]
  BY <1>1, <1>3, WholeReplaced DEF DataInv, TablesOK
<1>7. /\ Working /\ builder[1] \in {"allSequences", "allSamples"}
      /\ Part = IF builder[1] = "allSequences" THEN "sequences" ELSE "samples"
  <2>1. builder[1] \in {"sequences", "samples", "allSequences", "allSamples"}
    BY <1>1 DEF DataInv, BuilderOK
  <2> QED BY <1>1, <2>1 DEF Working, At, Part
<1>8. /\ month > seen[2]
      /\ force => loose /\ \A m \in 1..seen[2] : m < month => OneBuild(m)
      /\ builder[1] = "allSamples" => whole["sequences"] = Table(all("sequences"))
  BY <1>5, <1>7 DEF DataInv, BuilderOK
<1>9. ShardsOK'
  BY <1>1 DEF DataInv, ShardsOK
<1>10. MonthsOK'
  <2>1. ASSUME Settled', NEW m \in 1..Months, shard[m]["samples"].is # "none" PROVE OneBuild(m)
    <3>1. CASE Settled
      BY <2>1, <3>1 DEF DataInv, MonthsOK
    <3>2. CASE ~Settled
      <4>1. force
        BY <1>1, <2>1, <3>2 DEF Settled
      <4>2. m \in 1..seen[2]
        BY <1>2, <2>1 DEF DataInv, ShardsOK
      <4> QED BY <1>2, <1>8, <4>1, <4>2, SeenFacts DEF DataInv
    <3> QED BY <3>1, <3>2
  <2> QED BY <1>1, <2>1 DEF MonthsOK, OneBuild
<1>11. /\ whole'["samples"].rows \subseteq whole["samples"].rows \union all("samples")
       /\ Read' => whole'["sequences"] = Table(all("sequences"))
  BY <1>1, <1>6, <1>7, <1>8, PartFacts DEF Read
<1>12. \A h \in whole'["samples"].rows :
          MonthOfHour(h) \in 1..Months /\ shard[MonthOfHour(h)]["samples"].is # "none"
  BY <1>3, <1>11 DEF DataInv, TablesOK
<1>13. TablesOK'
  <2>1. ASSUME Read', NEW h \in whole'["samples"].rows
        PROVE  SameImages(whole'["sequences"].rows, shard[MonthOfHour(h)]["images"].rows, MonthOfHour(h))
    <3>1. PICK m \in 1..Months : m = MonthOfHour(h) /\ shard[m]["samples"].is # "none"
      BY <1>12
    <3>2. OneBuild(m)
      BY <1>1, <1>10, <2>1, <3>1 DEF MonthsOK, Read, OneBuild
    <3>3. SameImages(all("sequences"), shard[m]["images"].rows, m)
      BY <1>4, <3>1, <3>2
    <3>4. whole'["sequences"].rows = all("sequences")
      BY <1>11, <2>1, PartFacts
    <3> QED BY <3>1, <3>3, <3>4
  <2> QED BY <1>1, <1>6, <1>12, <2>1 DEF TablesOK, SameImages
<1>14. CopiedOK'
  BY <1>1 DEF DataInv, CopiedOK
<1>15. BuilderOK'
  <2>1. builder'[2] = "before" /\ builder'[1] \in {"allSamples", "manifest"}
    BY <1>1
  <2>2. whole'["sequences"] = Table(UNION {shard'[m]["sequences"].rows : m \in 1..seen'[2]})
    BY <1>1, <1>5, <1>6, <1>7, <1>8
  <2>3. force' => loose' /\ \A m \in 1..seen'[2] : m < month' => OneBuild(m)'
    BY <1>1, <1>8 DEF OneBuild
  <2>4. month' \in 1..Months + 1 /\ month' > seen'[2]
    BY <1>1, <1>8 DEF DataInv, BuilderOK
  <2> QED BY <2>1, <2>2, <2>3, <2>4 DEF BuilderOK
<1> QED BY <1>9, <1>10, <1>13, <1>14, <1>15 DEF DataInv

LEMMA EndsBuild == DataInv /\ (EndBuild \/ BuildStopped) => DataInv'
<1> SUFFICES ASSUME DataInv, EndBuild \/ BuildStopped PROVE DataInv'
  OBVIOUS
<1>1. /\ builder' = <<"off", "before">> /\ (Settled' => Settled)
      /\ UNCHANGED <<targeted, shard, whole, month, force, seen, packer, copied>>
  <2>1. CASE EndBuild
    BY <2>1 DEF EndBuild, Settled, At, source, packing
  <2>2. CASE BuildStopped
    BY <2>2 DEF BuildStopped, Settled, At, source, packing
  <2> QED BY <2>1, <2>2
<1>2. MonthsOK' /\ TablesOK' /\ CopiedOK'
  BY <1>1, DataElsewhere
<1>3. ShardsOK'
  BY <1>1 DEF DataInv, ShardsOK
<1>4. BuilderOK'
  <2>1. builder'[1] = "off" /\ builder'[2] = "before" /\ ~Working'
    BY <1>1 DEF Working, At
  <2> QED BY <1>1, <2>1 DEF DataInv, BuilderOK
<1> QED BY <1>2, <1>3, <1>4 DEF DataInv

LEMMA Packages == DataInv /\ (CopyImages \/ MakeBundle) => DataInv'
<1> SUFFICES ASSUME DataInv, CopyImages \/ MakeBundle PROVE DataInv'
  OBVIOUS
<1>1. UNCHANGED <<targeted, shard, whole, builder, month, force, seen, loose>>
  BY DEF CopyImages, MakeBundle, source, build
<1>2. ShardsOK' /\ BuilderOK' /\ MonthsOK' /\ TablesOK' /\ Read' = Read
  BY <1>1 DEF DataInv, ShardsOK, BuilderOK, MonthsOK, TablesOK, Read, Settled, Working, At, OneBuild,
              Sequences, CompleteSequenceAvailable, SameImages
<1>3. CopiedOK'
  <2>1. CASE MakeBundle
    BY <2>1 DEF MakeBundle, CopiedOK
  <2>2. CASE CopyImages
    <3>1. \A m \in 1..Months : shard[m]["images"].rows \subseteq 1..Hours
      BY TableFacts DEF DataInv, ShardsOK, Parts
    <3>2. copied' = [m \in 1..Months |-> shard[m]["images"].rows]
      BY <2>2 DEF CopyImages
    <3>3. copied' \in [1..Months -> SUBSET (1..Hours)]
      BY <3>1, <3>2
    <3>4. ASSUME Read, NEW h \in whole["samples"].rows
          PROVE  SameImages(whole["sequences"].rows, copied'[MonthOfHour(h)], MonthOfHour(h))
      <4>1. /\ MonthOfHour(h) \in 1..Months
            /\ SameImages(whole["sequences"].rows, shard[MonthOfHour(h)]["images"].rows, MonthOfHour(h))
        BY <3>4 DEF DataInv, TablesOK
      <4> QED BY <3>2, <4>1
    <3> QED BY <1>1, <1>2, <3>3, <3>4 DEF CopiedOK, SameImages
  <2> QED BY <2>1, <2>2
<1> QED BY <1>2, <1>3 DEF DataInv

LEMMA DataGrows == DataInv /\ (ArchiveFills \/ TargetsArrive) => DataInv'
<1> SUFFICES ASSUME DataInv, ArchiveFills \/ TargetsArrive PROVE DataInv'
  OBVIOUS
<1>1. /\ UNCHANGED <<shard, whole, builder, month, force, seen, packer, copied, loose>>
      /\ targeted' \in 1..Months /\ targeted <= targeted' /\ targeted \in Nat
  BY ArchiveAssumption DEF ArchiveFills, TargetsArrive, build, packing, DataInv, ShardsOK
<1>2. Settled' = Settled
  BY <1>1 DEF Settled, At
<1>3. MonthsOK' /\ TablesOK' /\ CopiedOK'
  BY <1>1, <1>2, DataElsewhere
<1>4. ShardsOK'
  BY <1>1 DEF DataInv, ShardsOK
<1>5. BuilderOK'
  BY <1>1, <1>2 DEF DataInv, BuilderOK, Working, At, OneBuild, Sequences, CompleteSequenceAvailable
<1> QED BY <1>3, <1>4, <1>5 DEF DataInv

LEMMA DataFramed == DataInv /\ UNCHANGED dataVars => DataInv'
<1> SUFFICES ASSUME DataInv, UNCHANGED dataVars PROVE DataInv'
  OBVIOUS
<1>1. UNCHANGED <<targeted, shard, whole, builder, month, force, seen, packer, copied, loose>>
  BY DEF dataVars, source, build, packing
<1> QED BY <1>1 DEF DataInv, ShardsOK, BuilderOK, MonthsOK, TablesOK, CopiedOK, Read, Settled, Working, At,
               OneBuild, Sequences, CompleteSequenceAvailable, SameImages

LEMMA DataNext == DataInv /\ DataSteps => DataInv'
BY StartsBuild, LoadsShard, BuildsImages, OpensShardTable, OpensWholeTable, WritesTable, AllMonthsDone,
   WritesAll, EndsBuild, Packages, DataGrows DEF DataSteps

(* A bundle of tables that are whole has the images its rows count. *)
LEMMA DataInvSuffices == DataInv => RowsAreTheirImages
<1> SUFFICES ASSUME DataInv, packer = "read", Packs, ~loose, NEW h \in whole["samples"].rows
             PROVE  LET images == copied[MonthOfHour(h)] IN
                    /\ h \in images
                    /\ ImageRow(whole["sequences"].rows, h) = ImageRow(images, h)
  BY DEF RowsAreTheirImages
<1> DEFINE m == MonthOfHour(h)
           images == copied[m]
           sequences == whole["sequences"].rows
<1>1. Read
  BY DEF Packs, Read, Settled
<1>2. m \in 1..Months /\ SameImages(sequences, images, m)
  BY <1>1 DEF DataInv, TablesOK, CopiedOK
<1>3. h \in sequences /\ sequences \subseteq 1..Hours /\ images \subseteq 1..Hours
  <2>1. whole["sequences"] \in Tables /\ images \in SUBSET (1..Hours)
    BY <1>2 DEF DataInv, TablesOK, CopiedOK
  <2> QED BY <2>1, TableFacts DEF Packs, EverySampleHasItsSequence
<1>4. {g \in sequences : MonthOfHour(g) = m /\ g <= h} = {g \in images : MonthOfHour(g) = m /\ g <= h}
  BY <1>2, <1>3 DEF SameImages
<1>5. h \in images
  BY <1>2, <1>3 DEF SameImages
<1> QED BY <1>4, <1>5 DEF ImageRow
-----------------------------------------------------------------------------
(* The drive *)

DriveInv == ArchiveInv /\ CollectorsInv /\ DataInv

LEMMA DriveStep == DriveInv /\ [DriveNext]_driveVars => DriveInv'
<1> SUFFICES ASSUME DriveInv, [DriveNext]_driveVars PROVE DriveInv'
  OBVIOUS
<1>1. CASE CollectorsNext /\ UNCHANGED dataVars
  <2>1. CASE CollectorsStep /\ UNCHANGED archive
    BY <1>1, <2>1, CollectorsKept, ArchiveFramed, DataFramed DEF DriveInv
  <2>2. CASE OfArchive(Next)
    BY <1>1, <2>2, CollectorsFramed, ArchiveNext, DataFramed DEF OfArchive, DriveInv
  <2> QED BY <1>1, <2>1, <2>2 DEF CollectorsNext, CollectorsStep
<1>2. CASE OfShards(DataSteps)
  BY <1>2, CollectorsFramed, ArchiveFramed, DataNext DEF OfShards, DriveInv
<1>3. CASE UNCHANGED driveVars
  BY <1>3, CollectorsFramed, ArchiveFramed, DataFramed DEF driveVars, allVars, DriveInv
<1> QED BY <1>1, <1>2, <1>3 DEF DriveNext

LEMMA DriveInvariant == DriveSpec => []DriveInv
<1>1. DriveInit => DriveInv
  BY ArchiveInit, CollectorsInitial, DataInitial DEF DriveInit, CollectorsInit, DriveInv
<1> QED BY <1>1, DriveStep, PTL DEF DriveSpec

(* ServedInFull, for every number of months, files, attempts and faults: a *)
(* path of the archive never holds half a body                             *)
(* (collect_gk2a_le2_archive.py:88-117).                                   *)
THEOREM ArchiveServes == DriveSpec => []ServedInFull
<1>1. DriveInv => ServedInFull
  BY DEF DriveInv, ArchiveInv, ServedInFull, Contents
<1> QED BY <1>1, DriveInvariant, PTL

(* GapsAreListed, for every number of months, files, attempts and faults:  *)
(* what the index does not list is whole on the drive                      *)
(* (build_gk2a_failure_index.py:148-191).                                  *)
THEOREM IndexListsGaps == DriveSpec => []GapsAreListed
<1>1. DriveInv => GapsAreListed
  BY DEF DriveInv, ArchiveInv
<1> QED BY <1>1, DriveInvariant, PTL

(* KeptIsOneAnswer, for every number of items, months, pages and requests  *)
(* and however often runs are stopped: what a later run passes over is one *)
(* answer in all its files, but for the last file of it, which may be cut  *)
(* (day_already_collected(), month_already_collected()).                   *)
THEOREM KeptIsWhole == DriveSpec => []KeptIsOneAnswer
<1>1. DriveInv => KeptIsOneAnswer
  BY OneAnswerIsKept DEF DriveInv
<1> QED BY <1>1, DriveInvariant, PTL

(* EndedIsTold, for every number of items and of stopped runs: a run that  *)
(* comes to its end leaves behind no rows of an item that is collected,    *)
(* unless its file is cut; the manifests of failures are not in question   *)
(* (collect_kpx_solar_api.py:303-311,                                      *)
(* collect_nasa_power_global_sites.py:599-607).                            *)
THEOREM EndTellsAll == DriveSpec => []EndedIsTold
<1>1. DriveInv => EndedIsTold
  BY AllIsTold DEF DriveInv
<1> QED BY <1>1, DriveInvariant, PTL

(* RowsAreTheirImages, for every number of months and hours, every length  *)
(* of a sequence and every archive: builds stopped, resumed, forced or     *)
(* under way never give a bundle whose rows lead to other images, unless a *)
(* forced one has not come to its end or one wrote all tables during the   *)
(* packaging                                                               *)
(* (preprocess_satellite_image_sequences.py:389-433,                       *)
(* package_satellite_modeling_bundle.py:60-75).                            *)
THEOREM BundlesAreTrue == DriveSpec => []RowsAreTheirImages
<1>1. DriveInv => RowsAreTheirImages
  BY DataInvSuffices DEF DriveInv
<1> QED BY <1>1, DriveInvariant, PTL

-----------------------------------------------------------------------------
(* The training jobs *)

(* A file that this training has written. *)
Own(f) == content[f].is = "whole" /\ content[f].of = session

(* Only the files of the package, or of the stage that runs, are to be     *)
(* written, and a stage that is to come or runs has no result.             *)
StepInv ==
    /\ machine = "server" => order.package = {}
    /\ machine = "runpod" /\ phase # "idle" => ~order.resume
    /\ phase = "idle" => current = NoStage /\ unwritten = {}
    /\ phase = "extract" =>
          /\ machine = "runpod" /\ current = NoStage /\ unwritten \subseteq order.package
          /\ stagesLeft = order.stages /\ \A s \in Stages : result[s] = "none"
    /\ phase = "stages" => order.stages \subseteq Stages
    /\ phase = "stages" /\ current = NoStage => unwritten = {}
    /\ current # NoStage =>
          /\ phase = "stages" /\ current \notin stagesLeft /\ result[current] = "none"
          /\ unwritten \subseteq StageFiles(current)
    /\ phase # "idle" => \A s \in stagesLeft \intersect Stages : result[s] = "none"
    /\ BestPt \in opened => LatestPt \notin unwritten

(* A worker has written what it has extracted and what it calls COMPLETED; *)
(* the stage that runs, what it no longer has to write.                    *)
OwnInv ==
    machine = "runpod" /\ phase # "idle" =>
        /\ \A d \in order.package \ unwritten : Own(d)
        /\ \A s \in Stages : result[s] = "COMPLETED" => \A f \in StageFiles(s) : Own(f)
        /\ current # NoStage /\ (current = "mlp" => epoch # 0) =>
              \A f \in StageFiles(current) \ unwritten : Own(f)
        /\ current = "mlp" /\ epoch = 0 => bestVal = Infinity /\ unwritten = {}

(* Unless a stage has failed, every one is still to come, runs or is done. *)
ResultInv ==
    phase = "stages" =>
        \/ \E s \in Stages : result[s] = "FAILED"
        \/ \A s \in order.stages :
              \/ s \in stagesLeft \/ s = current \/ result[s] = "COMPLETED"
              \/ /\ s = "site_correction" /\ result[s] = "SKIPPED"
                 /\ machine = "runpod" => ~(DataOf(s) \subseteq order.package)

(* The best epoch is saved: no process died, or is now, between latest.pt  *)
(* and best.pt.                                                            *)
Saved == ~spoilt /\ (BestPt \in unwritten => LatestPt \in unwritten)
BestUpTo(r) == content[BestPt].is = "whole" /\ content[BestPt].rmse <= r

BestInv ==
    /\ Saved => \A r \in tried : BestUpTo(r)
    /\ Saved /\ content[LatestPt].is = "whole" => BestUpTo(content[LatestPt].rmse)
    /\ current = "mlp" =>
          /\ ~spoilt /\ BestPt \notin unwritten /\ bestVal < Infinity => BestUpTo(bestVal)
          /\ \A r \in tried : bestVal <= r
          /\ BestPt \in unwritten => rmse = bestVal
          /\ LatestPt \in unwritten => bestVal <= rmse
          /\ BestPt \in unwritten /\ LatestPt \notin unwritten =>
                content[LatestPt].is = "whole" /\ content[LatestPt].rmse = rmse

JobInv == TrainingTypeOK /\ StepInv /\ OwnInv /\ ResultInv /\ AnswerIsOfItsJob /\ BestInv

(* The files of the package and of the stages are apart. *)
LEMMA FilesApart ==
    /\ LatestPt # BestPt /\ StageFiles("mlp") = {LatestPt, BestPt}
    /\ \A s \in Stages : /\ StageFiles(s) \subseteq AllFiles
                         /\ StageFiles(s) \intersect DataFiles = {}
                         /\ DataOf(s) \subseteq DataFiles
                         /\ LatestPt \in StageFiles(s) \/ BestPt \in StageFiles(s) => s = "mlp"
    /\ \A s, t \in Stages : s # t => StageFiles(s) \intersect StageFiles(t) = {}
    /\ DataFiles \subseteq AllFiles /\ Metrics \subseteq AllFiles
    /\ LatestPt \notin DataFiles /\ BestPt \notin DataFiles
<1>1. LatestPt # BestPt /\ StageFiles("mlp") = {LatestPt, BestPt}
  BY DEF LatestPt, BestPt, StageFiles
<1>2. ASSUME NEW s \in Stages
      PROVE  /\ StageFiles(s) \subseteq AllFiles
             /\ StageFiles(s) \intersect DataFiles = {}
             /\ DataOf(s) \subseteq DataFiles
             /\ LatestPt \in StageFiles(s) \/ BestPt \in StageFiles(s) => s = "mlp"
  BY DEF LatestPt, BestPt, StageFiles, AllFiles, Stages, DataFiles, DataOf
<1>3. ASSUME NEW s \in Stages, NEW t \in Stages, s # t
      PROVE  StageFiles(s) \intersect StageFiles(t) = {}
  BY <1>3 DEF StageFiles, Stages, LatestPt, BestPt
<1>4. DataFiles \subseteq AllFiles /\ Metrics \subseteq AllFiles
  BY DEF DataFiles, AllFiles, Metrics, Stages, StageFiles
<1>5. LatestPt \notin DataFiles /\ BestPt \notin DataFiles
  BY DEF LatestPt, BestPt, DataFiles
<1> QED BY <1>1, <1>2, <1>3, <1>4, <1>5

LEMMA TurnsOfCheckpoints == Turn(LatestPt) = 1 /\ Turn(BestPt) = 2
BY DEF Turn, LatestPt, BestPt

LEMMA ValuesOfRmse ==
    /\ 0 \in 0 .. Epochs /\ 0 \in 0 .. MaxRmse /\ 0 \in 0 .. MaxSessions
    /\ Infinity \in 0 .. Infinity /\ \A r \in 0 .. MaxRmse : r \in 0 .. Infinity /\ r < Infinity
BY EpochsAssumption DEF Infinity

LEMMA TrainingTypeInit == TrainingInit => TrainingTypeOK
<1> SUFFICES ASSUME TrainingInit PROVE TrainingTypeOK
  OBVIOUS
<1>1. order \in OrdersAllowed
  BY DEF TrainingInit, OrdersAllowed
<1>2. content \in [AllFiles -> [is : {"none", "cut", "whole"}, of : 0 .. MaxSessions,
                                 epoch : 0 .. Epochs, rmse : 0 .. MaxRmse]]
  BY EpochsAssumption DEF TrainingInit, NoFile
<1>3. result \in [Stages -> {"none", "COMPLETED", "FAILED", "SKIPPED"}]
  BY DEF TrainingInit
<1> QED BY <1>1, <1>2, <1>3, ValuesOfRmse DEF TrainingInit, TrainingTypeOK

LEMMA TrainingTypeNext == TrainingTypeOK /\ StepInv /\ [TrainingNext]_jobVars => TrainingTypeOK'
<1> SUFFICES ASSUME TrainingTypeOK, StepInv, [TrainingNext]_jobVars PROVE TrainingTypeOK'
  OBVIOUS
<1> USE ValuesOfRmse
<1>1. ASSUME NEW o \in Orders, Begin(o) PROVE TrainingTypeOK'
  <2>1. o \in OrdersAllowed
    BY OrdersAssumption
  <2>2. o.package \subseteq AllFiles /\ o.stages \subseteq Stages \union {"other"}
    BY <2>1, FilesApart DEF OrdersAllowed
  <2>3. session' \in 0 .. MaxSessions
    BY <1>1, EpochsAssumption DEF Begin, TrainingTypeOK
  <2>4. phase' \in {"idle", "extract", "stages"} /\ result' \in [Stages -> {"none", "COMPLETED", "FAILED", "SKIPPED"}]
    BY <1>1 DEF Begin
  <2>5. unwritten' \subseteq AllFiles /\ opened' \subseteq unwritten'
    BY <1>1, <2>2 DEF Begin, Extracts, TrainingTypeOK, StepInv
  <2> QED BY <1>1, <2>1, <2>2, <2>3, <2>4, <2>5 DEF Begin, TrainingTypeOK, process, past
<1>2. CASE RunStages
  BY <1>2 DEF RunStages, TrainingTypeOK, process, writing, past
<1>3. ASSUME NEW f \in AllFiles, OpenFile(f) PROVE TrainingTypeOK'
  BY <1>3 DEF OpenFile, CutFile, TrainingTypeOK, worker, process, past
<1>4. ASSUME NEW f \in AllFiles, CloseFile(f) PROVE TrainingTypeOK'
  <2> DEFINE written(e, r) == [is |-> "whole", of |-> session, epoch |-> e, rmse |-> r]
  <2>0. WrittenAs(f) = written(epoch, rmse) \/ WrittenAs(f) = written(0, 0)
    BY DEF WrittenAs, NoFile
  <2>1. WrittenAs(f) \in [is : {"none", "cut", "whole"}, of : 0 .. MaxSessions,
                          epoch : 0 .. Epochs, rmse : 0 .. MaxRmse]
    BY <2>0 DEF TrainingTypeOK
  <2> QED BY <1>4, <2>1 DEF CloseFile, TrainingTypeOK, worker, process, past
<1>5. ASSUME NEW s \in Stages, StartModel(s) PROVE TrainingTypeOK'
  <2>1. StageFiles(s) \subseteq AllFiles /\ UNCHANGED <<machine, session, order, phase>>
    BY <1>5, FilesApart DEF StartModel, Starts, worker
  <2>2. opened' \subseteq unwritten'
    BY <1>5 DEF StartModel, Starts, Waiting, TrainingTypeOK, StepInv
  <2> QED BY <1>5, <2>1, <2>2 DEF StartModel, Starts, TrainingTypeOK
<1>6. ASSUME NEW s \in Stages, StageFails(s) PROVE TrainingTypeOK'
  BY <1>6 DEF StageFails, Stops, NoProcess, TrainingTypeOK
<1>7. ASSUME NEW r \in 0 .. MaxRmse, RunEpoch(r) PROVE TrainingTypeOK'
  <2>1. LatestPt \in AllFiles /\ BestPt \in AllFiles
    BY FilesApart DEF Stages
  <2>2. epoch' \in 0 .. Epochs
    BY <1>7, EpochsAssumption DEF RunEpoch, TrainingTypeOK
  <2> QED BY <1>7, <2>1, <2>2 DEF RunEpoch, IsBest, TrainingTypeOK, worker, past
<1>8. CASE SkipStage
  BY <1>8 DEF SkipStage, TrainingTypeOK, worker, process, writing, past
<1>9. CASE Fresh
  BY <1>9 DEF Fresh, Starts, Waiting, TrainingTypeOK, worker, past
<1>10. CASE Resume
  <2>1. content[LatestPt] \in [is : {"none", "cut", "whole"}, of : 0 .. MaxSessions,
                               epoch : 0 .. Epochs, rmse : 0 .. MaxRmse]
    BY FilesApart DEF TrainingTypeOK, Stages
  <2>2. content[LatestPt].epoch \in 0 .. Epochs /\ content[LatestPt].rmse \in 0 .. MaxRmse
    BY <2>1
  <2> QED BY <1>10, <2>2 DEF Resume, Restores, Starts, Waiting, TrainingTypeOK, worker, past
<1>11. CASE EndStage
  BY <1>11 DEF EndStage, NoProcess, TrainingTypeOK, worker, writing, past
<1>12. CASE JobAnswers
  BY <1>12 DEF JobAnswers, TrainingTypeOK, process, writing, past
<1>13. CASE ScriptEnds
  BY <1>13 DEF ScriptEnds, TrainingTypeOK, process, writing, past
<1>14. CASE TrainingDies
  BY <1>14 DEF TrainingDies, Stops, NoProcess, TrainingTypeOK
<1>15. CASE NewWorker
  BY <1>15 DEF NewWorker, NoFile, TrainingTypeOK, worker, process, writing
<1>16. CASE UNCHANGED jobVars
  BY <1>16 DEF jobVars, worker, process, writing, past, TrainingTypeOK, Infinity
<1> QED BY <1>1, <1>2, <1>3, <1>4, <1>5, <1>6, <1>7, <1>8, <1>9, <1>10, <1>11, <1>12, <1>13, <1>14, <1>15, <1>16
        DEF TrainingNext, Training

LEMMA StepInvInit == TrainingInit => StepInv
BY FilesApart DEF TrainingInit, StepInv

LEMMA StepInvNext == TrainingTypeOK /\ StepInv /\ [TrainingNext]_jobVars => StepInv'
<1> SUFFICES ASSUME TrainingTypeOK, StepInv, [TrainingNext]_jobVars PROVE StepInv'
  OBVIOUS
<1> USE FilesApart DEF StepInv
<1>0. NoStage \notin Stages /\ "mlp" \in Stages /\ "site_correction" \in Stages
  BY DEF NoStage, Stages
<1>1. ASSUME NEW o \in Orders, Begin(o) PROVE StepInv'
  <2>1. phase' # "idle" /\ current' = NoStage /\ opened' = {}
    BY <1>1 DEF Begin, process, TrainingTypeOK
  <2>2. machine = "server" => o.stages \subseteq Stages /\ o.package = {}
    BY <1>1, <1>0 DEF Begin, MayAsk, TrainingTypeOK
  <2> QED BY <1>1, <2>1, <2>2 DEF Begin, Extracts, MayAsk, TrainingTypeOK
<1>2. CASE RunStages
  BY <1>2 DEF RunStages, process, writing
<1>3. ASSUME NEW f \in AllFiles, OpenFile(f) PROVE StepInv'
  <2>1. f = BestPt => LatestPt \notin unwritten
    BY <1>3, TurnsOfCheckpoints DEF OpenFile
  <2> QED BY <1>3, <2>1 DEF OpenFile, worker, process
<1>4. ASSUME NEW f \in AllFiles, CloseFile(f) PROVE StepInv'
  BY <1>4 DEF CloseFile, worker, process, TrainingTypeOK
<1>5. ASSUME NEW s \in Stages, StartModel(s) PROVE StepInv'
  <2>1. opened = {} /\ opened' = {}
    BY <1>5 DEF StartModel, Starts, Waiting, TrainingTypeOK
  <2> QED BY <1>5, <2>1, <1>0 DEF StartModel, Starts, Waiting, worker
<1>6. ASSUME NEW s \in Stages, StageFails(s) PROVE StepInv'
  BY <1>6, <1>0 DEF StageFails, Stops, NoProcess, Waiting
<1>7. ASSUME NEW r \in 0 .. MaxRmse, RunEpoch(r) PROVE StepInv'
  <2>1. opened' = {}
    BY <1>7 DEF RunEpoch, TrainingTypeOK
  <2> QED BY <1>7, <2>1, <1>0 DEF RunEpoch, worker
<1>8. CASE SkipStage
  BY <1>8, <1>0 DEF SkipStage, Waiting, worker, process, writing
<1>9. CASE Fresh
  BY <1>9, <1>0 DEF Fresh, Starts, Waiting, worker
<1>10. CASE Resume
  BY <1>10, <1>0 DEF Resume, Starts, Waiting, worker
<1>11. CASE EndStage
  BY <1>11, <1>0 DEF EndStage, NoProcess, worker, writing, TrainingTypeOK
<1>12. CASE JobAnswers
  BY <1>12, <1>0 DEF JobAnswers, StagesOver, process, writing
<1>13. CASE ScriptEnds
  BY <1>13 DEF ScriptEnds, StagesOver, process, writing
<1>14. CASE TrainingDies
  BY <1>14, <1>0 DEF TrainingDies, Stops, NoProcess
<1>15. CASE NewWorker
  BY <1>15 DEF NewWorker, worker, process, writing
<1>16. CASE UNCHANGED jobVars
  BY <1>16 DEF jobVars, worker, process, writing
<1> QED BY <1>1, <1>2, <1>3, <1>4, <1>5, <1>6, <1>7, <1>8, <1>9, <1>10, <1>11, <1>12, <1>13, <1>14, <1>15, <1>16
        DEF TrainingNext, Training

LEMMA OwnInvInit == TrainingInit => OwnInv
BY DEF TrainingInit, OwnInv

(* A step that writes no file and leaves the training, the results, the    *)
(* running stage and the files to be written alone.                        *)
LEMMA OwnElsewhere ==
    ASSUME OwnInv, UNCHANGED <<machine, session, order, content>>,
           phase' # "idle" => phase # "idle",
           \A s \in Stages : result'[s] = "COMPLETED" => result[s] = "COMPLETED",
           \A d \in order.package \ unwritten' : d \notin unwritten,
           current' = NoStage \/ UNCHANGED <<process, unwritten>>
    PROVE  OwnInv'
BY DEF OwnInv, Own, process, NoStage

LEMMA OwnInvNext == TrainingTypeOK /\ StepInv /\ OwnInv /\ [TrainingNext]_jobVars => OwnInv'
<1> SUFFICES ASSUME TrainingTypeOK, StepInv, OwnInv, [TrainingNext]_jobVars PROVE OwnInv'
  OBVIOUS
<1>0. NoStage \notin Stages /\ "mlp" \in Stages /\ "site_correction" \in Stages
  BY DEF NoStage, Stages
<1>p. order.package \subseteq DataFiles
  BY DEF TrainingTypeOK, OrdersAllowed
<1>1. ASSUME NEW o \in Orders, Begin(o) PROVE OwnInv'
  <2>1. current' = NoStage /\ \A s \in Stages : result'[s] # "COMPLETED"
    BY <1>1 DEF Begin, process, StepInv
  <2> QED BY <1>1, <2>1, <1>0 DEF Begin, Extracts, OwnInv
<1>2. CASE RunStages
  BY <1>2, OwnElsewhere DEF RunStages, process, writing
<1>3. ASSUME NEW f \in AllFiles, OpenFile(f) PROVE OwnInv'
  <2>1. \A g : g \notin unwritten => content'[g] = content[g]
    BY <1>3 DEF OpenFile, TrainingTypeOK
  <2>2. \A s \in Stages : result[s] = "COMPLETED" => StageFiles(s) \intersect unwritten = {}
    BY FilesApart DEF StepInv, TrainingTypeOK
  <2> QED BY <1>3, <2>1, <2>2 DEF OpenFile, OwnInv, Own, worker, process
<1>4. ASSUME NEW f \in AllFiles, CloseFile(f) PROVE OwnInv'
  <2>1. content'[f].is = "whole" /\ content'[f].of = session
    BY <1>4 DEF CloseFile, WrittenAs, NoFile, TrainingTypeOK
  <2>2. \A g : g # f => content'[g] = content[g]
    BY <1>4 DEF CloseFile, TrainingTypeOK
  <2> QED BY <1>4, <2>1, <2>2 DEF CloseFile, OwnInv, Own, worker, process
<1>5. ASSUME NEW s \in Stages, StartModel(s) PROVE OwnInv'
  <2>1. unwritten = {} /\ current' = s /\ s # "mlp" /\ unwritten' = StageFiles(s)
    BY <1>5 DEF StartModel, Starts, Waiting, StepInv
  <2> QED BY <1>5, <2>1, <1>0 DEF StartModel, Starts, OwnInv, Own, worker
<1>6. ASSUME NEW s \in Stages, StageFails(s) PROVE OwnInv'
  <2>1. order.package \intersect unwritten = {}
    BY <1>6, <1>0, <1>p, FilesApart DEF StageFails, Waiting, StepInv, TrainingTypeOK
  <2> QED BY <1>6, <2>1, OwnElsewhere DEF StageFails, Stops, NoProcess, TrainingTypeOK
<1>7. ASSUME NEW r \in 0 .. MaxRmse, RunEpoch(r) PROVE OwnInv'
  <2>1. epoch = 0 /\ machine = "runpod" /\ phase # "idle" => unwritten' = {LatestPt, BestPt}
    BY <1>7, ValuesOfRmse DEF RunEpoch, OwnInv, IsBest
  <2>2. epoch' # 0 /\ unwritten = {} /\ current = "mlp" /\ current' = "mlp" /\ unwritten' # {}
    BY <1>7, EpochsAssumption DEF RunEpoch, TrainingTypeOK
  <2>3. epoch # 0 /\ machine = "runpod" /\ phase # "idle" =>
            \A f \in StageFiles("mlp") : Own(f)
    BY <2>2, <1>0 DEF OwnInv
  <2>4. UNCHANGED <<machine, session, order, phase, result, content>>
    BY <1>7 DEF RunEpoch, worker
  <2> HIDE <1>7
  <2> QED BY <2>1, <2>2, <2>3, <2>4, <1>0, FilesApart DEF OwnInv, Own
<1>8. CASE SkipStage
  BY <1>8, OwnElsewhere DEF SkipStage, worker, process, writing, TrainingTypeOK
<1>9. CASE Fresh
  BY <1>9, <1>0 DEF Fresh, Starts, Waiting, worker, OwnInv, Own, StepInv
<1>10. CASE Resume
  BY <1>10, <1>0 DEF Resume, Starts, Waiting, worker, OwnInv, Own, StepInv
<1>11. CASE EndStage
  <2>1. current = "mlp" => epoch # 0
    BY <1>11, EpochsAssumption DEF EndStage, TrainingTypeOK
  <2>2. machine = "runpod" /\ phase # "idle" => \A f \in StageFiles(current) : Own(f)
    BY <1>11, <2>1 DEF EndStage, OwnInv
  <2>3. UNCHANGED <<machine, session, order, phase, content, unwritten>> /\ current' = NoStage
        /\ \A s \in Stages : result'[s] = "COMPLETED" => s = current \/ result[s] = "COMPLETED"
    BY <1>11 DEF EndStage, NoProcess, worker, writing, TrainingTypeOK
  <2> QED BY <2>2, <2>3, <1>0 DEF OwnInv, Own
<1>12. CASE JobAnswers
  BY <1>12 DEF JobAnswers, OwnInv
<1>13. CASE ScriptEnds
  BY <1>13 DEF ScriptEnds, OwnInv
<1>14. CASE TrainingDies
  BY <1>14 DEF TrainingDies, OwnInv
<1>15. CASE NewWorker
  BY <1>15 DEF NewWorker, OwnInv, worker
<1>16. CASE UNCHANGED jobVars
  BY <1>16 DEF jobVars, worker, process, writing, OwnInv, Own
<1> QED BY <1>1, <1>2, <1>3, <1>4, <1>5, <1>6, <1>7, <1>8, <1>9, <1>10, <1>11, <1>12, <1>13, <1>14, <1>15, <1>16
        DEF TrainingNext, Training

LEMMA ResultInvInit == TrainingInit => ResultInv
BY DEF TrainingInit, ResultInv

LEMMA ResultInvNext == TrainingTypeOK /\ StepInv /\ OwnInv /\ ResultInv /\ [TrainingNext]_jobVars => ResultInv'
<1> SUFFICES ASSUME TrainingTypeOK, StepInv, OwnInv, ResultInv, [TrainingNext]_jobVars PROVE ResultInv'
  OBVIOUS
<1>0. NoStage \notin Stages /\ "mlp" \in Stages /\ "site_correction" \in Stages
  BY DEF NoStage, Stages
<1>a. ASSUME UNCHANGED <<machine, order>>, phase' = phase, UNCHANGED <<stagesLeft, current, result>>
      PROVE  ResultInv'
  BY <1>a DEF ResultInv
<1>1. ASSUME NEW o \in Orders, Begin(o) PROVE ResultInv'
  BY <1>1 DEF Begin, ResultInv, TrainingTypeOK
<1>2. CASE RunStages
  BY <1>2 DEF RunStages, ResultInv, StepInv
<1>3. ASSUME NEW f \in AllFiles, OpenFile(f) PROVE ResultInv'
  BY <1>3, <1>a DEF OpenFile, worker, process
<1>4. ASSUME NEW f \in AllFiles, CloseFile(f) PROVE ResultInv'
  BY <1>4, <1>a DEF CloseFile, worker, process
<1>5. ASSUME NEW s \in Stages, Starts(s) PROVE ResultInv'
  BY <1>5, <1>0 DEF Starts, Waiting, worker, ResultInv, StepInv
<1>6. ASSUME NEW s \in Stages, StageFails(s) PROVE ResultInv'
  BY <1>6 DEF StageFails, ResultInv, TrainingTypeOK
<1>7. ASSUME NEW r \in 0 .. MaxRmse, RunEpoch(r) PROVE ResultInv'
  BY <1>7, <1>a DEF RunEpoch, worker
<1>8. CASE SkipStage
  <2>1. machine = "runpod" => ~(DataOf("site_correction") \subseteq order.package)
    BY <1>8 DEF SkipStage, Skips, Missing, Waiting, StepInv, OwnInv, Own
  <2>2. \A s \in Stages : s # "site_correction" => result'[s] = result[s]
    BY <1>8 DEF SkipStage, TrainingTypeOK
  <2>3. result'["site_correction"] = "SKIPPED" /\ result["site_correction"] = "none"
    BY <1>8, <1>0 DEF SkipStage, Waiting, StepInv, TrainingTypeOK
  <2> QED BY <1>8, <2>1, <2>2, <2>3, <1>0 DEF SkipStage, Waiting, worker, process, ResultInv, StepInv
<1>11. CASE EndStage
  <2>1. \A s \in Stages : s # current => result'[s] = result[s]
    BY <1>11 DEF EndStage, TrainingTypeOK
  <2>2. result'[current] = "COMPLETED" /\ result[current] = "none" /\ current \in Stages
    BY <1>11 DEF EndStage, StepInv, TrainingTypeOK
  <2>3. UNCHANGED <<machine, order, phase, stagesLeft>>
    BY <1>11 DEF EndStage, worker
  <2> QED BY <2>1, <2>2, <2>3, <1>0 DEF ResultInv, StepInv
<1>12. CASE JobAnswers \/ ScriptEnds \/ TrainingDies
  BY <1>12 DEF JobAnswers, ScriptEnds, TrainingDies, ResultInv
<1>15. CASE NewWorker
  BY <1>15, <1>a DEF NewWorker, worker, process
<1>16. CASE UNCHANGED jobVars
  BY <1>16, <1>a DEF jobVars, worker, process
<1> QED BY <1>1, <1>2, <1>3, <1>4, <1>5, <1>6, <1>7, <1>8, <1>11, <1>12, <1>15, <1>16, <1>0
        DEF TrainingNext, Training, StartModel, Fresh, Resume

LEMMA AnswerInit == TrainingInit => AnswerIsOfItsJob
BY DEF TrainingInit, AnswerIsOfItsJob

LEMMA AnswerNext ==
    TrainingTypeOK /\ StepInv /\ OwnInv /\ ResultInv /\ AnswerIsOfItsJob /\ [TrainingNext]_jobVars
        => AnswerIsOfItsJob'
<1> SUFFICES ASSUME TrainingTypeOK, StepInv, OwnInv, ResultInv, AnswerIsOfItsJob, [TrainingNext]_jobVars
             PROVE  AnswerIsOfItsJob'
  OBVIOUS
<1>1. CASE JobAnswers
  <2>1. unwritten = {} /\ stagesLeft = {} /\ current = NoStage /\ machine = "runpod" /\ phase = "stages"
    BY <1>1 DEF JobAnswers, StagesOver, StepInv
  <2>2. \A s \in Stages : result[s] = "COMPLETED" =>
            /\ \A f \in StageFiles(s) : Own(f)
            /\ \A d \in DataOf(s) \intersect order.package : Own(d)
    BY <2>1 DEF OwnInv
  <2>3. (\A s \in Stages : result[s] # "FAILED") => \A s \in order.stages :
              \/ result[s] = "COMPLETED"
              \/ /\ s = "site_correction" /\ result[s] = "SKIPPED"
                 /\ ~(DataOf(s) \subseteq order.package)
    BY <2>1 DEF ResultInv, StepInv, NoStage, Stages
  <2>4. jobAnswer' = [of |-> session, ok |-> \A s \in Stages : result[s] # "FAILED",
                   order |-> order, result |-> result, files |-> content]
    BY <1>1 DEF JobAnswers
  <2>5. /\ jobAnswer'.of = session /\ jobAnswer'.order = order /\ jobAnswer'.result = result /\ jobAnswer'.files = content
        /\ jobAnswer'.ok = \A s \in Stages : result[s] # "FAILED"
    BY <2>4
  <2> QED BY <2>2, <2>3, <2>5 DEF AnswerIsOfItsJob, Own
<1>2. CASE ~JobAnswers
  <2>1. UNCHANGED jobAnswer
    BY <1>2 DEF TrainingNext, Training, jobVars, Begin, RunStages, OpenFile, CloseFile, StartModel, Starts,
                StageFails, RunEpoch, SkipStage, Fresh, Resume, EndStage, ScriptEnds, TrainingDies, NewWorker
  <2> QED BY <2>1 DEF AnswerIsOfItsJob
<1> QED BY <1>1, <1>2

LEMMA BestInvInit == TrainingInit => BestInv
<1> SUFFICES ASSUME TrainingInit PROVE BestInv
  OBVIOUS
<1>1. content[LatestPt].is = "none"
  BY FilesApart DEF TrainingInit, NoFile, Stages
<1>2. tried = {} /\ current # "mlp"
  BY DEF TrainingInit, NoStage
<1> QED BY <1>1, <1>2 DEF BestInv

(* A step that saves nothing.                                              *)
LEMMA BestElsewhere ==
    ASSUME BestInv, UNCHANGED <<content, tried>>, Saved' => Saved, current' # "mlp"
    PROVE  BestInv'
BY DEF BestInv, BestUpTo

LEMMA BestInvNext == TrainingTypeOK /\ StepInv /\ BestInv /\ [TrainingNext]_jobVars => BestInv'
<1> SUFFICES ASSUME TrainingTypeOK, StepInv, BestInv, [TrainingNext]_jobVars PROVE BestInv'
  OBVIOUS
<1>0. NoStage # "mlp" /\ NoStage \notin Stages /\ "mlp" \in Stages
  BY DEF NoStage, Stages
<1>t. LatestPt \in AllFiles /\ BestPt \in AllFiles /\ LatestPt # BestPt
  BY FilesApart, <1>0
<1>v. /\ content[LatestPt].rmse \in 0 .. MaxRmse /\ content[BestPt].rmse \in 0 .. MaxRmse
      /\ rmse \in 0 .. MaxRmse /\ bestVal \in 0 .. Infinity /\ tried \subseteq 0 .. MaxRmse
      /\ MaxRmse \in Int /\ Infinity \in Int
  BY <1>t, EpochsAssumption DEF TrainingTypeOK, Infinity
(* The files of the model are not written but by its own process. *)
<1>m. LatestPt \in unwritten \/ BestPt \in unwritten => current = "mlp"
  BY FilesApart DEF StepInv, TrainingTypeOK, OrdersAllowed
<1>a. ASSUME UNCHANGED <<content, tried, spoilt, unwritten, process>> PROVE BestInv'
  BY <1>a DEF BestInv, Saved, BestUpTo, process
<1>1. ASSUME NEW o \in Orders, Begin(o) PROVE BestInv'
  <2>1. current' # "mlp" /\ Saved' => Saved
    BY <1>1, <1>0 DEF Begin, StepInv, process, past, Saved
  <2>2. current' # "mlp"
    BY <1>1, <1>0 DEF Begin, StepInv, process
  <2> QED BY <1>1, <2>1, <2>2, BestElsewhere DEF Begin, past
<1>2. CASE RunStages
  BY <1>2, <1>a DEF RunStages, writing, past
<1>3. ASSUME NEW f \in AllFiles, OpenFile(f) PROVE BestInv'
  <2>1. \A g : g # f => content'[g] = content[g]
    BY <1>3 DEF OpenFile, TrainingTypeOK
  <2>2. content'[f].is = "cut"
    BY <1>3 DEF OpenFile, TrainingTypeOK, CutFile
  <2>3. f = BestPt => LatestPt \notin unwritten
    BY <1>3, TurnsOfCheckpoints DEF OpenFile
  <2>4. f \in unwritten /\ UNCHANGED <<tried, spoilt, unwritten, current, epoch, rmse, bestVal>>
    BY <1>3 DEF OpenFile, past, process
  <2>5. Saved' => Saved /\ f # BestPt
    BY <2>3, <2>4 DEF Saved
  <2>6. ASSUME NEW r, f # BestPt, BestUpTo(r) PROVE BestUpTo(r)'
    BY <2>1, <2>6 DEF BestUpTo
  <2>7. f = LatestPt => content'[LatestPt].is # "whole"
    BY <2>2
  <2>8. Saved' => \A r \in tried' : BestUpTo(r)'
    BY <2>4, <2>5, <2>1 DEF BestInv, BestUpTo
  <2>9. Saved' /\ content'[LatestPt].is = "whole" => BestUpTo(content[LatestPt].rmse)' /\ content'[LatestPt] = content[LatestPt]
    BY <2>1, <2>5, <2>7 DEF BestInv, BestUpTo
  <2>10. f # LatestPt => content'[LatestPt] = content[LatestPt]
    BY <2>1
  <2> QED BY <2>1, <2>3, <2>4, <2>8, <2>9, <2>10 DEF BestInv, BestUpTo
<1>4. ASSUME NEW f \in AllFiles, CloseFile(f) PROVE BestInv'
  <2>1. \A g : g # f => content'[g] = content[g]
    BY <1>4 DEF CloseFile, TrainingTypeOK
  <2>2. f \in {LatestPt, BestPt} => content'[f].is = "whole" /\ content'[f].rmse = rmse
    BY <1>4 DEF CloseFile, TrainingTypeOK, WrittenAs, LatestPt, BestPt
  <2>3. f \in unwritten
    BY <1>4 DEF CloseFile, TrainingTypeOK
  <2>4. unwritten' = unwritten \ {f} /\ UNCHANGED <<current, epoch, rmse, bestVal>>
        /\ spoilt' = (spoilt /\ f # BestPt)
        /\ tried' = IF f = LatestPt THEN tried \union {rmse} ELSE tried
    BY <1>4 DEF CloseFile, process
  <2>5. CASE f = LatestPt
    <3>1. current = "mlp" /\ bestVal <= rmse /\ content'[BestPt] = content[BestPt]
      BY <2>1, <2>3, <2>5, <1>m, <1>t DEF BestInv
    <3>2. Saved' => ~spoilt /\ BestPt \notin unwritten
      BY <2>4, <2>5, <1>t DEF Saved
    <3>3. Saved' => BestUpTo(bestVal)'
      BY <3>1, <3>2, <1>v, <2>4, <2>5, ValuesOfRmse DEF BestInv, BestUpTo
    <3>4. Saved' => \A r \in tried' : BestUpTo(r)'
      BY <3>1, <3>2, <3>3, <1>v, <2>4, <2>5 DEF BestInv, BestUpTo, Saved
    <3>5. Saved' /\ content'[LatestPt].is = "whole" => BestUpTo(content[LatestPt].rmse)'
      BY <3>1, <3>3, <2>2, <2>5, <1>v, <2>4 DEF BestUpTo
    <3>6. \A r \in tried' : bestVal' <= r
      BY <3>1, <2>4, <2>5 DEF BestInv
    <3>7. BestPt \in unwritten' => rmse' = bestVal'
      BY <3>1, <2>4 DEF BestInv
    <3>8. ~spoilt' /\ BestPt \notin unwritten' /\ bestVal' < Infinity => BestUpTo(bestVal)'
      BY <3>1, <2>4, <2>5, <1>t DEF BestInv, BestUpTo
    <3> QED BY <3>4, <3>5, <3>6, <3>7, <3>8, <2>2, <2>4, <2>5 DEF BestInv
  <2>6. CASE f = BestPt
    <3>1. current = "mlp" /\ rmse = bestVal /\ tried' = tried
      BY <2>3, <2>4, <2>6, <1>m, <1>t DEF BestInv
    <3>2. LatestPt \notin unwritten
      BY <1>4, <2>6, <1>t DEF CloseFile, StepInv, TrainingTypeOK
    <3>3. content[LatestPt].is = "whole" /\ content[LatestPt].rmse = rmse /\ content'[LatestPt] = content[LatestPt]
      BY <2>1, <2>3, <2>6, <3>1, <3>2, <1>t DEF BestInv
    <3>4. content'[BestPt].is = "whole" /\ content'[BestPt].rmse = rmse
      BY <2>2, <2>6
    <3>5. \A r \in tried : rmse <= r
      BY <3>1 DEF BestInv
    <3> QED BY <3>1, <3>2, <3>3, <3>4, <3>5, <2>4, <2>6, <1>v DEF BestInv, BestUpTo
  <2>7. CASE f \notin {LatestPt, BestPt}
    <3>0. spoilt \in BOOLEAN
      BY DEF TrainingTypeOK
    <3>1. content'[LatestPt] = content[LatestPt] /\ content'[BestPt] = content[BestPt]
          /\ tried' = tried /\ spoilt' = spoilt
      BY <2>1, <2>4, <2>7, <3>0
    <3>2. (LatestPt \in unwritten' <=> LatestPt \in unwritten) /\ (BestPt \in unwritten' <=> BestPt \in unwritten)
      BY <2>4, <2>7
    <3> QED BY <3>1, <3>2, <2>4 DEF BestInv, BestUpTo, Saved
  <2> QED BY <2>5, <2>6, <2>7
<1>5. ASSUME NEW s \in Stages, StartModel(s) PROVE BestInv'
  <2>1. s # "mlp" /\ current' = s /\ unwritten = {} /\ UNCHANGED <<content, tried, spoilt>>
    BY <1>5 DEF StartModel, Starts, Waiting, StepInv
  <2>2. Saved' => Saved
    BY <2>1 DEF Saved
  <2> QED BY <2>1, <2>2, BestElsewhere
<1>6. ASSUME Stops PROVE BestInv'
  <2>1. Saved' => Saved
    BY <1>6 DEF Stops, Saved
  <2> QED BY <1>6, <2>1, <1>0, BestElsewhere DEF Stops, NoProcess
<1>7. ASSUME NEW r \in 0 .. MaxRmse, RunEpoch(r) PROVE BestInv'
  <2>1. current = "mlp" /\ current' = "mlp" /\ unwritten = {} /\ rmse' = r /\ UNCHANGED <<content, tried, spoilt>>
        /\ LatestPt \in unwritten'
    BY <1>7 DEF RunEpoch, past
  <2>2. Saved' => Saved
    BY <2>1 DEF Saved
  <2>3. CASE r < bestVal
    <3>1. bestVal' = r /\ BestPt \in unwritten'
      BY <1>7, <2>3 DEF RunEpoch, IsBest
    <3> QED BY <2>1, <2>2, <2>3, <3>1, <1>v DEF BestInv, BestUpTo
  <2>4. CASE ~(r < bestVal)
    <3>1. bestVal' = bestVal /\ BestPt \notin unwritten' /\ bestVal <= r
      BY <1>7, <2>4, <1>v, <1>t DEF RunEpoch, IsBest
    <3> QED BY <2>1, <2>2, <3>1 DEF BestInv, BestUpTo
  <2> QED BY <2>3, <2>4
<1>8. CASE SkipStage
  BY <1>8, <1>a DEF SkipStage, writing, past
<1>9. CASE Fresh
  <2>1. current' = "mlp" /\ unwritten = {} /\ unwritten' = {} /\ bestVal' = Infinity /\ tried' = {}
        /\ UNCHANGED <<content, spoilt>>
    BY <1>9 DEF Fresh, Starts, Waiting, StepInv
  <2> QED BY <2>1, <1>v DEF BestInv, BestUpTo, Saved
<1>10. CASE Resume
  <2>1. current' = "mlp" /\ unwritten = {} /\ unwritten' = {} /\ bestVal' = content[LatestPt].rmse
        /\ tried' = {content[LatestPt].rmse} /\ content[LatestPt].is = "whole" /\ UNCHANGED <<content, spoilt>>
    BY <1>10 DEF Resume, Restores, Starts, Waiting, StepInv
  <2>2. ~spoilt => BestUpTo(content[LatestPt].rmse)
    BY <2>1 DEF BestInv, Saved
  <2> QED BY <2>1, <2>2, <1>v DEF BestInv, BestUpTo, Saved
<1>11. CASE EndStage
  <2>1. current' # "mlp" /\ UNCHANGED <<content, tried, spoilt, unwritten>>
    BY <1>11, <1>0 DEF EndStage, NoProcess, past, writing
  <2> QED BY <2>1, BestElsewhere DEF Saved
<1>12. CASE JobAnswers \/ ScriptEnds
  BY <1>12, <1>a DEF JobAnswers, ScriptEnds, writing, past
<1>15. CASE NewWorker
  <2>1. content'[LatestPt].is = "none" /\ tried' = {} /\ current' # "mlp"
    BY <1>15, <1>0, <1>t DEF NewWorker, NoFile, StepInv, process
  <2> QED BY <2>1 DEF BestInv
<1>16. CASE UNCHANGED jobVars
  BY <1>16, <1>a DEF jobVars, writing, past
<1> QED BY <1>1, <1>2, <1>3, <1>4, <1>5, <1>6, <1>7, <1>8, <1>9, <1>10, <1>11, <1>12, <1>15, <1>16
        DEF TrainingNext, Training, StageFails, TrainingDies

(* The invariant of the training jobs, for every set of orders, every      *)
(* number of epochs and trainings and every range of val_rmse.             *)
THEOREM JobsInvariant == TrainingSpec => []JobInv
<1>1. TrainingInit => JobInv
  BY TrainingTypeInit, StepInvInit, OwnInvInit, ResultInvInit, AnswerInit, BestInvInit DEF JobInv
<1>2. JobInv /\ [TrainingNext]_jobVars => JobInv'
  BY TrainingTypeNext, StepInvNext, OwnInvNext, ResultInvNext, AnswerNext, BestInvNext DEF JobInv
<1> QED BY <1>1, <1>2, PTL DEF TrainingSpec

(* What a job of a worker answers with as COMPLETED is its own work,       *)
(* whatever a warm worker has from jobs before it: _train() of handler.py. *)
THEOREM AnswersAreOfTheirJobs == TrainingSpec => []AnswerIsOfItsJob
<1>1. JobInv => AnswerIsOfItsJob
  BY DEF JobInv
<1> QED BY <1>1, JobsInvariant, PTL

(* best.pt is as good as every epoch saved since the last start, unless a  *)
(* kill between the files of an epoch spoilt it: train.py, checkpoint.py.  *)
THEOREM BestIsTheBest == TrainingSpec => []BestIsOfItsRun
<1>1. JobInv => BestIsOfItsRun
  BY DEF JobInv, BestInv, BestIsOfItsRun, Saved, BestUpTo
<1> QED BY <1>1, JobsInvariant, PTL
=============================================================================
