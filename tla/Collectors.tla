----------------------------- MODULE Collectors -----------------------------
(***************************************************************************)
(* All scripts that collect, one item after the other and over many runs,  *)
(* what the models are trained on.  Beside the satellite archive, which is *)
(* module Archive: the days of the KPX solar statistics, the months of     *)
(* West Power and of the KMA stations, the years of the KASI calendar, the *)
(* values of one satellite time and of one forecast, and the sites of NASA *)
(* POWER, which are also loaded into the database.  A run may be stopped   *)
(* at any step; the next one of some scripts passes over what it finds on  *)
(* the drive, the others request all anew.  But for the archive's, no      *)
(* script writes beside the path and renames: what is stopped while it     *)
(* writes leaves a file that is cut.                                       *)
(*                                                                         *)
(* A behaviour follows one script; they share no files.  A request stands  *)
(* for all its retries.  The lines of the manifests are left out.          *)
(***************************************************************************)
EXTENDS Archive

CONSTANTS
    Sources,    \* the scripts under study
    Items,      \* days, months, months of stations, years, variables, or sites
    MonthsOf,   \* per day, the monthly files with hours of it: hour 24 is of the next day
    Pages,      \* pages the answer for a month of West Power has
    MaxRequests \* range.max_requests of KPX

ASSUME SourcesAssumption ==
    Sources \subseteq {"gk2a", "kpx", "west", "asos", "station", "kasi", "cloud", "village", "nasa", "shards"}
ASSUME ItemsAssumption ==
    /\ Items \in Nat \ {0}
    /\ MonthsOf \in [1..Items -> SUBSET (1..Months)]
ASSUME RequestsAssumption == Pages \in Nat \ {0} /\ MaxRequests \in Nat \ {0}

VARIABLES
    script,   \* the script
    file,     \* per item and kind: what the path holds
    held,     \* per product, the items whose rows are in it
    blank,    \* products without a byte
    db,       \* per site, whose rows the database has
    pc,       \* what the run does
    item,     \* the item it is at
    page,     \* pages collected of it
    got,      \* the answer in hand
    toWrite,  \* files still to be written
    frames,   \* items whose rows are in memory
    product,  \* the product it is at
    merged,   \* its rows
    requests  \* days requested in this run

drive  == <<file, held, blank, db>>
memory == <<page, got, toWrite, frames, product, merged, requests>>
archive == <<disk, part, stage, minute, agenda, collector, saved, index>>
allVars == <<script, drive, pc, item, memory, archive, faults>>

Kinds    == {"raw", "csv", "daily", "hourly", "parquet", "metadata"}
Answers  == {"rows", "noRows", "part", "s3", "api"}
Holdings == {"none", "cut"} \union Answers
Whole    == {"rows", "noRows", "s3", "api"}

CollectorsTypeOK ==
    /\ TypeOK
    /\ script \in Sources
    /\ file \in [1..Items -> [Kinds -> Holdings]]
    /\ held \in [1..Months -> SUBSET (1..Items)] /\ blank \subseteq 1..Months
    /\ db \in [1..Items -> {"none", "part", "s3", "api"}]
    /\ pc \in {"off", "item", "api", "write", "open", "load", "merge", "opened", "ended"}
    /\ item \in 1..Items + 1 /\ page \in 0..Pages
    /\ got \in {"none", "cached"} \union Answers
    /\ toWrite \in Seq(Kinds)
    /\ frames \subseteq 1..Items /\ merged \subseteq 1..Items
    /\ product \in 1..Months + 1
    /\ requests \in 0..MaxRequests

CollectorsInit ==
    /\ Init
    /\ script \in Sources
    /\ file = [i \in 1..Items |-> [k \in Kinds |-> "none"]]
    /\ held = [m \in 1..Months |-> {}] /\ blank = {}
    /\ db = [i \in 1..Items |-> "none"]
    /\ pc = "off" /\ item = 1
    /\ page = 0 /\ got = "none" /\ toWrite = <<>> /\ frames = {}
    /\ product = 1 /\ merged = {} /\ requests = 0

-----------------------------------------------------------------------------
(* Steps the scripts have in common *)

Runs(s) == pc = "item" /\ script = s /\ item <= Items

Goes(where)   == pc' = where /\ item' = item
GoesOn        == pc' = "item" /\ item' = item + 1
Remembers(fs) == frames' = frames \union fs /\ page' = 0 /\ got' = "none"
Receives(answer, kinds) == got' = answer /\ toWrite' = kinds

\* An exception nothing catches.
Dies == Goes("off")

Fault == faults < MaxFaults /\ faults' = faults + 1

Start ==
    /\ script \notin {"gk2a", "shards"}
    /\ pc \in {"off", "ended"}
    /\ pc' = "item" /\ item' = 1
    /\ page' = 0 /\ got' = "none" /\ toWrite' = <<>> /\ frames' = {}
    /\ product' = 1 /\ merged' = {} /\ requests' = 0
    /\ UNCHANGED <<script, drive, faults>>

\* A file is emptied when it is opened.
Opens ==
    /\ pc = "write" /\ toWrite # <<>>
    /\ file' = [file EXCEPT ![item][Head(toWrite)] = "cut"]
    /\ Goes("open")
    /\ UNCHANGED <<script, held, blank, db, memory, faults>>

Closes ==
    /\ pc = "open"
    /\ file' = [file EXCEPT ![item][Head(toWrite)] = got]
    /\ toWrite' = Tail(toWrite)
    /\ Goes("write")
    /\ UNCHANGED <<script, held, blank, db, page, got, frames, product, merged, requests, faults>>

Written(s) == pc = "write" /\ toWrite = <<>> /\ script = s

RequestFails(s) ==
    /\ Fault
    /\ Dies
    /\ UNCHANGED <<script, drive, memory>>

-----------------------------------------------------------------------------
(* KPX: collect_kpx_solar_api.py *)

KpxFiles == <<"raw", "csv">>

KpxCollected(i) == file[i]["raw"] # "none" /\ file[i]["csv"] # "none"

\* As a run that passes over a day without reading it.
KpxForgets(i) == {}

\* The rows of a day found on the drive; a file without any is caught.
KpxReads(i) == IF file[i]["csv"] = "rows" THEN {i} ELSE {}

KpxPass ==
    /\ Runs("kpx") /\ KpxCollected(item)
    /\ Remembers(KpxReads(item))
    /\ GoesOn
    /\ UNCHANGED <<script, drive, toWrite, product, merged, requests, faults>>

\* A day that is not published is answered with no rows.
KpxRequest ==
    /\ Runs("kpx") /\ ~KpxCollected(item) /\ requests < MaxRequests
    /\ \E answer \in {"rows", "noRows"} : Receives(answer, KpxFiles)
    /\ Goes("write")
    /\ UNCHANGED <<script, drive, page, frames, product, merged, requests, faults>>

KpxKeep ==
    /\ Written("kpx")
    /\ Remembers(IF got = "rows" THEN {item} ELSE {})
    /\ requests' = requests + 1
    /\ GoesOn
    /\ UNCHANGED <<script, drive, toWrite, product, merged, faults>>

\* The limit of the service, or of the run: what has come is merged.
KpxStop ==
    /\ Runs("kpx") /\ ~KpxCollected(item)
    /\ IF requests = MaxRequests THEN UNCHANGED faults ELSE Fault
    /\ Goes("merge")
    /\ UNCHANGED <<script, drive, memory>>

KpxFails == Runs("kpx") /\ ~KpxCollected(item) /\ requests < MaxRequests /\ RequestFails("kpx")

KpxRowsOf(m) == {d \in frames : m \in MonthsOf[d]}

\* A month is read and written again with what came; a file without a byte
\* raises, and nothing catches it.
KpxMerge ==
    /\ pc = "merge" /\ script = "kpx" /\ product <= Months
    /\ IF KpxRowsOf(product) = {}
       THEN product' = product + 1 /\ Goes("merge") /\ UNCHANGED <<held, blank, merged>>
       ELSE IF product \in blank
       THEN Dies /\ UNCHANGED <<held, blank, product, merged>>
       ELSE /\ merged' = held[product] \union KpxRowsOf(product)
            /\ held' = [held EXCEPT ![product] = {}]
            /\ blank' = blank \union {product}
            /\ Goes("opened") /\ UNCHANGED product
    /\ UNCHANGED <<script, file, db, page, got, toWrite, frames, requests, faults>>

\* The last time read from a file that is cut may be no time.
KpxMergeFails ==
    /\ pc = "merge" /\ script = "kpx" /\ product = 1
    /\ \E d \in 1..item - 1 : file[d]["csv"] = "cut"
    /\ Dies
    /\ UNCHANGED <<script, drive, memory, faults>>

-----------------------------------------------------------------------------
(* West Power: collect_west_power.py *)

WestFiles == <<"raw", "daily", "hourly">>

\* As if the parsed days were enough.
WestHasDays(i) == file[i]["raw"] # "none" /\ file[i]["daily"] # "none"

WestCollected(i) == \A k \in {"raw", "daily", "hourly"} : file[i][k] # "none"

WestPass ==
    /\ Runs("west") /\ WestCollected(item)
    /\ GoesOn
    /\ UNCHANGED <<script, drive, memory, faults>>

LastPage(p) == p >= Pages

\* The pages of a month, until they hold what the first one counts.
WestPage ==
    /\ Runs("west") /\ ~WestCollected(item)
    /\ page' = page + 1
    /\ IF LastPage(page + 1)
       THEN Receives(IF page + 1 = Pages THEN "rows" ELSE "part", WestFiles) /\ Goes("write")
       ELSE UNCHANGED <<got, toWrite, pc, item>>
    /\ UNCHANGED <<script, drive, frames, product, merged, requests, faults>>

\* A month not published has a count of 0.
WestNothing ==
    /\ Runs("west") /\ ~WestCollected(item) /\ page = 0
    /\ Receives("noRows", WestFiles)
    /\ Goes("write")
    /\ UNCHANGED <<script, drive, page, frames, product, merged, requests, faults>>

MonthKept ==
    /\ Written("west") \/ Written("station")
    /\ Remembers({})
    /\ GoesOn
    /\ UNCHANGED <<script, drive, toWrite, product, merged, requests, faults>>

WestFails == Runs("west") /\ ~WestCollected(item) /\ RequestFails("west")

-----------------------------------------------------------------------------
(* KMA stations: collect_kma_asos_hourly_regions.py *)

AsosFiles == <<"raw", "csv", "parquet">>

AsosCached(i) == file[i]["parquet"] # "none"

\* A parquet file that is cut cannot be read.
AsosPass ==
    /\ Runs("asos") /\ AsosCached(item)
    /\ IF file[item]["parquet"] = "cut"
       THEN Dies /\ UNCHANGED <<frames, page, got>>
       ELSE Remembers({item}) /\ GoesOn
    /\ UNCHANGED <<script, drive, toWrite, product, merged, requests, faults>>

\* The text is written before it is parsed, and one without data raises.
AsosRequest ==
    /\ Runs("asos") /\ ~AsosCached(item)
    /\ \/ Receives("rows", AsosFiles) /\ UNCHANGED faults
       \/ Receives("noRows", <<"raw">>) /\ Fault
    /\ Goes("write")
    /\ UNCHANGED <<script, drive, page, frames, product, merged, requests>>

AsosKeep ==
    /\ Written("asos")
    /\ IF got = "noRows" THEN Dies /\ UNCHANGED <<frames, page, got>>
       ELSE Remembers({item}) /\ GoesOn
    /\ UNCHANGED <<script, drive, toWrite, product, merged, requests, faults>>

AsosFails == Runs("asos") /\ ~AsosCached(item) /\ RequestFails("asos")

-----------------------------------------------------------------------------
(* One station: collect_kma_asos.py.  Every month is requested in every run. *)

StationFiles == <<"raw", "csv">>

StationRequest ==
    /\ Runs("station")
    /\ Receives("rows", StationFiles)
    /\ Goes("write")
    /\ UNCHANGED <<script, drive, page, frames, product, merged, requests, faults>>

StationFails == Runs("station") /\ RequestFails("station")

-----------------------------------------------------------------------------
(* Calendar, values of a satellite time, values of a forecast:             *)
(* collect_kasi_special_days.py, collect_gk2a_cloud.py,                    *)
(* collect_kma_vilage_forecast.py                                          *)

\* What is parsed before it is written.
KasiRequest ==
    /\ Runs("kasi")
    /\ Receives("rows", <<"raw">>)
    /\ Goes("write")
    /\ UNCHANGED <<script, drive, page, frames, product, merged, requests, faults>>

KasiFails == Runs("kasi") /\ RequestFails("kasi")

\* What is written first may be an error the service answers with.
ValueRequest ==
    /\ Runs("cloud") \/ Runs("village")
    /\ \/ Receives("rows", <<"raw">>) /\ UNCHANGED faults
       \/ Receives("noRows", <<"raw">>) /\ Fault
    /\ Goes("write")
    /\ UNCHANGED <<script, drive, page, frames, product, merged, requests>>

\* The exception is caught and the item recorded as failed.
ValueFails ==
    /\ Runs("cloud") \/ Runs("village")
    /\ Fault
    /\ GoesOn
    /\ UNCHANGED <<script, drive, memory>>

\* The grid points of the sites are requested before all else.
PointFails == Runs("village") /\ item = 1 /\ RequestFails("village")

\* For the forecast, any answer counts as completed.
ValueKept ==
    /\ \/ Written("kasi")
       \/ Written("cloud")
       \/ Written("village")
    /\ Remembers(IF script = "cloud" /\ got = "noRows" THEN {} ELSE {item})
    /\ GoesOn
    /\ UNCHANGED <<script, drive, toWrite, product, merged, requests, faults>>

\* The values of the sites are read from the files; one that is no grid raises.
VillageReadFails ==
    /\ pc = "merge" /\ script = "village" /\ product = 1
    /\ \E i \in frames : file[i]["raw"] # "rows"
    /\ Dies
    /\ UNCHANGED <<script, drive, memory, faults>>

\* Nothing was completed: the values of an earlier run stay.
VillageNothing ==
    /\ pc = "merge" /\ script = "village" /\ product = 1 /\ frames = {}
    /\ product' = 2
    /\ Goes("merge")
    /\ UNCHANGED <<script, drive, page, got, toWrite, frames, merged, requests, faults>>

\* All that came in this run in one file, written anew.
Combine ==
    /\ pc = "merge" /\ product = 1
    /\ \/ script \in {"asos", "kasi", "cloud"}
       \/ script = "village" /\ frames # {} /\ \A i \in frames : file[i]["raw"] = "rows"
    /\ merged' = frames
    /\ held' = [held EXCEPT ![1] = {}]
    /\ blank' = blank \union {1}
    /\ Goes("opened")
    /\ UNCHANGED <<script, file, db, page, got, toWrite, frames, product, requests, faults>>

-----------------------------------------------------------------------------
(* The products *)

\* Some of the rows have come to the drive.
ProductFills ==
    /\ pc = "opened"
    /\ \E some \in SUBSET merged : held' = [held EXCEPT ![product] = some]
    /\ blank' = blank \ {product}
    /\ UNCHANGED <<script, file, db, pc, item, memory, faults>>

ProductCloses ==
    /\ pc = "opened"
    /\ held' = [held EXCEPT ![product] = merged]
    /\ blank' = blank \ {product}
    /\ product' = product + 1
    /\ Goes("merge")
    /\ UNCHANGED <<script, file, db, page, got, toWrite, frames, merged, requests, faults>>

Products == IF script = "kpx" THEN Months ELSE 1

Ends ==
    /\ \/ pc = "item" /\ item > Items
       \/ pc = "merge" /\ product > Products
    /\ Goes(IF pc = "item" /\ script \notin {"west", "station", "nasa"} THEN "merge" ELSE "ended")
    /\ UNCHANGED <<script, drive, memory, faults>>

-----------------------------------------------------------------------------
(* NASA POWER: collect_nasa_power_global_sites.py *)

NasaCached(i) == file[i]["csv"] # "none"

\* What is in the cache is loaded too.
NasaReloads == Goes("load")

NasaPass ==
    /\ Runs("nasa") /\ NasaCached(item)
    /\ got' = "cached"
    /\ NasaReloads
    /\ UNCHANGED <<script, drive, page, toWrite, frames, product, merged, requests, faults>>

\* As the provider "s3", which raises.
S3Raises == Dies

\* The provider "auto" goes on to the API.
S3Unavailable == Goes("api")

NasaRequestS3 ==
    /\ Runs("nasa") /\ ~NasaCached(item)
    /\ \/ Receives("s3", <<"csv", "metadata">>) /\ Goes("write")
       \/ S3Unavailable /\ UNCHANGED <<got, toWrite>>
    /\ UNCHANGED <<script, drive, page, frames, product, merged, requests, faults>>

NasaRequestApi ==
    /\ pc = "api"
    /\ Receives("api", <<"raw", "csv", "metadata">>)
    /\ Goes("write")
    /\ UNCHANGED <<script, drive, page, frames, product, merged, requests, faults>>

NasaFails == pc = "api" /\ RequestFails("nasa")

NasaWritten ==
    /\ Written("nasa")
    /\ Goes("load")
    /\ UNCHANGED <<script, drive, memory, faults>>

\* The rows to be loaded; of a file that is cut, those that can be read.
NasaFrame == IF got # "cached" THEN got
             ELSE IF file[item]["csv"] = "cut" THEN "part" ELSE file[item]["csv"]

Load == db' = [db EXCEPT ![item] = NasaFrame]

NasaLoad ==
    /\ pc = "load"
    /\ Load
    /\ Remembers({}) /\ GoesOn
    /\ UNCHANGED <<script, file, held, blank, toWrite, product, merged, requests, faults>>

\* A file that is cut may be one that cannot be read.
NasaReadFails ==
    /\ pc = "load" /\ NasaFrame = "part"
    /\ Dies
    /\ UNCHANGED <<script, drive, memory, faults>>

\* Whatever fails after S3 has answered leads to the API; elsewhere it ends
\* the run.
LoadCaught == Goes(IF got = "s3" THEN "api" ELSE "off")

\* The statement fails, or its answer is lost.
NasaLoadFails ==
    /\ pc = "load" /\ Fault
    /\ Load \/ UNCHANGED db
    /\ LoadCaught
    /\ UNCHANGED <<script, file, held, blank, memory>>

NasaWriteFails ==
    /\ pc \in {"write", "open"} /\ got = "s3" /\ Fault
    /\ LoadCaught
    /\ UNCHANGED <<script, drive, memory>>

-----------------------------------------------------------------------------
\* The machine or the operator stops the run.
RunStopped ==
    /\ pc \notin {"off", "ended"} /\ Fault
    /\ Dies
    /\ UNCHANGED <<script, drive, memory>>

Steps == \/ Opens \/ Closes \/ Ends \/ ProductCloses \/ Combine
         \/ KpxPass \/ KpxRequest \/ KpxKeep \/ KpxStop \/ KpxMerge \/ KpxMergeFails
         \/ WestPass \/ WestPage \/ WestNothing \/ MonthKept
         \/ AsosPass \/ AsosRequest \/ AsosKeep
         \/ StationRequest \/ KasiRequest \/ ValueRequest \/ ValueKept
         \/ VillageReadFails \/ VillageNothing
         \/ NasaPass \/ NasaRequestS3 \/ NasaRequestApi \/ NasaWritten \/ NasaLoad \/ NasaReadFails

Failures == \/ KpxFails \/ WestFails \/ AsosFails \/ StationFails \/ KasiFails
            \/ ValueFails \/ PointFails
            \/ NasaFails \/ NasaLoadFails \/ NasaWriteFails
            \/ RunStopped

\* The archive's scripts do not touch what the others do.
OfArchive(action) == script = "gk2a" /\ action /\ UNCHANGED <<script, drive, pc, item, memory>>

CollectorsNext == \/ Start /\ UNCHANGED archive
                  \/ Steps /\ UNCHANGED archive
                  \/ ProductFills /\ UNCHANGED archive
                  \/ Failures /\ UNCHANGED archive
                  \/ OfArchive(Next)

CollectorsSpec == CollectorsInit /\ [][CollectorsNext]_allVars

\* A run comes to its end, and the operator starts it again.
FairCollectors ==
    /\ CollectorsSpec
    /\ WF_allVars((Start \/ Steps) /\ UNCHANGED archive)
    /\ WF_allVars(OfArchive(Scripts)) /\ \A o \in Minutes : SF_allVars(OfArchive(RunMonths(o)))

-----------------------------------------------------------------------------
\* The scripts that pass over what they find, and their files.
FilesOf(s) == CASE s = "kpx" -> KpxFiles [] s = "west" -> WestFiles [] s = "asos" -> AsosFiles
                [] OTHER -> <<"raw", "csv">>
Collected(i) == CASE script = "kpx" -> KpxCollected(i) [] script = "west" -> WestCollected(i)
                  [] script = "asos" -> AsosCached(i)  [] script = "nasa" -> NasaCached(i)
                  [] script \in {"gk2a", "shards"} -> FALSE
                  [] script \in {"station", "kasi"} -> file[i]["raw"] # "none"
                  [] OTHER -> i \in frames

\* What a later run passes over is one whole answer in all its files: of what
\* was stopped half-way nothing is kept but, at worst, the last file cut
\* (day_already_collected(), month_already_collected() and the order of the
\* writes).
KeptIsOneAnswer ==
    \A i \in 1..Items : Collected(i) /\ script \in {"kpx", "west", "asos", "nasa"} =>
        IF script = "nasa" THEN file[i]["csv"] = "api" => file[i]["raw"] = "api"
        ELSE LET kinds == FilesOf(script)
                 last  == file[i][kinds[Len(kinds)]]
             IN  \A n \in 1..Len(kinds) - 1 :
                     file[i][kinds[n]] \in (IF last = "cut" THEN Whole ELSE Whole \intersect {last})

\* The rows of an item have come to where they are used: the months of a day,
\* the file of all that was collected, the database.
Told(i) ==
    CASE script = "kpx"  -> file[i]["csv"] = "rows" => \A m \in MonthsOf[i] : i \in held[m]
      [] script = "nasa" -> file[i]["csv"] # "cut" => db[i] = file[i]["csv"]
      [] script = "station" -> file[i]["raw"] = "rows" /\ file[i]["csv"] = "rows"
      [] script = "kasi" -> file[i]["raw"] = "rows" /\ i \in held[1]
      [] script \in {"asos", "cloud", "village"} -> i \in held[1]
      [] OTHER -> TRUE

\* When a run has come to its end, also to one by a limit, the rows of each item
\* the drive has are told, but for files that are cut, whatever runs were
\* stopped before: what is passed over is read again (collect_kpx_solar_api.py:303-311, collect_nasa_power_global_sites.py:599-607),
\* what is not is written again.
EndedIsTold == pc = "ended" => \A i \in 1..Items : Collected(i) => Told(i)

\* A file that is cut may end every later run.
Stuck == \/ script = "kpx" /\ (blank # {} \/ \E i \in 1..Items : file[i]["csv"] = "cut")
         \/ script = "asos" /\ \E i \in 1..Items : file[i]["parquet"] = "cut"
         \/ script = "nasa" /\ \E i \in 1..Items : file[i]["csv"] = "cut"

\* Run after run, all items are collected and told, unless a file that is cut
\* stands in the way for ever.
RangeComesHome ==
    \/ script \in {"gk2a", "shards"}
    \/ <>[]Stuck
    \/ []<>(\A i \in 1..Items : Collected(i) /\ Told(i))

\* Of every file of the archive the service has something comes to the drive
\* (ServedComesHome, under the operator's return to each configuration).
ArchiveComesHome == script = "gk2a" => ServedComesHome
-----------------------------------------------------------------------------
(* The inductive invariant behind KeptIsOneAnswer and EndedIsTold. *)

Begun   == pc \in {"item", "write", "open", "api", "load", "merge", "opened"}
Writing == pc \in {"write", "open"}

StepsOK ==
    /\ script \in Sources
    /\ pc \in {"off", "item", "api", "write", "open", "load", "merge", "opened", "ended"}
    /\ item \in 1..Items + 1 /\ (Writing \/ pc \in {"api", "load"} => item <= Items)
    /\ pc \in {"api", "load"} => script = "nasa"
    /\ pc \in {"merge", "opened"} => script \in {"kpx", "asos", "kasi", "cloud", "village"}
    /\ script \in {"gk2a", "shards"} => pc = "off"
    /\ product \in 1..Months + 1 /\ (pc = "opened" => product <= Months)
    /\ pc \in {"item", "write", "open", "api", "load"} => product = 1
    /\ Writing => got \in Answers /\ (got \in {"s3", "api"} => script = "nasa")
    /\ pc = "load" => got \in Answers \union {"cached"}

RowsOK ==
    /\ file \in [1..Items -> [Kinds -> Holdings]]
    /\ held \in [1..Months -> SUBSET (1..Items)]
    /\ db \in [1..Items -> Holdings]
    /\ frames \subseteq 1..Items /\ merged \subseteq 1..Items

\* The last file of an answer is there only with those before it.
InOrder(i, first, last) ==
    file[i][last] # "none" => file[i][first] \in Whole /\ file[i][last] \in {"cut", file[i][first]}

\* The last file to be written is not there until it is opened.
Awaited(kind) == file[item][kind] = IF pc = "open" THEN "cut" ELSE "none"

Has(i, kinds, answer) == \A k \in kinds : file[i][k] = answer

KpxOK == script = "kpx" =>
    /\ \A i \in 1..Items : InOrder(i, "raw", "csv")
    /\ \A i \in 1..Items : \A j \in 1..i - 1 : file[i]["raw"] # "none" => KpxCollected(j)
    /\ Begun => \A j \in 1..item - 1 : KpxCollected(j) /\ (file[j]["csv"] = "rows" => j \in frames)
    /\ Writing => /\ got \in {"rows", "noRows"}
                  /\ \/ toWrite = <<"raw", "csv">> /\ file[item]["csv"] = "none"
                     \/ toWrite = <<"csv">> /\ Has(item, {"raw"}, got) /\ Awaited("csv")
                     \/ toWrite = <<>> /\ pc = "write" /\ Has(item, {"raw", "csv"}, got)
    /\ pc \in {"merge", "opened"} =>
           /\ \A i \in item..Items : ~KpxCollected(i)
           /\ \A m \in 1..product - 1 : KpxRowsOf(m) \subseteq held[m]
    /\ pc = "opened" => KpxRowsOf(product) \subseteq merged
    /\ pc = "ended" => \A i \in 1..Items : KpxCollected(i) => Told(i)

WestOK == script = "west" =>
    /\ \A i \in 1..Items : InOrder(i, "raw", "hourly") /\ InOrder(i, "daily", "hourly")
    /\ pc = "item" => page \in 0..Pages - 1
    /\ Writing => /\ got \in {"rows", "noRows"}
                  /\ \/ toWrite = <<"raw", "daily", "hourly">> /\ file[item]["hourly"] = "none"
                     \/ /\ toWrite = <<"daily", "hourly">>
                        /\ Has(item, {"raw"}, got) /\ file[item]["hourly"] = "none"
                     \/ toWrite = <<"hourly">> /\ Has(item, {"raw", "daily"}, got) /\ Awaited("hourly")
                     \/ toWrite = <<>> /\ pc = "write" /\ Has(item, {"raw", "daily", "hourly"}, got)

AsosOK == script = "asos" =>
    /\ \A i \in 1..Items : InOrder(i, "raw", "parquet") /\ InOrder(i, "csv", "parquet")
    /\ Writing => \/ /\ got = "noRows" /\ file[item]["parquet"] = "none"
                     /\ toWrite = <<"raw">> \/ (toWrite = <<>> /\ pc = "write")
                  \/ /\ got = "rows"
                     /\ \/ toWrite = <<"raw", "csv", "parquet">> /\ file[item]["parquet"] = "none"
                        \/ /\ toWrite = <<"csv", "parquet">>
                           /\ Has(item, {"raw"}, got) /\ file[item]["parquet"] = "none"
                        \/ toWrite = <<"parquet">> /\ Has(item, {"raw", "csv"}, got) /\ Awaited("parquet")
                        \/ toWrite = <<>> /\ pc = "write" /\ Has(item, {"raw", "csv", "parquet"}, got)

StationOK == script = "station" =>
    /\ Begun => \A j \in 1..item - 1 : Has(j, {"raw", "csv"}, "rows")
    /\ Writing => /\ got = "rows"
                  /\ \/ toWrite = <<"raw", "csv">>
                     \/ toWrite = <<"csv">> /\ Has(item, {"raw"}, "rows")
                     \/ toWrite = <<>> /\ pc = "write" /\ Has(item, {"raw", "csv"}, "rows")
    /\ pc = "ended" => \A i \in 1..Items : Told(i)

\* One file for each item.
ValuesOK == script \in {"kasi", "cloud", "village"} =>
    /\ Writing => /\ got \in {"rows", "noRows"}
                  /\ \/ toWrite = <<"raw">>
                     \/ toWrite = <<>> /\ pc = "write" /\ Has(item, {"raw"}, got)
    /\ script = "kasi" => /\ Writing => got = "rows"
                          /\ Begun \/ pc = "ended" => \A j \in 1..item - 1 : Has(j, {"raw"}, "rows")

\* One product for all items.
CombinedOK == script \in {"asos", "kasi", "cloud", "village"} =>
    /\ script \in {"asos", "kasi"} /\ (Begun \/ pc = "ended") =>
           /\ 1..item - 1 \subseteq frames
           /\ pc \in {"merge", "opened", "ended"} => item > Items
    /\ pc = "merge" /\ product > 1 => frames \subseteq held[1]
    /\ pc = "opened" => product = 1 /\ merged = frames
    /\ pc = "ended" => frames \subseteq held[1]

NasaOK == script = "nasa" =>
    /\ \A i \in 1..Items : file[i]["csv"] = "api" => file[i]["raw"] = "api"
    /\ Begun => \A j \in 1..item - 1 : Told(j)
    /\ pc = "api" => file[item]["csv"] # "api"
    /\ pc = "load" => got = "cached" \/ (got \in {"s3", "api"} /\ file[item]["csv"] = got)
    /\ Writing => /\ got \in {"s3", "api"}
                  /\ \/ got = "api" /\ toWrite = <<"raw", "csv", "metadata">> /\ file[item]["csv"] # "api"
                     \/ /\ toWrite = <<"csv", "metadata">> /\ file[item]["csv"] # "api"
                        /\ got = "api" => file[item]["raw"] = "api"
                     \/ toWrite = <<"metadata">> /\ file[item]["csv"] = got
                     \/ toWrite = <<>> /\ pc = "write" /\ file[item]["csv"] = got
    /\ pc = "ended" => \A i \in 1..Items : Told(i)

CollectorsInv == StepsOK /\ RowsOK /\ KpxOK /\ WestOK /\ AsosOK /\ StationOK /\ ValuesOK /\ CombinedOK /\ NasaOK
=============================================================================
