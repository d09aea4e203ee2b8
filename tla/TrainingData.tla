---------------------------- MODULE TrainingData ----------------------------
(***************************************************************************)
(* What becomes of the archive: the shards of image sequences, one per     *)
(* month, and the bundles the satellite models are trained on.  A shard is *)
(* three files - images, sequences, samples - that belong together by      *)
(* position only: the row of an image is counted from the sequences.  The  *)
(* builder passes over a month whose three files are there, unless it is   *)
(* told --force, while a bundle may be packaged at any time.               *)
(*                                                                         *)
(* The scripts work on the drive of module Collectors; a behaviour in      *)
(* which script = "shards" follows them.  Regions and horizons multiply    *)
(* the rows of an anchor and are left out, as is what the rows say.        *)
(***************************************************************************)
EXTENDS Collectors

CONSTANTS
    Hours,         \* hours of the year, as many for each month
    SequenceLength,\* frames of a sequence: the hour and those before it
    Gaps           \* bound: hours the archive lacks at first

ASSUME HoursAssumption == Hours \in Nat \ {0} /\ SequenceLength \in Nat \ {0} /\ Gaps \in Nat

VARIABLES
    have,     \* hours of which the archive has both products
    targeted, \* months with targets
    shard,    \* per month and part: what the file holds
    whole,    \* per part: the table of all months
    builder,  \* what the builder does
    month,    \* the month it is at
    force,    \* it was told --force
    seen,     \* the hours and months it found when it started
    manifest, \* a build has come to its end
    packer,   \* what the packaging script does
    copied,   \* per month, the rows of the images it has copied
    loose     \* a forced build has not come to its end

source   == <<have, targeted>>
build    == <<shard, whole, builder, month, force, seen, manifest>>
packing  == <<packer, copied>>
dataVars == <<source, build, packing, loose>>

Parts == {"images", "sequences", "samples"}
None == [is |-> "none", rows |-> {}]
Cut  == [is |-> "cut", rows |-> {}]
Table(rows) == [is |-> "whole", rows |-> rows]
Tables == {None, Cut} \union {Table(rows) : rows \in SUBSET (1..Hours)}

DataTypeOK ==
    /\ have \subseteq 1..Hours /\ targeted \in 1..Months
    /\ seen \in (SUBSET (1..Hours)) \X (1..Months)
    /\ shard \in [1..Months -> [Parts -> Tables]]
    /\ whole \in [{"sequences", "samples"} -> Tables]
    /\ builder \in {"off", "month", "sequences", "samples", "allSequences", "allSamples", "manifest"}
                   \X {"before", "open"}
    /\ month \in 1..Months + 1
    /\ {force, manifest, loose} \subseteq BOOLEAN
    /\ packer \in {"off", "read", "overtaken"}
    /\ copied \in [1..Months -> SUBSET (1..Hours)]

At(what) == builder = <<what, "before">>

DataInit ==
    /\ have \in SUBSET (1..Hours)
    /\ IF script = "shards" THEN Cardinality((1..Hours) \ have) <= Gaps ELSE have = {}
    /\ targeted = 1
    /\ shard = [m \in 1..Months |-> [p \in Parts |-> None]]
    /\ whole = [p \in {"sequences", "samples"} |-> None]
    /\ At("off") /\ month = 1 /\ force = FALSE /\ seen = <<{}, 1>> /\ manifest = FALSE
    /\ packer = "off" /\ copied = [m \in 1..Months |-> {}]
    /\ loose = FALSE

-----------------------------------------------------------------------------
(* The drive *)

MonthOfHour(h) == ((h - 1) * Months) \div Hours + 1
OfMonth(m) == {h \in 1..Hours : MonthOfHour(h) = m}

\* The archive's retries bring what was missing.
ArchiveFills ==
    /\ have # 1..Hours
    /\ have' = 1..Hours
    /\ UNCHANGED <<targeted, build, packing, loose, faults>>

TargetsArrive ==
    /\ targeted < Months
    /\ targeted' = targeted + 1
    /\ UNCHANGED <<have, build, packing, loose, faults>>

-----------------------------------------------------------------------------
(* The builder: preprocess_satellite_image_sequences.py *)

\* As if each file were made of what is there when it is written.
AvailableNow(h) == \A n \in 0..SequenceLength - 1 : h - n \in have

CompleteSequenceAvailable(h) == \A n \in 0..SequenceLength - 1 : h - n \in seen[1]

Sequences(m) == {h \in OfMonth(m) : CompleteSequenceAvailable(h)}

\* A sample needs a target for the hour after.
Samples(rows) == {h \in rows : h < Hours /\ MonthOfHour(h + 1) <= seen[2]}

\* What is there to build from is listed once.  An archive without a file raises.
StartBuild ==
    /\ At("off") /\ have # {}
    /\ builder' = <<"month", "before">>
    /\ month' = 1
    /\ force' \in BOOLEAN
    /\ seen' = <<have, targeted>>
    /\ loose' = (loose \/ force')
    /\ UNCHANGED <<source, shard, whole, manifest, packing, faults>>

ShardExists(m) == \A p \in {"images", "sequences", "samples"} : shard[m][p].is # "none"

\* The tables of a month found on the drive are read; one that is cut raises.
LoadShard ==
    /\ At("month") /\ month <= seen[2]
    /\ ShardExists(month) /\ ~force
    /\ IF \E p \in Parts : shard[month][p].is = "cut"
       THEN builder' = <<"off", "before">> /\ UNCHANGED month
       ELSE month' = month + 1 /\ UNCHANGED builder
    /\ UNCHANGED <<source, shard, whole, force, seen, manifest, packing, loose, faults>>

\* The images are written beside their path, then replace it.
BuildImages ==
    /\ At("month") /\ month <= seen[2]
    /\ ~ShardExists(month) \/ force
    /\ shard' = [shard EXCEPT ![month]["images"] = Table(Sequences(month))]
    /\ builder' = <<"sequences", "before">>
    /\ UNCHANGED <<source, whole, month, force, seen, manifest, packing, loose, faults>>

\* The tables are written in place.
Part == IF builder[1] \in {"sequences", "allSequences"} THEN "sequences" ELSE "samples"

OpenTable ==
    /\ builder[1] \notin {"off", "month", "manifest"} /\ builder[2] = "before"
    /\ builder' = <<builder[1], "open">>
    /\ IF builder[1] = Part
       THEN shard' = [shard EXCEPT ![month][Part] = Cut] /\ UNCHANGED whole
       ELSE whole' = [whole EXCEPT ![Part] = Cut] /\ UNCHANGED shard
    /\ UNCHANGED <<source, month, force, seen, manifest, packing, loose, faults>>

WriteTable ==
    /\ builder[2] = "open" /\ builder[1] = Part
    /\ LET rows == Sequences(month) IN
       shard' = [shard EXCEPT ![month][Part] = Table(IF Part = "sequences" THEN rows ELSE Samples(rows))]
    /\ IF Part = "sequences" THEN builder' = <<"samples", "before">> /\ UNCHANGED month
       ELSE builder' = <<"month", "before">> /\ month' = month + 1
    /\ UNCHANGED <<source, whole, force, seen, manifest, packing, loose, faults>>

\* All months are done: their tables become one.
AllMonths ==
    /\ At("month") /\ month > seen[2]
    /\ builder' = <<"allSequences", "before">>
    /\ UNCHANGED <<source, shard, whole, month, force, seen, manifest, packing, loose, faults>>

WriteAll ==
    /\ builder[2] = "open" /\ builder[1] # Part
    /\ whole' = [whole EXCEPT ![Part] = Table(UNION {shard[m][Part].rows : m \in 1..seen[2]})]
    /\ builder' = <<IF Part = "sequences" THEN "allSamples" ELSE "manifest", "before">>
    /\ packer' = IF packer = "read" THEN "overtaken" ELSE packer
    /\ UNCHANGED <<source, shard, month, force, seen, manifest, copied, loose, faults>>

EndBuild ==
    /\ At("manifest")
    /\ manifest' = TRUE
    /\ builder' = <<"off", "before">>
    /\ loose' = (loose /\ ~force)
    /\ UNCHANGED <<source, shard, whole, month, force, seen, packing, faults>>

BuildStopped ==
    /\ ~At("off") /\ Fault
    /\ builder' = <<"off", "before">>
    /\ UNCHANGED <<source, shard, whole, month, force, seen, manifest, packing, loose>>

-----------------------------------------------------------------------------
(* The bundles: package_satellite_*.py *)

\* The images are copied before the tables are read.
CopyImages ==
    /\ packer = "off"
    /\ manifest /\ \A p \in {"sequences", "samples"} : whole[p].is # "none"
    /\ packer' = "read"
    /\ copied' = [m \in 1..Months |-> shard[m]["images"].rows]
    /\ UNCHANGED <<source, build, loose, faults>>

EverySampleHasItsSequence == whole["samples"].rows \subseteq whole["sequences"].rows

\* A table that is cut raises, and so does a sample without its sequence.
Packs == /\ \A p \in {"sequences", "samples"} : whole[p].is = "whole"
         /\ EverySampleHasItsSequence

\* The tables are read, and the bundle - if Packs - is made of them.
MakeBundle ==
    /\ packer # "off"
    /\ packer' = "off"
    /\ copied' = [m \in 1..Months |-> {}]
    /\ UNCHANGED <<source, build, loose, faults>>

\* The row of an image is counted from the sequences of its month.
ImageRow(rows, h) == Cardinality({g \in rows : MonthOfHour(g) = MonthOfHour(h) /\ g <= h})

DataSteps == \/ StartBuild \/ LoadShard \/ BuildImages \/ OpenTable \/ WriteTable
             \/ AllMonths \/ WriteAll \/ EndBuild
             \/ CopyImages \/ MakeBundle
             \/ ArchiveFills \/ TargetsArrive \/ BuildStopped

OfShards(action) == script = "shards" /\ action /\ UNCHANGED <<script, drive, pc, item, memory, archive>>

DriveInit == CollectorsInit /\ DataInit
DriveNext == \/ CollectorsNext /\ UNCHANGED dataVars
             \/ OfShards(DataSteps)

driveVars == <<allVars, dataVars>>
DriveSpec == DriveInit /\ [][DriveNext]_driveVars

FairDrive ==
    /\ DriveSpec
    /\ WF_driveVars((Start \/ Steps) /\ UNCHANGED <<archive, dataVars>>)
    /\ WF_driveVars(OfArchive(Scripts) /\ UNCHANGED dataVars)
    /\ \A o \in Minutes : SF_driveVars(OfArchive(RunMonths(o)) /\ UNCHANGED dataVars)

-----------------------------------------------------------------------------
\* In every bundle the image a sample's row leads to is the one of its own
\* hour, whatever builds were stopped, resumed or under way as it was made, and
\* however the archive grew between them - unless a build told --force has not
\* come to its end, or a build wrote the tables of all months between the copy
\* of the images and the reading of the tables
\* (preprocess_satellite_image_sequences.py:389-433,
\* package_satellite_modeling_bundle.py:60-75).
RowsAreTheirImages ==
    packer = "read" /\ Packs /\ ~loose =>
        \A h \in whole["samples"].rows :
            LET images == copied[MonthOfHour(h)] IN
            /\ h \in images
            /\ ImageRow(whole["sequences"].rows, h) = ImageRow(images, h)

-----------------------------------------------------------------------------
(* The inductive invariant behind RowsAreTheirImages. *)

Working == ~At("off")

\* No forced build is left half-way: none but one whose tables are written.
Settled == ~loose \/ (force /\ At("manifest"))

\* The images and the sequences of a month are of one build.
OneBuild(m) == shard[m]["images"].is = "whole" /\ shard[m]["sequences"] = shard[m]["images"]

\* What the shards hold is of months the last build has found, and of these.
ShardsOK ==
    /\ targeted \in 1..Months /\ seen[2] \in 0..targeted
    /\ shard \in [1..Months -> [Parts -> Tables]]
    /\ \A m \in 1..Months : \A p \in Parts :
        shard[m][p].rows \subseteq OfMonth(m) /\ (shard[m][p].is # "none" => m <= seen[2])

\* A builder at a month has written what comes before; a forced one has made
\* all months before anew.
BuilderOK ==
    /\ builder[1] \in {"off", "month", "sequences", "samples", "allSequences", "allSamples", "manifest"}
    /\ builder[2] = "open" => builder[1] \notin {"off", "month", "manifest"}
    /\ month \in 1..Months + 1
    /\ force /\ Working => loose
    /\ builder[1] \in {"sequences", "samples"} =>
        /\ month \in 1..seen[2]
        /\ shard[month]["images"] = Table(Sequences(month))
        /\ Settled /\ (builder[1] = "samples" => builder[2] = "before") =>
               shard[month]["samples"].is = "none"
    /\ builder[1] = "samples" => shard[month]["sequences"] = shard[month]["images"]
    /\ builder[1] \in {"allSequences", "allSamples", "manifest"} => month > seen[2]
    /\ force /\ Working => \A m \in 1..seen[2] : m < month => OneBuild(m)
    /\ builder[1] \in {"allSamples", "manifest"} =>
           whole["sequences"] = Table(UNION {shard[m]["sequences"].rows : m \in 1..seen[2]})

\* A month with samples is of one build, and not built again.
MonthsOK == Settled => \A m \in 1..Months : shard[m]["samples"].is # "none" => OneBuild(m)

\* Where the table of samples has rows of a month, the table of sequences has
\* what the month's images are of.
SameImages(sequences, images, m) ==
    \A h \in 1..Hours : MonthOfHour(h) = m => (h \in sequences <=> h \in images)

Read == whole["sequences"].is = "whole" /\ whole["samples"].is = "whole" /\ Settled

TablesOK ==
    /\ whole \in [{"sequences", "samples"} -> Tables]
    /\ \A h \in whole["samples"].rows :
        MonthOfHour(h) \in 1..Months /\ shard[MonthOfHour(h)]["samples"].is # "none"
    /\ Read => \A h \in whole["samples"].rows : LET m == MonthOfHour(h) IN
           SameImages(whole["sequences"].rows, shard[m]["images"].rows, m)

CopiedOK ==
    /\ copied \in [1..Months -> SUBSET (1..Hours)]
    /\ packer = "read" /\ Read => \A h \in whole["samples"].rows : LET m == MonthOfHour(h) IN
           SameImages(whole["sequences"].rows, copied[m], m)

DataInv == ShardsOK /\ BuilderOK /\ MonthsOK /\ TablesOK /\ CopiedOK
=============================================================================
